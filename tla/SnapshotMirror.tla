--------------------------- MODULE SnapshotMirror ---------------------------
(***************************************************************************)
(* What the path from MQTT to Matter promises, without its threads and      *)
(* channels: the Matter side mirrors the accumulated snapshot.              *)
(*                                                                         *)
(* Snapshots are accepted one at a time and served in that order; one may   *)
(* be passed over only for a newer one; at most BACKLOG of them wait; and   *)
(* while the mirror is live, none waits for ever.                           *)
(***************************************************************************)
EXTENDS Naturals, Sequences

CONSTANTS Snapshots, FirstSnapshot, BACKLOG

VARIABLES phase, pending, served

vars == <<phase, pending, served>>

Init == /\ phase = "seeding"
        /\ pending = <<>>
        /\ served = FirstSnapshot

(* The snapshot accumulated so far is served from the start.                *)
Seed == /\ phase = "seeding"
        /\ phase' = "live"
        /\ served' \in Snapshots
        /\ UNCHANGED pending

Accept == /\ phase = "live"
          /\ Len(pending) < BACKLOG
          /\ pending' # <<>>
          /\ pending' = Append(pending, pending'[Len(pending')])
          /\ UNCHANGED <<phase, served>>

Supersede == /\ phase = "live"
             /\ Len(pending) > 1
             /\ pending' = Tail(pending)
             /\ UNCHANGED <<phase, served>>

Publish == /\ phase = "live"
           /\ pending # <<>>
           /\ served' = Head(pending)
           /\ pending' = Tail(pending)
           /\ UNCHANGED phase

Stop == /\ phase' = "stopped"
        /\ pending' = <<>>
        /\ UNCHANGED served

Drain == Supersede \/ Publish

Next == Seed \/ Accept \/ Drain \/ Stop

Spec == Init /\ [][Next]_vars /\ WF_vars(Drain)
=============================================================================
