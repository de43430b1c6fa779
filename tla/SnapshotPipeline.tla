-------------------------- MODULE SnapshotPipeline --------------------------
(***************************************************************************)
(* From contract messages to Matter reports: the two threads of pv-matter   *)
(* and the channels between them.                                           *)
(*                                                                         *)
(*   ingest --inbox--> main (folds into st) --updates--> run_bridge --cell--> *)
(*   cluster handlers --report--> subscriber                                *)
(*                                                                         *)
(* main runs on tokio (src/main.rs); run_bridge and the handlers share one   *)
(* OS thread and yield to each other only at an await (src/matter/), so a    *)
(* step of the bridge extends from one await to the next, except that main   *)
(* can send between two of the bridge's try_recv calls.                      *)
(*                                                                         *)
(* Bounds: MaxMsgs messages arrive; a second is SPACING ticks; clocks        *)
(* saturate at SPACING, beyond which the code tells no times apart.          *)
(***************************************************************************)
EXTENDS MatterAttributes, SequencesExt

CONSTANTS
  Messages,      \* the contract messages that may arrive
  MaxMsgs,       \* how many of them do
  INBOX_CAP,     \* MSG_CHANNEL_CAPACITY of the mpsc channel (64)
  UPDATES_CAP,   \* capacity of the updates channel (16)
  SPACING        \* MIN_REPORT_SPACING in ticks

ASSUME MessagesAssumption == Messages \subseteq DomainMsg
ASSUME BoundsAssumption ==
  /\ MaxMsgs \in Nat
  /\ INBOX_CAP \in Nat \ {0}
  /\ UPDATES_CAP \in Nat \ {0}
  /\ SPACING \in Nat \ {0}

VARIABLES
  arrived,       \* messages handed over so far
  inbox,         \* msg_tx / msg_rx
  mpc,           \* where main is: bootstrap, select, send or stopped
  st,            \* main's State
  updates,       \* updates_tx / updates_rx
  bpc,           \* where the bridge is: unborn, starting, recv, floor, drain, gone
  next, prev,    \* run_bridge's locals
  cell,          \* the RefCell<PvSnapshot> that the handlers read
  elapsed,       \* ticks since last_report; SPACING when there is none
  timer,         \* ticks left of the floor's Timer
  event,         \* the last CumulativeEnergyMeasured and how emitting it went
  quiet,         \* observer: ticks since a Q-quality attribute was notified
  dirty,         \* rs-matter: attributes marked changed and not yet reported
  subscribed,    \* a controller's subscription has been primed
  seen           \* the controller's copy of the attributes

mainVars   == <<arrived, inbox, mpc, st>>
bridgeVars == <<bpc, next, prev, cell, elapsed, timer, event, quiet>>
matterVars == <<dirty, subscribed, seen>>
vars == <<mainVars, updates, bridgeVars, matterVars>>

NoEvent == [result |-> "none"]

-----------------------------------------------------------------------------
Init ==
  /\ arrived = 0 /\ inbox = <<>>
  /\ mpc = "bootstrap" /\ st = DefaultState
  /\ updates = <<>>
  /\ bpc = "unborn"
  /\ next = DefaultSnapshot /\ prev = DefaultSnapshot /\ cell = DefaultSnapshot
  /\ elapsed = SPACING /\ timer = 0
  /\ event = NoEvent
  /\ quiet = SPACING
  /\ dirty = {} /\ subscribed = FALSE /\ seen = [a \in Attrs |-> None]

-----------------------------------------------------------------------------
(* Ingest: a routed message is sent into the mpsc channel, or waits.        *)
Arrive(m) ==
  /\ arrived < MaxMsgs
  /\ Len(inbox) < INBOX_CAP
  /\ arrived' = arrived + 1
  /\ inbox' = Append(inbox, m)
  /\ UNCHANGED <<mpc, st, updates, bridgeVars, matterVars>>

(* Bootstrap: fold messages until the identity is known...                  *)
Bootstrap ==
  /\ mpc = "bootstrap"
  /\ st.info = None
  /\ inbox # <<>>
  /\ st' = Apply(st, Head(inbox))
  /\ inbox' = Tail(inbox)
  /\ UNCHANGED <<arrived, mpc, updates, bridgeVars, matterVars>>

(* ...or the deadline passes; then start the Matter thread, which owns a     *)
(* copy of the snapshot as it is at this moment.                            *)
Spawn ==
  /\ mpc = "bootstrap"
  /\ mpc' = "select"
  /\ bpc' = "starting"
  /\ cell' = st.snapshot
  /\ UNCHANGED <<arrived, inbox, st, updates, next, prev, elapsed, timer, event,
                 quiet, matterVars>>

(* Steady state, the msg arm: fold a message and set out to forward.        *)
MainRecv ==
  /\ mpc = "select"
  /\ inbox # <<>>
  /\ st' = Apply(st, Head(inbox))
  /\ inbox' = Tail(inbox)
  /\ mpc' = "send"
  /\ UNCHANGED <<arrived, updates, bridgeVars, matterVars>>

(* Mutant: the channel is unbounded.                                        *)
MainSendUnbounded ==
  /\ mpc = "send"
  /\ bpc # "gone"
  /\ updates' = Append(updates, st.snapshot)
  /\ mpc' = "select"
  /\ UNCHANGED <<arrived, inbox, st, bridgeVars, matterVars>>

(* Mutant: try_send, which drops the snapshot when the channel is full.      *)
MainTrySend ==
  /\ mpc = "send"
  /\ bpc # "gone"
  /\ updates' = IF Len(updates) < UPDATES_CAP THEN Append(updates, st.snapshot)
                ELSE updates
  /\ mpc' = "select"
  /\ UNCHANGED <<arrived, inbox, st, bridgeVars, matterVars>>

(* updates_tx.send: waits for room; fails once the receiver is gone.        *)
MainSend ==
  /\ mpc = "send"
  /\ bpc # "gone"
  /\ Len(updates) < UPDATES_CAP
  /\ updates' = Append(updates, st.snapshot)
  /\ mpc' = "select"
  /\ UNCHANGED <<arrived, inbox, st, bridgeVars, matterVars>>

MainSendFails ==
  /\ mpc = "send"
  /\ bpc = "gone"
  /\ mpc' = "stopped"
  /\ UNCHANGED <<arrived, inbox, st, updates, bridgeVars, matterVars>>

(* The other arms of the select: a signal, a dead Matter thread, a dead      *)
(* ingest task.                                                             *)
MainStop ==
  /\ mpc = "select"
  /\ mpc' = "stopped"
  /\ UNCHANGED <<arrived, inbox, st, updates, bridgeVars, matterVars>>

-----------------------------------------------------------------------------
(* Mutant: prev starts as the default snapshot, not as what is served.      *)
BridgeStartBlank ==
  /\ bpc = "starting"
  /\ bpc' = "recv"
  /\ prev' = DefaultSnapshot
  /\ UNCHANGED <<next, cell, elapsed, timer, event, quiet, mainVars, updates, matterVars>>

(* run_bridge: prev starts as the seeded snapshot.                          *)
BridgeStart ==
  /\ bpc = "starting"
  /\ bpc' = "recv"
  /\ prev' = cell
  /\ UNCHANGED <<next, cell, elapsed, timer, event, quiet, mainVars, updates, matterVars>>

(* Mutant: no quiet-reporting floor.                                        *)
BridgeRecvNoFloor ==
  /\ bpc = "recv"
  /\ updates # <<>>
  /\ next' = Head(updates)
  /\ updates' = Tail(updates)
  /\ bpc' = "drain"
  /\ UNCHANGED <<prev, cell, elapsed, timer, event, quiet, mainVars, matterVars>>

(* updates.recv().await, then the floor's timer when the last report is     *)
(* less than MIN_REPORT_SPACING old.                                        *)
BridgeRecv ==
  /\ bpc = "recv"
  /\ updates # <<>>
  /\ next' = Head(updates)
  /\ updates' = Tail(updates)
  /\ timer' = SPACING - elapsed
  /\ bpc' = IF elapsed < SPACING THEN "floor" ELSE "drain"
  /\ UNCHANGED <<prev, cell, elapsed, event, quiet, mainVars, matterVars>>

(* Mutant: after the floor, wait for a newer update to coalesce with.       *)
FloorOverOnNext ==
  /\ bpc = "floor"
  /\ timer = 0
  /\ updates # <<>>
  /\ bpc' = "drain"
  /\ UNCHANGED <<next, prev, cell, elapsed, timer, event, quiet, mainVars, updates, matterVars>>

FloorOver ==
  /\ bpc = "floor"
  /\ timer = 0
  /\ bpc' = "drain"
  /\ UNCHANGED <<next, prev, cell, elapsed, timer, event, quiet, mainVars, updates, matterVars>>

(* Mutant: the queue is drained but the first update kept.                  *)
CoalesceToOldest ==
  /\ bpc = "drain"
  /\ updates # <<>>
  /\ updates' = Tail(updates)
  /\ UNCHANGED <<bpc, next, prev, cell, elapsed, timer, event, quiet, mainVars, matterVars>>

(* Mutant: an update that is passed over still becomes prev.                *)
CoalesceIntoPrev ==
  /\ bpc = "drain"
  /\ updates # <<>>
  /\ prev' = next
  /\ next' = Head(updates)
  /\ updates' = Tail(updates)
  /\ UNCHANGED <<bpc, cell, elapsed, timer, event, quiet, mainVars, matterVars>>

(* while let Ok(newer) = updates.try_recv()                                 *)
Coalesce ==
  /\ bpc = "drain"
  /\ updates # <<>>
  /\ next' = Head(updates)
  /\ updates' = Tail(updates)
  /\ UNCHANGED <<bpc, prev, cell, elapsed, timer, event, quiet, mainVars, matterVars>>

Skip ==
  /\ bpc = "drain"
  /\ updates = <<>>
  /\ next = prev
  /\ bpc' = "recv"
  /\ UNCHANGED <<next, prev, cell, elapsed, timer, event, quiet, mainVars, updates, matterVars>>

(* Mutant: the event is emitted only when the counter grows.                *)
EmitOnGrowth(result) ==
  IF /\ next.energy_total_mwh # None
     /\ prev.energy_total_mwh = None \/ next.energy_total_mwh > prev.energy_total_mwh
  THEN event' = [result |-> result,
                 data |-> EnergyMeasurement(next.energy_total_mwh, next.energy_end_ts)]
  ELSE event' = event

(* emit_cumulative_energy: a failure is logged and otherwise ignored.       *)
Emit(result) ==
  IF next.energy_total_mwh # prev.energy_total_mwh /\ next.energy_total_mwh # None
  THEN event' = [result |-> result,
                 data |-> EnergyMeasurement(next.energy_total_mwh, next.energy_end_ts)]
  ELSE event' = event

(* The rest of the loop body: no await, hence one step.                     *)
Publish(result) ==
  /\ bpc = "drain"
  /\ updates = <<>>
  /\ next # prev
  /\ cell' = next
  /\ dirty' = dirty \cup Changed(prev, next)
  /\ Emit(result)
  /\ prev' = next
  /\ elapsed' = 0
  /\ quiet' = IF Changed(prev, next) \cap QuietAttrs = {} THEN quiet ELSE 0
  /\ bpc' = "recv"
  /\ UNCHANGED <<next, timer, mainVars, updates, subscribed, seen>>

(* The Matter thread returns, fails or is told to shut down; the handlers   *)
(* go with it.                                                              *)
MatterExit ==
  /\ bpc \notin {"unborn", "gone"}
  /\ bpc' = "gone"
  /\ UNCHANGED <<next, prev, cell, elapsed, timer, event, quiet, mainVars, updates, matterVars>>

-----------------------------------------------------------------------------
(* rs-matter, as the bridge relies on it.  A subscription is primed with     *)
(* every attribute; a report then carries the marked ones, read now.        *)
Subscribe ==
  /\ bpc \notin {"unborn", "gone"}
  /\ subscribed' = TRUE
  /\ seen' = Served(cell)
  /\ dirty' = {}
  /\ UNCHANGED <<mainVars, updates, bridgeVars>>

Report ==
  /\ bpc \notin {"unborn", "gone"}
  /\ subscribed
  /\ dirty # {}
  /\ seen' = [a \in Attrs |-> IF a \in dirty THEN Served(cell)[a] ELSE seen[a]]
  /\ dirty' = {}
  /\ UNCHANGED <<subscribed, mainVars, updates, bridgeVars>>

Later(t) == IF t < SPACING THEN t + 1 ELSE t

Tick ==
  /\ elapsed < SPACING \/ quiet < SPACING \/ timer > 0
  /\ elapsed' = Later(elapsed)
  /\ quiet' = Later(quiet)
  /\ timer' = IF timer > 0 THEN timer - 1 ELSE 0
  /\ UNCHANGED <<bpc, next, prev, cell, event, mainVars, updates, matterVars>>

-----------------------------------------------------------------------------
Main   == Bootstrap \/ Spawn \/ MainRecv \/ MainSend \/ MainSendFails \/ MainStop
Bridge == \/ BridgeStart \/ BridgeRecv \/ FloorOver \/ Coalesce \/ Skip
          \/ \E result \in {"emitted", "failed"} : Publish(result)

Next == \/ \E m \in Messages : Arrive(m)
        \/ Main
        \/ Bridge
        \/ MatterExit
        \/ Subscribe \/ Report
        \/ Tick

Spec == Init /\ [][Next]_vars

(* Every thread that can run does, timers fire, and a pending report is      *)
(* sent; nobody need send messages, signals or errors.                      *)
Fairness == /\ WF_vars(Bootstrap \/ Spawn \/ MainRecv \/ MainSend)
            /\ WF_vars(Bridge)
            /\ WF_vars(Tick)
            /\ WF_vars(Report)

LiveSpec == Spec /\ Fairness

-----------------------------------------------------------------------------
(* Properties *)

(* Type invariant: every snapshot on its way is a PvSnapshot, the channels   *)
(* keep their capacity and the clocks their range.                          *)
TypeOK ==
  /\ arrived \in 0 .. MaxMsgs
  /\ inbox \in Seq(Messages) /\ Len(inbox) <= INBOX_CAP
  /\ mpc \in {"bootstrap", "select", "send", "stopped"}
  /\ st \in State
  /\ updates \in Seq(PvSnapshot) /\ Len(updates) <= UPDATES_CAP
  /\ bpc \in {"unborn", "starting", "recv", "floor", "drain", "gone"}
  /\ next \in PvSnapshot /\ prev \in PvSnapshot /\ cell \in PvSnapshot
  /\ elapsed \in 0 .. SPACING /\ timer \in 0 .. SPACING /\ quiet \in 0 .. SPACING
  /\ event.result \in {"none", "emitted", "failed"}
  /\ dirty \subseteq NotifiedAttrs
  /\ subscribed \in BOOLEAN
  /\ DOMAIN seen = Attrs

Live == bpc \notin {"unborn", "gone"}

(* The snapshot that the bridge will serve once it has drained the channel.  *)
Newest == IF updates # <<>> THEN Last(updates)
          ELSE IF bpc \in {"floor", "drain"} THEN next
          ELSE cell

(* Whenever main is back in its select, what it has accumulated is what the  *)
(* bridge will serve or serves: neither the full channel nor coalescing      *)
(* loses the newest state (the reason main blocks in updates_tx.send).       *)
NewestNeverLost == mpc = "select" /\ Live => Newest = st.snapshot

(* A controller's copy of an attribute differs from what a read would answer *)
(* only while a report of it is pending: run_bridge notifies every moved     *)
(* attribute, whatever it skipped and coalesced before.                     *)
Coherent(attrs) ==
  Live /\ subscribed =>
    \A a \in attrs \ dirty : SameReport(a, seen[a], Served(cell)[a])

ReportsCoherent == Coherent(NotifiedAttrs)

(* bridge.rs:2-4 says it of the attributes whose backing values moved; the   *)
(* accuracy envelope is backed by max_power_w.                              *)
AccuracyCoherent == Coherent({"Accuracy"})

(* No report without a change: an attribute is marked only in a step that    *)
(* moves what a read of it answers.                                         *)
OnlyRealChanges ==
  [][\A a \in dirty' \ dirty : Served(cell')[a] # Served(cell)[a]]_vars

(* The quiet-reporting guard: EPM and EEM attributes are marked at most once *)
(* in SPACING ticks, however bursts, skips and the timer interleave.         *)
QuietFloor ==
  [][Live /\ Changed(cell, cell') \cap QuietAttrs # {} => quiet = SPACING]_vars

(* Unless the link is online the handlers serve no instantaneous reading,    *)
(* whatever order packs and status transitions were folded in.              *)
MaskedServed == Masked(cell)

(* Once a lifetime total is served, one always is: neither sleep, a sparse   *)
(* pack nor a coalesced update takes it back.                               *)
EnergyRetained ==
  [][Live /\ cell.energy_total_mwh # None => cell'.energy_total_mwh # None]_vars

(* The last CumulativeEnergyMeasured mirrors the CumulativeEnergyExported    *)
(* attribute: no total is served that was not announced (or tried to be).    *)
EventMirrorsAttribute ==
  Live /\ event.result # "none" => event.data.energy = cell.energy_total_mwh

(* The pipeline implements the mirror: what the bridge holds, what waits in  *)
(* the channel and what main is about to send are the mirror's backlog.      *)
Backlog ==
  IF bpc = "gone" THEN <<>>
  ELSE (IF bpc \in {"floor", "drain"} THEN <<next>> ELSE <<>>)
       \o updates
       \o (IF mpc = "send" THEN <<st.snapshot>> ELSE <<>>)

Phase == CASE bpc = "unborn" -> "seeding"
           [] bpc = "gone"   -> "stopped"
           [] OTHER          -> "live"

Mirror == INSTANCE SnapshotMirror
            WITH Snapshots <- PvSnapshot, FirstSnapshot <- DefaultSnapshot,
                 BACKLOG <- UPDATES_CAP + 2,
                 phase <- Phase, pending <- Backlog, served <- cell

MirrorSpec == Mirror!Spec

(* The same without the mirror's fairness.                                  *)
MirrorSafety == Mirror!Init /\ [][Mirror!Next]_(Mirror!vars)

Running == mpc # "stopped" /\ bpc # "gone"

(* While both threads live, a controller's copy ends up equal to what the    *)
(* messages add up to.                                                      *)
ControllerConverges ==
  <>[]Running =>
    <>[](subscribed =>
           \A a \in NotifiedAttrs : SameReport(a, seen[a], Served(st.snapshot)[a]))
=============================================================================
