---------------------------- MODULE BridgeSystem ----------------------------
(***************************************************************************)
(* The whole of pv-matter between a broker and a controller: MqttFeed in     *)
(* front of SnapshotPipeline, the two sharing main's State and its inbox     *)
(* (src/main.rs), in a process that may die at any moment and be started     *)
(* again by its unit.                                                       *)
(*                                                                         *)
(* A step is a step of one of the two; where main takes a message, or starts *)
(* the Matter side, it is a step of both.                                   *)
(*                                                                         *)
(* Bounds: those of MqttFeed; MaxBreaks is shared by lost connections and    *)
(* dead processes, which lose theirs with the rest.                         *)
(***************************************************************************)
EXTENDS MatterAttributes

CONSTANTS
  Devices, Pinned, Bad, Payloads, InitRetained, MaxPublishes, MaxBreaks,
  INBOX_CAP, UPDATES_CAP, SPACING

VARIABLES
  retained, published, breaks, connected, toSubscribe, topics, wire,
  device_id, heard, held,                          \* of MqttFeed only
  inbox, st,                                       \* of both
  mpc, updates, bpc, next, prev, cell, elapsed, timer, event, quiet,
  dirty, subscribed, seen,                         \* of SnapshotPipeline only
  owed               \* observer: what this process has to tell a subscriber

feedVars == <<retained, published, breaks, connected, toSubscribe, topics, wire,
              device_id, heard, held>>
pipeVars == <<mpc, updates, bpc, next, prev, cell, elapsed, timer, event, quiet,
              dirty, subscribed, seen>>
vars == <<feedVars, inbox, st, pipeVars, owed>>

Feed == INSTANCE MqttFeed
          WITH subscribed <- topics,
               phase <- IF mpc = "bootstrap" THEN mpc ELSE "live"

(* Messages arrive from the feed, not by Arrive, which counts them.         *)
Pipe == INSTANCE SnapshotPipeline
          WITH Messages <- Payloads, MaxMsgs <- 0, arrived <- 0

ASSUME SystemAssumption ==
  Feed!FeedAssumption /\ Pipe!MessagesAssumption /\ Pipe!BoundsAssumption

Init == Pipe!Init /\ Feed!Init /\ owed = {}

-----------------------------------------------------------------------------
Upstream ==
  /\ UNCHANGED <<pipeVars, owed>>
  /\ \/ \E d \in Devices, p \in Payloads : Feed!Publish(d, Feed!Leaf(p), p)
     \/ \E d \in Devices, leaf \in Feed!Leaves : Feed!Publish(d, leaf, Bad) \/ Feed!Clear(d, leaf)
     \/ Feed!Connect \/ Feed!Subscribe \/ Feed!Break \/ Feed!Route \/ Feed!Forward

Take  == (Pipe!Bootstrap \/ Pipe!MainRecv) /\ Feed!Fold /\ UNCHANGED owed
Start == Pipe!Spawn /\ Feed!Start /\ UNCHANGED owed

(* Downstream, a subscriber is owed what priming it promises, which is       *)
(* everything...                                                            *)
Prime == Pipe!Subscribe /\ owed' = NotifiedAttrs /\ UNCHANGED feedVars

(* ...and whatever starts to answer something else.                         *)
Moved ==
  {a \in NotifiedAttrs : subscribed /\ ~ SameReport(a, Served(cell)[a], Served(cell')[a])}

Down(A) == A /\ owed' = owed \cup Moved /\ UNCHANGED feedVars

Downstream == Down(Pipe!MainSend \/ Pipe!Bridge \/ Pipe!Report \/ Pipe!Tick)

(* The process ends, in whatever way, and a new one starts with what the     *)
(* broker retains and load_persist brings back: a subscription, with the     *)
(* copy that its controller has, but no marks of changed attributes.         *)
(* The subscription may also have expired meanwhile.  Whether rs-matter      *)
(* primes a resumed one anew is its own affair: a Prime may follow, or not.  *)
Restart ==
  /\ breaks < MaxBreaks
  /\ breaks' = breaks + 1
  /\ inbox' = <<>> /\ st' = DefaultState
  /\ connected' = FALSE /\ toSubscribe' = <<>> /\ topics' = {} /\ wire' = <<>>
  /\ device_id' = Pinned /\ heard' = {} /\ held' = None
  /\ mpc' = "bootstrap" /\ updates' = <<>>
  /\ bpc' = "unborn"
  /\ next' = DefaultSnapshot /\ prev' = DefaultSnapshot /\ cell' = DefaultSnapshot
  /\ elapsed' = SPACING /\ timer' = 0 /\ event' = [result |-> "none"] /\ quiet' = SPACING
  /\ dirty' = {} /\ subscribed' \in {subscribed, FALSE} /\ owed' = {}
  /\ UNCHANGED <<retained, published, seen>>

Next == Upstream \/ Take \/ Start \/ Prime \/ Downstream \/ Restart

(* The fairness of the two parts; main takes messages and sends snapshots    *)
(* in turn.                                                                 *)
Fairness ==
  /\ WF_vars(UNCHANGED <<pipeVars, owed>> /\ Feed!Connect)
  /\ WF_vars(UNCHANGED <<pipeVars, owed>> /\ Feed!Subscribe)
  /\ WF_vars(UNCHANGED <<pipeVars, owed>> /\ Feed!Route)
  /\ WF_vars(UNCHANGED <<pipeVars, owed>> /\ Feed!Forward)
  /\ WF_vars(Take) /\ WF_vars(Start)
  /\ WF_vars(Down(Pipe!MainSend))
  /\ WF_vars(Down(Pipe!Bridge))
  /\ WF_vars(Down(Pipe!Tick))
  /\ WF_vars(Down(Pipe!Report))

LiveSpec == Init /\ [][Next]_vars /\ Fairness

-----------------------------------------------------------------------------
(* Properties *)

(* Type invariant: both parts keep theirs.                                  *)
TypeOK == Feed!TypeOK /\ Pipe!TypeOK /\ owed \subseteq NotifiedAttrs

(* What the retained messages of a device add up to: with its readings, or   *)
(* without any where only the replay has brought the pack.                  *)
Whole(r)    == ApplyPack(SetStatus(DefaultSnapshot, r["status"].status), r["instantaneous"].pack)
Unread(r)   == [Whole(r) EXCEPT !.readings = Blank, !.device_status = None, !.grid_relay = None]

Adds(r) == {Whole(r), Unread(r)}

(* There is our inverter's link and pack to be told of.                     *)
Tellable == device_id # None /\ Feed!Holds("status") /\ Feed!Holds("instantaneous")

(* Reads answer as one of them does, and a subscriber's copy of what it is    *)
(* owed is that; a retained pack without a total leaves the total an earlier *)
(* one brought.                                                             *)
Told ==
  \E s \in Adds(retained[device_id]) :
    \A a \in NotifiedAttrs :
      (a = "CumulativeEnergyExported" => s.energy_total_mwh # None)
        => /\ SameReport(a, Served(cell)[a], Served(s)[a])
           /\ subscribed /\ a \in owed => SameReport(a, seen[a], Served(s)[a])

(* Nothing is under way, from the broker to the last pending report.        *)
Quiescent ==
  /\ Feed!Settled /\ mpc = "select" /\ updates = <<>> /\ bpc = "recv"
  /\ subscribed => dirty = {}

(* Whatever was published, lost with a connection or with the process, and   *)
(* coalesced on the way: when nothing is under way a controller reads the    *)
(* link, the total and the readings - or none of them - that the broker      *)
(* retains, and a subscriber has been told of them: of all, if this process  *)
(* primed the subscription; of all that moved since, if it has survived from *)
(* an earlier process.                                                      *)
ControllerUpToDate == Quiescent /\ Tellable => Told

(* However often the connection breaks, the process dies and the channels    *)
(* fill up behind the one-second floor, the controller ends up with that.    *)
EndToEnd == <>[](Tellable => Told)
=============================================================================
