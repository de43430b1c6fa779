------------------------- MODULE BridgeSystemProofs -------------------------
(* Theorems on the whole of pv-matter.  The two components' step lemmas are  *)
(* instantiated as the components are: a step of the system is one of        *)
(* theirs, a stutter for them, or the death of the process.                 *)
EXTENDS BridgeSystem, PvDomainProofs

F == INSTANCE MqttFeedProofs
       WITH subscribed <- topics,
            phase <- IF mpc = "bootstrap" THEN mpc ELSE "live"

P == INSTANCE SnapshotPipelineProofs
       WITH Messages <- Payloads, MaxMsgs <- 0, arrived <- 0

-----------------------------------------------------------------------------
(* The instances define everything anew: what is used of both names is the   *)
(* same.                                                                    *)
LEMMA FeedAssumed == F!FeedAssumption /\ F!NoneAssumption
  BY SystemAssumption, NoneAssumption
     DEF Feed!FeedAssumption, F!FeedAssumption, F!NoneAssumption,
         Feed!DomainMsg, F!DomainMsg, Feed!InverterInfo, F!InverterInfo,
         Feed!Pack, F!Pack, Feed!Record, F!Record, Feed!Numeric, F!Numeric,
         Feed!OptInt, F!OptInt, Feed!DeviceStatus, F!DeviceStatus,
         Feed!GridRelay, F!GridRelay, Feed!LinkStatus, F!LinkStatus,
         Feed!Retained, F!Retained, Feed!Leaves, F!Leaves, Feed!Leaf, F!Leaf,
         Feed!IsFiniteSet, F!IsFiniteSet

(* The same for what SnapshotPipeline assumes of its constants.             *)
LEMMA PipeAssumed ==
  P!MessagesAssumption /\ P!BoundsAssumption /\ P!NoneAssumption /\ P!EpochAssumption
  BY SystemAssumption, NoneAssumption, EpochAssumption
     DEF P!NoneAssumption, P!EpochAssumption,
         Pipe!MessagesAssumption, P!MessagesAssumption,
         Pipe!BoundsAssumption, P!BoundsAssumption,
         Pipe!DomainMsg, P!DomainMsg, Pipe!InverterInfo, P!InverterInfo,
         Pipe!Pack, P!Pack, Pipe!Record, P!Record, Pipe!Numeric, P!Numeric,
         Pipe!OptInt, P!OptInt, Pipe!DeviceStatus, P!DeviceStatus,
         Pipe!GridRelay, P!GridRelay, Pipe!LinkStatus, P!LinkStatus

(* The actions of SnapshotPipeline, under both names.                       *)
LEMMA PipeActions ==
  /\ Pipe!Bootstrap = P!Bootstrap /\ Pipe!Spawn = P!Spawn
  /\ Pipe!MainRecv = P!MainRecv /\ Pipe!MainSend = P!MainSend
  /\ Pipe!Bridge = P!Bridge
  /\ Pipe!Subscribe = P!Subscribe /\ Pipe!Report = P!Report /\ Pipe!Tick = P!Tick
  BY DEF Pipe!Bootstrap, P!Bootstrap, Pipe!Spawn, P!Spawn, Pipe!MainRecv,
         P!MainRecv, Pipe!MainSend, P!MainSend, Pipe!Bridge, P!Bridge,
         Pipe!BridgeStart, P!BridgeStart, Pipe!BridgeRecv, P!BridgeRecv,
         Pipe!FloorOver, P!FloorOver, Pipe!Coalesce, P!Coalesce, Pipe!Skip,
         P!Skip, Pipe!Publish, P!Publish, Pipe!Subscribe, P!Subscribe,
         Pipe!Report, P!Report, Pipe!Tick, P!Tick, Pipe!Later, P!Later,
         Pipe!Emit, P!Emit, Pipe!EnergyMeasurement, P!EnergyMeasurement,
         Pipe!ToEpochS, P!ToEpochS, Pipe!Changed, P!Changed, Pipe!Field,
         P!Field, Pipe!QuietAttrs, P!QuietAttrs, Pipe!SourceStatus,
         P!SourceStatus, Pipe!OnlineStatus, P!OnlineStatus, Pipe!Votes, P!Votes,
         Pipe!DeviceVote, P!DeviceVote, Pipe!RelayVote, P!RelayVote,
         Pipe!MostSevere, P!MostSevere, Pipe!Severity, P!Severity, Pipe!Served,
         P!Served, Pipe!Attrs, P!Attrs, Pipe!NotifiedAttrs, P!NotifiedAttrs,
         Pipe!Negated, P!Negated, Pipe!EnergyExported, P!EnergyExported,
         Pipe!ActivePowerCurrentMin, P!ActivePowerCurrentMin,
         Pipe!POWER_HEADROOM_MW_PER_W, P!POWER_HEADROOM_MW_PER_W,
         Pipe!VOLTAGE_MIN_MV, P!VOLTAGE_MIN_MV,
         Pipe!DEFAULT_ACTIVE_POWER_MIN_MW, P!DEFAULT_ACTIVE_POWER_MIN_MW,
         Pipe!DEFAULT_ACTIVE_CURRENT_MIN_MA, P!DEFAULT_ACTIVE_CURRENT_MIN_MA,
         Pipe!Apply, P!Apply, Pipe!ApplyInfo, P!ApplyInfo, Pipe!ApplyPack,
         P!ApplyPack, Pipe!SetStatus, P!SetStatus, Pipe!EnforceLinkMask,
         P!EnforceLinkMask, Pipe!RetainTotal, P!RetainTotal, Pipe!IsLastTotal,
         P!IsLastTotal, Pipe!ReadingsOf, P!ReadingsOf, Pipe!Resolved,
         P!Resolved, Pipe!IsLast, P!IsLast, Pipe!FitsI16, P!FitsI16, Pipe!Blank,
         P!Blank, Pipe!Numeric, P!Numeric, Pipe!bridgeVars, P!bridgeVars,
         Pipe!mainVars, P!mainVars, Pipe!matterVars, P!matterVars

(* The actions of MqttFeed, under both names.                               *)
LEMMA FeedActions ==
  /\ \A d, leaf, p : /\ Feed!Publish(d, leaf, p) = F!Publish(d, leaf, p)
                     /\ Feed!Clear(d, leaf) = F!Clear(d, leaf)
  /\ Feed!Leaves = F!Leaves /\ \A p : Feed!Leaf(p) = F!Leaf(p)
  /\ Feed!Connect = F!Connect /\ Feed!Subscribe = F!Subscribe
  /\ Feed!Break = F!Break /\ Feed!Route = F!Route /\ Feed!Forward = F!Forward
  /\ Feed!Fold = F!Fold /\ Feed!Start = F!Start
  BY DEF Feed!Publish, F!Publish, Feed!Clear, F!Clear, Feed!Deliver, F!Deliver,
         Feed!Connect, F!Connect, Feed!Subscribe, F!Subscribe, Feed!Break,
         F!Break, Feed!Route, F!Route, Feed!Forward, F!Forward, Feed!Fold,
         F!Fold, Feed!Start, F!Start, Feed!Polling, F!Polling, Feed!Accepts,
         F!Accepts, Feed!HasRoom, F!HasRoom, Feed!Filters, F!Filters,
         Feed!Leaves, F!Leaves, Feed!Leaf, F!Leaf, Feed!SetToSeqs, F!SetToSeqs, Feed!Cardinality, F!Cardinality,
         Feed!brokerVars, F!brokerVars, Feed!connVars, F!connVars,
         Feed!routerVars, F!routerVars, Feed!mainVars, F!mainVars, Feed!Apply,
         F!Apply, Feed!ApplyInfo, F!ApplyInfo, Feed!ApplyPack, F!ApplyPack,
         Feed!SetStatus, F!SetStatus, Feed!EnforceLinkMask, F!EnforceLinkMask,
         Feed!RetainTotal, F!RetainTotal, Feed!IsLastTotal, F!IsLastTotal,
         Feed!ReadingsOf, F!ReadingsOf, Feed!Resolved, F!Resolved, Feed!IsLast,
         F!IsLast, Feed!FitsI16, F!FitsI16, Feed!Blank, F!Blank, Feed!Numeric,
         F!Numeric

(* What the controller is told, under both names.                           *)
LEMMA PipeNames ==
  /\ \A t : P!Masked(t) = Masked(t)
  /\ P!NotifiedAttrs = NotifiedAttrs
  /\ \A a, x, y : P!SameReport(a, x, y) = SameReport(a, x, y)
  /\ \A t : P!Served(t) = Served(t)
  BY DEF Masked, P!Masked, Numeric, P!Numeric, NotifiedAttrs, P!NotifiedAttrs,
         Field, P!Field, SameReport, P!SameReport, Served, P!Served, Attrs,
         P!Attrs, Negated, P!Negated, EnergyExported, P!EnergyExported,
         EnergyMeasurement, P!EnergyMeasurement, ToEpochS, P!ToEpochS,
         SourceStatus, P!SourceStatus, OnlineStatus, P!OnlineStatus, Votes,
         P!Votes, DeviceVote, P!DeviceVote, RelayVote, P!RelayVote,
         MostSevere, P!MostSevere, Severity, P!Severity,
         ActivePowerCurrentMin, P!ActivePowerCurrentMin,
         POWER_HEADROOM_MW_PER_W, P!POWER_HEADROOM_MW_PER_W, VOLTAGE_MIN_MV,
         P!VOLTAGE_MIN_MV, DEFAULT_ACTIVE_POWER_MIN_MW,
         P!DEFAULT_ACTIVE_POWER_MIN_MW, DEFAULT_ACTIVE_CURRENT_MIN_MA,
         P!DEFAULT_ACTIVE_CURRENT_MIN_MA

-----------------------------------------------------------------------------
(* A step of the system is a step of each part                              *)

(* Unless the process dies, MqttFeed takes a step or stands still...        *)
LEMMA FeedMoves ==
  ASSUME Next, ~ Restart
  PROVE  [F!Next]_(F!vars)
<1> USE FeedActions
<1>1. CASE Upstream
  <2>1. CASE \E d \in Devices, p \in Payloads : Feed!Publish(d, Feed!Leaf(p), p)
    BY <2>1 DEF F!Next
  <2>2. CASE \E d \in Devices, leaf \in Feed!Leaves :
               Feed!Publish(d, leaf, Bad) \/ Feed!Clear(d, leaf)
    BY <2>2 DEF F!Next
  <2>3. CASE Feed!Connect \/ Feed!Subscribe \/ Feed!Break \/ Feed!Route \/ Feed!Forward
    BY <2>3 DEF F!Next
  <2> QED BY <1>1, <2>1, <2>2, <2>3 DEF Upstream
<1>2. CASE Take
  BY <1>2 DEF Take, F!Next
<1>3. CASE Start
  BY <1>3 DEF Start, F!Next
<1>4. CASE Prime \/ Downstream
  <2>1. UNCHANGED <<feedVars, inbox, st>>
    BY <1>4 DEF Prime, Downstream, Down, Pipe!MainSend, Pipe!Bridge, Pipe!BridgeStart, Pipe!BridgeRecv,
       Pipe!FloorOver, Pipe!Coalesce, Pipe!Skip, Pipe!Publish, Pipe!Subscribe, Pipe!Report,
       Pipe!Tick, Pipe!mainVars
  <2>2. (mpc = "bootstrap") = (mpc' = "bootstrap")
    BY <1>4 DEF Prime, Downstream, Down, Pipe!MainSend, Pipe!Bridge, Pipe!BridgeStart, Pipe!BridgeRecv,
       Pipe!FloorOver, Pipe!Coalesce, Pipe!Skip, Pipe!Publish, Pipe!Subscribe, Pipe!Report,
       Pipe!Tick, Pipe!mainVars
  <2> QED BY <2>1, <2>2 DEF feedVars, F!vars, F!brokerVars, F!connVars, F!routerVars, F!mainVars
<1> QED BY <1>1, <1>2, <1>3, <1>4 DEF Next

(* ...and so does SnapshotPipeline, but for the messages that reach its inbox. *)
LEMMA PipeMoves ==
  ASSUME Next, ~ Restart
  PROVE  [P!Next]_(P!vars) \/ (UNCHANGED <<pipeVars, st>> /\ Feed!Forward)
<1> USE PipeActions
<1>1. CASE Upstream
  <2>1. UNCHANGED pipeVars
    BY <1>1 DEF Upstream
  <2>2. CASE Feed!Forward
    BY <2>1, <2>2 DEF Feed!Forward, Feed!mainVars
  <2>3. CASE ~ Feed!Forward
    <3>1. UNCHANGED <<inbox, st>>
      BY <1>1, <2>3 DEF Upstream, Feed!Publish, Feed!Clear, Feed!Deliver, Feed!Connect,
         Feed!Subscribe, Feed!Break, Feed!Route, Feed!mainVars
    <3> QED BY <2>1, <3>1 DEF pipeVars, P!vars, P!mainVars, P!bridgeVars, P!matterVars
  <2> QED BY <2>2, <2>3
<1>2. CASE Take
  BY <1>2 DEF Take, P!Next, P!Main
<1>3. CASE Start
  BY <1>3 DEF Start, P!Next, P!Main
<1>4. CASE Prime \/ Downstream
  BY <1>4 DEF Prime, Downstream, Down, P!Next, P!Main
<1> QED BY <1>1, <1>2, <1>3, <1>4 DEF Next

-----------------------------------------------------------------------------
(* The invariant of each part, and of the whole *)

FeedInv == F!TypeOK /\ F!OneDevice /\ F!SettleInv

PipeInv == P!TypeOK /\ P!PhaseInv /\ P!NewestNeverLost /\ P!MaskInv

(* A subscriber's copy of what it is owed differs from what a read would      *)
(* answer only while a report of it is pending; nothing is owed before the   *)
(* bridge runs.                                                             *)
OwedInv ==
  /\ owed \subseteq NotifiedAttrs
  /\ bpc = "unborn" => owed = {}
  /\ P!Live /\ subscribed =>
       \A a \in owed \ dirty : SameReport(a, seen[a], Served(cell)[a])

SystemInv == FeedInv /\ PipeInv /\ OwedInv

(* The invariant of the feed, by the steps its theorems rest on.            *)
LEMMA FeedInvStep ==
  ASSUME FeedInv, Next, ~ Restart
  PROVE  FeedInv'
<1>1. [F!Next]_(F!vars)
  BY FeedMoves
<1> QED BY <1>1, FeedAssumed, F!FeedTypeStep, F!OneDeviceStep, F!SettleStep DEF FeedInv

(* What a step of SnapshotPipeline, or a stutter, does to its invariant.     *)
LEMMA PipeSteps ==
  ASSUME PipeInv, [P!Next]_(P!vars)
  PROVE  PipeInv'
<1> USE PipeAssumed DEF PipeInv
<1>1. P!TypeOK'
  BY P!TypeStep
<1>2. P!PhaseInv'
  BY P!PhaseStep
<1>3. P!NewestNeverLost'
  BY P!NewestStep
<1>4. P!MaskInv'
  BY P!MaskStep
<1> QED BY <1>1, <1>2, <1>3, <1>4

(* A message that reaches the inbox is typed by the feed's invariant; nothing *)
(* else of the pipeline moves with it.                                      *)
LEMMA PipeInvStep ==
  ASSUME SystemInv, FeedInv', Next, ~ Restart
  PROVE  PipeInv'
<1>1. CASE [P!Next]_(P!vars)
  BY <1>1, PipeSteps DEF SystemInv
<1>2. CASE UNCHANGED <<pipeVars, st>>
  <2>1. P!TypeOK'
    BY <1>2 DEF SystemInv, FeedInv, PipeInv, pipeVars, P!TypeOK, F!TypeOK
  <2>2. P!PhaseInv'
    BY <1>2 DEF SystemInv, PipeInv, pipeVars, P!PhaseInv
  <2>3. P!NewestNeverLost'
    BY <1>2 DEF SystemInv, PipeInv, pipeVars, P!NewestNeverLost, P!Newest, P!Live, P!Last
  <2>4. P!MaskInv'
    BY <1>2 DEF SystemInv, PipeInv, pipeVars, P!MaskInv
  <2> QED BY <2>1, <2>2, <2>3, <2>4 DEF PipeInv
<1> QED BY <1>1, <1>2, PipeMoves

(* What starts to answer something else becomes owed, and is marked in the   *)
(* same step; what is owed is made right by priming or by a report.          *)
LEMMA OwedStep ==
  ASSUME SystemInv, Next, ~ Restart
  PROVE  OwedInv'
<1> USE PipeNames DEF OwedInv
<1>1. CASE Upstream \/ Take
  <2>1. UNCHANGED <<owed, bpc, dirty, subscribed, seen, cell>>
    BY <1>1 DEF Upstream, Take, pipeVars, Pipe!Bootstrap, Pipe!MainRecv,
       Pipe!bridgeVars, Pipe!matterVars
  <2> QED BY <2>1 DEF SystemInv, P!Live
<1>2. CASE Start
  <2>1. bpc = "unborn" /\ owed' = owed
    BY <1>2 DEF Start, Pipe!Spawn, SystemInv, PipeInv, P!PhaseInv
  <2> QED BY <2>1 DEF SystemInv
<1>3. CASE Prime
  <2>1. /\ owed' = NotifiedAttrs /\ bpc' = bpc /\ bpc # "unborn"
        /\ cell' = cell /\ seen' = P!Served(cell)
    BY <1>3, PipeActions DEF Prime, P!Subscribe, P!bridgeVars
  <2> QED BY <2>1 DEF SameReport
<1>4. CASE Downstream
  <2>1. [P!Next]_(P!vars)
    BY <1>4, PipeActions DEF Downstream, Down, P!Next, P!Main
  <2>2. owed' = owed \cup Moved /\ subscribed' = subscribed
    BY <1>4, PipeActions DEF Downstream, Down, P!MainSend, P!Bridge, P!BridgeStart,
       P!BridgeRecv, P!FloorOver, P!Coalesce, P!Skip, P!Publish, P!Report, P!Tick,
       P!bridgeVars, P!matterVars
  <2>3. ~ P!Live => bpc' = bpc /\ cell' = cell
    BY <1>4, PipeActions DEF Downstream, Down, P!Live, P!MainSend, P!Bridge, P!BridgeStart,
       P!BridgeRecv, P!FloorOver, P!Coalesce, P!Skip, P!Publish, P!Report, P!Tick,
       P!bridgeVars, P!matterVars
  <2>4. P!Live => bpc' # "unborn"
    BY <1>4, PipeActions DEF Downstream, Down, P!Live, P!MainSend, P!Bridge, P!BridgeStart,
       P!BridgeRecv, P!FloorOver, P!Coalesce, P!Skip, P!Publish, P!Report, P!Tick,
       P!bridgeVars, P!matterVars
  <2>5. owed' \subseteq NotifiedAttrs
    BY <2>2 DEF SystemInv, Moved
  <2>6. bpc' = "unborn" => owed' = {}
    <3> SUFFICES ASSUME bpc' = "unborn" PROVE owed' = {}
      OBVIOUS
    <3>1. bpc = "unborn" /\ cell' = cell
      BY <2>3, <2>4
    <3>2. Moved = {}
      BY <3>1 DEF Moved, SameReport
    <3> QED BY <2>2, <3>1, <3>2 DEF SystemInv
  <2>7. ASSUME P!Live', subscribed', NEW a \in owed' \ dirty'
        PROVE  SameReport(a, seen'[a], Served(cell')[a])
    <3>1. /\ P!Live /\ subscribed /\ a \in P!NotifiedAttrs
          /\ P!TypeOK /\ P!PhaseInv
      BY <2>2, <2>3, <2>5, <2>7 DEF SystemInv, PipeInv, P!Live
    <3>2. CASE a \in owed
      <4>1. a \in dirty \/ P!SameReport(a, seen[a], P!Served(cell)[a])
        BY <3>1, <3>2 DEF SystemInv
      <4> QED BY <2>1, <2>7, <3>1, <4>1, P!CoherentStep, PipeAssumed
    <3>3. CASE a \in Moved
      <4>1. ~ P!SameReport(a, P!Served(cell)[a], P!Served(cell')[a])
        BY <3>3 DEF Moved
      <4>2. a \in dirty'
        BY <2>1, <3>1, <4>1, P!MovedMarked, PipeAssumed
      <4> QED BY <2>7, <4>2
    <3> QED BY <2>2, <2>7, <3>2, <3>3
  <2> QED BY <2>5, <2>6, <2>7
<1> QED BY <1>1, <1>2, <1>3, <1>4 DEF Next

(* The start of the process, the first time and after each of its deaths.    *)
LEMMA Defaults ==
  /\ DefaultState = F!DefaultState /\ DefaultState = P!DefaultState
  /\ DefaultSnapshot = P!DefaultSnapshot /\ Pipe!DefaultSnapshot = P!DefaultSnapshot
  /\ Feed!DefaultState = F!DefaultState /\ Pipe!DefaultState = P!DefaultState
  /\ P!DefaultState.snapshot = P!DefaultSnapshot
  BY DEF DefaultState, DefaultSnapshot, Blank, Numeric,
         F!DefaultState, F!DefaultSnapshot, F!Blank, F!Numeric,
         P!DefaultState, P!DefaultSnapshot, P!Blank, P!Numeric,
         Feed!DefaultState, Feed!DefaultSnapshot, Feed!Blank, Feed!Numeric,
         Pipe!DefaultState, Pipe!DefaultSnapshot, Pipe!Blank, Pipe!Numeric

(* Both parts begin where they begin alone.                                 *)
LEMMA SystemInit ==
  ASSUME Init
  PROVE  SystemInv
<1>1. FeedInv
  <2>1. F!Init
    BY Defaults DEF Init, Feed!Init, F!Init
  <2> QED BY <2>1, FeedAssumed, F!FeedTypeInit, F!SettleInit DEF FeedInv, F!OneDevice, F!Init
<1>2. PipeInv
  <2>1. P!Init
    BY Defaults DEF Init, Pipe!Init, P!Init, Pipe!NoEvent, P!NoEvent, Pipe!Attrs, P!Attrs,
       Pipe!NotifiedAttrs, P!NotifiedAttrs, Pipe!Field, P!Field
  <2>2. P!TypeOK
    BY <2>1, PipeAssumed, P!TypeInit
  <2>3. P!PhaseInv /\ P!NewestNeverLost
    BY <2>1 DEF P!Init, P!PhaseInv, P!NoEvent, P!NewestNeverLost, P!Live
  <2>4. P!MaskInv
    BY <2>1, Defaults, PipeAssumed, P!DefaultType DEF P!Init, P!MaskInv
  <2> QED BY <2>2, <2>3, <2>4 DEF PipeInv
<1>3. OwedInv
  BY DEF Init, OwedInv
<1> QED BY <1>1, <1>2, <1>3 DEF SystemInv

(* A restart is the start of both parts, but that retained messages stay and *)
(* a subscription may: nothing is owed to it yet.                           *)
LEMMA RestartStep ==
  ASSUME SystemInv, Restart
  PROVE  SystemInv'
<1>1. FeedInv'
  <2>1. F!TypeOK'
    <3>1. /\ retained' \in F!Retained /\ published' \in 0 .. MaxPublishes
          /\ breaks' \in 0 .. MaxBreaks
      BY FeedAssumed DEF SystemInv, FeedInv, Restart, F!TypeOK, F!FeedAssumption
    <3>2. /\ connected' = FALSE /\ toSubscribe' = <<>> /\ topics' = {} /\ wire' = <<>>
          /\ device_id' = Pinned /\ heard' = {} /\ held' = None
          /\ inbox' = <<>> /\ st' = F!DefaultState /\ mpc' = "bootstrap"
      BY Defaults DEF Restart
    <3>3. device_id' \in Devices \cup {None}
      BY <3>2, FeedAssumed DEF F!FeedAssumption
    <3>4. inbox' \in Seq(Payloads) /\ Len(inbox') <= INBOX_CAP
      BY <3>2, FeedAssumed DEF F!FeedAssumption
    <3>5. st' \in F!State
      BY <3>2, FeedAssumed, F!DefaultType
    <3>6. toSubscribe' \in Seq(F!Leaves) /\ wire' \in Seq(F!Publication)
      BY <3>2
    <3>7. /\ connected' \in BOOLEAN /\ topics' \subseteq F!Leaves
          /\ heard' \subseteq Devices /\ held' \in Payloads \cup {None}
          /\ (IF mpc = "bootstrap" THEN mpc ELSE "live")' \in {"bootstrap", "live"}
      BY <3>2
    <3> QED BY <3>1, <3>3, <3>4, <3>5, <3>6, <3>7 DEF F!TypeOK
  <2>2. F!OneDevice'
    BY DEF Restart, F!OneDevice
  <2>3. F!SettleInv'
    <3>1. /\ UNCHANGED retained /\ wire' = <<>> /\ topics' = {} /\ connected' = FALSE
      BY DEF Restart
    <3> QED BY <3>1 DEF SystemInv, FeedInv, F!SettleInv, F!LeavesMatch, F!Subscribing, F!AllFresh
  <2> QED BY <2>1, <2>2, <2>3 DEF FeedInv
<1>2. PipeInv'
  <2>1. P!TypeOK'
    <3>1. /\ P!DefaultState \in P!State /\ P!DefaultSnapshot \in P!PvSnapshot
      BY PipeAssumed, P!StateSnapshot
    <3>2. /\ inbox' \in Seq(Payloads) /\ Len(inbox') <= INBOX_CAP
          /\ updates' \in Seq(P!PvSnapshot) /\ Len(updates') <= UPDATES_CAP
      BY PipeAssumed DEF Restart, P!BoundsAssumption
    <3>3. /\ mpc' = "bootstrap" /\ bpc' = "unborn" /\ st' = P!DefaultState
          /\ next' = P!DefaultSnapshot /\ prev' = P!DefaultSnapshot /\ cell' = P!DefaultSnapshot
          /\ elapsed' = SPACING /\ timer' = 0 /\ quiet' = SPACING
          /\ event'.result = "none" /\ dirty' = {} /\ seen' = seen
          /\ subscribed' \in {subscribed, FALSE}
      BY Defaults DEF Restart
    <3>4. elapsed' \in 0 .. SPACING /\ timer' \in 0 .. SPACING /\ quiet' \in 0 .. SPACING
      BY <3>3, PipeAssumed DEF P!BoundsAssumption
    <3>5. DOMAIN seen' = P!Attrs
      BY <3>3 DEF SystemInv, PipeInv, P!TypeOK
    <3>6. /\ mpc' \in {"bootstrap", "select", "send", "stopped"}
          /\ bpc' \in {"unborn", "starting", "recv", "floor", "drain", "gone"}
          /\ st' \in P!State
          /\ next' \in P!PvSnapshot /\ prev' \in P!PvSnapshot /\ cell' \in P!PvSnapshot
      BY <3>1, <3>3
    <3>7. event'.result \in {"none", "emitted", "failed"} /\ dirty' \subseteq P!NotifiedAttrs
      BY <3>3
    <3>8. subscribed' \in BOOLEAN
      BY <3>3 DEF SystemInv, PipeInv, P!TypeOK
    <3> QED BY <3>2, <3>4, <3>5, <3>6, <3>7, <3>8 DEF P!TypeOK
  <2>2. P!PhaseInv' /\ P!NewestNeverLost'
    BY DEF Restart, P!PhaseInv, P!NewestNeverLost, P!Live
  <2>3. P!MaskInv'
    BY Defaults, PipeAssumed, P!DefaultType DEF Restart, P!MaskInv
  <2> QED BY <2>1, <2>2, <2>3 DEF PipeInv
<1>3. OwedInv'
  BY DEF Restart, OwedInv
<1> QED BY <1>1, <1>2, <1>3 DEF SystemInv

(* However often the process dies: SystemInv is an invariant.               *)
THEOREM SystemInvCorrect == LiveSpec => []SystemInv
<1>1. ASSUME SystemInv, [Next]_vars PROVE SystemInv'
  <2>1. CASE Restart
    BY <1>1, <2>1, RestartStep
  <2>2. CASE Next /\ ~ Restart
    BY <1>1, <2>2, FeedInvStep, PipeInvStep, OwedStep DEF SystemInv
  <2>3. CASE UNCHANGED vars
    <3>1. UNCHANGED F!vars
      BY <2>3 DEF vars, feedVars, pipeVars, F!vars, F!brokerVars, F!connVars, F!routerVars,
         F!mainVars
    <3>2. UNCHANGED P!vars
      BY <2>3 DEF vars, feedVars, pipeVars, P!vars, P!mainVars, P!bridgeVars, P!matterVars
    <3>3. FeedInv'
      BY <1>1, <3>1, FeedAssumed, F!FeedTypeStep, F!OneDeviceStep, F!SettleStep
         DEF SystemInv, FeedInv
    <3>4. PipeInv'
      BY <1>1, <3>2, PipeSteps DEF SystemInv
    <3>5. OwedInv'
      BY <1>1, <2>3 DEF SystemInv, OwedInv, P!Live, vars, pipeVars
    <3> QED BY <3>3, <3>4, <3>5 DEF SystemInv
  <2> QED BY <1>1, <2>1, <2>2, <2>3
<1> QED BY <1>1, SystemInit, PTL DEF LiveSpec

(* Both parts keep their types: for any constants, capacities and number of  *)
(* publishes, broken connections and deaths of the process.                 *)
THEOREM SystemTypeCorrect == LiveSpec => []TypeOK
<1>1. F!TypeOK => Feed!TypeOK
  BY DEF Feed!TypeOK, F!TypeOK, Feed!Retained, F!Retained, Feed!Leaves,
         F!Leaves, Feed!Publication, F!Publication, Feed!State, F!State,
         Feed!PvSnapshot, F!PvSnapshot, Feed!InverterInfo, F!InverterInfo,
         Feed!LinkStatus, F!LinkStatus, Feed!DeviceStatus, F!DeviceStatus,
         Feed!GridRelay, F!GridRelay, Feed!Numeric, F!Numeric, Feed!OptInt,
         F!OptInt
<1>2. P!TypeOK => Pipe!TypeOK
  BY DEF Pipe!TypeOK, P!TypeOK, Pipe!NotifiedAttrs, P!NotifiedAttrs,
         Pipe!Attrs, P!Attrs, Pipe!Field, P!Field, Pipe!State, P!State,
         Pipe!PvSnapshot, P!PvSnapshot, Pipe!InverterInfo, P!InverterInfo,
         Pipe!LinkStatus, P!LinkStatus, Pipe!DeviceStatus, P!DeviceStatus,
         Pipe!GridRelay, P!GridRelay, Pipe!Numeric, P!Numeric, Pipe!OptInt,
         P!OptInt
<1>3. SystemInv => TypeOK
  BY <1>1, <1>2 DEF SystemInv, FeedInv, PipeInv, OwedInv, TypeOK
<1> QED BY <1>3, SystemInvCorrect, PTL

-----------------------------------------------------------------------------
(* What the controller is told, once nothing is under way *)

(* The answers depend on the link, the total and what is instantaneous.     *)
LEMMA SameAnswers ==
  ASSUME NEW s \in PvSnapshot, NEW t \in PvSnapshot,
         s.link = t.link, Instantaneous(s) = Instantaneous(t),
         NEW a \in NotifiedAttrs,
         a = "CumulativeEnergyExported" => s.energy_total_mwh = t.energy_total_mwh
  PROVE  SameReport(a, Served(s)[a], Served(t)[a])
<1>1. s.readings = t.readings /\ s.device_status = t.device_status /\ s.grid_relay = t.grid_relay
  BY DEF Instantaneous
<1>2. CASE a = "CumulativeEnergyExported"
  BY <1>2 DEF SameReport, Served, Attrs, EnergyExported, EnergyMeasurement
<1>3. CASE a = "Status"
  <2>1. SourceStatus(s) = SourceStatus(t)
    <3>1. Votes(s) = Votes(t)
      BY <1>1 DEF Votes
    <3> QED BY <3>1 DEF SourceStatus, OnlineStatus
  <2> QED BY <1>3, <2>1 DEF SameReport, Served, Attrs
<1>4. CASE a \in DOMAIN Field
  BY <1>1, <1>4 DEF SameReport, Served, Attrs, NotifiedAttrs, Field
<1> QED BY <1>2, <1>3, <1>4 DEF NotifiedAttrs

(* A snapshot with the link, the usable total and all or none of the rest of *)
(* what is retained answers as one of Adds does.                            *)
LEMMA AnswersAsRetained ==
  ASSUME NEW s \in PvSnapshot, Masked(s),
         NEW r, r["status"].status \in LinkStatus, r["instantaneous"].pack \in Pack,
         s.link = r["status"].status,
         Instantaneous(s) \in {Instantaneous(DefaultSnapshot),
                               Brought(r["instantaneous"].pack.records)},
         LET e == RetainTotal(DefaultSnapshot, r["instantaneous"].pack)
         IN  e.energy_total_mwh # None => s.energy_total_mwh = e.energy_total_mwh
  PROVE  \E t \in Adds(r) :
           \A a \in NotifiedAttrs :
             (a = "CumulativeEnergyExported" => t.energy_total_mwh # None)
               => SameReport(a, Served(s)[a], Served(t)[a])
<1> DEFINE pack == r["instantaneous"].pack
           online == SetStatus(DefaultSnapshot, r["status"].status)
           whole == Whole(r)
           unread == Unread(r)
<1>1. /\ online \in PvSnapshot /\ online.link = r["status"].status
      /\ online.energy_total_mwh = None
  <2> DEFINE d == [DefaultSnapshot EXCEPT !.link = r["status"].status]
  <2>1. d \in PvSnapshot /\ d.link = r["status"].status /\ d.energy_total_mwh = None
    BY DefaultType DEF DefaultState, DefaultSnapshot, State, PvSnapshot
  <2>2. online = EnforceLinkMask(d)
    BY DEF SetStatus
  <2> HIDE DEF d, online
  <2> QED BY <2>1, <2>2, MaskKeeps, MaskLemma
<1>2. whole = ApplyPack(online, pack)
  BY DEF Whole
<1> HIDE DEF pack, online
<1>3. /\ whole \in PvSnapshot /\ Masked(whole) /\ whole.link = s.link
      /\ Instantaneous(whole) \in {Instantaneous(DefaultSnapshot), Brought(pack.records)}
      /\ s.link = "Online" => Instantaneous(whole) = Brought(pack.records)
  BY <1>1, <1>2, ApplyPackLemma, PackApplied DEF pack
<1>4. whole.energy_total_mwh # None => s.energy_total_mwh = whole.energy_total_mwh
  <2> DEFINE e == RetainTotal(DefaultSnapshot, pack)
  <2>1. e.energy_total_mwh # None => s.energy_total_mwh = e.energy_total_mwh
    BY DEF pack
  <2>2. /\ e.energy_total_mwh # None => whole.energy_total_mwh = e.energy_total_mwh
        /\ e.energy_total_mwh = None => whole.energy_total_mwh = online.energy_total_mwh
    BY <1>1, <1>2, PackApplied DEF pack
  <2> HIDE DEF e
  <2> QED BY <1>1, <2>1, <2>2
<1>5. /\ unread \in PvSnapshot /\ unread.link = whole.link
      /\ unread.energy_total_mwh = whole.energy_total_mwh
      /\ Instantaneous(unread) = Instantaneous(DefaultSnapshot)
  <2>1. unread = [whole EXCEPT !.readings = Blank, !.device_status = None, !.grid_relay = None]
    BY DEF Unread
  <2> HIDE DEF whole, unread
  <2> QED BY <1>3, <2>1 DEF PvSnapshot, Instantaneous, DefaultSnapshot, Blank, OptInt
<1>6. whole \in Adds(r) /\ unread \in Adds(r)
  BY DEF Adds
<1> HIDE DEF whole, unread
<1>7. CASE Instantaneous(s) = Instantaneous(DefaultSnapshot)
  <2>1. ASSUME NEW a \in NotifiedAttrs,
               a = "CumulativeEnergyExported" => unread.energy_total_mwh # None
        PROVE  SameReport(a, Served(s)[a], Served(unread)[a])
    BY <1>3, <1>4, <1>5, <1>7, <2>1, SameAnswers
  <2> QED BY <1>6, <2>1
<1>8. CASE Instantaneous(s) = Brought(pack.records) /\ s.link = "Online"
  <2>1. ASSUME NEW a \in NotifiedAttrs,
               a = "CumulativeEnergyExported" => whole.energy_total_mwh # None
        PROVE  SameReport(a, Served(s)[a], Served(whole)[a])
    BY <1>3, <1>4, <1>8, <2>1, SameAnswers
  <2> QED BY <1>6, <2>1
<1> QED BY <1>7, <1>8, MaskedBlank DEF pack

(* Names of the instances, in BridgeSystem's own terms.                     *)
LEMMA FeedNames ==
  /\ Feed!Settled = F!Settled /\ \A leaf : Feed!Holds(leaf) = F!Holds(leaf)
  /\ F!State = State /\ F!DomainMsg = DomainMsg /\ F!Leaves = Feed!Leaves
  /\ \A p : F!Leaf(p) = Feed!Leaf(p)
  /\ \A t, pack : F!RetainTotal(t, pack) = RetainTotal(t, pack)
  /\ \A t : F!Instantaneous(t) = Instantaneous(t)
  /\ \A records : F!Brought(records) = Brought(records)
  /\ F!DefaultSnapshot = DefaultSnapshot
  BY DEF Feed!Settled, F!Settled, Feed!Holds, F!Holds, Feed!Leaves, F!Leaves,
         Feed!Leaf, F!Leaf, State, F!State, PvSnapshot, F!PvSnapshot,
         InverterInfo, F!InverterInfo, LinkStatus, F!LinkStatus, DeviceStatus,
         F!DeviceStatus, GridRelay, F!GridRelay, Numeric, F!Numeric, OptInt,
         F!OptInt, DomainMsg, F!DomainMsg, Pack, F!Pack, Record, F!Record,
         RetainTotal, F!RetainTotal, IsLastTotal, F!IsLastTotal,
         Instantaneous, F!Instantaneous, Brought, F!Brought, ReadingsOf,
         F!ReadingsOf, Resolved, F!Resolved, IsLast, F!IsLast, FitsI16,
         F!FitsI16, DefaultSnapshot, F!DefaultSnapshot, Blank, F!Blank

(* When nothing is under way, a controller reads the link, the total and the *)
(* readings - or none of them - that the broker retains, whatever was        *)
(* published, lost or coalesced and however often the process died.  A       *)
(* subscriber has been told of all of them by the process that primed its    *)
(* subscription, and of all that moved by one that found it persisted.       *)
THEOREM ControllerUpToDateCorrect == LiveSpec => []ControllerUpToDate
<1>1. ASSUME SystemInv, Quiescent, Tellable PROVE Told
  <2> DEFINE s == st.snapshot
             r == retained[device_id]
  <2>1. /\ F!TypeOK /\ F!SettleInv /\ F!Settled
        /\ device_id # None /\ F!Holds("status") /\ F!Holds("instantaneous")
    BY <1>1, FeedNames DEF SystemInv, FeedInv, Quiescent, Tellable
  <2>2. F!SettledState /\ F!SettledReadings
    BY <2>1, FeedAssumed, F!SettledStateHolds, F!SettledReadingsHolds
  <2>3. "status" \in F!Leaves /\ "instantaneous" \in F!Leaves
    BY DEF F!Leaves
  <2>4. /\ Feed!Leaf(r["status"]) = "status" /\ r["status"] \in DomainMsg
        /\ Feed!Leaf(r["instantaneous"]) = "instantaneous" /\ r["instantaneous"] \in DomainMsg
    BY <2>1, <2>3, FeedAssumed, F!SettledReflects, FeedNames
  <2>5. r["status"].status \in LinkStatus /\ r["instantaneous"].pack \in Pack
    BY <2>4 DEF Feed!Leaf, DomainMsg
  <2>6. s.link = r["status"].status
    BY <2>1, <2>2 DEF F!SettledState
  <2>7. Instantaneous(s) \in {Instantaneous(DefaultSnapshot),
                              Brought(r["instantaneous"].pack.records)}
    BY <2>1, <2>2, FeedNames DEF F!SettledReadings
  <2>8. LET e == RetainTotal(DefaultSnapshot, r["instantaneous"].pack)
        IN  e.energy_total_mwh # None => s.energy_total_mwh = e.energy_total_mwh
    BY <2>1, <2>2, FeedNames DEF F!SettledState
  <2>9. s \in PvSnapshot /\ Masked(s)
    BY <1>1, <2>1, FeedNames, PipeNames DEF F!TypeOK, State, SystemInv, PipeInv, P!MaskInv
  <2>10. cell = s
    BY <1>1 DEF SystemInv, PipeInv, P!NewestNeverLost, P!Newest, P!Live, Quiescent
  <2>11. subscribed => \A a \in owed : SameReport(a, seen[a], Served(s)[a])
    BY <1>1, <2>10 DEF SystemInv, OwedInv, P!Live, Quiescent
  <2> HIDE DEF s, r
  <2>12. PICK t \in Adds(r) :
           \A a \in NotifiedAttrs :
             (a = "CumulativeEnergyExported" => t.energy_total_mwh # None)
               => SameReport(a, Served(s)[a], Served(t)[a])
    BY <2>5, <2>6, <2>7, <2>8, <2>9, AnswersAsRetained
  <2>13. \A a, x, y, z : SameReport(a, x, y) /\ SameReport(a, y, z) => SameReport(a, x, z)
    BY DEF SameReport
  <2> QED BY <2>10, <2>11, <2>12, <2>13 DEF Told, r
<1>2. SystemInv => ControllerUpToDate
  BY <1>1 DEF ControllerUpToDate
<1> QED BY <1>2, SystemInvCorrect, PTL
=============================================================================
