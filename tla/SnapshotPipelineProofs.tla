----------------------- MODULE SnapshotPipelineProofs -----------------------
(* Theorems on SnapshotPipeline, for every set of messages, every capacity   *)
(* of the channels and every spacing.  That a step preserves an invariant is *)
(* a lemma of its own where BridgeSystemProofs takes the same steps.         *)
EXTENDS SnapshotPipeline, PvDomainProofs

(* A snapshot is what main forwards and what the bridge starts from.        *)
LEMMA StateSnapshot ==
  /\ DefaultState \in State /\ DefaultSnapshot \in PvSnapshot
  /\ \A s \in State : s.snapshot \in PvSnapshot
  BY DefaultType DEF State, DefaultState

(* What a channel holds when one more element is sent or one is received.   *)
LEMMA ChannelLemma ==
  ASSUME NEW S, NEW q \in Seq(S)
  PROVE  /\ \A x \in S : /\ Append(q, x) \in Seq(S)
                         /\ Len(Append(q, x)) = Len(q) + 1
                         /\ Append(q, x) # <<>>
                         /\ Last(Append(q, x)) = x
         /\ q # <<>> => /\ Head(q) \in S
                        /\ Tail(q) \in Seq(S)
                        /\ Len(Tail(q)) = Len(q) - 1
                        /\ Tail(q) = <<>> => Last(q) = Head(q)
                        /\ Tail(q) # <<>> => Last(Tail(q)) = Last(q)
  BY DEF Last

-----------------------------------------------------------------------------
(* A step of either thread, of rs-matter or of the clocks keeps the types.   *)
LEMMA TypeStep ==
  ASSUME TypeOK, [Next]_vars
  PROVE  TypeOK'
<1> USE MessagesAssumption, BoundsAssumption
<1> USE DEF TypeOK
<1>1. ASSUME NEW m \in Messages, Arrive(m) PROVE TypeOK'
  BY <1>1, ChannelLemma DEF Arrive, bridgeVars, matterVars
<1>2. inbox # <<>> => /\ Apply(st, Head(inbox)) \in State
                      /\ Tail(inbox) \in Seq(Messages)
                      /\ Len(Tail(inbox)) <= INBOX_CAP
  <2> SUFFICES ASSUME inbox # <<>>
               PROVE  /\ Apply(st, Head(inbox)) \in State
                      /\ Tail(inbox) \in Seq(Messages)
                      /\ Len(Tail(inbox)) <= INBOX_CAP
    OBVIOUS
  <2>1. Head(inbox) \in DomainMsg
    BY ChannelLemma
  <2> QED BY <2>1, ChannelLemma, ApplyLemma
<1>3. CASE Bootstrap
  BY <1>2, <1>3 DEF Bootstrap, bridgeVars, matterVars
<1>4. CASE Spawn
  BY <1>4, StateSnapshot DEF Spawn, matterVars
<1>5. CASE MainRecv
  BY <1>2, <1>5 DEF MainRecv, bridgeVars, matterVars
<1>6. CASE MainSend
  BY <1>6, StateSnapshot, ChannelLemma DEF MainSend, bridgeVars, matterVars
<1>7. CASE MainSendFails
  BY <1>7 DEF MainSendFails, bridgeVars, matterVars
<1>8. CASE MainStop
  BY <1>8 DEF MainStop, bridgeVars, matterVars
<1>9. CASE BridgeStart
  BY <1>9 DEF BridgeStart, mainVars, matterVars
<1>10. CASE BridgeRecv
  BY <1>10, ChannelLemma DEF BridgeRecv, mainVars, matterVars
<1>11. CASE FloorOver
  BY <1>11 DEF FloorOver, mainVars, matterVars
<1>12. CASE Coalesce
  BY <1>12, ChannelLemma DEF Coalesce, mainVars, matterVars
<1>13. CASE Skip
  BY <1>13 DEF Skip, mainVars, matterVars
<1>14. ASSUME NEW result \in {"emitted", "failed"}, Publish(result) PROVE TypeOK'
  <2>1. dirty' \subseteq NotifiedAttrs
    BY <1>14 DEF Publish, Changed, NotifiedAttrs
  <2>2. event'.result \in {"none", "emitted", "failed"}
    BY <1>14 DEF Publish, Emit
  <2> QED BY <1>14, <2>1, <2>2 DEF Publish, mainVars
<1>15. CASE MatterExit
  BY <1>15 DEF MatterExit, mainVars, matterVars
<1>16. CASE Subscribe
  BY <1>16 DEF Subscribe, Served, mainVars, bridgeVars
<1>17. CASE Report
  BY <1>17 DEF Report, mainVars, bridgeVars
<1>18. CASE Tick
  BY <1>18 DEF Tick, Later, mainVars, matterVars
<1>19. CASE UNCHANGED vars
  BY <1>19 DEF vars, mainVars, bridgeVars, matterVars
<1> QED BY <1>1, <1>3, <1>4, <1>5, <1>6, <1>7, <1>8, <1>9, <1>10, <1>11, <1>12,
           <1>13, <1>14, <1>15, <1>16, <1>17, <1>18, <1>19
        DEF Next, Main, Bridge

(* At the start the channels are empty and the clocks have run out.         *)
LEMMA TypeInit ==
  ASSUME Init
  PROVE  TypeOK
<1> USE MessagesAssumption, BoundsAssumption
<1> USE DEF Init
<1>1. /\ arrived \in 0 .. MaxMsgs
      /\ elapsed \in 0 .. SPACING /\ timer \in 0 .. SPACING /\ quiet \in 0 .. SPACING
  OBVIOUS
<1>2. /\ inbox \in Seq(Messages) /\ Len(inbox) <= INBOX_CAP
      /\ updates \in Seq(PvSnapshot) /\ Len(updates) <= UPDATES_CAP
  OBVIOUS
<1>3. event.result \in {"none", "emitted", "failed"}
  BY DEF NoEvent
<1>4. /\ st \in State /\ next \in PvSnapshot /\ prev \in PvSnapshot /\ cell \in PvSnapshot
  BY StateSnapshot
<1>5. dirty \subseteq NotifiedAttrs /\ DOMAIN seen = Attrs
  OBVIOUS
<1> QED BY <1>1, <1>2, <1>3, <1>4, <1>5 DEF TypeOK

(* Every snapshot on its way is a PvSnapshot, the channels keep within their *)
(* capacities and the clocks within their range.                            *)
THEOREM TypeCorrect == Spec => []TypeOK
  BY TypeInit, TypeStep, PTL DEF Spec

-----------------------------------------------------------------------------
(* The phases of the two threads go together, and while the bridge runs the  *)
(* snapshot it compares with is the one the handlers read.                  *)
PhaseInv ==
  /\ mpc = "bootstrap" <=> bpc = "unborn"
  /\ bpc = "unborn" => updates = <<>> /\ event.result = "none"
  /\ bpc \in {"recv", "floor", "drain"} => prev = cell

(* run_bridge is the only writer of the cell and keeps prev equal to it; it  *)
(* lives from the spawn to the end of its thread.                           *)
LEMMA PhaseStep ==
  ASSUME TypeOK, PhaseInv, [Next]_vars
  PROVE  PhaseInv'
<1> USE DEF PhaseInv
<1>1. CASE (\E m \in Messages : Arrive(m)) \/ Tick
  BY <1>1 DEF Arrive, Tick, mainVars, bridgeVars, matterVars
<1>2. CASE Main
  BY <1>2 DEF Main, Bootstrap, Spawn, MainRecv, MainSend, MainSendFails, MainStop,
              bridgeVars, matterVars
<1>3. CASE Bridge
  BY <1>3 DEF Bridge, BridgeStart, BridgeRecv, FloorOver, Coalesce, Skip, Publish,
              mainVars, matterVars
<1>4. CASE MatterExit \/ Subscribe \/ Report
  BY <1>4 DEF MatterExit, Subscribe, Report, mainVars, bridgeVars, matterVars
<1>5. CASE UNCHANGED vars
  BY <1>5 DEF vars, mainVars, bridgeVars, matterVars
<1> QED BY <1>1, <1>2, <1>3, <1>4, <1>5 DEF Next

(* run_bridge is the only writer of the cell and keeps prev equal to it.    *)
LEMMA PhaseCorrect == Spec => []PhaseInv
<1>1. Init => PhaseInv
  BY DEF Init, PhaseInv, NoEvent
<1> QED BY <1>1, PhaseStep, TypeCorrect, PTL DEF Spec

(* Sending, receiving and coalescing keep the newest snapshot the newest, and *)
(* what is skipped equals what is served.                                   *)
LEMMA NewestStep ==
  ASSUME TypeOK, PhaseInv, NewestNeverLost, [Next]_vars
  PROVE  NewestNeverLost'
<1> USE DEF NewestNeverLost, Newest, Live
<1>0. updates \in Seq(PvSnapshot)
  BY DEF TypeOK
<1>1. CASE (\E m \in Messages : Arrive(m)) \/ Tick
  BY <1>1 DEF Arrive, Tick, mainVars, bridgeVars, matterVars
<1>2. CASE Spawn
  BY <1>2 DEF Spawn, PhaseInv
<1>3. CASE MainSend
  BY <1>0, <1>3, StateSnapshot, ChannelLemma DEF MainSend, TypeOK, bridgeVars
<1>4. CASE Bootstrap \/ MainRecv \/ MainSendFails \/ MainStop
  BY <1>4 DEF Bootstrap, MainRecv, MainSendFails, MainStop, bridgeVars, matterVars
<1>5. CASE BridgeRecv
  BY <1>0, <1>5, ChannelLemma DEF BridgeRecv, mainVars
<1>6. CASE Coalesce
  BY <1>0, <1>6, ChannelLemma DEF Coalesce, mainVars
<1>7. CASE Skip
  BY <1>7 DEF Skip, PhaseInv, mainVars
<1>8. CASE \E result \in {"emitted", "failed"} : Publish(result)
  BY <1>8 DEF Publish, mainVars
<1>9. CASE BridgeStart \/ FloorOver
  BY <1>9 DEF BridgeStart, FloorOver, mainVars
<1>10. CASE MatterExit \/ Subscribe \/ Report
  BY <1>10 DEF MatterExit, Subscribe, Report, mainVars, bridgeVars
<1>11. CASE UNCHANGED vars
  BY <1>11 DEF vars, mainVars, bridgeVars, matterVars
<1> QED BY <1>1, <1>2, <1>3, <1>4, <1>5, <1>6, <1>7, <1>8, <1>9, <1>10, <1>11
        DEF Next, Main, Bridge

(* The newest accumulated snapshot is never lost on its way to the handlers: *)
(* neither by a full channel, nor by coalescing, nor by skipping an update   *)
(* that equals the served one.                                              *)
THEOREM NewestCorrect == Spec => []NewestNeverLost
<1> USE DEF NewestNeverLost, Newest, Live
<1>1. Init => NewestNeverLost
  BY DEF Init
<1> QED BY <1>1, NewestStep, TypeCorrect, PhaseCorrect, PTL DEF Spec

-----------------------------------------------------------------------------
(* An attribute that run_bridge does not notify answers what it did before.  *)
LEMMA UnchangedAnswer ==
  ASSUME NEW p, NEW n, NEW x, NEW a \in NotifiedAttrs \ Changed(p, n),
         SameReport(a, x, Served(p)[a])
  PROVE  SameReport(a, x, Served(n)[a])
<1> USE DEF Attrs, NotifiedAttrs, Field
<1>1. CASE a \in DOMAIN Field
  <2>1. n.readings[Field[a]] = p.readings[Field[a]]
    BY <1>1 DEF Changed
  <2>2. Served(n)[a] = Served(p)[a]
    BY <1>1, <2>1 DEF Served
  <2> QED BY <2>2
<1>2. CASE a = "CumulativeEnergyExported"
  <2>1. n.energy_total_mwh = p.energy_total_mwh
    BY <1>2 DEF Changed
  <2>2. Served(n)[a] = EnergyExported(n) /\ Served(p)[a] = EnergyExported(p)
    BY <1>2 DEF Served
  <2> QED BY <1>2, <2>1, <2>2 DEF SameReport, EnergyExported, EnergyMeasurement
<1>3. CASE a = "Status"
  <2>1. SourceStatus(n) = SourceStatus(p)
    BY <1>3 DEF Changed
  <2>2. Served(n)[a] = Served(p)[a]
    BY <1>3, <2>1 DEF Served
  <2> QED BY <2>2
<1> QED BY <1>1, <1>2, <1>3

(* An attribute that starts to answer something else is marked: run_bridge   *)
(* diffs with what the handlers read until now.                             *)
LEMMA MovedMarked ==
  ASSUME PhaseInv, Live, [Next]_vars, NEW a \in NotifiedAttrs,
         ~ SameReport(a, Served(cell)[a], Served(cell')[a])
  PROVE  a \in dirty'
<1>1. CASE \E result \in {"emitted", "failed"} : Publish(result)
  <2>1. prev = cell /\ cell' = next /\ dirty' = dirty \cup Changed(prev, next)
    BY <1>1 DEF Publish, PhaseInv
  <2>2. SameReport(a, Served(prev)[a], Served(prev)[a])
    BY DEF SameReport
  <2>3. a \in Changed(prev, next)
    BY <2>1, <2>2, UnchangedAnswer
  <2> QED BY <2>1, <2>3
<1>2. CASE cell' = cell
  BY <1>2 DEF SameReport
<1> QED BY <1>1, <1>2
        DEF Next, Main, Bridge, Arrive, Bootstrap, Spawn, MainRecv, MainSend,
            MainSendFails, MainStop, BridgeStart, BridgeRecv, FloorOver, Coalesce,
            Skip, MatterExit, Subscribe, Report, Tick, Live, PhaseInv, vars, bridgeVars

(* A subscriber whose copy of an attribute is right has a right copy after   *)
(* the step too, or a report of it pending.                                 *)
LEMMA CoherentStep ==
  ASSUME TypeOK, PhaseInv, Live, subscribed, [Next]_vars, NEW a \in NotifiedAttrs,
         a \in dirty \/ SameReport(a, seen[a], Served(cell)[a])
  PROVE  a \in dirty' \/ SameReport(a, seen'[a], Served(cell')[a])
<1>1. CASE Subscribe
  BY <1>1 DEF Subscribe, bridgeVars, SameReport
<1>2. CASE Report
  <2>1. cell' = cell /\ seen'[a] = IF a \in dirty THEN Served(cell)[a] ELSE seen[a]
    BY <1>2 DEF Report, bridgeVars, Attrs
  <2> QED BY <2>1 DEF SameReport
<1>3. CASE seen' = seen /\ dirty \subseteq dirty'
  BY <1>3, MovedMarked DEF SameReport
<1> QED BY <1>1, <1>2, <1>3
        DEF Next, Main, Bridge, Arrive, Bootstrap, Spawn, MainRecv, MainSend,
            MainSendFails, MainStop, BridgeStart, BridgeRecv, FloorOver, Coalesce,
            Skip, Publish, MatterExit, Tick, vars, matterVars

(* Nobody has subscribed to a bridge that has never run.                    *)
NobodyYet == bpc = "unborn" => ~ subscribed

(* A controller's copy of a notified attribute differs from what a read      *)
(* would answer only while a report of it is pending.                       *)
THEOREM ReportsCorrect == Spec => []ReportsCoherent
<1> USE DEF ReportsCoherent, Coherent
<1>1. Init => NobodyYet /\ ReportsCoherent
  BY DEF Init, NobodyYet, Live
<1>2. ASSUME TypeOK, PhaseInv, NobodyYet, ReportsCoherent, [Next]_vars
      PROVE  NobodyYet' /\ ReportsCoherent'
  <2>1. NobodyYet'
    BY <1>2 DEF NobodyYet, Next, Main, Bridge, Arrive, Bootstrap, Spawn, MainRecv,
       MainSend, MainSendFails, MainStop, BridgeStart, BridgeRecv, FloorOver, Coalesce,
       Skip, Publish, MatterExit, Subscribe, Report, Tick, vars, bridgeVars, matterVars
  <2>2. ASSUME Live', subscribed', NEW a \in NotifiedAttrs \ dirty'
        PROVE  SameReport(a, seen'[a], Served(cell')[a])
    <3>1. CASE Subscribe
      BY <3>1 DEF Subscribe, bridgeVars, SameReport
    <3>2. CASE Live /\ subscribed
      BY <1>2, <2>2, <3>2, CoherentStep
    <3>3. Subscribe \/ (Live /\ subscribed)
      BY <1>2, <2>2 DEF NobodyYet, PhaseInv, Live, Next, Main, Bridge, Arrive, Bootstrap, Spawn,
         MainRecv, MainSend, MainSendFails, MainStop, BridgeStart, BridgeRecv, FloorOver,
         Coalesce, Skip, Publish, MatterExit, Report, Tick, vars, bridgeVars, matterVars
    <3> QED BY <3>1, <3>2, <3>3
  <2> QED BY <2>1, <2>2
<1> QED BY <1>1, <1>2, TypeCorrect, PhaseCorrect, PTL DEF Spec

(* An attribute that run_bridge notifies answers something new.             *)
LEMMA ChangedAnswer ==
  ASSUME NEW p \in PvSnapshot, NEW n \in PvSnapshot, NEW a \in Changed(p, n)
  PROVE  Served(n)[a] # Served(p)[a]
<1> USE DEF Attrs, NotifiedAttrs, Field
<1>1. CASE a \in DOMAIN Field
  <2>1. n.readings[Field[a]] # p.readings[Field[a]]
    BY <1>1 DEF Changed
  <2>2. n.readings[Field[a]] \in OptInt /\ p.readings[Field[a]] \in OptInt
    BY <1>1 DEF PvSnapshot, Numeric
  <2>3. Negated(n.readings[Field[a]]) # Negated(p.readings[Field[a]])
    BY <2>1, <2>2, NoneAssumption DEF Negated, OptInt
  <2>4. a \in {"ActiveCurrent", "ActivePower"} \/ a \in {"Voltage", "Frequency", "MeasuredValue"}
    BY <1>1
  <2> QED BY <2>1, <2>3, <2>4 DEF Served
<1>2. CASE a = "CumulativeEnergyExported"
  <2>1. n.energy_total_mwh # p.energy_total_mwh
    BY <1>2 DEF Changed
  <2>2. Served(n)[a] = EnergyExported(n) /\ Served(p)[a] = EnergyExported(p)
    BY <1>2 DEF Served
  <2> QED BY <2>1, <2>2 DEF EnergyExported, EnergyMeasurement
<1>3. CASE a = "Status"
  <2>1. SourceStatus(n) # SourceStatus(p)
    BY <1>3 DEF Changed
  <2>2. Served(n)[a] = SourceStatus(n) /\ Served(p)[a] = SourceStatus(p)
    BY <1>3 DEF Served
  <2> QED BY <2>1, <2>2
<1> QED BY <1>1, <1>2, <1>3 DEF Changed

(* An attribute is marked only in a step that moves what a read answers.    *)
THEOREM OnlyRealChangesCorrect == Spec => OnlyRealChanges
<1>1. TypeOK /\ PhaseInv /\ [Next]_vars =>
        [\A a \in dirty' \ dirty : Served(cell')[a] # Served(cell)[a]]_vars
  <2> SUFFICES ASSUME TypeOK, PhaseInv, [Next]_vars, NEW a \in dirty' \ dirty
               PROVE  Served(cell')[a] # Served(cell)[a]
    OBVIOUS
  <2>1. CASE \E result \in {"emitted", "failed"} : Publish(result)
    BY <2>1, ChangedAnswer DEF Publish, PhaseInv, TypeOK
  <2>2. CASE dirty' \subseteq dirty
    BY <2>2
  <2> QED BY <2>1, <2>2
          DEF Next, Main, Bridge, Arrive, Bootstrap, Spawn, MainRecv, MainSend,
              MainSendFails, MainStop, BridgeStart, BridgeRecv, FloorOver, Coalesce,
              Skip, MatterExit, Subscribe, Report, Tick, vars, matterVars
<1> QED BY <1>1, TypeCorrect, PhaseCorrect, PTL DEF Spec, OnlyRealChanges

-----------------------------------------------------------------------------
(* The elements of a tail are those of the sequence, one place on.          *)
LEMMA TailLemma ==
  ASSUME NEW S, NEW q \in Seq(S), q # <<>>
  PROVE  /\ Head(q) = q[1]
         /\ Len(Tail(q)) = Len(q) - 1
         /\ \A i \in 1 .. Len(Tail(q)) : Tail(q)[i] = q[i + 1]
  OBVIOUS

(* Every snapshot on its way is masked, not only the one that is served.     *)
MaskInv ==
  /\ Masked(st.snapshot) /\ Masked(next) /\ Masked(cell)
  /\ \A i \in 1 .. Len(updates) : Masked(updates[i])

(* The fold masks, and nothing else makes a snapshot.                       *)
LEMMA MaskStep ==
  ASSUME TypeOK, MaskInv, [Next]_vars
  PROVE  MaskInv'
<1> USE DEF MaskInv
<1>0. updates \in Seq(PvSnapshot) /\ inbox \in Seq(DomainMsg) /\ st \in State
  BY MessagesAssumption DEF TypeOK
<1>1. CASE Bootstrap \/ MainRecv
  <2>1. /\ Masked(Apply(st, Head(inbox)).snapshot)
    BY <1>0, <1>1, ChannelLemma, ApplyLemma DEF Bootstrap, MainRecv
  <2> QED BY <1>1, <2>1 DEF Bootstrap, MainRecv, bridgeVars
<1>2. CASE MainSend
  <2>1. /\ Len(updates') = Len(updates) + 1
        /\ \A i \in 1 .. Len(updates') :
             updates'[i] = IF i <= Len(updates) THEN updates[i] ELSE st.snapshot
    BY <1>0, <1>2, StateSnapshot DEF MainSend
  <2> QED BY <1>0, <1>2, <2>1 DEF MainSend, bridgeVars
<1>3. CASE BridgeRecv \/ Coalesce
  <2>1. /\ updates # <<>> /\ next' = updates[1]
        /\ Len(updates') = Len(updates) - 1
        /\ \A i \in 1 .. Len(updates') : updates'[i] = updates[i + 1]
    BY <1>0, <1>3, TailLemma DEF BridgeRecv, Coalesce
  <2>2. 1 \in 1 .. Len(updates) /\ \A i \in 1 .. Len(updates') : i + 1 \in 1 .. Len(updates)
    BY <1>0, <2>1
  <2> QED BY <1>3, <2>1, <2>2 DEF BridgeRecv, Coalesce, mainVars
<1>4. CASE Spawn \/ \E result \in {"emitted", "failed"} : Publish(result)
  BY <1>4 DEF Spawn, Publish, mainVars
<1>5. CASE UNCHANGED <<st, updates, next, cell>>
  BY <1>5
<1> QED BY <1>1, <1>2, <1>3, <1>4, <1>5
        DEF Next, Main, Bridge, Arrive, MainSendFails, MainStop, BridgeStart,
            FloorOver, Skip, MatterExit, Subscribe, Report, Tick,
            vars, mainVars, bridgeVars, matterVars

(* Unless the link is online the handlers serve no instantaneous reading.    *)
THEOREM MaskCorrect == Spec => []MaskedServed
<1>1. Init => MaskInv
  BY DefaultType DEF Init, MaskInv, DefaultState
<1>2. MaskInv => MaskedServed
  BY DEF MaskInv, MaskedServed
<1> QED BY <1>1, <1>2, MaskStep, TypeCorrect, PTL DEF Spec

-----------------------------------------------------------------------------
HasTotal(s) == s.energy_total_mwh # None

(* A total, once in a snapshot, is in every later one: from the cell through *)
(* next and the channel up to what main has accumulated.                    *)
TotalInv ==
  /\ Live /\ HasTotal(cell) =>
       /\ HasTotal(st.snapshot)
       /\ bpc \in {"floor", "drain"} => HasTotal(next)
       /\ \A i \in 1 .. Len(updates) : HasTotal(updates[i])
  /\ bpc \in {"floor", "drain"} /\ HasTotal(next) =>
       /\ HasTotal(st.snapshot)
       /\ \A i \in 1 .. Len(updates) : HasTotal(updates[i])
  /\ \A i \in 1 .. Len(updates) : HasTotal(updates[i]) =>
       /\ HasTotal(st.snapshot)
       /\ \A j \in i .. Len(updates) : HasTotal(updates[j])

LEMMA TotalCorrect == Spec => []TotalInv
<1> USE DEF Live
<1>1. Init => TotalInv
  BY DEF Init, TotalInv, DefaultSnapshot, HasTotal
<1>2. TypeOK /\ PhaseInv /\ TotalInv /\ [Next]_vars => TotalInv'
  <2> SUFFICES ASSUME TypeOK, PhaseInv, TotalInv, [Next]_vars PROVE TotalInv'
    OBVIOUS
  <2> USE DEF TotalInv
  <2>0. updates \in Seq(PvSnapshot) /\ inbox \in Seq(DomainMsg) /\ st \in State
    BY MessagesAssumption DEF TypeOK
  <2>1. CASE Bootstrap \/ MainRecv
    <3>1. HasTotal(st.snapshot) => HasTotal(st'.snapshot)
      BY <2>0, <2>1, ChannelLemma, ApplyLemma DEF Bootstrap, MainRecv, HasTotal
    <3> QED BY <2>1, <3>1 DEF Bootstrap, MainRecv, bridgeVars
  <2>2. CASE MainSend
    <3>1. /\ Len(updates') = Len(updates) + 1
          /\ \A i \in 1 .. Len(updates') :
               updates'[i] = IF i <= Len(updates) THEN updates[i] ELSE st.snapshot
      BY <2>0, <2>2, StateSnapshot DEF MainSend
    <3>2. Len(updates) \in Nat
      BY <2>0
    <3>3. UNCHANGED <<st, bpc, cell, next>>
      BY <2>2 DEF MainSend, bridgeVars
    <3>4. \A i \in 1 .. Len(updates') : HasTotal(updates'[i]) => HasTotal(st.snapshot)
      BY <3>1, <3>2
    <3>5. ASSUME HasTotal(st.snapshot), NEW i \in 1 .. Len(updates'), HasTotal(updates'[i]),
                 NEW j \in i .. Len(updates')
          PROVE  HasTotal(updates'[j])
      BY <3>1, <3>2, <3>5
    <3>6. ASSUME HasTotal(st.snapshot), \A i \in 1 .. Len(updates) : HasTotal(updates[i])
          PROVE  \A i \in 1 .. Len(updates') : HasTotal(updates'[i])
      BY <3>1, <3>2, <3>6
    <3> QED BY <3>3, <3>4, <3>5, <3>6
  <2>3. CASE BridgeRecv \/ Coalesce
    <3>1. /\ updates # <<>> /\ next' = updates[1]
          /\ Len(updates') = Len(updates) - 1
          /\ \A i \in 1 .. Len(updates') : updates'[i] = updates[i + 1]
      BY <2>0, <2>3, TailLemma DEF BridgeRecv, Coalesce
    <3>2. /\ Len(updates) \in Nat /\ 1 \in 1 .. Len(updates)
          /\ \A i \in 1 .. Len(updates') : i + 1 \in 1 .. Len(updates)
      BY <2>0, <3>1
    <3>3. UNCHANGED <<st, cell>> /\ Live
      BY <2>3 DEF BridgeRecv, Coalesce, mainVars
    <3> QED BY <3>1, <3>2, <3>3
  <2>4. CASE \E result \in {"emitted", "failed"} : Publish(result)
    BY <2>4 DEF Publish, mainVars
  <2>5. CASE Spawn
    BY <2>5 DEF Spawn, PhaseInv
  <2>6. CASE UNCHANGED <<st, updates, next, cell>> /\ ~Spawn
    <3>1. (Live' => Live) /\ (bpc' \in {"floor", "drain"} => bpc \in {"floor", "drain"})
      BY <2>3, <2>6 DEF Next, Main, Bridge, Arrive, Bootstrap, MainRecv, MainSend,
         MainSendFails, MainStop, BridgeStart, BridgeRecv, FloorOver, Coalesce, Skip,
         Publish, MatterExit, Subscribe, Report, Tick, vars, bridgeVars
    <3> QED BY <2>6, <3>1
  <2> QED BY <2>1, <2>2, <2>3, <2>4, <2>5, <2>6
          DEF Next, Main, Bridge, Arrive, MainSendFails, MainStop, BridgeStart,
              FloorOver, Skip, MatterExit, Subscribe, Report, Tick,
              vars, mainVars, bridgeVars, matterVars
<1> QED BY <1>1, <1>2, TypeCorrect, PhaseCorrect, PTL DEF Spec

(* The handlers never go from a lifetime total back to null.                *)
THEOREM EnergyCorrect == Spec => EnergyRetained
<1>1. PhaseInv /\ TotalInv /\ [Next]_vars =>
        [Live /\ cell.energy_total_mwh # None => cell'.energy_total_mwh # None]_vars
  <2> SUFFICES ASSUME PhaseInv, TotalInv, [Next]_vars, Live, HasTotal(cell)
               PROVE  HasTotal(cell')
    BY DEF HasTotal
  <2>1. CASE \E result \in {"emitted", "failed"} : Publish(result)
    BY <2>1 DEF Publish, TotalInv
  <2>2. CASE Spawn
    BY <2>2 DEF Spawn, PhaseInv, Live
  <2>3. CASE UNCHANGED cell
    BY <2>3
  <2> QED BY <2>1, <2>2, <2>3
          DEF Next, Main, Bridge, Arrive, Bootstrap, MainRecv, MainSend, MainSendFails,
              MainStop, BridgeStart, BridgeRecv, FloorOver, Coalesce, Skip, MatterExit,
              Subscribe, Report, Tick, vars, bridgeVars
<1> QED BY <1>1, PhaseCorrect, TotalCorrect, PTL DEF Spec, EnergyRetained

(* The last CumulativeEnergyMeasured and a total being served.              *)
EventInv ==
  Live /\ event.result # "none" =>
    event.data.energy = cell.energy_total_mwh /\ HasTotal(cell)

(* No total is served that was not announced, or tried to be, by an event.  *)
THEOREM EventCorrect == Spec => []EventMirrorsAttribute
<1> USE DEF Live
<1>1. Init => EventInv
  BY DEF Init, EventInv
<1>2. PhaseInv /\ TotalInv /\ EventInv /\ [Next]_vars => EventInv'
  <2> SUFFICES ASSUME PhaseInv, TotalInv, EventInv, [Next]_vars PROVE EventInv'
    OBVIOUS
  <2>1. ASSUME NEW result \in {"emitted", "failed"}, Publish(result) PROVE EventInv'
    <3>1. prev = cell /\ cell' = next /\ (HasTotal(cell) => HasTotal(next))
      BY <2>1 DEF Publish, PhaseInv, TotalInv
    <3>2. CASE next.energy_total_mwh # prev.energy_total_mwh /\ HasTotal(next)
      BY <2>1, <3>1, <3>2 DEF Publish, Emit, EnergyMeasurement, EventInv, HasTotal
    <3>3. CASE ~ (next.energy_total_mwh # prev.energy_total_mwh /\ HasTotal(next))
      <4>1. event' = event
        BY <2>1, <3>3 DEF Publish, Emit, HasTotal
      <4>2. HasTotal(cell) => next.energy_total_mwh = cell.energy_total_mwh
        BY <3>1, <3>3
      <4> QED BY <2>1, <3>1, <4>1, <4>2 DEF Publish, EventInv
    <3> QED BY <3>2, <3>3
  <2>2. CASE Spawn
    BY <2>2 DEF Spawn, PhaseInv, EventInv
  <2>3. CASE UNCHANGED <<cell, event>> /\ ~Spawn
    <3>1. Live' => Live
      BY <2>3 DEF Next, Main, Bridge, Arrive, Bootstrap, MainRecv, MainSend,
         MainSendFails, MainStop, BridgeStart, BridgeRecv, FloorOver, Coalesce, Skip,
         Publish, MatterExit, Subscribe, Report, Tick, vars, bridgeVars
    <3> QED BY <2>3, <3>1 DEF EventInv
  <2> QED BY <2>1, <2>2, <2>3
          DEF Next, Main, Bridge, Arrive, Bootstrap, MainRecv, MainSend, MainSendFails,
              MainStop, BridgeStart, BridgeRecv, FloorOver, Coalesce, Skip, MatterExit,
              Subscribe, Report, Tick, vars, bridgeVars
<1>3. EventInv => EventMirrorsAttribute
  BY DEF EventInv, EventMirrorsAttribute
<1> QED BY <1>1, <1>2, <1>3, PhaseCorrect, TotalCorrect, PTL DEF Spec

-----------------------------------------------------------------------------
(* A Q-quality notification is never younger than the last report; the floor *)
(* waits for what is left of the spacing; past it, the spacing is over.     *)
FloorInv ==
  /\ elapsed <= quiet
  /\ bpc = "floor" => elapsed + timer >= SPACING
  /\ bpc = "drain" => elapsed = SPACING

(* EPM and EEM attributes are marked at most once in SPACING ticks.         *)
THEOREM QuietCorrect == Spec => QuietFloor
<1> USE BoundsAssumption
<1>1. Init => FloorInv
  BY DEF Init, FloorInv
<1>2. TypeOK /\ FloorInv /\ [Next]_vars => FloorInv'
  <2> SUFFICES ASSUME TypeOK, FloorInv, [Next]_vars PROVE FloorInv'
    OBVIOUS
  <2>0. elapsed \in 0 .. SPACING /\ timer \in 0 .. SPACING /\ quiet \in 0 .. SPACING
    BY DEF TypeOK
  <2> USE DEF FloorInv
  <2>1. CASE Tick
    BY <2>0, <2>1 DEF Tick, Later
  <2>2. CASE BridgeRecv
    BY <2>0, <2>2 DEF BridgeRecv
  <2>3. CASE FloorOver
    BY <2>0, <2>3 DEF FloorOver
  <2>4. CASE \E result \in {"emitted", "failed"} : Publish(result)
    BY <2>0, <2>4 DEF Publish
  <2>5. CASE UNCHANGED <<elapsed, timer, quiet>> /\ (bpc' = bpc \/ bpc' \notin {"floor", "drain"})
    BY <2>5
  <2> QED BY <2>1, <2>2, <2>3, <2>4, <2>5
          DEF Next, Main, Bridge, Arrive, Bootstrap, Spawn, MainRecv, MainSend,
              MainSendFails, MainStop, BridgeStart, Coalesce, Skip, MatterExit,
              Subscribe, Report, vars, bridgeVars
<1>3. TypeOK /\ PhaseInv /\ FloorInv /\ [Next]_vars =>
        [Live /\ Changed(cell, cell') \cap QuietAttrs # {} => quiet = SPACING]_vars
  <2> SUFFICES ASSUME TypeOK, PhaseInv, FloorInv, [Next]_vars, Live,
                      Changed(cell, cell') # {}
               PROVE  quiet = SPACING
    OBVIOUS
  <2>1. CASE \E result \in {"emitted", "failed"} : Publish(result)
    BY <2>1 DEF Publish, FloorInv, TypeOK
  <2>2. CASE Spawn
    BY <2>2 DEF Spawn, PhaseInv, Live
  <2>3. CASE cell' = cell
    BY <2>3 DEF Changed
  <2> QED BY <2>1, <2>2, <2>3
          DEF Next, Main, Bridge, Arrive, Bootstrap, MainRecv, MainSend, MainSendFails,
              MainStop, BridgeStart, BridgeRecv, FloorOver, Coalesce, Skip, MatterExit,
              Subscribe, Report, Tick, vars, bridgeVars
<1> QED BY <1>1, <1>2, <1>3, TypeCorrect, PhaseCorrect, PTL DEF Spec, QuietFloor
-----------------------------------------------------------------------------
(* Moving an element across a boundary of a concatenation.                  *)
LEMMA BacklogLemma ==
  ASSUME NEW q \in Seq(PvSnapshot), NEW h \in Seq(PvSnapshot), NEW x \in PvSnapshot
  PROVE  /\ h \o Append(q, x) \o <<>> = h \o q \o <<x>>
         /\ h \o q \o <<x>> = Append(h \o q \o <<>>, x)
         /\ Len(h \o q \o <<>>) = Len(h) + Len(q)
         /\ (h \o q \o <<x>>)[Len(h \o q \o <<x>>)] = x
         /\ q # <<>> => <<Head(q)>> \o Tail(q) \o h = q \o h
         /\ Tail(<<x>> \o q \o h) = q \o h
         /\ <<>> \o q = q
         /\ <<x>> \o <<>> \o h = <<x>> \o h
         /\ Tail(<<x>> \o h) = h /\ Head(<<x>> \o h) = x /\ <<x>> \o h # <<>>
         /\ Len(<<x>> \o q \o h) = 1 + Len(q) + Len(h)
<1>1. h \o Append(q, x) \o <<>> = h \o q \o <<x>>
  OBVIOUS
<1>2. h \o q \o <<x>> = Append(h \o q \o <<>>, x)
  OBVIOUS
<1>3. q # <<>> => <<Head(q)>> \o Tail(q) \o h = q \o h
  OBVIOUS
<1>4. Tail(<<x>> \o q \o h) = q \o h
  OBVIOUS
<1>5. Tail(<<x>> \o h) = h /\ Head(<<x>> \o h) = x /\ <<x>> \o h # <<>>
  OBVIOUS
<1>6. Len(h \o q \o <<>>) = Len(h) + Len(q)
  OBVIOUS
<1>7. (h \o q \o <<x>>)[Len(h \o q \o <<x>>)] = x
  OBVIOUS
<1>8. <<>> \o q = q /\ <<x>> \o <<>> \o h = <<x>> \o h
  OBVIOUS
<1>9. Len(<<x>> \o q \o h) = 1 + Len(q) + Len(h)
  OBVIOUS
<1> QED BY <1>1, <1>2, <1>3, <1>4, <1>5, <1>6, <1>7, <1>8, <1>9

(* What the bridge holds, and what main is about to send.                   *)
InHand == IF bpc \in {"floor", "drain"} THEN <<next>> ELSE <<>>
ToSend == IF mpc = "send" THEN <<st.snapshot>> ELSE <<>>

(* The backlog: in the bridge's hand, in the channel, about to be sent.     *)
LEMMA BacklogParts ==
  ASSUME TypeOK
  PROVE  /\ InHand \in Seq(PvSnapshot) /\ ToSend \in Seq(PvSnapshot)
         /\ Len(InHand) <= 1 /\ Len(ToSend) <= 1
         /\ bpc # "gone" => Backlog = InHand \o updates \o ToSend
<1>1. next \in PvSnapshot /\ st.snapshot \in PvSnapshot
  BY StateSnapshot DEF TypeOK
<1>2. InHand \in Seq(PvSnapshot) /\ Len(InHand) <= 1
  BY <1>1 DEF InHand
<1>3. ToSend \in Seq(PvSnapshot) /\ Len(ToSend) <= 1
  BY <1>1 DEF ToSend
<1>4. bpc # "gone" => Backlog = InHand \o updates \o ToSend
  BY DEF Backlog, InHand, ToSend
<1> QED BY <1>2, <1>3, <1>4

(* The pipeline implements the mirror: snapshots are served in the order in  *)
(* which they were accumulated, one is passed over only for a newer one, and *)
(* at most UPDATES_CAP + 2 of them wait.                                    *)
THEOREM PipelineMirrors == Spec => MirrorSafety
<1> USE BoundsAssumption
<1>1. Init => Mirror!Init
  BY DEF Init, Mirror!Init, Phase, Backlog
<1>2. TypeOK /\ TypeOK' /\ PhaseInv /\ [Next]_vars => [Mirror!Next]_(Mirror!vars)
  <2> SUFFICES ASSUME TypeOK, TypeOK', PhaseInv, [Next]_vars
               PROVE  Mirror!Next \/ UNCHANGED <<Phase, Backlog, cell>>
    BY DEF Mirror!vars
  <2>0. /\ updates \in Seq(PvSnapshot) /\ next \in PvSnapshot /\ st.snapshot \in PvSnapshot
        /\ st'.snapshot \in PvSnapshot
        /\ InHand \in Seq(PvSnapshot) /\ ToSend \in Seq(PvSnapshot)
        /\ Len(InHand) <= 1 /\ Len(ToSend) <= 1 /\ Len(updates) <= UPDATES_CAP
    BY StateSnapshot, BacklogParts DEF TypeOK
  <2>1. CASE Spawn
    <3>1. Phase = "seeding" /\ Phase' = "live" /\ cell' \in PvSnapshot
      BY <2>0, <2>1 DEF Spawn, Phase, PhaseInv
    <3>2. UNCHANGED Backlog
      BY <2>1 DEF Spawn, Backlog, PhaseInv
    <3> QED BY <3>1, <3>2 DEF Mirror!Next, Mirror!Seed
  <2>2. CASE MainRecv /\ bpc # "gone"
    <3>1. Phase = "live" /\ Phase' = Phase /\ cell' = cell
      BY <2>2 DEF MainRecv, Phase, PhaseInv, bridgeVars
    <3>2. Backlog = InHand \o updates \o <<>>
      BY <2>2 DEF MainRecv, Backlog, InHand
    <3>3. Backlog' = InHand \o updates \o <<st'.snapshot>>
      BY <2>2 DEF MainRecv, Backlog, InHand, bridgeVars
    <3>4. /\ Backlog' = Append(Backlog, st'.snapshot)
          /\ Backlog'[Len(Backlog')] = st'.snapshot
          /\ Len(Backlog) < UPDATES_CAP + 2
      BY <2>0, <3>2, <3>3, BacklogLemma
    <3>5. Backlog' # <<>>
      BY <2>0, <3>2, <3>3, <3>4
    <3> QED BY <3>1, <3>4, <3>5 DEF Mirror!Next, Mirror!Accept
  <2>3. CASE MainSend
    <3>1. UNCHANGED <<Phase, cell>>
      BY <2>3 DEF MainSend, Phase, bridgeVars
    <3>2. Backlog = InHand \o updates \o <<st.snapshot>>
      BY <2>3 DEF MainSend, Backlog, InHand
    <3>3. Backlog' = InHand \o Append(updates, st.snapshot) \o <<>>
      BY <2>3 DEF MainSend, Backlog, InHand, bridgeVars
    <3>4. InHand \o Append(updates, st.snapshot) \o <<>> = InHand \o updates \o <<st.snapshot>>
      BY <2>0, BacklogLemma
    <3> QED BY <3>1, <3>2, <3>3, <3>4
  <2>4. CASE BridgeRecv
    <3>1. UNCHANGED <<Phase, cell>>
      BY <2>4 DEF BridgeRecv, Phase
    <3>2. Backlog = updates \o ToSend
      BY <2>0, <2>4, BacklogLemma DEF BridgeRecv, Backlog, ToSend
    <3>3. Backlog' = <<Head(updates)>> \o Tail(updates) \o ToSend /\ updates # <<>>
      BY <2>4 DEF BridgeRecv, Backlog, ToSend, mainVars
    <3>4. <<Head(updates)>> \o Tail(updates) \o ToSend = updates \o ToSend
      BY <2>0, <3>3, BacklogLemma
    <3> QED BY <3>1, <3>2, <3>3, <3>4
  <2>5. CASE Coalesce
    <3>1. Phase = "live" /\ UNCHANGED <<Phase, cell>>
      BY <2>5 DEF Coalesce, Phase
    <3>2. Backlog = <<next>> \o updates \o ToSend /\ updates # <<>>
      BY <2>5 DEF Coalesce, Backlog, ToSend
    <3>3. Backlog' = <<Head(updates)>> \o Tail(updates) \o ToSend
      BY <2>5 DEF Coalesce, Backlog, ToSend, mainVars
    <3>4. /\ <<Head(updates)>> \o Tail(updates) \o ToSend = updates \o ToSend
          /\ Tail(<<next>> \o updates \o ToSend) = updates \o ToSend
      BY <2>0, <3>2, BacklogLemma
    <3>5. Len(<<next>> \o updates \o ToSend) > 1
      BY <2>0, <3>2, BacklogLemma
    <3> QED BY <3>1, <3>2, <3>3, <3>4, <3>5 DEF Mirror!Next, Mirror!Drain, Mirror!Supersede
  <2>6. CASE Skip \/ \E result \in {"emitted", "failed"} : Publish(result)
    <3>1. Phase = "live" /\ Phase' = Phase /\ cell' = next
      BY <2>6 DEF Skip, Publish, Phase, PhaseInv
    <3>2. Backlog = <<next>> \o <<>> \o ToSend
      BY <2>6 DEF Skip, Publish, Backlog, ToSend
    <3>3. Backlog' = <<>> \o <<>> \o ToSend
      BY <2>6 DEF Skip, Publish, Backlog, ToSend, mainVars
    <3>4. <<next>> \o <<>> \o ToSend = <<next>> \o ToSend /\ <<>> \o <<>> \o ToSend = ToSend
      BY <2>0
    <3>5. /\ Tail(<<next>> \o ToSend) = ToSend
          /\ Head(<<next>> \o ToSend) = next
          /\ <<next>> \o ToSend # <<>>
      BY <2>0, BacklogLemma
    <3> QED BY <3>1, <3>2, <3>3, <3>4, <3>5 DEF Mirror!Next, Mirror!Drain, Mirror!Publish
  <2>7. CASE MatterExit
    BY <2>7 DEF MatterExit, Phase, Backlog, Mirror!Next, Mirror!Stop
  <2>8. CASE Bootstrap
    BY <2>8 DEF Bootstrap, Phase, Backlog, bridgeVars
  <2>9. CASE (MainRecv /\ bpc = "gone") \/ MainSendFails \/ MainStop
    BY <2>9 DEF MainRecv, MainSendFails, MainStop, Phase, Backlog, bridgeVars
  <2>10. CASE BridgeStart \/ FloorOver
    BY <2>10 DEF BridgeStart, FloorOver, Phase, Backlog, mainVars
  <2>11. CASE UNCHANGED <<bpc, next, cell, mpc, st, updates>>
    BY <2>11 DEF Phase, Backlog
  <2> QED BY <2>1, <2>2, <2>3, <2>4, <2>5, <2>6, <2>7, <2>8, <2>9, <2>10, <2>11
          DEF Next, Main, Bridge, Arrive, Subscribe, Report, Tick,
              vars, mainVars, bridgeVars, matterVars
<1> QED BY <1>1, <1>2, TypeCorrect, PhaseCorrect, PTL DEF Spec, MirrorSafety
=============================================================================
