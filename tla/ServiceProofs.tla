--------------------------- MODULE ServiceProofs ---------------------------
(* Theorems on Service and its two parts, for every capacity, any number of  *)
(* messages and signals, every base, cap and healthy time, and every policy  *)
(* that doubles up to the cap.                                              *)
EXTENDS Service, TLAPS

-----------------------------------------------------------------------------
(* The process: Lifecycle                                                   *)

(* Beside TypeOK: only parts that there are can fail.                       *)
FailedOK == failed \subseteq {"ingest", "matter", "spawn"}

(* A channel is never more than full.                                       *)
LEMMA BoundsStep == WithinBounds /\ [Next]_vars => WithinBounds'
<1> USE LifecycleAssumption DEF WithinBounds
<1> SUFFICES ASSUME WithinBounds, [Next]_vars PROVE WithinBounds'
  OBVIOUS
<1> USE DEF ingestVars, matterVars
<1>1. CASE Signal
  BY <1>1 DEF Signal
<1>2. CASE Arrive
  BY <1>2 DEF Arrive
<1>3. CASE MatterTake
  BY <1>3 DEF MatterTake
<1>4. CASE BootFold \/ TakeMsg
  BY <1>4 DEF BootFold, TakeMsg
<1>5. CASE Send
  BY <1>5 DEF Send
<1>6. CASE UNCHANGED <<inbox, arrived, updates, signals>>
  BY <1>6
<1>7. ASSUME ~ UNCHANGED <<inbox, arrived, updates, signals>>
      PROVE  Signal \/ Arrive \/ MatterTake \/ BootFold \/ TakeMsg \/ Send
  <2> USE <1>7
  <2>1. ~ UNCHANGED vars /\ ~ Broadcast
    BY DEF vars, Broadcast
  <2>2. Ingest => Arrive
    BY DEF Ingest, IngestFails, IngestEnds
  <2>3. Matter => MatterTake
    BY DEF Matter, MatterStart, MatterFails, MatterShutdown, MatterEnds, MatterSticks
  <2>4. Main => BootFold \/ TakeMsg \/ Send
    BY DEF Main, Spawn, SpawnFails, Listen, TakeSignal, NoticeMatterExit,
           NoticeIngestEnd, TakeNothing, SendFails, Stop, Join, Return
  <2> QED BY <2>1, <2>2, <2>3, <2>4 DEF Next
<1> QED BY <1>1, <1>2, <1>3, <1>4, <1>5, <1>6, <1>7

(* Every step of a thread leaves the flags in their types.                  *)
LEMMA FlagsStep == FlagsOK /\ [Next]_vars => FlagsOK'
<1> USE DEF FlagsOK, Ending
<1> SUFFICES ASSUME FlagsOK, [Next]_vars PROVE FlagsOK'
  OBVIOUS
<1> USE DEF signalVars, ingestVars, matterVars, Exit, DropListener
<1>1. CASE Signal
  BY <1>1 DEF Signal
<1>2. CASE Broadcast
  BY <1>2 DEF Broadcast
<1>3. CASE Arrive
  BY <1>3 DEF Arrive
<1>4. CASE IngestFails
  BY <1>4 DEF IngestFails
<1>5. CASE IngestEnds
  BY <1>5 DEF IngestEnds
<1>6. CASE MatterStart
  BY <1>6 DEF MatterStart
<1>7. CASE MatterFails
  BY <1>7 DEF MatterFails
<1>8. CASE MatterTake
  BY <1>8 DEF MatterTake
<1>9. CASE MatterShutdown
  BY <1>9 DEF MatterShutdown
<1>10. CASE MatterEnds
  BY <1>10 DEF MatterEnds
<1>11. CASE MatterSticks
  BY <1>11 DEF MatterSticks
<1>12. CASE BootFold
  BY <1>12 DEF BootFold
<1>13. CASE Spawn
  BY <1>13 DEF Spawn
<1>14. CASE SpawnFails
  BY <1>14 DEF SpawnFails
<1>15. CASE Listen
  BY <1>15 DEF Listen
<1>16. CASE TakeSignal
  BY <1>16 DEF TakeSignal
<1>17. CASE NoticeMatterExit
  BY <1>17 DEF NoticeMatterExit
<1>18. CASE NoticeIngestEnd
  BY <1>18 DEF NoticeIngestEnd
<1>19. CASE TakeMsg
  BY <1>19 DEF TakeMsg
<1>20. CASE TakeNothing
  BY <1>20 DEF TakeNothing
<1>21. CASE Send
  BY <1>21 DEF Send
<1>22. CASE SendFails
  BY <1>22 DEF SendFails
<1>23. CASE Stop
  BY <1>23 DEF Stop
<1>24. CASE Join
  BY <1>24 DEF Join
<1>25. CASE Return
  BY <1>25 DEF Return
<1>26. CASE UNCHANGED vars
  BY <1>26 DEF vars
<1> QED BY <1>1, <1>2, <1>3, <1>4, <1>5, <1>6, <1>7, <1>8, <1>9, <1>10, <1>11,
           <1>12, <1>13, <1>14, <1>15, <1>16, <1>17, <1>18, <1>19, <1>20, <1>21,
           <1>22, <1>23, <1>24, <1>25, <1>26
        DEF Next, Ingest, Matter, Main

(* What has failed is a part of the process.                                *)
LEMMA FailedStep == FailedOK /\ [Next]_vars => FailedOK'
<1> USE DEF FailedOK
<1> SUFFICES ASSUME FailedOK, [Next]_vars PROVE FailedOK'
  OBVIOUS
<1>1. failed' \in {failed, failed \cup {"ingest"}, failed \cup {"matter"},
                  failed \cup {"spawn"}}
  BY DEF Next, vars, Signal, Broadcast, Ingest, Arrive, IngestFails, IngestEnds,
         Matter, MatterStart, MatterFails, MatterTake, MatterShutdown, MatterEnds,
         MatterSticks, Main, BootFold, Spawn, SpawnFails, Listen, TakeSignal,
         NoticeMatterExit, NoticeIngestEnd, TakeMsg, TakeNothing, Send, SendFails,
         Stop, Join, Return
<1> QED BY <1>1

(* The type invariant is inductive by itself.                               *)
LEMMA TypeStep == TypeOK /\ [Next]_vars => TypeOK'
  BY BoundsStep, FlagsStep, FailedStep DEF TypeOK, FailedOK

(* main starts within its bounds, with every flag down.                     *)
LEMMA TypeInit == Init => TypeOK
<1>1. Init => FlagsOK
  BY DEF Init, FlagsOK
<1>2. Init => WithinBounds
  BY LifecycleAssumption DEF Init, WithinBounds
<1> QED BY <1>1, <1>2 DEF Init, TypeOK

(* Why an exit code can be believed.  main leaves its loop because of a      *)
(* signal or sets fatal because of a failure; the thread ends before main    *)
(* leaves its loop only by failing, for only main tells it to stop.  And     *)
(* nothing ends the process without an exit code.                           *)
CauseInv ==
  /\ woken \/ recorded => signals > 0
  /\ fatal => failed # {}
  /\ main \in Ending => fatal \/ signals > 0
  /\ stopSent => main \in {"joining", "dropping", "exited"}
  /\ matter \in {"closed", "ended"} => "matter" \in failed \/ stopSent
  /\ ingest # "running" => "ingest" \in failed \/ main \in {"dropping", "exited"}
  /\ main = "exited" => exit # "none"
  /\ ExitTold

(* Every end of the process has a cause.                                    *)
LEMMA CauseStep == TypeOK /\ CauseInv /\ [Next]_vars => CauseInv'
<1> USE DEF CauseInv, ExitTold, Ending
<1> SUFFICES ASSUME TypeOK, CauseInv, [Next]_vars PROVE CauseInv'
  OBVIOUS
<1> USE DEF TypeOK, WithinBounds, signalVars, ingestVars, matterVars, Exit, DropListener
<1>1. CASE Signal
  BY <1>1 DEF Signal
<1>2. CASE Broadcast
  BY <1>2 DEF Broadcast
<1>3. CASE Arrive
  BY <1>3 DEF Arrive
<1>4. CASE IngestFails
  BY <1>4 DEF IngestFails
<1>5. CASE IngestEnds
  BY <1>5 DEF IngestEnds
<1>6. CASE MatterStart
  BY <1>6 DEF MatterStart
<1>7. CASE MatterFails
  BY <1>7 DEF MatterFails
<1>8. CASE MatterTake
  BY <1>8 DEF MatterTake
<1>9. CASE MatterShutdown
  BY <1>9 DEF MatterShutdown
<1>10. CASE MatterEnds
  BY <1>10 DEF MatterEnds
<1>11. CASE MatterSticks
  BY <1>11 DEF MatterSticks
<1>12. CASE BootFold
  BY <1>12 DEF BootFold
<1>13. CASE Spawn
  BY <1>13 DEF Spawn
<1>14. CASE SpawnFails
  BY <1>14 DEF SpawnFails
<1>15. CASE Listen
  BY <1>15 DEF Listen
<1>16. CASE TakeSignal
  BY <1>16 DEF TakeSignal
<1>17. CASE NoticeMatterExit
  BY <1>17 DEF NoticeMatterExit
<1>18. CASE NoticeIngestEnd
  BY <1>18 DEF NoticeIngestEnd
<1>19. CASE TakeMsg
  BY <1>19 DEF TakeMsg
<1>20. CASE TakeNothing
  BY <1>20 DEF TakeNothing
<1>21. CASE Send
  BY <1>21 DEF Send
<1>22. CASE SendFails
  BY <1>22 DEF SendFails
<1>23. CASE Stop
  BY <1>23 DEF Stop
<1>24. CASE Join
  BY <1>24 DEF Join
<1>25. CASE Return
  BY <1>25 DEF Return
<1>26. CASE UNCHANGED vars
  BY <1>26 DEF vars
<1> QED BY <1>1, <1>2, <1>3, <1>4, <1>5, <1>6, <1>7, <1>8, <1>9, <1>10, <1>11,
           <1>12, <1>13, <1>14, <1>15, <1>16, <1>17, <1>18, <1>19, <1>20, <1>21,
           <1>22, <1>23, <1>24, <1>25, <1>26
        DEF Next, Ingest, Matter, Main

(* All that holds of a process from its start to its end.                   *)
ProcessInv == TypeOK /\ CauseInv

(* It holds when main starts, in each step, and so as long as it runs.       *)
LEMMA ProcessInit == Init => ProcessInv
<1>1. Init => CauseInv
  BY DEF Init, CauseInv, ExitTold, Ending
<1> QED BY <1>1, TypeInit DEF ProcessInv

(* Each step of main, of ingest or of the thread keeps all of it.           *)
LEMMA ProcessStep == ProcessInv /\ [Next]_vars => ProcessInv'
  BY TypeStep, CauseStep DEF ProcessInv

(* Hence of one process, however it is scheduled.                           *)
LEMMA ProcessCorrect == Spec => []ProcessInv
  BY ProcessInit, ProcessStep, PTL DEF Spec

(* All the flags have their types and the channels keep their capacities.    *)
THEOREM LifecycleTypeCorrect == Spec => []TypeOK
  BY ProcessCorrect, PTL DEF ProcessInv

(* The service manager can believe the exit code: zero only after a signal,  *)
(* non-zero only after a failure.                                           *)
THEOREM ExitToldCorrect == Spec => []ExitTold
  BY ProcessCorrect, PTL DEF ProcessInv, CauseInv

-----------------------------------------------------------------------------
(* The unit: Supervisor                                                     *)

(* Its safety part, which it keeps in Service.                              *)
UnitSafety == UnitInit /\ [][UnitNext]_unitVars

(* Type correctness, in two parts: the numbers and the rest.                *)
Numbers ==
  /\ count_file \in 0 .. CountCap /\ count \in 0 .. CountCap
  /\ delay \in BASE_SECS .. MAX_SECS /\ i \in 1 .. CountCap
  /\ timer \in 0 .. MAX_SECS /\ steps \in 0 .. MaxSteps
  /\ run \in 0 .. HEALTHY_SECS /\ streak \in 0 .. CountCap /\ waited \in 0 .. MAX_SECS

Age == age \in (-HEALTHY_SECS .. HEALTHY_SECS) \cup {None}

Names ==
  /\ phase \in {"stopped", "script", "double", "sleep", "count", "start", "exec", "running"}
  /\ wanted \in BOOLEAN

(* The counts and clocks of the wrapper keep their ranges.                  *)
LEMMA UnitTypeKept == UnitSafety => []UnitTypeOK
<1> USE SupervisorAssumption, PolicyAssumption
<1>1. UnitInit => Numbers /\ Age /\ Names
  <2>1. UnitInit => Numbers
    BY DEF UnitInit, Numbers
  <2>2. UnitInit => Age /\ Names
    BY DEF UnitInit, Age, Names
  <2> QED BY <2>1, <2>2
<1>2. Numbers /\ [UnitNext]_unitVars => Numbers'
  <2> SUFFICES ASSUME Numbers, [UnitNext]_unitVars PROVE Numbers'
    OBVIOUS
  <2> USE DEF Numbers, scriptVars, observers, AtMost
  <2>1. CASE Start
    BY <2>1 DEF Start
  <2>2. CASE StopUnit
    BY <2>2 DEF StopUnit
  <2>3. ASSUME NEW fails \in BOOLEAN, Finish(fails) PROVE Numbers'
    BY <2>3 DEF Finish
  <2>4. CASE PowerLoss
    BY <2>4 DEF PowerLoss
  <2>5. CASE ReadState
    BY <2>5 DEF ReadState
  <2>6. CASE Double
    BY <2>6 DEF Double, Doubling
  <2>7. CASE Sleep
    BY <2>7 DEF Sleep
  <2>8. CASE Wake
    BY <2>8 DEF Wake
  <2>9. CASE WriteCount
    BY <2>9 DEF WriteCount
  <2>10. CASE WriteStart
    BY <2>10 DEF WriteStart
  <2>11. CASE Exec
    BY <2>11 DEF Exec
  <2>12. CASE Tick
    BY <2>12 DEF Tick
  <2>13. CASE SetClock
    BY <2>13 DEF SetClock
  <2>14. CASE UNCHANGED unitVars
    BY <2>14 DEF unitVars
  <2> QED BY <2>1, <2>2, <2>3, <2>4, <2>5, <2>6, <2>7, <2>8, <2>9, <2>10, <2>11,
             <2>12, <2>13, <2>14 DEF UnitNext, Script
<1>3. Age /\ [UnitNext]_unitVars => Age'
  <2> SUFFICES ASSUME Age, [UnitNext]_unitVars PROVE Age'
    OBVIOUS
  <2>1. CASE Tick
    BY <2>1 DEF Age, Tick, AtMost
  <2>2. CASE SetClock
    BY <2>2 DEF Age, SetClock
  <2>3. CASE WriteStart
    BY <2>3 DEF Age, WriteStart
  <2>4. CASE PowerLoss
    BY <2>4 DEF Age, PowerLoss
  <2>5. CASE UNCHANGED age
    BY <2>5 DEF Age
  <2> QED BY <2>1, <2>2, <2>3, <2>4, <2>5 DEF UnitNext, Script, Start, StopUnit, Finish,
             ReadState, Double, Sleep, Wake, WriteCount, Exec, unitVars
<1>4. Names /\ [UnitNext]_unitVars => Names'
  <2> SUFFICES ASSUME Names, [UnitNext]_unitVars PROVE Names'
    OBVIOUS
  <2> USE DEF Names
  <2>1. ASSUME NEW fails \in BOOLEAN, Finish(fails) PROVE Names'
    BY <2>1 DEF Finish
  <2>2. CASE Start \/ StopUnit \/ PowerLoss
    BY <2>2 DEF Start, StopUnit, PowerLoss, observers
  <2>3. CASE Script
    BY <2>3 DEF Script, ReadState, Double, Sleep, Wake, WriteCount, WriteStart,
           Exec, observers
  <2>4. CASE Tick \/ SetClock \/ UNCHANGED unitVars
    BY <2>4 DEF Tick, SetClock, unitVars, observers
  <2> QED BY <2>1, <2>2, <2>3, <2>4 DEF UnitNext
<1>5. UnitTypeOK <=> Numbers /\ Age /\ Names
  BY DEF UnitTypeOK, Numbers, Age, Names
<1> QED BY <1>1, <1>2, <1>3, <1>4, <1>5, PTL DEF UnitSafety

(* The same of the unit by itself, whose process ends anyhow.                *)
THEOREM SupervisorTypeCorrect == UnitSpec => []UnitTypeOK
  BY UnitTypeKept, PTL DEF UnitSafety, UnitSpec

-----------------------------------------------------------------------------
(* While the clock is left alone, the last start is at least as old as it    *)
(* has run, and the file of a start that has run is not lost.               *)
Aged == steps = 0 => /\ run > 0 => age # None
                     /\ age # None => age >= run

(* A start that has been healthy has had its count reset.                   *)
ResetInv == /\ Aged
            /\ steps = 0 /\ phase \in {"double", "sleep"} => run < HEALTHY_SECS

(* A start that ran for HEALTHY_SECS is not followed by a wait, for every    *)
(* order of failures, stops and power losses, as long as nobody sets the     *)
(* clock.                                                                   *)
LEMMA HealthyResetsKept == UnitSafety => []HealthyResets
<1> USE SupervisorAssumption
<1>1. UnitInit => ResetInv
  BY DEF UnitInit, ResetInv, Aged
<1>2. UnitTypeOK /\ ResetInv /\ [UnitNext]_unitVars => ResetInv'
  <2> SUFFICES ASSUME UnitTypeOK, ResetInv, [UnitNext]_unitVars PROVE ResetInv'
    OBVIOUS
  <2>0. Numbers /\ Age
    BY DEF UnitTypeOK, Numbers, Age
  <2> USE DEF ResetInv, Aged, scriptVars, observers
  <2>1. CASE PowerLoss
    BY <2>0, <2>1 DEF PowerLoss, Numbers, Age
  <2>2. CASE ReadState
    BY <2>0, <2>2 DEF ReadState, Numbers, Age
  <2>3. CASE WriteStart
    BY <2>3 DEF WriteStart
  <2>4. CASE Tick
    BY <2>0, <2>4 DEF Tick, AtMost, Numbers, Age
  <2>5. CASE SetClock
    BY <2>0, <2>5 DEF SetClock, Numbers
  <2>6. CASE Start \/ StopUnit \/ \E fails \in BOOLEAN : Finish(fails)
    BY <2>6 DEF Start, StopUnit, Finish
  <2>7. CASE Double \/ Sleep \/ Wake \/ WriteCount \/ Exec
    BY <2>7 DEF Double, Sleep, Wake, WriteCount, Exec
  <2>8. CASE UNCHANGED unitVars
    BY <2>8 DEF unitVars
  <2> QED BY <2>1, <2>2, <2>3, <2>4, <2>5, <2>6, <2>7, <2>8 DEF UnitNext, Script
<1>3. ResetInv => HealthyResets
  BY DEF ResetInv, HealthyResets
<1> QED BY <1>1, <1>2, <1>3, UnitTypeKept, PTL DEF UnitSafety

(* The same of the unit by itself.                                          *)
THEOREM HealthyResetsCorrect == UnitSpec => []HealthyResets
  BY HealthyResetsKept, PTL DEF UnitSafety, UnitSpec

-----------------------------------------------------------------------------
(* What each phase of a restart has already secured of the policy's wait.    *)
(* Counting too many failures (a stop, a power loss) only lengthens it.      *)
Counted == AtMost(streak + 1, CountCap)

BackoffInv ==
  steps = 0 =>
    /\ phase = "script" => /\ streak <= count_file
                           /\ age # None /\ age >= HEALTHY_SECS => streak = 0
    /\ phase = "double" => streak <= count /\ i <= count /\ delay = Wait[i]
    /\ phase = "sleep"  => streak <= count /\ waited + timer >= Wait[streak]
    /\ phase = "count"  => streak <= count /\ waited >= Wait[streak]
    /\ phase = "start"  => Counted <= count_file /\ waited >= Wait[streak]
    /\ phase = "exec"   => /\ Counted <= count_file /\ waited >= Wait[streak]
                           /\ age = run
    /\ phase = "running" => Counted <= count_file /\ age = run

(* The policy is monotonic and never asks for more than the cap.            *)
LEMMA PolicyLemma ==
  /\ \A n \in 0 .. CountCap : Wait[n] \in 0 .. MAX_SECS
  /\ \A m, n \in 0 .. CountCap : m <= n => Wait[m] <= Wait[n]
  /\ Wait[0] = 0 /\ Wait[1] = BASE_SECS
  /\ \A n \in 1 .. CountCap - 1 : Wait[n + 1] = AtMost(2 * Wait[n], MAX_SECS)
  BY PolicyAssumption

(* Each statement of the script hands the next one what it needs.           *)
LEMMA BackoffInductive ==
  UnitTypeOK /\ BackoffInv /\ [UnitNext]_unitVars => BackoffInv'
<1> USE SupervisorAssumption
<1> SUFFICES ASSUME UnitTypeOK, BackoffInv, [UnitNext]_unitVars PROVE BackoffInv'
  OBVIOUS
<1>0. Numbers /\ Age
  BY DEF UnitTypeOK, Numbers, Age
<1> USE <1>0 DEF Numbers, scriptVars, observers, Counted, AtMost
<1>1. CASE Start
  BY <1>1 DEF Start, BackoffInv
<1>2. CASE StopUnit \/ PowerLoss
  BY <1>2 DEF StopUnit, PowerLoss, BackoffInv
<1>3. ASSUME NEW fails \in BOOLEAN, Finish(fails) PROVE BackoffInv'
  BY <1>3 DEF Finish, BackoffInv
<1>4. CASE ReadState
  BY <1>4, PolicyLemma DEF ReadState, BackoffInv, Age
<1>5. CASE Double
  <2>1. steps = 0 => delay' = Wait[i + 1]
    BY <1>5, PolicyLemma DEF Double, Doubling, BackoffInv
  <2> QED BY <1>5, <2>1 DEF Double, Doubling, BackoffInv
<1>6. CASE Sleep
  <2>1. steps = 0 => delay >= Wait[streak]
    <3> SUFFICES ASSUME steps = 0 PROVE delay >= Wait[streak]
      OBVIOUS
    <3>1. CASE i < count
      BY <1>6, <3>1, PolicyLemma DEF Sleep
    <3>2. CASE i = count
      BY <1>6, <3>2, PolicyLemma DEF Sleep, BackoffInv
    <3> QED BY <1>6, <3>1, <3>2 DEF Sleep, BackoffInv
  <2> QED BY <1>6, <2>1, PolicyLemma DEF Sleep, BackoffInv
<1>7. CASE Wake
  BY <1>7, PolicyLemma DEF Wake, BackoffInv
<1>8. CASE WriteCount
  BY <1>8 DEF WriteCount, BackoffInv
<1>9. CASE WriteStart
  BY <1>9 DEF WriteStart, BackoffInv
<1>10. CASE Exec
  BY <1>10 DEF Exec, BackoffInv
<1>11. CASE Tick
  BY <1>11, PolicyLemma DEF Tick, BackoffInv, Age
<1>12. CASE SetClock
  BY <1>12 DEF SetClock, BackoffInv
<1>13. CASE UNCHANGED unitVars
  BY <1>13 DEF unitVars, BackoffInv
<1> QED BY <1>1, <1>2, <1>3, <1>4, <1>5, <1>6, <1>7, <1>8, <1>9, <1>10, <1>11,
           <1>12, <1>13 DEF UnitNext, Script

(* After n short-lived failures in a row the daemon is not started before    *)
(* the policy's nth wait has passed since the last of them.                 *)
LEMMA BackoffSafe == UnitSafety => BackoffKept
<1>1. UnitInit => BackoffInv
  BY DEF UnitInit, BackoffInv
<1>2. BackoffInv /\ [UnitNext]_unitVars =>
        [steps = 0 /\ phase # "running" /\ phase' = "running" => waited >= Wait[streak]]_unitVars
  BY DEF BackoffInv, UnitNext, Script, Start, StopUnit, Finish, PowerLoss, ReadState,
         Double, Sleep, Wake, WriteCount, WriteStart, Exec, Tick, SetClock, unitVars
<1> QED BY <1>1, <1>2, BackoffInductive, UnitTypeKept, PTL DEF UnitSafety, BackoffKept

(* The same of the unit by itself.                                          *)
THEOREM BackoffCorrect == UnitSpec => BackoffKept
  BY BackoffSafe, PTL DEF UnitSafety, UnitSpec

-----------------------------------------------------------------------------
(* The two together: Service                                                *)

(* What a step of the service is for the process: a step of its own, its     *)
(* start, or its end from outside.                                          *)
LEMMA ServiceStepsProcess ==
  [ServiceNext]_serviceVars => [Next]_vars \/ Init' \/ Killed
<1> SUFFICES ASSUME [ServiceNext]_serviceVars PROVE [Next]_vars \/ Init' \/ Killed
  OBVIOUS
<1>1. CASE Alive(Next)
  BY <1>1 DEF Alive
<1>2. CASE Launch
  BY <1>2 DEF Launch, Init
<1>3. CASE AskToStop
  BY <1>3 DEF AskToStop, Next
<1>4. CASE Kill
  BY <1>4 DEF Kill
<1>5. CASE Loss
  BY <1>5 DEF Loss, processVars
<1>6. CASE StopWrapper \/ Ended \/ Boot \/ Wrapper \/ Time
  BY <1>6 DEF StopWrapper, Ended, Boot, Wrapper, Time, processVars
<1>7. CASE UNCHANGED serviceVars
  BY <1>7 DEF serviceVars, processVars
<1> QED BY <1>1, <1>2, <1>3, <1>4, <1>5, <1>6, <1>7 DEF ServiceNext

(* A process that is killed leaves nothing that its exit code would deny.    *)
LEMMA ProcessKilled == ProcessInv /\ Killed => ProcessInv'
<1> SUFFICES ASSUME ProcessInv, Killed PROVE ProcessInv'
  OBVIOUS
<1> USE DEF Killed, Exit, signalVars, ingestVars, matterVars
<1>1. TypeOK'
  BY DEF ProcessInv, TypeOK, FlagsOK, WithinBounds
<1>2. CauseInv'
  BY DEF ProcessInv, CauseInv, ExitTold, Ending
<1> QED BY <1>1, <1>2 DEF ProcessInv

(* Every process of the service keeps what a process by itself keeps.        *)
LEMMA EveryProcess == ServiceSpec => []ProcessInv
<1>1. ServiceInit => ProcessInv
  BY ProcessInit DEF ServiceInit
<1>2. ProcessInv /\ [ServiceNext]_serviceVars => ProcessInv'
  BY ServiceStepsProcess, ProcessInit, ProcessStep, ProcessKilled, PTL
<1> QED BY <1>1, <1>2, PTL DEF ServiceSpec

(* Whatever process is started, none claims to have ended well that nobody    *)
(* told to stop, and none to have failed of which nothing failed; and in     *)
(* none does a channel overflow.                                            *)
THEOREM EveryProcessCorrect == ServiceSpec => [](TypeOK /\ ExitTold)
  BY EveryProcess, PTL DEF ProcessInv, CauseInv

(* The steps of the unit: with exit codes that a process produces, and stops *)
(* that take their time, it takes the steps that Supervisor allows.          *)
LEMMA ServiceStepsUnit == [ServiceNext]_serviceVars => [UnitNext]_unitVars
<1> SUFFICES ASSUME [ServiceNext]_serviceVars PROVE [UnitNext]_unitVars
  OBVIOUS
<1>1. CASE Alive(Next) \/ AskToStop \/ Kill \/ UNCHANGED serviceVars
  BY <1>1 DEF Alive, AskToStop, Kill, serviceVars
<1>2. CASE Launch
  BY <1>2 DEF Launch, UnitNext, Script
<1>3. CASE Ended
  <2>1. StopUnit \/ \E fails \in BOOLEAN : Finish(fails)
    BY <1>3 DEF Ended
  <2> QED BY <2>1 DEF UnitNext
<1>4. CASE StopWrapper \/ Loss \/ Boot \/ Time
  BY <1>4 DEF StopWrapper, Loss, Boot, Time, UnitNext
<1>5. CASE Wrapper
  BY <1>5 DEF Wrapper, UnitNext, Script
<1> QED BY <1>1, <1>2, <1>3, <1>4, <1>5 DEF ServiceNext

(* The service implements Supervisor, its liveness apart.                   *)
THEOREM ServiceRefinesUnit == ServiceSpec => UnitInit /\ [][UnitNext]_unitVars
<1>1. ServiceInit => UnitInit
  BY DEF ServiceInit
<1> QED BY <1>1, ServiceStepsUnit, PTL DEF ServiceSpec

(* So the real exits keep the backoff and the reset of a healthy run.        *)
THEOREM ServiceBackoffCorrect == ServiceSpec => BackoffKept /\ []HealthyResets
  BY ServiceRefinesUnit, BackoffSafe, HealthyResetsKept, PTL DEF UnitSafety

(* A stop that is under way has sent its signal; and a process that runs     *)
(* under the unit, or is not yet reaped, was killed only by a signal.        *)
ToldInv ==
  /\ asked => phase = "running" /\ signals > 0
  /\ phase = "running" /\ exit = "killed" => signals > 0

(* A step of the process takes no signal back, and kills it only with one.   *)
LEMMA SignalsKept ==
  ASSUME WithinBounds, [Next]_vars
  PROVE  /\ signals > 0 => signals' > 0
         /\ exit' = "killed" => exit = "killed" \/ signals' > 0
<1> USE LifecycleAssumption DEF WithinBounds
<1>1. CASE Signal
  BY <1>1 DEF Signal
<1>2. CASE SpawnFails \/ Return
  BY <1>2 DEF SpawnFails, Return, Exit
<1>3. CASE UNCHANGED <<signals, exit>>
  BY <1>3
<1>4. ASSUME ~ UNCHANGED <<signals, exit>> PROVE Signal \/ SpawnFails \/ Return
  <2> USE <1>4
  <2>1. ~ UNCHANGED vars /\ ~ Broadcast
    BY DEF vars, Broadcast
  <2>2. ~ Ingest
    BY DEF Ingest, Arrive, IngestFails, IngestEnds
  <2>3. ~ Matter
    BY DEF Matter, MatterStart, MatterFails, MatterTake, MatterShutdown, MatterEnds,
           MatterSticks
  <2>4. Main => SpawnFails \/ Return
    BY DEF Main, BootFold, Spawn, Listen, TakeSignal, NoticeMatterExit,
           NoticeIngestEnd, TakeMsg, TakeNothing, Send, SendFails, Stop, Join
  <2> QED BY <2>1, <2>2, <2>3, <2>4 DEF Next
<1> QED BY <1>1, <1>2, <1>3, <1>4

(* No step of the service, the power loss included, undoes ToldInv.          *)
LEMMA ToldStep == WithinBounds /\ ToldInv /\ [ServiceNext]_serviceVars => ToldInv'
<1> SUFFICES ASSUME WithinBounds, ToldInv, [ServiceNext]_serviceVars PROVE ToldInv'
  OBVIOUS
<1> USE DEF ToldInv
<1>1. CASE Alive(Next)
  <2>1. /\ signals > 0 => signals' > 0
        /\ exit' = "killed" => exit = "killed" \/ signals' > 0
    BY <1>1, SignalsKept DEF Alive
  <2>2. phase' = phase /\ asked' = asked
    BY <1>1 DEF Alive, unitVars
  <2> QED BY <2>1, <2>2
<1>2. CASE Launch
  BY <1>2 DEF Launch, Exec
<1>3. CASE AskToStop
  BY <1>3, LifecycleAssumption DEF AskToStop, Signal, Running, unitVars, WithinBounds
<1>4. CASE Kill
  BY <1>4 DEF Kill, Killed, unitVars
<1>5. CASE Ended \/ StopWrapper \/ Loss
  BY <1>5 DEF Ended, StopWrapper, Loss, Finish, StopUnit, PowerLoss
<1>6. CASE Boot \/ Wrapper \/ Time
  BY <1>6 DEF Boot, Wrapper, Time, Start, ReadState, Double, Sleep, Wake, WriteCount,
              WriteStart, Tick, SetClock, processVars, vars
<1>7. CASE UNCHANGED serviceVars
  BY <1>7 DEF serviceVars, processVars, vars, unitVars
<1> QED BY <1>1, <1>2, <1>3, <1>4, <1>5, <1>6, <1>7 DEF ServiceNext

(* The unit starts a process again only after a failure that nobody asked    *)
(* for, and goes down with a process only if that was told to, or by a power *)
(* loss.                                                                    *)
THEOREM DownOnlyIfToldCorrect == ServiceSpec => DownOnlyIfTold
<1> DEFINE Told == phase = "running" =>
                     /\ phase' = "script" => failed # {} /\ ~ asked
                     /\ phase' = "stopped" => signals > 0 \/ Loss
<1>1. ServiceInit => ToldInv
  BY DEF ServiceInit, UnitInit, ToldInv
<1>2. ProcessInv => WithinBounds
  BY DEF ProcessInv, TypeOK
<1>3. ProcessInv /\ ToldInv /\ [ServiceNext]_serviceVars => [Told]_serviceVars
  <2> SUFFICES ASSUME ProcessInv, ToldInv, ServiceNext, phase = "running" PROVE Told
    OBVIOUS
  <2>1. CASE Alive(Next) \/ AskToStop \/ Kill \/ Time
    BY <2>1 DEF Alive, AskToStop, Kill, Time, Tick, SetClock, unitVars
  <2>2. CASE Launch \/ StopWrapper \/ Boot \/ Wrapper
    BY <2>2 DEF Launch, Exec, StopWrapper, Boot, Start, Wrapper, ReadState, Double,
                Sleep, Wake, WriteCount, WriteStart
  <2>3. CASE Ended
    <3>1. CASE asked
      BY <2>3, <3>1 DEF Ended, StopUnit, ToldInv
    <3>2. CASE ~ asked /\ exit = "failed"
      BY <2>3, <3>2 DEF Ended, Finish, ProcessInv, CauseInv, ExitTold
    <3>3. CASE ~ asked /\ exit # "failed"
      <4>1. exit \in {"ok", "killed"}
        BY <2>3, <3>3 DEF Ended, ProcessInv, CauseInv, TypeOK, FlagsOK
      <4> QED BY <2>3, <3>3, <4>1 DEF Ended, Finish, ProcessInv, CauseInv, ExitTold, ToldInv
    <3> QED BY <3>1, <3>2, <3>3
  <2>4. CASE Loss
    BY <2>4 DEF Loss, PowerLoss
  <2> QED BY <2>1, <2>2, <2>3, <2>4 DEF ServiceNext
<1> QED BY <1>1, <1>2, <1>3, EveryProcess, ToldStep, PTL DEF ServiceSpec, DownOnlyIfTold
=============================================================================
