------------------------------ MODULE Service ------------------------------
(***************************************************************************)
(* The pv-matter service as the machine runs it: one Lifecycle after the     *)
(* other, each started by the wrapper and ended in its own way, and the unit *)
(* (packaging/pv-matter.service) that acts on how it ended.  Supervisor      *)
(* takes the exit code of a run to be any; here the process produces it.     *)
(*                                                                         *)
(* main, matter and the rest are those of the last process that was started; *)
(* its threads move only while the phase is "running".                      *)
(*                                                                         *)
(* Bounds: those of Lifecycle for each process, those of Supervisor.         *)
(***************************************************************************)
EXTENDS Lifecycle, Supervisor

VARIABLE asked           \* a stop is under way: systemd has sent its SIGTERM

processVars == vars
serviceVars == <<processVars, unitVars, asked>>

ServiceInit == Init /\ UnitInit /\ asked = FALSE

-----------------------------------------------------------------------------
(* The process *)

Running == phase = "running" /\ main # "exited"

(* A step of its threads, its environment or its driver.                    *)
Alive(A) == Running /\ A /\ UNCHANGED <<unitVars, asked>>

(* exec: main from its beginning, nothing installed, nothing in a channel.   *)
Launch ==
  /\ Exec
  /\ main' = "bootstrap" /\ fatal' = FALSE /\ exit' = "none"
  /\ handler' = FALSE /\ listening' = FALSE /\ recorded' = FALSE /\ woken' = FALSE
  /\ ingest' = "running" /\ inbox' = 0 /\ arrived' = 0
  /\ matter' = "unborn" /\ updates' = 0 /\ stopSent' = FALSE
  /\ signals' = 0 /\ failed' = {}
  /\ UNCHANGED asked

(* It is ended from outside, with no time to do anything.                   *)
Killed == Exit("killed") /\ UNCHANGED <<fatal, signalVars, ingestVars, matterVars, signals, failed>>

-----------------------------------------------------------------------------
(* The unit *)

(* systemctl stop: SIGTERM first...                                         *)
AskToStop ==
  /\ Running /\ ~ asked
  /\ Signal
  /\ asked' = TRUE
  /\ UNCHANGED unitVars

(* ...and SIGKILL when the stop takes too long.                             *)
Kill ==
  /\ Running /\ asked
  /\ Killed
  /\ UNCHANGED <<unitVars, asked>>

(* A stop that finds the wrapper has nobody else to wait for.                *)
StopWrapper == phase # "running" /\ StopUnit /\ UNCHANGED <<processVars, asked>>

(* Mutant: the unit's ExecStart is the binary itself.                       *)
EndedIntoBinary ==
  /\ phase = "running" /\ main = "exited"
  /\ asked' = FALSE
  /\ IF ~ asked /\ exit = "failed"
     THEN /\ phase' = "exec"
          /\ UNCHANGED <<wanted, count_file, age, scriptVars, steps, observers>>
     ELSE StopUnit
  /\ UNCHANGED processVars

(* After a stop that was asked for, however it ended, the unit stays down.   *)
(* By itself a process fails with a code, or is killed by a SIGTERM, which   *)
(* counts as clean: Restart=on-failure.                                     *)
Ended ==
  /\ phase = "running" /\ main = "exited"
  /\ asked' = FALSE
  /\ IF asked THEN StopUnit ELSE Finish(exit = "failed")
  /\ UNCHANGED processVars

(* The power fails under whatever there is.                                 *)
Loss ==
  /\ PowerLoss
  /\ asked' = FALSE
  /\ IF Running THEN Killed ELSE UNCHANGED processVars

Wrapper == /\ ReadState \/ Double \/ Sleep \/ Wake \/ WriteCount \/ WriteStart
           /\ UNCHANGED <<processVars, asked>>

Boot == Start /\ UNCHANGED <<processVars, asked>>
Time == (Tick \/ SetClock) /\ UNCHANGED <<processVars, asked>>

ServiceNext ==
  \/ Alive(Next) \/ Launch
  \/ AskToStop \/ Kill \/ StopWrapper \/ Ended
  \/ Loss \/ Boot \/ Wrapper \/ Time

(* The fairness of the parts; systemd reaps what has ended and loses        *)
(* patience with what does not.                                             *)
ServiceFairness ==
  /\ WF_serviceVars(Alive(Broadcast)) /\ WF_serviceVars(Alive(IngestEnds))
  /\ WF_serviceVars(Alive(MatterStart)) /\ WF_serviceVars(Alive(MatterTake))
  /\ WF_serviceVars(Alive(MatterShutdown)) /\ WF_serviceVars(Alive(MatterEnds))
  /\ WF_serviceVars(Alive(BootFold)) /\ WF_serviceVars(Alive(Spawn))
  /\ WF_serviceVars(Alive(Listen)) /\ WF_serviceVars(Alive(TakeSignal))
  /\ WF_serviceVars(Alive(NoticeMatterExit)) /\ WF_serviceVars(Alive(NoticeIngestEnd))
  /\ WF_serviceVars(Alive(TakeMsg)) /\ WF_serviceVars(Alive(Send))
  /\ WF_serviceVars(Alive(SendFails)) /\ WF_serviceVars(Alive(Stop))
  /\ WF_serviceVars(Alive(Join)) /\ WF_serviceVars(Alive(Return))
  /\ WF_serviceVars(Launch) /\ WF_serviceVars(Wrapper) /\ WF_serviceVars(Time)
  /\ WF_serviceVars(Ended) /\ WF_serviceVars(Kill)

ServiceSpec == ServiceInit /\ [][ServiceNext]_serviceVars /\ ServiceFairness

-----------------------------------------------------------------------------
(* Properties *)

(* With the exit codes produced, and stops that take their time, the unit    *)
(* still is what Supervisor says.                                           *)
SupervisorSpec == UnitSpec

(* A new process is started only after a part of the last one has failed and *)
(* nobody was stopping it; and the service goes down only if its process was *)
(* sent a signal, or with the power: no failure is taken for a request.      *)
DownOnlyIfTold ==
  [][phase = "running" =>
       /\ phase' = "script" => failed # {} /\ ~ asked
       /\ phase' = "stopped" => signals > 0 \/ Loss]_serviceVars

(* architecture.md:225-226: a dead Matter thread - error, return or panic - is *)
(* noticed, likewise a dead ingest task, and ends the process, whatever main  *)
(* is doing; so that a process without failures runs in the end - unless the *)
(* service is stopped, or the thread is stuck, which ShutdownEnds is about.  *)
SelfHealing ==
  failed # {} ~> (Running /\ failed = {}) \/ ~ wanted \/ matter = "stuck"
=============================================================================
