------------------------------ MODULE Supervisor ------------------------------
(***************************************************************************)
(* Who restarts pv-matter, and when: the unit (packaging/pv-matter.service)  *)
(* and its ExecStart wrapper (packaging/pv-matter-run), with the two files   *)
(* that the wrapper keeps in the state directory.                           *)
(*                                                                         *)
(* Time is relative and in seconds.  `age` stands for $((now - last)): the   *)
(* wrapper tells no two ages of HEALTHY_SECS or more apart, so it saturates  *)
(* there; a file that is missing or empty reads as 0, which for last-start   *)
(* is None.  The statements of the script take no time.                     *)
(*                                                                         *)
(* Bounds: CountCap, from which on the delay is MAX_SECS whatever the count; *)
(* MaxSteps, how often the wall clock is set.                               *)
(***************************************************************************)
EXTENDS Integers

CONSTANTS
  None,
  BASE_SECS, MAX_SECS, HEALTHY_SECS,
  CountCap, MaxSteps,
  Wait           \* the policy: the wait before a start, after n failures

ASSUME SupervisorAssumption ==
  /\ None \notin Int
  /\ BASE_SECS \in Nat \ {0} /\ MAX_SECS \in Nat /\ BASE_SECS <= MAX_SECS
  /\ HEALTHY_SECS \in Nat \ {0}
  /\ CountCap \in Nat \ {0} /\ MaxSteps \in Nat

AtMost(x, cap) == IF x < cap THEN x ELSE cap

(* 15s, 30s, 60s, ... capped: each failure doubles the wait.                *)
ASSUME PolicyAssumption ==
  /\ Wait \in [0 .. CountCap -> 0 .. MAX_SECS]
  /\ Wait[0] = 0 /\ Wait[1] = BASE_SECS /\ Wait[CountCap] = MAX_SECS
  /\ \A n \in 1 .. CountCap - 1 : Wait[n + 1] = AtMost(2 * Wait[n], MAX_SECS)
  /\ \A m, n \in 0 .. CountCap : m <= n => Wait[m] <= Wait[n]

VARIABLES
  phase,         \* stopped, the script's statements, or running
  count_file,    \* .restart-count
  age,           \* seconds since .last-start by the wall clock
  count, delay, i,  \* the script's variables
  timer,         \* what is left of its sleep
  steps,         \* how often the clock was set
  wanted,        \* started, and neither stopped nor ended by itself since
  run,           \* observer: seconds that the last start has run
  streak,        \* observer: restarts in a row after short-lived failures
  waited         \* observer: seconds since the last run ended

scriptVars == <<count, delay, i, timer>>
observers  == <<run, streak, waited>>
unitVars == <<phase, wanted, count_file, age, scriptVars, steps, observers>>

UnitInit ==
  /\ phase = "stopped" /\ wanted = FALSE
  /\ count_file = 0 /\ age = None
  /\ count = 0 /\ delay = BASE_SECS /\ i = 1 /\ timer = 0
  /\ steps = 0
  /\ run = 0 /\ streak = 0 /\ waited = 0

-----------------------------------------------------------------------------
(* The service manager *)

(* systemctl start, or boot.                                                *)
Start ==
  /\ phase = "stopped"
  /\ phase' = "script" /\ wanted' = TRUE
  /\ streak' = 0
  /\ UNCHANGED <<count_file, age, scriptVars, steps, run, waited>>

(* systemctl stop: SIGTERM reaches the script, or the daemon it became.      *)
StopUnit ==
  /\ phase # "stopped"
  /\ phase' = "stopped" /\ wanted' = FALSE
  /\ waited' = IF phase = "running" THEN 0 ELSE waited
  /\ UNCHANGED <<count_file, age, scriptVars, steps, run, streak>>

(* Mutant: a start limit is left on.                                        *)
FinishWithinLimit(fails) ==
  /\ phase = "running"
  /\ phase' = IF fails /\ streak < CountCap THEN "script" ELSE "stopped"
  /\ wanted' = fails
  /\ streak' = IF fails /\ run < HEALTHY_SECS
               THEN AtMost(streak + 1, CountCap) ELSE 0
  /\ waited' = 0
  /\ UNCHANGED <<count_file, age, scriptVars, steps, run>>

(* The daemon exits.  Restart=on-failure, RestartSec=0, no start limit: any  *)
(* non-zero code, a refused configuration's too, starts the wrapper again at *)
(* once.                                                                    *)
Finish(fails) ==
  /\ phase = "running"
  /\ phase' = IF fails THEN "script" ELSE "stopped"
  /\ wanted' = fails
  /\ streak' = IF fails /\ run < HEALTHY_SECS
               THEN AtMost(streak + 1, CountCap) ELSE 0
  /\ waited' = 0
  /\ UNCHANGED <<count_file, age, scriptVars, steps, run>>

(* The power fails; a file written less than a second ago may come back      *)
(* empty.                                                                   *)
PowerLoss ==
  /\ phase' = "stopped" /\ wanted' = FALSE
  /\ count_file' \in IF phase = "start" \/ age = 0 THEN {count_file, 0} ELSE {count_file}
  /\ age' \in IF age = 0 THEN {age, None} ELSE {age}
  /\ UNCHANGED <<scriptVars, steps, observers>>

-----------------------------------------------------------------------------
(* The wrapper script *)

(* Mutant: HEALTHY_SECS never resets the count.                             *)
ReadStateNoReset ==
  /\ phase = "script"
  /\ count' = count_file
  /\ phase' = IF count' > 0 THEN "double" ELSE "count"
  /\ delay' = BASE_SECS /\ i' = 1
  /\ UNCHANGED <<wanted, count_file, age, timer, steps, observers>>

(* Read both files; a start that was healthy long ago resets the count.     *)
ReadState ==
  /\ phase = "script"
  /\ count' = IF age # None /\ age >= HEALTHY_SECS THEN 0 ELSE count_file
  /\ phase' = IF count' > 0 THEN "double" ELSE "count"
  /\ delay' = BASE_SECS /\ i' = 1
  /\ UNCHANGED <<wanted, count_file, age, timer, steps, observers>>

(* Mutant: the delay grows by the base.                                     *)
DoublingFromBase ==
  /\ i < count /\ delay < MAX_SECS
  /\ delay' = AtMost(BASE_SECS + delay, MAX_SECS)
  /\ i' = i + 1

(* Mutant: the round that passes the cap breaks without applying it.        *)
DoublingUncapped ==
  /\ i < count /\ delay < MAX_SECS
  /\ delay' = 2 * delay
  /\ i' = i + 1

(* One round of the loop; `break` when the cap is reached.                  *)
Doubling ==
  /\ i < count /\ delay < MAX_SECS
  /\ delay' = AtMost(2 * delay, MAX_SECS)
  /\ i' = i + 1

Double ==
  /\ phase = "double"
  /\ Doubling
  /\ UNCHANGED <<wanted, phase, count_file, age, count, timer, steps, observers>>

Sleep ==
  /\ phase = "double"
  /\ ~ (i < count /\ delay < MAX_SECS)
  /\ timer' = delay
  /\ phase' = "sleep"
  /\ UNCHANGED <<wanted, count_file, age, count, delay, i, steps, observers>>

Wake ==
  /\ phase = "sleep" /\ timer = 0
  /\ phase' = "count"
  /\ UNCHANGED <<wanted, count_file, age, scriptVars, steps, observers>>

(* echo $((count + 1)) >COUNT_FILE                                          *)
WriteCount ==
  /\ phase = "count"
  /\ count_file' = AtMost(count + 1, CountCap)
  /\ phase' = "start"
  /\ UNCHANGED <<wanted, age, scriptVars, steps, observers>>

(* date +%s >START_FILE, after the sleep.                                   *)
WriteStart ==
  /\ phase = "start"
  /\ age' = 0
  /\ run' = 0
  /\ phase' = "exec"
  /\ UNCHANGED <<wanted, count_file, scriptVars, steps, streak, waited>>

Exec ==
  /\ phase = "exec"
  /\ phase' = "running"
  /\ UNCHANGED <<wanted, count_file, age, scriptVars, steps, observers>>

-----------------------------------------------------------------------------
Tick ==
  /\ phase \in {"stopped", "sleep", "running"}
  /\ age' = IF age = None THEN None ELSE AtMost(age + 1, HEALTHY_SECS)
  /\ timer' = IF phase = "sleep" /\ timer > 0 THEN timer - 1 ELSE timer
  /\ run' = IF phase = "running" THEN AtMost(run + 1, HEALTHY_SECS) ELSE run
  /\ waited' = IF phase = "running" THEN waited ELSE AtMost(waited + 1, MAX_SECS)
  /\ UNCHANGED <<wanted, phase, count_file, count, delay, i, steps, streak>>

(* The wall clock is set, back or forward.                                  *)
SetClock ==
  /\ steps < MaxSteps
  /\ steps' = steps + 1
  /\ age # None
  /\ age' \in -HEALTHY_SECS .. HEALTHY_SECS
  /\ UNCHANGED <<wanted, phase, count_file, scriptVars, observers>>

Script == ReadState \/ Double \/ Sleep \/ Wake \/ WriteCount \/ WriteStart \/ Exec

UnitNext == \/ Start \/ StopUnit \/ PowerLoss
        \/ \E fails \in BOOLEAN : Finish(fails)
        \/ Script
        \/ Tick \/ SetClock

(* The shell runs on and time passes; nobody need stop or start anything.   *)
UnitSpec == UnitInit /\ [][UnitNext]_unitVars /\ WF_unitVars(Script) /\ WF_unitVars(Tick)

-----------------------------------------------------------------------------
(* Properties *)

(* Type invariant: counts and clocks keep their ranges.                     *)
UnitTypeOK ==
  /\ phase \in {"stopped", "script", "double", "sleep", "count", "start", "exec", "running"}
  /\ wanted \in BOOLEAN
  /\ count_file \in 0 .. CountCap /\ count \in 0 .. CountCap
  /\ age \in (-HEALTHY_SECS .. HEALTHY_SECS) \cup {None}
  /\ delay \in BASE_SECS .. MAX_SECS /\ i \in 1 .. CountCap
  /\ timer \in 0 .. MAX_SECS
  /\ steps \in 0 .. MaxSteps
  /\ run \in 0 .. HEALTHY_SECS
  /\ streak \in 0 .. CountCap
  /\ waited \in 0 .. MAX_SECS

(* However the daemon fails, is stopped in any statement of the script, or   *)
(* the power goes: a restart after n short-lived failures in a row comes no  *)
(* earlier than the policy's nth wait after the failure.                    *)
BackoffKept ==
  [][steps = 0 /\ phase # "running" /\ phase' = "running" => waited >= Wait[streak]]_unitVars

(* Unless the clock was set, a start that ran for HEALTHY_SECS is not        *)
(* followed by a wait, whatever was stopped, lost or powered off since.      *)
HealthyResets == steps = 0 /\ phase = "sleep" => run < HEALTHY_SECS

(* No backoff is the last: what was started runs again unless it is stopped,  *)
(* however often it has failed and whatever the clock says.                 *)
Restarted == wanted ~> phase = "running" \/ ~ wanted
=============================================================================
