----------------------------- MODULE Lifecycle -----------------------------
(***************************************************************************)
(* How the pv-matter process lives and ends (src/main.rs): the bootstrap, the *)
(* steady select! loop, signals, the deaths of the ingest task and of the    *)
(* rs-matter thread, and the shutdown that joins the thread.  Messages are   *)
(* counted, their contents left to SnapshotPipeline.                        *)
(*                                                                         *)
(* A signal takes two steps: the handler records it, and tokio's driver      *)
(* broadcasts it to the listeners there are at that moment.  The handler is  *)
(* installed when shutdown_signal() is first polled; until then a signal     *)
(* kills the process.                                                       *)
(*                                                                         *)
(* Bounds: MaxMsgs messages, MaxSignals signals; MayStick says whether the   *)
(* rs-matter thread may get stuck.                                          *)
(***************************************************************************)
EXTENDS Integers

CONSTANTS
  INBOX_CAP,     \* MSG_CHANNEL_CAPACITY
  UPDATES_CAP,   \* capacity of the updates channel
  MaxMsgs, MaxSignals, MayStick

ASSUME LifecycleAssumption ==
  /\ INBOX_CAP \in Nat \ {0} /\ UPDATES_CAP \in Nat \ {0}
  /\ MaxMsgs \in Nat /\ MaxSignals \in Nat /\ MayStick \in BOOLEAN

VARIABLES
  main,        \* where main() is
  fatal,       \* main's flag
  exit,        \* how the process ended
  handler,     \* a signal handler is installed
  listening,   \* the shutdown_signal() of this select! has been polled
  recorded,    \* the handler has recorded a signal, the driver not seen it
  woken,       \* the listener of this select! has been notified
  ingest,      \* running, its sender dropped ("closed"), or its task ended
  inbox,       \* messages in msg_rx
  matter,      \* the rs-matter thread
  updates,     \* snapshots in the updates channel
  stopSent,    \* a () is in the shutdown channel
  arrived, signals, failed   \* observers: messages, signals, who failed

signalVars  == <<handler, listening, recorded, woken>>
ingestVars  == <<ingest, inbox, arrived>>
matterVars  == <<matter, updates, stopSent>>
vars == <<main, fatal, exit, signalVars, ingestVars, matterVars, signals, failed>>

Ending == {"stopping", "joining", "dropping"}   \* main, after its loop

-----------------------------------------------------------------------------
Init ==
  /\ main = "bootstrap" /\ fatal = FALSE /\ exit = "none"
  /\ handler = FALSE /\ listening = FALSE /\ recorded = FALSE /\ woken = FALSE
  /\ ingest = "running" /\ inbox = 0 /\ arrived = 0
  /\ matter = "unborn" /\ updates = 0 /\ stopSent = FALSE
  /\ signals = 0 /\ failed = {}

(* The process ends: nothing of it goes on.                                 *)
Exit(how) == main' = "exited" /\ exit' = how

(* select! drops the futures of the branches that lost.                     *)
DropListener == listening' = FALSE /\ woken' = FALSE /\ UNCHANGED <<handler, recorded>>

-----------------------------------------------------------------------------
(* Signals *)

Signal ==
  /\ main # "exited"
  /\ signals < MaxSignals
  /\ signals' = signals + 1
  /\ IF handler
     THEN recorded' = TRUE /\ UNCHANGED <<main, exit>>
     ELSE Exit("killed") /\ UNCHANGED recorded
  /\ UNCHANGED <<fatal, handler, listening, woken, ingestVars, matterVars, failed>>

(* Nobody listening, the broadcast is lost.                                 *)
Broadcast ==
  /\ main # "exited"
  /\ recorded
  /\ recorded' = FALSE
  /\ woken' = (woken \/ listening)
  /\ UNCHANGED <<main, fatal, exit, handler, listening, ingestVars, matterVars, signals, failed>>

-----------------------------------------------------------------------------
(* The ingest task *)

Arrive ==
  /\ main # "exited"
  /\ ingest = "running"
  /\ inbox < INBOX_CAP /\ arrived < MaxMsgs
  /\ inbox' = inbox + 1 /\ arrived' = arrived + 1
  /\ UNCHANGED <<main, fatal, exit, signalVars, ingest, matterVars, signals, failed>>

(* It fails: its end of the channel goes first, then its JoinHandle is ready. *)
IngestFails ==
  /\ main \notin {"dropping", "exited"}
  /\ ingest = "running"
  /\ ingest' = "closed" /\ failed' = failed \cup {"ingest"}
  /\ UNCHANGED <<main, fatal, exit, signalVars, inbox, arrived, matterVars, signals>>

IngestEnds ==
  /\ main # "exited"
  /\ ingest = "closed"
  /\ ingest' = "ended"
  /\ UNCHANGED <<main, fatal, exit, signalVars, inbox, arrived, matterVars, signals, failed>>

-----------------------------------------------------------------------------
(* The rs-matter thread *)

(* run() has set everything up and blocks on the joint future.              *)
MatterStart ==
  /\ main # "exited"
  /\ matter = "starting"
  /\ matter' = "running"
  /\ UNCHANGED <<main, fatal, exit, signalVars, ingestVars, updates, stopSent, signals, failed>>

(* An error or a panic: run() drops its ends of the channels.               *)
MatterFails ==
  /\ main # "exited"
  /\ matter \in {"starting", "running"}
  /\ matter' = "closed" /\ failed' = failed \cup {"matter"}
  /\ UNCHANGED <<main, fatal, exit, signalVars, ingestVars, updates, stopSent, signals>>

(* The bridge takes a snapshot.                                             *)
MatterTake ==
  /\ main # "exited"
  /\ matter = "running" /\ updates > 0
  /\ updates' = updates - 1
  /\ UNCHANGED <<main, fatal, exit, signalVars, ingestVars, matter, stopSent, signals, failed>>

(* The shutdown future resolves and run() returns.                          *)
MatterShutdown ==
  /\ main # "exited"
  /\ matter = "running" /\ stopSent
  /\ matter' = "closed"
  /\ UNCHANGED <<main, fatal, exit, signalVars, ingestVars, updates, stopSent, signals, failed>>

(* The thread ends, the exit guard the last thing it drops.                 *)
MatterEnds ==
  /\ main # "exited"
  /\ matter = "closed"
  /\ matter' = "ended"
  /\ UNCHANGED <<main, fatal, exit, signalVars, ingestVars, updates, stopSent, signals, failed>>

(* A handler never returns.                                                 *)
MatterSticks ==
  /\ MayStick
  /\ main # "exited"
  /\ matter = "running"
  /\ matter' = "stuck"
  /\ UNCHANGED <<main, fatal, exit, signalVars, ingestVars, updates, stopSent, signals, failed>>

-----------------------------------------------------------------------------
(* main: bootstrap *)

BootFold ==
  /\ main = "bootstrap"
  /\ inbox > 0
  /\ inbox' = inbox - 1
  /\ UNCHANGED <<main, fatal, exit, signalVars, ingest, arrived, matterVars, signals, failed>>

(* info, the deadline or the end of ingest: the thread is spawned.          *)
Spawn ==
  /\ main = "bootstrap"
  /\ main' = "select" /\ matter' = "starting"
  /\ UNCHANGED <<fatal, exit, signalVars, ingestVars, updates, stopSent, signals, failed>>

SpawnFails ==
  /\ main = "bootstrap"
  /\ failed' = failed \cup {"spawn"}
  /\ Exit("failed")
  /\ UNCHANGED <<fatal, signalVars, ingestVars, matterVars, signals>>

-----------------------------------------------------------------------------
(* main: the select! loop.  The branches are polled in random order, so any  *)
(* that is ready may win.                                                   *)

(* shutdown_signal() is polled and waits: a new listener, in every round.   *)
Listen ==
  /\ main = "select" /\ ~ listening
  /\ listening' = TRUE /\ handler' = TRUE
  /\ UNCHANGED <<main, fatal, exit, recorded, woken, ingestVars, matterVars, signals, failed>>

TakeSignal ==
  /\ main = "select" /\ woken
  /\ main' = "stopping"
  /\ DropListener
  /\ UNCHANGED <<fatal, exit, ingestVars, matterVars, signals, failed>>

(* Mutant: the guard is dropped on an orderly return only.                  *)
NoticeOrderlyExit ==
  /\ main = "select" /\ matter = "ended" /\ "matter" \notin failed
  /\ main' = "stopping" /\ fatal' = TRUE
  /\ DropListener
  /\ UNCHANGED <<exit, ingestVars, matterVars, signals, failed>>

(* matter_exited_rx.recv() resolves once the guard is gone.                 *)
NoticeMatterExit ==
  /\ main = "select" /\ matter = "ended"
  /\ main' = "stopping" /\ fatal' = TRUE
  /\ DropListener
  /\ UNCHANGED <<exit, ingestVars, matterVars, signals, failed>>

NoticeIngestEnd ==
  /\ main = "select" /\ ingest = "ended"
  /\ main' = "stopping" /\ fatal' = TRUE
  /\ DropListener
  /\ UNCHANGED <<exit, ingestVars, matterVars, signals, failed>>

(* A message is folded; next its snapshot is sent.                          *)
TakeMsg ==
  /\ main = "select" /\ inbox > 0
  /\ inbox' = inbox - 1
  /\ main' = "sending"
  /\ DropListener
  /\ UNCHANGED <<fatal, exit, ingest, arrived, matterVars, signals, failed>>

(* recv() gives None: straight into the next round.                         *)
TakeNothing ==
  /\ main = "select" /\ inbox = 0 /\ ingest # "running"
  /\ DropListener
  /\ UNCHANGED <<main, fatal, exit, ingestVars, matterVars, signals, failed>>

(* Mutant: the channel is unbounded.                                        *)
SendUnbounded ==
  /\ main = "sending"
  /\ matter \notin {"closed", "ended"}
  /\ updates' = updates + 1
  /\ main' = "select"
  /\ UNCHANGED <<fatal, exit, signalVars, ingestVars, matter, stopSent, signals, failed>>

(* The send waits, outside the select!, while the channel is full.          *)
Send ==
  /\ main = "sending"
  /\ matter \notin {"closed", "ended"} /\ updates < UPDATES_CAP
  /\ updates' = updates + 1
  /\ main' = "select"
  /\ UNCHANGED <<fatal, exit, signalVars, ingestVars, matter, stopSent, signals, failed>>

(* Mutant: the failure of a send ends the loop like a request to stop.      *)
SendFailsQuietly ==
  /\ main = "sending" /\ matter \in {"closed", "ended"}
  /\ main' = "stopping"
  /\ UNCHANGED <<fatal, exit, signalVars, ingestVars, matterVars, signals, failed>>

SendFails ==
  /\ main = "sending" /\ matter \in {"closed", "ended"}
  /\ main' = "stopping" /\ fatal' = TRUE
  /\ UNCHANGED <<exit, signalVars, ingestVars, matterVars, signals, failed>>

-----------------------------------------------------------------------------
(* main: shutdown *)

(* Mutant: the join is started and the thread never told to stop.           *)
StopSilently ==
  /\ main = "stopping"
  /\ main' = "joining"
  /\ UNCHANGED <<fatal, exit, signalVars, ingestVars, matterVars, signals, failed>>

(* shutdown_tx.send(()): there is room, or nobody there to be told.         *)
Stop ==
  /\ main = "stopping"
  /\ stopSent' = (matter \notin {"closed", "ended"})
  /\ main' = "joining"
  /\ UNCHANGED <<fatal, exit, signalVars, ingestVars, matter, updates, signals, failed>>

(* The join came back or five seconds have passed; ingest is aborted.       *)
Join ==
  /\ main = "joining"
  /\ main' = "dropping"
  /\ ingest' = "ended"
  /\ UNCHANGED <<fatal, exit, signalVars, inbox, arrived, matterVars, signals, failed>>

(* main() has returned; dropping its runtime waits for the blocking task     *)
(* that joins the thread.                                                   *)
Return ==
  /\ main = "dropping" /\ matter = "ended"
  /\ Exit(IF fatal THEN "failed" ELSE "ok")
  /\ UNCHANGED <<fatal, signalVars, ingestVars, matterVars, signals, failed>>

-----------------------------------------------------------------------------
Ingest == Arrive \/ IngestFails \/ IngestEnds
Matter == \/ MatterStart \/ MatterFails \/ MatterTake \/ MatterShutdown
          \/ MatterEnds \/ MatterSticks
Main == \/ BootFold \/ Spawn \/ SpawnFails
        \/ Listen \/ TakeSignal \/ NoticeMatterExit \/ NoticeIngestEnd
        \/ TakeMsg \/ TakeNothing \/ Send \/ SendFails
        \/ Stop \/ Join \/ Return

Next == Signal \/ Broadcast \/ Ingest \/ Matter \/ Main

Spec == Init /\ [][Next]_vars

(* Both threads are scheduled, the driver runs, timers expire.  Arrivals,    *)
(* signals and failures are up to the environment.                          *)
Fairness ==
  /\ WF_vars(Broadcast) /\ WF_vars(IngestEnds)
  /\ WF_vars(MatterStart) /\ WF_vars(MatterTake) /\ WF_vars(MatterShutdown)
  /\ WF_vars(MatterEnds)
  /\ WF_vars(BootFold) /\ WF_vars(Spawn) /\ WF_vars(Listen) /\ WF_vars(TakeSignal)
  /\ WF_vars(NoticeMatterExit) /\ WF_vars(NoticeIngestEnd) /\ WF_vars(TakeMsg)
  /\ WF_vars(Send) /\ WF_vars(SendFails)
  /\ WF_vars(Stop) /\ WF_vars(Join) /\ WF_vars(Return)

LiveSpec == Spec /\ Fairness

-----------------------------------------------------------------------------
(* Properties *)

FlagsOK ==
  /\ main \in {"bootstrap", "select", "sending", "exited"} \cup Ending
  /\ fatal \in BOOLEAN /\ exit \in {"none", "ok", "failed", "killed"}
  /\ handler \in BOOLEAN /\ listening \in BOOLEAN
  /\ recorded \in BOOLEAN /\ woken \in BOOLEAN
  /\ ingest \in {"running", "closed", "ended"}
  /\ matter \in {"unborn", "starting", "running", "stuck", "closed", "ended"}
  /\ stopSent \in BOOLEAN

WithinBounds ==
  /\ inbox \in 0 .. INBOX_CAP /\ arrived \in 0 .. MaxMsgs
  /\ updates \in 0 .. UPDATES_CAP /\ signals \in 0 .. MaxSignals

(* Type invariant, with the capacities of the two channels.                 *)
TypeOK == FlagsOK /\ WithinBounds /\ failed \subseteq {"ingest", "matter", "spawn"}

(* The exit code tells what happened, and the service manager acts on it:    *)
(* zero only if somebody asked the process to stop, non-zero only if a part  *)
(* of it failed.                                                            *)
ExitTold ==
  /\ exit = "ok" => signals > 0
  /\ exit = "failed" => failed # {}

(* The process has ended, or cannot end: what ShutdownEnds is about.         *)
Gone == main = "exited" \/ matter = "stuck"

(* A signal that finds main parked in its select! with nothing else to do    *)
(* shuts the process down.                                                  *)
Parked == main = "select" /\ listening /\ inbox = 0 /\ arrived = MaxMsgs

IdleSignalStops == Parked /\ recorded ~> Gone

(* README.md:51: Ctrl-C / SIGTERM shut down cleanly - whatever the process   *)
(* is doing at that moment.                                                 *)
SignalStops == signals > 0 ~> main = "exited"

(* main.rs:201-202: joining the thread has a timeout, so that a stuck thread *)
(* cannot hang shutdown.                                                    *)
ShutdownEnds == main \in Ending ~> main = "exited"
=============================================================================
