# A TLA+ verification of pv-matter

pv-matter reads a solar inverter's state from MQTT and serves it as a Matter
"Solar Power" device. This directory models the parts of it that keep state,
checks them with TLC on small instances, and proves the safety properties that
matter most with TLAPS for every value of the constants. Paths below are
relative to the root of the source (`src/main.rs` is the composition root).

## 1. The system

```
 publishers          tokio runtime (main + ingest task)          rs-matter thread
 ----------   +-----------------------------------------+   +----------------------+
  retained    |  ingest::run          main              |   |  run_bridge          |
  info     -->|  Router --inbox(64)-> State::apply      |   |   prev, last_report  |
  instantan. >|  (device lock)        updates(16) ------+-->|   cell <-- handlers  |--> subscribed
  status   -->|                       shutdown(1) ------+-->|   notify / emit      |    controller
              |                       matter_exited <---+---|  exit guard          |
              +-----------------------------------------+   +----------------------+
```

| component | state it keeps | operations | what is hard |
|---|---|---|---|
| domain (`src/domain.rs`) | `PvSnapshot`, `State` | `apply_pack`, `set_status`, `enforce_link_mask`, `source_status`, `apply` | readings of a pack replace each other as a whole, the total is retained, everything instantaneous is masked unless the link is online |
| ingest and Router (`src/ingest.rs`) | connection, subscriptions, `device_id` | poll, subscribe on ConnAck, route, `tx.send` | reconnects without a session, retained replay and its order, a second device, back-pressure into the event loop |
| forwarding loop (`src/main.rs`) | `State`, `fatal` | bootstrap, fold, `updates_tx.send` | the send waits while the bridge waits |
| bridge (`src/matter/bridge.rs`) | `prev`, `last_report`, the shared cell | receive, one-second floor, coalesce, diff, notify, emit | staleness, lost or duplicated reports, the Q-quality floor |
| attribute handlers (`epm`, `eem`, `power_source`, `temperature`) | none (read the cell) | attribute reads | each attribute is a function of the snapshot; a change of that function's value must be notified |
| lifecycle (`src/main.rs`, `matter/mod.rs`) | where main, the task and the thread are | spawn, `select!`, signals, exit guard, join, drop of the runtime | signals at the wrong moment, failures in every phase, threads that hang |
| senml parser (`src/senml.rs`) | base time and unit while it reads | `parse_pack`, `scale_decimal` | base fields anywhere in the array, refused literals, decimal shifts, overflow |
| restart wrapper (`packaging/pv-matter-run`, `.service`) | restart count and last start on disk | read, double, sleep, write, exec | what counts as a failure and as healthy; files lost with the power; a wall clock that is set |
| composed device (`matter/node.rs`, `desc_tags.rs`, `power_topology.rs`) | none (a constant tree and chain) | list reads, whole and by element | the tree and the chain must agree; lists are read while the snapshot changes |
| `config.rs` | constants | reads the environment once | - |

What makes each correct:

* **domain** - no reading is visible unless the link is online; the total, once
  known, is never forgotten.
* **ingest** - one inverter only; after any number of lost connections the
  state is what the broker retains.
* **forwarding loop and bridge** - nothing newest is ever lost; what is skipped
  is only what something newer has replaced; reports are sent for exactly the
  attributes that moved, no more often than once a second for the Q-quality
  ones; the event carries the total being served; in the end the controller has
  what the inverter last said.
* **lifecycle** - a part that dies takes the process down with a non-zero code;
  a requested stop gives zero.
* **senml parser** - a literal is scaled exactly or dropped; what the two loops
  over a payload do is what a pack means; a total is dated as its payload says,
  or not at all.
* **restart wrapper** - failures wait longer and longer, a healthy run resets
  that, and no wait is the last.
* **composed device** - everything that is declared is answered, and a list has
  all its rows however it is read (those of Accuracy may be computed from
  different ratings).
* **all together** - whenever nothing is under way a controller reads what the
  broker retains and a subscriber has been told of it, and whatever breaks, it
  ends up with that.

The hazards of the code, each at its line, are listed in `PROJECT.json` with the
properties that would catch them.

## 2. The modules

| module | models | state and actions |
|---|---|---|
| `PvDomain` | `domain.rs` | operators only. A reading is an integer or `None`; a record carries what `scaled` or the text parsers return for it |
| `MatterAttributes` | the handlers' reads and the bridge's change test | operators only: `Served(s)` is what reads answer under snapshot `s`, `Changed(prev, next)` what the bridge notifies |
| `SnapshotMirror` | abstract: a mirror that falls behind and catches up | `pending` and `served`; `Seed`, `Accept`, `Supersede`, `Publish`, `Stop` |
| `SnapshotPipeline` | `main`'s loop, `run_bridge`, a subscribed controller | `mpc`, `bpc` are the program points at which the two threads can be seen by each other: every `.await` is one. `inbox` and `updates` are the channels, `cell` the `RefCell`, `prev`/`next`/`elapsed` the bridge's locals, `dirty`/`seen` rs-matter's record of changed attributes and the controller's copy |
| `MqttFeed` | `ingest.rs`, the broker, `main`'s bootstrap and fold | `retained`, the connection and its subscriptions, `wire` in flight, `held` the message whose `tx.send` is pending, `device_id` |
| `Lifecycle` | the process: `main`, the ingest task, the thread, signals | one action per arm of the `select!` and per step of the shutdown; channels are counters |
| `BridgeSystem` | `MqttFeed` in front of `SnapshotPipeline`, in a process that dies and restarts | the two share `inbox` and `st`; `Take` and `Start` are steps of both, the others of one; `Restart` keeps only the broker's retained messages, the controller's copy and perhaps its subscription, which rs-matter persists; `owed` observes what a process has to tell its subscriber: everything if it primed the subscription, what moved if that survived |
| `Literals` | decimal literals and what scaling one stands for | operators only: `Nearest` is the specification of `scale_decimal`, `Wrapped` an i64 addition |
| `Decimal` | `scale_decimal` | `magnitude`, `pos`: one step per pushed digit, then the rounding |
| `SenmlReader` | `parse_pack`, then the loop of `apply_pack` | one step per record of each loop; `base_time`, `base_unit`, `records` are parse_pack's, `locals` what apply_pack found per field. `scale_decimal` is `Nearest` |
| `Supervisor` | `pv-matter-run` and the unit | `phase` is the statement of the script; `count_file` and `age` (of the last start, by the wall clock) are the two files; `Finish`, `StopUnit`, `PowerLoss`, `SetClock` are the world |
| `Service` | one `Lifecycle` after the other under `Supervisor` | `Launch` puts main at its beginning, `Ended` tells the unit how the process exited; `asked` is a `systemctl stop` under way, which is a SIGTERM (`AskToStop`) and later perhaps a SIGKILL (`Kill`) |
| `MatterNode` | `NODE`, `dm_handler`, the list attributes | a controller that knows the root and what it has discovered since; `reading` is a list that is being read by element while `Replace` publishes snapshots |
| `MC...` | the instances | payload sets, initial broker contents, policies |
| `PvDomainProofs`, `SnapshotPipelineProofs`, `MqttFeedProofs`, `BridgeSystemProofs`, `ServiceProofs`, `MatterNodeProofs`, `DecimalProofs`, `SenmlReaderProofs` | - | theorems |

How they fit together. `SnapshotPipeline` and `MqttFeed` both fold with
`PvDomain!Apply`; `BridgeSystem` joins them at the inbox. They take packs as
parsed; that `PvDomain!ApplyPack` is what the two loops over a payload do is
`PackFolded` of `SenmlReader`, which scales with `Nearest`; that `scale_decimal`
computes `Nearest` is `Exact` of `Decimal`. `Lifecycle` shares the two channels
with the pipeline as counters. `Supervisor` lets a run end anyhow; `Service` joins the
two, so that what `Finish` is told is the exit code that `Lifecycle` produced and a
stop takes the time that the shutdown takes. `MatterNode` and the pipeline read the
snapshot through the same `MatterAttributes!Served`.

Grain of atomicity. On the rs-matter thread everything between two `.await`s is
one step of one executor; `Publish` is therefore atomic: cell, notifications and
event together. A controller's `Subscribe` and `Report` interleave between
bridge steps. On the tokio side main and the ingest task run concurrently; a
step ends at each channel operation.

Definitions called *Mutant* are plausible bugs of a definition; no behaviour of
the specifications uses them. They exist to show that the property they are
listed with in `PROJECT.json` can fail.

## 3. The runs

| run | configuration | question | bounds |
|---|---|---|---|
| `pipeline` | `MCSnapshotPipeline.cfg` | the two threads and the controller: safety, refinement of `SnapshotMirror` and convergence of the controller's copy, under fairness | any 4 of the 6 messages in the MC module, inbox and updates of 1, spacing of 2 ticks |
| `feed` | `MCMqttFeed.cfg` | the MQTT side, under fairness | 2 devices, 2 publishes, 1 lost connection, inbox of 1, broker empty or holding a full day |
| `system` | `MCBridgeSystem.cfg` | the feed, the pipeline and the controller together, with a restart that a subscription may survive: what the controller has whenever nothing is under way, and, under fairness, in the end | 1 device, 1 publish or clear, 1 lost connection or death of the process, every channel of 1, spacing of 1 tick |
| `reader` | `MCSenmlReader.cfg` | both loops over a payload | payloads of up to 3 records out of 23, three snapshots before; an i64 that ends at 50000 |
| `decimal` | `MCDecimal.cfg` | `scale_decimal` | literals of up to 2 and 4 digits, powers 0, 2 and 3; an i64 that ends at 9904 |
| `backoff` | `MCSupervisor.cfg` | the wrapper and the unit, under fairness | waits of 1, 2 and 4 seconds and a cap of 5, healthy after 3, the clock set once |
| `node` | `MCMatterNode.cfg` | the composed device as it is discovered | three snapshots: dark, asleep with one rating, online with another |
| `service` | `MCService.cfg` | process after process under the unit, with failures, stops and power losses: exit codes, what restarts and what stays down, refinement of `Supervisor`, and, under fairness, idle-signal and self-healing liveness | 2 messages and 1 signal per process, inbox and updates of 1, the thread may get stuck; waits, cap and healthy threshold of 1 second |
| `accuracy`, `replay`, `signal`, `stuck` | `MCAccuracy.cfg`, `MCReplay.cfg`, `MCSignal.cfg`, `MCStuck.cfg` | each finds one statement of the documentation violated, see 5 | no larger than in the passing run of the same module |

Why the bounds are enough. The channels' real capacities (64 and 16) matter only
by being full or not; one or two places and more messages than places make them
full, empty and in between, with a message waiting outside in each case. The
floor needs a clock that can be before, at and past the spacing: two ticks. The
message sets hold a full pack, a sparse one, an info and both an online and an
asleep status, which is every branch of `apply` and both sides of the mask. Two
devices are enough for the lock: the Router treats all others alike. One lost
connection reaches every point of subscription, replay and back-pressure.
The system run has one fault, because each part is checked against more of them
alone; the composition asks whether one part undoes what another has recovered,
and a fault at every moment of a replay, with every channel full behind it, is
the case for that. Three records are enough for two of a name with a header
between, before or after them; longer payloads repeat the same step. The widths
of integers are scaled down so that a literal of few digits overflows, by itself
and in a sum; nothing depends on the widths but the comparisons with them. The
wrapper's policy keeps its shape in `backoff`: waits that double below the cap, and
one whose doubling the cap cuts off; the healthy threshold lies between two of
them. In
`service` the policy is as small as it can be and the clock is not set, since what
is asked there is how a process ends and what the unit makes of it; the run
has no limit on the number of processes, and each may get its one signal, or its
stop, at any point. For the safety properties in section 6 the theorems remove the
bounds altogether.

Deadlock checking is off where the system may stop: the inverter falls silent,
the process exits, a payload is read to its end. In `MCMatterNode.cfg` it is on.

## 4. Fairness

Weak fairness of main's and the bridge's own steps and of delivery on an
established connection: both run on executors that poll a woken future, and a
timer that was set expires. Nothing is assumed of the environment: publishing,
losing a connection, failing, subscribing and signals are never fair. In
`Lifecycle` each arm of the `select!` is weakly fair by itself: tokio polls the
arms in random order, so that an arm which stays ready is picked. `TakeNothing`,
the empty round after ingest has gone, is not fair. In `Supervisor` the script's
statements and the passing of time are weakly fair, starts and failures are not.
`Service` assumes for each process and for the script what they assume by
themselves, that systemd reaps a process that has ended (`Ended`), and that it kills
one whose stop takes too long (`Kill`). `BridgeSystem` assumes for each part what
that part assumes by itself, and of lost connections and restarts only that there
are finitely many.

## 5. Where code and documentation disagree

Four statements have a run that finds them violated:

* `accuracy` - a nameplate that arrives after bootstrap changes the EPM Accuracy
  attribute; the bridge notifies "exactly the attributes whose backing values
  moved" (`bridge.rs:2`) but only logs this one.
* `replay` - after a restart under an online inverter the retained pack is
  replayed before the retained status, and is masked; "state replays by itself"
  (`ingest.rs:11`) does not hold for the readings until the next live pack.
  `SettledState` shows that it does for link, identity and total, and
  `SettledReadings` that the readings are then absent, never mixed.
* `signal` - `shutdown_signal()` is made anew in every round; a SIGTERM between
  two rounds or during a send finds no listener and is lost ("Ctrl-C / SIGTERM
  shut down cleanly", `README.md:51`). `IdleSignalStops` shows when it works.
* `stuck` - the five-second join timeout (`main.rs:201`) is followed by the drop
  of the runtime, which waits for the blocking join without limit.

The others can be read off the definitions; what the code does instead is pinned
down by the property named.

* Bootstrap ends with the info, the first message of the replay, so the seed is
  the default snapshot and first reads are null, unlike `matter/mod.rs:57`. The
  rest of the replay follows through the updates channel (`EndToEnd`).
* The wrapper takes the age of the last start from the wall clock; set back
  during a long run, that run is not "treated as recovered" (`pv-matter-run:7`).
  Hence the premise `steps = 0` of `HealthyResets` and `BackoffKept`.
* The count goes up at every start, not "on each consecutive short-lived failure"
  (`pv-matter-run:5`): a quick `systemctl restart` waits. `BackoffKept` is
  therefore a lower bound.
* "Fatal exits (bad config) stop the unit" (`pv-matter.service:29`), but a
  configuration error exits with the code of any failure and is restarted
  (`Restarted`).
* The last `bt` of a payload dates all its records, those before it included,
  unlike `senml.rs:84`; `bu` does apply to later records only. `ServedExact` is
  stated with that base time.
* A refused `t` or `bt` becomes zero and the record is kept; "callers skip the
  reading rather than guess" (`senml.rs:127`). `MalformedTimes` pins down what
  then dates the total: without its base its own `t`, without its `t` the base,
  and nothing from other records. That is no time at all as long as a `t` is an
  offset of the usual size, which by itself lies before the Matter epoch. A
  fractional time is not refused but rounded.
* `time_unix_s` is a wrapping sum of two i64 (`domain.rs:250`). Above the range the
  sum is served without a time; two times so far before 1970 that their sum falls
  below the range may wrap to a time that is served. `ServedExact` excludes that.
* "Subscriptions survive a restart" (`docs/architecture.md:223-224`,
  `matter/mod.rs:97-99`), but marks of changed attributes do not, and a new bridge
  compares with its own seed (`bridge.rs:41`), not with what the controller was
  told. If rs-matter does not prime a resumed subscription, its controller keeps
  the old value of an attribute that does not move in the new process, such as
  readings that are null from the start (`replay`). `ControllerUpToDate` and
  `EndToEnd` therefore speak of reads, which are right in any case, and of the
  subscriber's copy of whatever a process has to report (`owed`).
* `scaled` is "`None` when the unit was unexpected" (`domain.rs:318`), but any of
  the five milli-units is accepted for any field, also one inherited from the
  pack. `PackFolded` is stated with that rule.
* The measured temperature is not kept within the "advertised sensing envelope"
  (`temperature.rs:14`): it is passed on as it is.

## 6. What is proved

All proofs hold for every set of messages or payloads, every capacity of the
channels, every spacing and every number of devices; from the named assumptions
only (`NoneAssumption`, `EpochAssumption`, `MessagesAssumption`,
`BoundsAssumption`, `FeedAssumption`, `SystemAssumption`, `LifecycleAssumption`,
`SupervisorAssumption`, `PolicyAssumption`, `LiteralsAssumption`,
`DecimalAssumption`, `ReaderAssumption`, `NodeAssumption`), which TLC evaluates in
the runs.

`PvDomainProofs`: the operators of the domain keep the snapshot's type, packs and
statuses leave it masked, and the total is never lost; what a pack brings, field
by field, and that the mask leaves everything it brings or takes all of it.

`SnapshotPipelineProofs`. `TypeCorrect` is inductive by itself. The others rest on
three strengthenings:

* `PhaseInv` - the bridge is unborn exactly while main is bootstrapping, and
  outside `Publish` its `prev` is the cell. Without the second part nothing
  relates what is diffed to what is served: `ReportsCorrect`,
  `OnlyRealChangesCorrect` and `EventCorrect` use it.
* the mask and total invariants - they must hold not only of the cell but of the
  State, of everything in the updates channel and of the bridge's `next`.
  `EnergyCorrect` needs more than "all or none": along the whole way, oldest to
  newest, a known total is followed by known totals (`TotalInv`).
* the floor invariant - while the bridge is past the floor, the time since the
  last report is at least the spacing; this gives `QuietCorrect`.

`NewestCorrect` follows the newest snapshot from State to channel to `next` to
cell. Each step lemma stands by itself, so that `BridgeSystemProofs` can use it.
`PipelineMirrors` is the refinement: under the mapping every step of the pipeline
is a step of `SnapshotMirror` or leaves it unchanged.

`MqttFeedProofs`: `FeedTypeCorrect`; `OneDeviceCorrect` - while no device is
locked nothing has been let through, and the lock never changes; and the two
settled properties. Neither of those is inductive: they speak of the quiet state,
and what is still on its way decides whether that will be right. The invariant
`SettleInv` has three parts. `Subscribing`: on a standing connection each leaf is
subscribed or about to be, so that a gap is followed by a replay. `LeavesMatch`: a
payload is retained, and travels, under its own leaf. `AllFresh`: for each
subscribed topic, what the broker retains is the last of its topic on the wire; or
the topic is not on the wire, and if the device is the locked one the payload is
held, or the last of its leaf in the inbox, or folded and visible in the State. An
older message that is folded later cannot undo this, because the last one follows
it. `SettledReadings` covers the numeric readings and the two states together: all
from the retained pack, or all absent.

`BridgeSystemProofs` proves the composition from the theorems' parts and not anew.
It instantiates the two proof modules with the variables of the system. Unless the
process dies, a step of the system is a step or a stutter of `MqttFeed`
(`FeedMoves`), and one of `SnapshotPipeline` or a message that reaches its inbox
(`PipeMoves`, where the type of the message comes from the feed's invariant); the
step lemmas of the two parts do the rest. `RestartStep` is new work: after a
restart the broker's messages are all that is left, and `SettleInv` holds because
nothing is subscribed yet. `SystemInv` is the conjunction of both parts' invariants,
and `ControllerUpToDateCorrect` chains them: in the quiet state the retained link,
total and readings are in the State (`SettledState`, `SettledReadings`), the State's
snapshot is in the cell (`NewestNeverLost`), and the answers of reads depend on a
masked snapshot's link, total and readings only (`MaskInv`, `SameAnswers`). What a
subscriber has seen of the cell is a matter of its own, because `ReportsCoherent`
does not survive a restart that the subscription survives: the controller's copy is
old and nothing is marked. `OwedInv` says what does hold: a copy of an attribute
that is owed answers as the cell does, or a report of it is pending. It is
inductive because whatever starts to answer otherwise is marked in the same step
(`MovedMarked`), and because a restart owes nothing.

`ServiceProofs`, in three parts. Of the process by itself: `ExitToldCorrect` from
`CauseInv` (main is beyond its loop only because of a signal or with `fatal` set;
`fatal` only after a failure; the thread ends before main tells it to only by
failing; nothing ends the process without an exit code).

Of the unit by itself: `HealthyResetsCorrect` from `ResetInv`, which relates the age
of the last start to how long it has run while the clock is not set.
`BackoffCorrect` from `BackoffInv`, one relation per statement of the script: the
streak is at most the count on disk, then at most the script's count; in the loop
`delay = Wait[i]`; in the sleep what has been and is to be waited is enough. All of
this is proved from `UnitSafety`, the initial states and the steps alone.

Of the two together: a step of the service is a step of the process, a fresh start
or a kill (`ServiceStepsProcess`), and a kill contradicts no exit code
(`ProcessKilled`); so `EveryProcessCorrect` carries the first part over to every
process that is ever started. A step of the service is a step of the unit or none
(`ServiceStepsUnit`); so `ServiceRefinesUnit`, and with `UnitSafety` the second part
carries over as `ServiceBackoffCorrect`. `DownOnlyIfToldCorrect` needs to know that a
stop under way, and a process that was killed, had a signal (`ToldInv`), besides
`ExitTold`: only then is "the unit went down" the same as "somebody said so".

`MatterNodeProofs`. The tree and the chain are constants, but no proof is found by
expanding them: `ChainCoversTree` says, one segment at a time, that every cluster
declared in `NODE` is dispatched to a handler of its own, and `ListsServed` and
`ScalarsServed` what that handler answers. What makes the lists safe to read by
element is in `ListsServed`: under any snapshot each list but Accuracy is the same,
and Accuracy has the same number of rows of the same types. `NodeInv` says
this of a read that is under way: each row so far is the row of some snapshot seen
since the first. Without that part nothing is known of a list at the
element that ends it, however the snapshot was replaced meanwhile.
`AnsweredCorrect`, `ListsWholeCorrect`, `AccuracyCoversCorrect` and `DiscoveredCorrect`
follow, for every set of snapshots.

`DecimalProofs`. `DecimalInv` says that while digits are pushed `magnitude` is the
number that the digits pushed so far stand for, zeros appended where the literal
has no more. `DecimalTypeCorrect` follows because every checked step stays in the
non-negative half of an i64, so that the sign can always be applied. `DecimalExact`
needs arithmetic about rows of digits of any length: what follows the first surplus
digit is worth less than one unit of it (`ValueBounds`), so that this digit alone
decides the rounding (`RoundLemma`), and once a push overflows the digits to come
cannot bring the number back (`ShiftedMonotone`). The values of a row are a
recursive function. The library's induction and recursion theorems take an
operator that the provers cannot instantiate; `NatSetInduction` and `NatRecursion`
are the same facts for sets and functions, proved from the well-foundedness of `<`.

`SenmlReaderProofs`: `ReaderInv` adds to the types what each loop has done so
far. The bases in force are the last ones read (`BasesRead`); the parsed records
are an order-preserving selection of the payload's, each in the meaning it has in
place (`RecordsRead`); every local is what the last record that feeds it says
(`LocalsRead`), the total the last usable one or that from before (`TotalRead`), and
the rest of the snapshot is untouched until the end (`SnapshotRead`). Each is a
statement about the last of something and not a fold, so that a step adds one
record and no induction is needed. At the end `PackFoldedCorrect` compares with
`PvDomain!ApplyPack`, for payloads of any length; it also states that what a payload
decodes to is in `Pack` (`DecodedIsPack`), which is the link from the parser to the
theorems about the other modules. `ServedExactCorrect` follows by the
arithmetic of wrapping and of the epoch, `MalformedTimesCorrect` from what
`BasesRead` and `RecordsRead` say of a refused time.

Model-checked only: every liveness property (`ControllerConverges`, `Settles`,
`IdleSignalStops`, `SelfHealing`, `Restarted`, `EndToEnd`) and the fairness parts
of `MirrorSpec` and of `UnitSpec` as it is checked of the service, which are
beyond the prover. Every invariant and every action
property of the runs is stated by a theorem.

## 7. Not modelled

* JSON syntax, the spelling of record names and topic strings: a name is the
  field it feeds, a text the enum member it spells. The other fields of the info
  document are one identity.
* Debug builds, where an i64 overflow panics: `Dated` wraps, as in a release.
* Failing writes of the wrapper: under its `set -eu` the script then exits
  non-zero and the unit starts it again at once; without a wait, where the count
  file was truncated but not written.
* Configuration errors in `Lifecycle` and `Service`: main returns before anything
  in them exists.
* rs-matter, rumqttc and tokio, beyond what the code relies on: subscriptions with
  priming and reports of changed attributes; a clean-start connection that
  delivers in order or breaks; signal broadcast, bounded channels, the drop of a
  runtime. `Subscribe`, `Report`, `Signal`, `Broadcast` and the broker's actions
  are marked external.
  rs-matter's own clusters, its global attributes and its commissioning are left
  out of `MatterNode`; its rule for reading a list by element is as the handlers
  here rely on it. Whether it primes a resumed subscription cannot be seen from
  this source; `BridgeSystem` allows both.
* `basic_info`: strings fixed when the thread is spawned. An info that comes after
  the bootstrap deadline does not change them until a restart, as documented.
* Configuration: constants, read before anything runs.
* Installation and build scripts.

## 8. Plan

Done, in this order: domain, pipeline with the abstract mirror, proofs of its
safety, feed, lifecycle; wrapper and unit, decimal scaling, the reader, the
settled properties of the feed proved, the composed device, the whole system;
the exactness of scaling and of the reader proved, and the safety of the whole
system from its parts; the composed device proved; the process composed with its
unit, checked and proved.

Possible next steps: an abstract specification for `BridgeSystem` (broker and
controller as one register that is eventually copied), and `Service` under
`BridgeSystem` instead of its `Restart`.
