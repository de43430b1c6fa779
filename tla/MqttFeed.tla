------------------------------ MODULE MqttFeed ------------------------------
(***************************************************************************)
(* The MQTT side of pv-matter (src/ingest.rs) up to the accumulated State:   *)
(* publishers with retained topics, a broker connection that comes and goes, *)
(* the ingest task with its Router, and main's bootstrap and fold.           *)
(*                                                                         *)
(* A payload is the message it parses to, or Bad.  Topics outside the three  *)
(* subscribed filters never arrive and are left out.  The broker replays     *)
(* the retained messages of a filter when it is subscribed, in any order of  *)
(* devices; the connection delivers in order and loses what is in flight     *)
(* when it breaks (clean start: no session survives).                       *)
(*                                                                         *)
(* Bounds: MaxPublishes publishes, MaxBreaks lost connections.              *)
(***************************************************************************)
EXTENDS PvDomain, SequencesExt

CONSTANTS
  Devices,         \* device ids under the topic prefix
  Pinned,          \* PV_DEVICE_ID, or None
  Bad,             \* a payload that does not parse
  Payloads,        \* the payloads that may be published, Bad apart
  InitRetained,    \* what the broker may hold at the start
  INBOX_CAP,       \* MSG_CHANNEL_CAPACITY
  MaxPublishes, MaxBreaks

Leaves == {"info", "instantaneous", "status"}

(* The filters in the order in which a ConnAck subscribes them.             *)
Filters == <<"info", "instantaneous", "status">>

Leaf(p) == CASE p.type = "Info"   -> "info"
             [] p.type = "Pack"   -> "instantaneous"
             [] p.type = "Status" -> "status"

Retained == [Devices -> [Leaves -> Payloads \cup {Bad, None}]]

ASSUME FeedAssumption ==
  /\ IsFiniteSet(Devices)
  /\ Payloads \subseteq DomainMsg
  /\ Pinned \in Devices \cup {None} /\ None \notin Devices
  /\ InitRetained \subseteq Retained
  /\ \A r \in InitRetained, d \in Devices, leaf \in Leaves :
       r[d][leaf] \in Payloads => Leaf(r[d][leaf]) = leaf
  /\ Bad \notin Payloads /\ None \notin Payloads /\ Bad # None
  /\ INBOX_CAP \in Nat \ {0} /\ MaxPublishes \in Nat /\ MaxBreaks \in Nat

VARIABLES
  retained,      \* the broker's retained payload per device and leaf
  published, breaks,
  connected,     \* the client's connection stands
  toSubscribe,   \* filters whose SUBSCRIBE the broker has yet to see
  subscribed,    \* leaves subscribed on this connection
  wire,          \* publishes on their way to the client
  device_id,     \* Router: the device pinned or locked onto
  heard,         \* observer: devices whose messages were let through
  held,          \* the message whose tx.send(msg).await is under way, or None
  inbox,         \* msg_tx / msg_rx
  phase,         \* main: bootstrap or live
  st             \* main's State

brokerVars == <<retained, published, breaks>>
connVars   == <<connected, toSubscribe, subscribed, wire>>
routerVars == <<device_id, heard, held>>
mainVars   == <<phase, st>>
vars == <<brokerVars, connVars, routerVars, inbox, mainVars>>

-----------------------------------------------------------------------------
Init ==
  /\ retained \in InitRetained
  /\ published = 0 /\ breaks = 0
  /\ connected = FALSE /\ toSubscribe = <<>> /\ subscribed = {} /\ wire = <<>>
  /\ device_id = Pinned /\ heard = {} /\ held = None
  /\ inbox = <<>>
  /\ phase = "bootstrap" /\ st = DefaultState

(* The broker retains kept; a subscriber of the leaf gets p live.           *)
Deliver(d, leaf, p, kept) ==
  /\ published < MaxPublishes
  /\ published' = published + 1
  /\ retained' = [retained EXCEPT ![d][leaf] = kept]
  /\ wire' = IF leaf \in subscribed
             THEN Append(wire, [device |-> d, leaf |-> leaf, payload |-> p])
             ELSE wire
  /\ UNCHANGED <<breaks, connected, toSubscribe, subscribed, routerVars, inbox, mainVars>>

(* Some device publishes, retained.                                         *)
Publish(d, leaf, p) == Deliver(d, leaf, p, p)

(* A zero-length retained publish clears a topic; live, it does not parse.   *)
Clear(d, leaf) == Deliver(d, leaf, Bad, None)

(* The event loop is polled only while no message is being sent on.         *)
Polling == held = None

(* Mutant: subscribe only until a device is known.                          *)
ConnectOnce ==
  /\ Polling /\ ~ connected
  /\ connected' = TRUE
  /\ toSubscribe' = IF device_id = None THEN Filters ELSE <<>>
  /\ UNCHANGED <<subscribed, wire, brokerVars, routerVars, inbox, mainVars>>

(* ConnAck: request all three subscriptions, on every (re)connect.          *)
Connect ==
  /\ Polling /\ ~ connected
  /\ connected' = TRUE
  /\ toSubscribe' = Filters
  /\ UNCHANGED <<subscribed, wire, brokerVars, routerVars, inbox, mainVars>>

(* The broker sees the next SUBSCRIBE and replays what it retains.          *)
Subscribe ==
  /\ connected
  /\ toSubscribe # <<>>
  /\ LET leaf == Head(toSubscribe)
         holders == {d \in Devices : retained[d][leaf] # None}
     IN  \E order \in SetToSeqs(holders) :
           wire' = wire \o [i \in DOMAIN order |->
                              [device |-> order[i], leaf |-> leaf,
                               payload |-> retained[order[i]][leaf]]]
  /\ toSubscribe' = Tail(toSubscribe)
  /\ subscribed' = subscribed \cup {Head(toSubscribe)}
  /\ UNCHANGED <<connected, brokerVars, routerVars, inbox, mainVars>>

(* The event loop fails; it will reconnect on a later poll.                 *)
Break ==
  /\ connected
  /\ breaks < MaxBreaks
  /\ breaks' = breaks + 1
  /\ connected' = FALSE
  /\ toSubscribe' = <<>> /\ subscribed' = {} /\ wire' = <<>>
  /\ UNCHANGED <<retained, published, routerVars, inbox, mainVars>>

-----------------------------------------------------------------------------
(* Mutant: the second device is warned about and let through.               *)
AcceptsAny(d) == TRUE

(* The Router takes messages of one device only...                          *)
Accepts(d) == device_id \in {None, d}

(* ...the first it hears, whether or not the payload parses; a message that  *)
(* parses is held until the channel takes it.                               *)
Route ==
  /\ Polling /\ connected
  /\ wire # <<>>
  /\ LET m == Head(wire) IN
       /\ device_id' = IF device_id = None THEN m.device ELSE device_id
       /\ IF Accepts(m.device) /\ m.payload # Bad
          THEN held' = m.payload /\ heard' = heard \cup {m.device}
          ELSE UNCHANGED <<held, heard>>
  /\ wire' = Tail(wire)
  /\ UNCHANGED <<connected, toSubscribe, subscribed, inbox, brokerVars, mainVars>>

(* Mutant: the channel is unbounded.                                        *)
AlwaysRoom == TRUE

HasRoom == Len(inbox) < INBOX_CAP

(* Mutant: the message is sent again while somebody may still read it.       *)
ForwardAgain ==
  /\ held # None
  /\ HasRoom
  /\ inbox' = Append(inbox, held)
  /\ UNCHANGED <<held, device_id, heard, brokerVars, connVars, mainVars>>

(* tx.send waits while the channel is full, and with it the event loop.      *)
Forward ==
  /\ held # None
  /\ HasRoom
  /\ inbox' = Append(inbox, held)
  /\ held' = None
  /\ UNCHANGED <<device_id, heard, brokerVars, connVars, mainVars>>

-----------------------------------------------------------------------------
(* main folds a message; while it is bootstrapping, only until an info came. *)
Fold ==
  /\ phase = "live" \/ st.info = None
  /\ inbox # <<>>
  /\ st' = Apply(st, Head(inbox))
  /\ inbox' = Tail(inbox)
  /\ UNCHANGED <<phase, brokerVars, connVars, routerVars>>

(* The identity is known or the deadline has passed: the Matter side starts  *)
(* with the snapshot as it is.                                              *)
Start ==
  /\ phase = "bootstrap"
  /\ phase' = "live"
  /\ UNCHANGED <<st, inbox, brokerVars, connVars, routerVars>>

Next ==
  \/ \E d \in Devices, p \in Payloads : Publish(d, Leaf(p), p)
  \/ \E d \in Devices, leaf \in Leaves : Publish(d, leaf, Bad) \/ Clear(d, leaf)
  \/ Connect \/ Subscribe \/ Break
  \/ Route \/ Forward \/ Fold \/ Start

Spec == Init /\ [][Next]_vars

(* The client keeps polling, the broker answers, main keeps receiving.      *)
Fairness == /\ WF_vars(Connect) /\ WF_vars(Subscribe)
            /\ WF_vars(Route) /\ WF_vars(Forward)
            /\ WF_vars(Fold) /\ WF_vars(Start)

LiveSpec == Spec /\ Fairness

-----------------------------------------------------------------------------
(* Properties *)

(* Type invariant: the channels hold what the publishers may publish.       *)
Publication == [device : Devices, leaf : Leaves, payload : Payloads \cup {Bad}]

TypeOK ==
  /\ retained \in Retained
  /\ published \in 0 .. MaxPublishes /\ breaks \in 0 .. MaxBreaks
  /\ connected \in BOOLEAN
  /\ toSubscribe \in Seq(Leaves) /\ subscribed \subseteq Leaves
  /\ wire \in Seq(Publication)
  /\ device_id \in Devices \cup {None} /\ heard \subseteq Devices
  /\ held \in Payloads \cup {None}
  /\ inbox \in Seq(Payloads) /\ Len(inbox) <= INBOX_CAP
  /\ phase \in {"bootstrap", "live"} /\ st \in State

(* The state is never a mixture of two inverters: all that was ever folded   *)
(* comes from the one device the Router is pinned to or locked onto.        *)
OneDevice == heard \subseteq {device_id}

(* Everything is quiet: connected, subscribed, nothing on its way.          *)
Settled == connected /\ toSubscribe = <<>> /\ wire = <<>> /\ held = None /\ inbox = <<>>

Holds(leaf) == retained[device_id][leaf] \notin {None, Bad}

(* State replays by itself: whatever was published while the connection was  *)
(* down, and however often it broke, once things are quiet the link, the     *)
(* identity and the lifetime total are those that the broker retains.       *)
SettledState ==
  Settled /\ device_id # None =>
    LET r == retained[device_id] IN
      /\ Holds("status") => st.snapshot.link = r["status"].status
      /\ Holds("info") => st.info = r["info"].info
      /\ Holds("instantaneous") =>
           LET e == RetainTotal(DefaultSnapshot, r["instantaneous"].pack)
           IN  e.energy_total_mwh # None =>
                 /\ st.snapshot.energy_total_mwh = e.energy_total_mwh
                 /\ st.snapshot.energy_end_ts = e.energy_end_ts

(* No reading outlives its pack: once things are quiet the readings and the  *)
(* two states are those of the retained pack, all of them or none.          *)
SettledReadings ==
  Settled /\ device_id # None /\ Holds("instantaneous") =>
    Instantaneous(st.snapshot) \in
      {Instantaneous(DefaultSnapshot),
       Brought(retained[device_id]["instantaneous"].pack.records)}

(* Things do become quiet.                                                  *)
Settles == <>[]Settled

(* ingest.rs:11-12: all three topics are retained, so state replays by itself *)
(* after every (re)connect - the readings of an online inverter included.   *)
ReadingsReplay ==
  /\ Settled /\ device_id # None /\ Holds("instantaneous")
  /\ st.snapshot.link = "Online"
  => st.snapshot.readings = ReadingsOf(retained[device_id]["instantaneous"].pack.records)
=============================================================================
