--------------------------- MODULE MqttFeedProofs ---------------------------
(* Theorems on MqttFeed, for every set of devices and payloads, whatever the *)
(* broker retains, any capacity, and any number of publishes, cleared topics *)
(* and broken connections.  That a step preserves an invariant is a lemma of *)
(* its own: BridgeSystemProofs takes the same steps with a process that dies. *)
EXTENDS MqttFeed, PvDomainProofs, FiniteSetTheorems

(* Two sequences of the same kind joined are one of that kind.              *)
LEMMA ConcatLemma ==
  ASSUME NEW S, NEW a \in Seq(S), NEW b \in Seq(S)
  PROVE  a \o b \in Seq(S)
  OBVIOUS

(* What SUBSCRIBE puts on the wire are publications of the subscribed leaf.  *)
LEMMA ReplayLemma ==
  ASSUME TypeOK, NEW leaf \in Leaves,
         NEW order \in SetToSeqs({d \in Devices : retained[d][leaf] # None})
  PROVE  [i \in DOMAIN order |-> [device |-> order[i], leaf |-> leaf,
                                  payload |-> retained[order[i]][leaf]]]
           \in Seq(Publication)
<1> DEFINE holders == {d \in Devices : retained[d][leaf] # None}
           n == Cardinality(holders)
<1>1. n \in Nat
  BY FS_Subset, FS_CardinalityType, FeedAssumption
<1>2. order \in [1 .. n -> holders]
  BY DEF SetToSeqs
<1>3. \A i \in 1 .. n : /\ order[i] \in Devices
                        /\ retained[order[i]][leaf] \in Payloads \cup {Bad}
  <2>1. \A d \in holders : /\ d \in Devices
                           /\ retained[d][leaf] \in Payloads \cup {Bad}
    BY DEF TypeOK, Retained
  <2>2. \A i \in 1 .. n : order[i] \in holders
    <3> HIDE DEF holders, n
    <3> QED BY <1>2
  <2> QED BY <2>1, <2>2
<1> DEFINE w == [i \in 1 .. n |-> [device |-> order[i], leaf |-> leaf,
                                   payload |-> retained[order[i]][leaf]]]
<1>4. \A i \in 1 .. n : w[i] \in Publication
  BY <1>3 DEF Publication
<1>5. w \in [1 .. n -> Publication]
  BY <1>4
<1>6. w \in Seq(Publication)
  <2> HIDE DEF w, n
  <2> QED BY <1>1, <1>5
<1>7. DOMAIN order = 1 .. n
  BY <1>2
<1> QED BY <1>6, <1>7

-----------------------------------------------------------------------------
(* A step keeps everything in the channels of its kind, the inbox within its *)
(* capacity, and main's State well formed.                                  *)
LEMMA FeedTypeStep ==
  ASSUME TypeOK, [Next]_vars
  PROVE  TypeOK'
<1> USE FeedAssumption, NoneAssumption
<1> USE DEF TypeOK, brokerVars, connVars, routerVars, mainVars
<1>1. ASSUME NEW d \in Devices, NEW leaf \in Leaves, NEW p \in Payloads \cup {Bad},
             NEW kept \in Payloads \cup {Bad, None}, Deliver(d, leaf, p, kept)
      PROVE  TypeOK'
  <2>1. retained' \in Retained
    BY <1>1 DEF Deliver, Retained
  <2>2. [device |-> d, leaf |-> leaf, payload |-> p] \in Publication
    BY DEF Publication
  <2>3. wire' \in Seq(Publication)
    BY <1>1, <2>2 DEF Deliver
  <2> QED BY <1>1, <2>1, <2>3 DEF Deliver
<1>2. CASE Connect
  BY <1>2 DEF Connect, Filters, Leaves
<1>3. CASE Subscribe
  <2>1. Head(toSubscribe) \in Leaves /\ Tail(toSubscribe) \in Seq(Leaves)
    BY <1>3 DEF Subscribe
  <2>2. PICK order \in SetToSeqs({d \in Devices :
                                    retained[d][Head(toSubscribe)] # None}) :
          wire' = wire \o [i \in DOMAIN order |->
                             [device |-> order[i], leaf |-> Head(toSubscribe),
                              payload |-> retained[order[i]][Head(toSubscribe)]]]
    BY <1>3 DEF Subscribe
  <2> DEFINE replay == [i \in DOMAIN order |->
                          [device |-> order[i], leaf |-> Head(toSubscribe),
                           payload |-> retained[order[i]][Head(toSubscribe)]]]
  <2>3. replay \in Seq(Publication)
    BY <2>1, <2>2, ReplayLemma
  <2>4. wire' \in Seq(Publication)
    <3>1. wire \in Seq(Publication)
      OBVIOUS
    <3> QED BY <2>2, <2>3, <3>1, ConcatLemma
  <2> QED BY <1>3, <2>1, <2>4 DEF Subscribe
<1>4. CASE Break
  <2>1. toSubscribe' \in Seq(Leaves) /\ wire' \in Seq(Publication)
    BY <1>4 DEF Break
  <2>2. breaks' \in 0 .. MaxBreaks
    BY <1>4 DEF Break
  <2>4. connected' \in BOOLEAN /\ subscribed' \subseteq Leaves
    BY <1>4 DEF Break
  <2>3. UNCHANGED <<retained, published, device_id, heard, held, inbox, phase, st>>
    BY <1>4 DEF Break
  <2> QED BY <2>1, <2>2, <2>3, <2>4
<1>5. CASE Route
  <2>1. Head(wire) \in Publication /\ Tail(wire) \in Seq(Publication)
    BY <1>5 DEF Route
  <2> QED BY <1>5, <2>1 DEF Route, Publication
<1>6. CASE Forward
  BY <1>6 DEF Forward, HasRoom
<1>7. CASE Fold
  <2>1. Head(inbox) \in DomainMsg /\ Tail(inbox) \in Seq(Payloads)
        /\ Len(Tail(inbox)) <= INBOX_CAP
    BY <1>7 DEF Fold
  <2> QED BY <1>7, <2>1, ApplyLemma DEF Fold
<1>8. CASE Start
  BY <1>8 DEF Start, State
<1>9. CASE UNCHANGED vars
  BY <1>9 DEF vars
<1>10. \A p \in Payloads : Leaf(p) \in Leaves
  BY DEF Leaf, Leaves, DomainMsg
<1> QED BY <1>1, <1>2, <1>3, <1>4, <1>5, <1>6, <1>7, <1>8, <1>9, <1>10
       DEF Next, Publish, Clear

(* At the start nothing is on its way, whatever the broker retains.         *)
LEMMA FeedTypeInit ==
  ASSUME Init
  PROVE  TypeOK
<1> USE FeedAssumption, NoneAssumption
<1>1. st \in State
  BY DefaultType DEF Init, State, DefaultState
<1>2. inbox \in Seq(Payloads) /\ Len(inbox) <= INBOX_CAP
  BY DEF Init
<1>3. /\ retained \in Retained
      /\ published \in 0 .. MaxPublishes /\ breaks \in 0 .. MaxBreaks
  BY DEF Init
<1>4. toSubscribe \in Seq(Leaves) /\ wire \in Seq(Publication)
  BY DEF Init
<1>5. /\ connected \in BOOLEAN /\ subscribed \subseteq Leaves
      /\ device_id \in Devices \cup {None} /\ heard \subseteq Devices
      /\ held \in Payloads \cup {None} /\ phase \in {"bootstrap", "live"}
  BY DEF Init
<1> QED BY <1>1, <1>2, <1>3, <1>4, <1>5 DEF TypeOK

(* Everything in the channels is of its kind, the inbox keeps its capacity,  *)
(* and main's State is well formed.                                         *)
THEOREM FeedTypeCorrect == Spec => []TypeOK
  BY FeedTypeInit, FeedTypeStep, PTL DEF Spec

-----------------------------------------------------------------------------
(* Only Route lets a message through, and only of the device it is locked to. *)
LEMMA OneDeviceStep ==
  ASSUME TypeOK, OneDevice, [Next]_vars
  PROVE  OneDevice'
<1> USE FeedAssumption
<1> USE DEF OneDevice, brokerVars, connVars, routerVars, mainVars
<1>1. CASE Route
  <2>1. device_id = None => heard = {}
    BY DEF TypeOK
  <2> QED BY <1>1, <2>1 DEF Route, Accepts
<1>2. CASE UNCHANGED <<device_id, heard>>
  BY <1>2
<1> QED BY <1>1, <1>2 DEF Next, Publish, Clear, Deliver, Connect, Subscribe, Break, Forward, Fold, Start, vars

(* The Router lets the messages of one device through, the pinned one or the *)
(* first it heard, and never changes its mind.                              *)
THEOREM OneDeviceCorrect == Spec => []OneDevice
<1> USE FeedAssumption
<1>1. Init => OneDevice
  BY DEF Init, OneDevice
<1> QED BY <1>1, OneDeviceStep, FeedTypeCorrect, PTL DEF Spec

-----------------------------------------------------------------------------
(* Once MQTT is quiet, main's State is what the broker retains               *)

(* What State s shows of payload p once p is the last of its leaf.          *)
Reflects(s, p) ==
  /\ p.type = "Status" => s.snapshot.link = p.status
  /\ p.type = "Info" => s.info = p.info
  /\ p.type = "Pack" =>
       LET e == RetainTotal(DefaultSnapshot, p.pack)
       IN  /\ e.energy_total_mwh # None =>
                /\ s.snapshot.energy_total_mwh = e.energy_total_mwh
                /\ s.snapshot.energy_end_ts = e.energy_end_ts
           /\ Instantaneous(s.snapshot) \in
                {Instantaneous(DefaultSnapshot), Brought(p.pack.records)}

(* A folded message is reflected, and no message of another leaf undoes it.  *)
LEMMA FoldReflects ==
  ASSUME NEW s \in State, NEW p \in DomainMsg
  PROVE  Reflects(Apply(s, p), p)
<1>0. s.snapshot \in PvSnapshot
  BY DEF State
<1>1. CASE p.type = "Info"
  BY <1>1 DEF Apply, ApplyInfo, Reflects, State
<1>2. CASE p.type = "Pack"
  <2>1. p.pack \in Pack
    BY <1>2 DEF DomainMsg
  <2>2. Apply(s, p).snapshot = ApplyPack(s.snapshot, p.pack)
    BY <1>2 DEF Apply, State
  <2> QED BY <1>0, <1>2, <2>1, <2>2, PackApplied DEF Reflects
<1>3. CASE p.type = "Status"
  <2> DEFINE t == [s.snapshot EXCEPT !.link = p.status]
  <2>1. t \in PvSnapshot /\ t.link = p.status
    BY <1>0, <1>3 DEF PvSnapshot, DomainMsg
  <2>2. Apply(s, p).snapshot = EnforceLinkMask(t)
    BY <1>3 DEF Apply, SetStatus, State
  <2> HIDE DEF t
  <2> QED BY <1>3, <2>1, <2>2, MaskKeeps DEF Reflects
<1> QED BY <1>1, <1>2, <1>3 DEF DomainMsg

(* A payload of another leaf leaves what p brought where it is.             *)
LEMMA FoldKeeps ==
  ASSUME NEW s \in State, NEW p \in DomainMsg, NEW q \in DomainMsg,
         Leaf(p) # Leaf(q), Reflects(s, p)
  PROVE  Reflects(Apply(s, q), p)
<1>0. s.snapshot \in PvSnapshot /\ p.type # q.type
  BY DEF State, Leaf
<1>1. CASE q.type = "Info"
  <2>1. LET t == Apply(s, q).snapshot
        IN  /\ t.link = s.snapshot.link /\ Instantaneous(t) = Instantaneous(s.snapshot)
            /\ t.energy_total_mwh = s.snapshot.energy_total_mwh
            /\ t.energy_end_ts = s.snapshot.energy_end_ts
    BY <1>0, <1>1 DEF Apply, ApplyInfo, State, PvSnapshot, Instantaneous
  <2> QED BY <1>0, <1>1, <2>1 DEF Reflects
<1>2. CASE q.type = "Pack"
  <2>1. q.pack \in Pack
    BY <1>2 DEF DomainMsg
  <2>2. /\ Apply(s, q).snapshot = ApplyPack(s.snapshot, q.pack)
        /\ Apply(s, q).info = s.info
    BY <1>2 DEF Apply, State
  <2>3. Apply(s, q).snapshot.link = s.snapshot.link
    BY <1>0, <2>1, <2>2, PackApplied
  <2> QED BY <1>0, <1>2, <2>2, <2>3 DEF Reflects
<1>3. CASE q.type = "Status"
  <2> DEFINE t == [s.snapshot EXCEPT !.link = q.status]
  <2>1. /\ t \in PvSnapshot /\ Instantaneous(t) = Instantaneous(s.snapshot)
        /\ t.energy_total_mwh = s.snapshot.energy_total_mwh
        /\ t.energy_end_ts = s.snapshot.energy_end_ts
    BY <1>0, <1>3 DEF PvSnapshot, DomainMsg, Instantaneous
  <2>2. Apply(s, q).snapshot = EnforceLinkMask(t) /\ Apply(s, q).info = s.info
    BY <1>3 DEF Apply, SetStatus, State
  <2> HIDE DEF t
  <2> QED BY <1>0, <1>3, <2>1, <2>2, MaskKeeps DEF Reflects
<1> QED BY <1>1, <1>2, <1>3 DEF DomainMsg

-----------------------------------------------------------------------------
(* The last of its kind in a queue *)

Same(x, m) == x.device = m.device /\ x.leaf = m.leaf

(* m is the last message of its topic in w; there is none of its topic.      *)
LastIn(w, m) ==
  \E i \in 1 .. Len(w) : w[i] = m /\ \A j \in i + 1 .. Len(w) : ~ Same(w[j], m)
Absent(w, m) == \A j \in 1 .. Len(w) : ~ Same(w[j], m)

(* p is the last payload of its leaf in q; there is none of its leaf.        *)
LastOf(q, p) ==
  \E i \in 1 .. Len(q) : q[i] = p /\ \A j \in i + 1 .. Len(q) : Leaf(q[j]) # Leaf(p)
NoneOf(q, p) == \A j \in 1 .. Len(q) : Leaf(q[j]) # Leaf(p)

(* What is published last is the last of its topic on the wire; other topics *)
(* are not disturbed.                                                       *)
LEMMA WireAppend ==
  ASSUME NEW w \in Seq(Publication), NEW m \in Publication, NEW x \in Publication
  PROVE  /\ LastIn(Append(w, m), m)
         /\ ~ Same(x, m) => /\ LastIn(w, m) => LastIn(Append(w, x), m)
                            /\ Absent(w, m) => Absent(Append(w, x), m)
<1> DEFINE n == Len(w)
<1>1. n \in Nat /\ \A y : Len(Append(w, y)) = n + 1
  OBVIOUS
<1>2. ASSUME NEW y \in Publication
      PROVE  Append(w, y)[n + 1] = y /\ \A i \in 1 .. n : Append(w, y)[i] = w[i]
  OBVIOUS
<1> HIDE DEF n
<1>3. LastIn(Append(w, m), m)
  BY <1>1, <1>2 DEF LastIn
<1>4. ASSUME ~ Same(x, m), LastIn(w, m)
      PROVE  LastIn(Append(w, x), m)
  <2>1. PICK i \in 1 .. n : w[i] = m /\ \A j \in i + 1 .. n : ~ Same(w[j], m)
    BY <1>4 DEF LastIn, n
  <2>2. Append(w, x)[i] = m /\ i \in 1 .. n + 1
    BY <1>1, <1>2, <2>1
  <2>3. \A j \in i + 1 .. n + 1 : ~ Same(Append(w, x)[j], m)
    <3> TAKE j \in i + 1 .. n + 1
    <3>1. j = n + 1 \/ j \in i + 1 .. n
      BY <1>1
    <3>2. j \in i + 1 .. n => Append(w, x)[j] = w[j]
      BY <1>1, <1>2
    <3> QED BY <1>2, <1>4, <2>1, <3>1, <3>2
  <2> QED BY <1>1, <2>2, <2>3 DEF LastIn
<1>5. ASSUME ~ Same(x, m), Absent(w, m)
      PROVE  Absent(Append(w, x), m)
  <2>1. \A j \in 1 .. n + 1 : j = n + 1 \/ j \in 1 .. n
    BY <1>1
  <2> QED BY <1>1, <1>2, <1>5, <2>1 DEF Absent, n
<1> QED BY <1>3, <1>4, <1>5

(* What leaves the wire was the last of its topic, or that is still there.  *)
LEMMA WireTail ==
  ASSUME NEW w \in Seq(Publication), NEW m \in Publication, w # <<>>
  PROVE  /\ LastIn(w, m) => \/ LastIn(Tail(w), m)
                            \/ Head(w) = m /\ Absent(Tail(w), m)
         /\ Absent(w, m) => Absent(Tail(w), m) /\ ~ Same(Head(w), m)
<1> DEFINE n == Len(w)
           t == Tail(w)
<1>1. n \in Nat \ {0} /\ Len(t) = n - 1 /\ Head(w) = w[1]
  OBVIOUS
<1>2. \A i \in 1 .. n - 1 : t[i] = w[i + 1]
  OBVIOUS
<1>3. ASSUME LastIn(w, m)
      PROVE  LastIn(t, m) \/ (Head(w) = m /\ Absent(t, m))
  <2>1. PICK i \in 1 .. n : w[i] = m /\ \A j \in i + 1 .. n : ~ Same(w[j], m)
    BY <1>3 DEF LastIn
  <2> HIDE DEF n, t
  <2>2. CASE i = 1
    <3>1. \A j \in 1 .. n - 1 : ~ Same(t[j], m)
      BY <1>1, <1>2, <2>1, <2>2
    <3> QED BY <1>1, <2>1, <2>2, <3>1 DEF Absent
  <2>3. CASE i # 1
    <3>1. i - 1 \in 1 .. n - 1 /\ t[i - 1] = m
      BY <1>1, <1>2, <2>1, <2>3
    <3>2. \A j \in (i - 1) + 1 .. n - 1 : ~ Same(t[j], m)
      BY <1>1, <1>2, <2>1, <2>3
    <3> QED BY <1>1, <3>1, <3>2 DEF LastIn
  <2> QED BY <2>2, <2>3
<1>4. ASSUME Absent(w, m)
      PROVE  Absent(t, m) /\ ~ Same(Head(w), m)
  <2>1. \A j \in 1 .. n : ~ Same(w[j], m)
    BY <1>4 DEF Absent
  <2> HIDE DEF n, t
  <2> QED BY <1>1, <1>2, <2>1 DEF Absent
<1> QED BY <1>3, <1>4

(* A replay that follows the wire has the last word on its topics.          *)
LEMMA WireConcat ==
  ASSUME NEW w \in Seq(Publication), NEW v \in Seq(Publication), NEW m \in Publication
  PROVE  /\ LastIn(v, m) => LastIn(w \o v, m)
         /\ Absent(v, m) => /\ LastIn(w, m) => LastIn(w \o v, m)
                            /\ Absent(w, m) => Absent(w \o v, m)
<1> DEFINE a == Len(w)
           b == Len(v)
           c == w \o v
<1>1. a \in Nat /\ b \in Nat /\ Len(c) = a + b
  OBVIOUS
<1>2. /\ \A i \in 1 .. a : c[i] = w[i]
      /\ \A i \in a + 1 .. a + b : c[i] = v[i - a]
  OBVIOUS
<1>3. ASSUME LastIn(v, m) PROVE LastIn(c, m)
  <2>1. PICK i \in 1 .. b : v[i] = m /\ \A j \in i + 1 .. b : ~ Same(v[j], m)
    BY <1>3 DEF LastIn
  <2> HIDE DEF a, b, c
  <2>2. a + i \in 1 .. a + b /\ c[a + i] = m
    BY <1>1, <1>2, <2>1
  <2>3. \A j \in (a + i) + 1 .. a + b : ~ Same(c[j], m)
    <3> TAKE j \in (a + i) + 1 .. a + b
    <3>1. j - a \in i + 1 .. b /\ c[j] = v[j - a]
      BY <1>1, <1>2
    <3> QED BY <2>1, <3>1
  <2> QED BY <1>1, <2>2, <2>3 DEF LastIn
<1>4. ASSUME Absent(v, m), NEW j \in a + 1 .. a + b
      PROVE  ~ Same(c[j], m)
  <2>1. j - a \in 1 .. b /\ c[j] = v[j - a]
    BY <1>1, <1>2
  <2> QED BY <1>4, <2>1 DEF Absent
<1>5. ASSUME Absent(v, m), LastIn(w, m) PROVE LastIn(c, m)
  <2>1. PICK i \in 1 .. a : w[i] = m /\ \A j \in i + 1 .. a : ~ Same(w[j], m)
    BY <1>5 DEF LastIn
  <2>2. \A j \in a + 1 .. a + b : ~ Same(c[j], m)
    BY <1>4, <1>5
  <2> HIDE DEF a, b, c
  <2>3. \A j \in i + 1 .. a + b : ~ Same(c[j], m)
    <3> TAKE j \in i + 1 .. a + b
    <3>1. j \in i + 1 .. a \/ j \in a + 1 .. a + b
      BY <1>1
    <3>2. j \in i + 1 .. a => c[j] = w[j]
      BY <1>1, <1>2
    <3> QED BY <2>1, <2>2, <3>1, <3>2
  <2>4. i \in 1 .. a + b /\ c[i] = m
    BY <1>1, <1>2, <2>1
  <2> QED BY <1>1, <2>3, <2>4 DEF LastIn
<1>6. ASSUME Absent(v, m), Absent(w, m) PROVE Absent(c, m)
  <2>1. \A j \in a + 1 .. a + b : ~ Same(c[j], m)
    BY <1>4, <1>6
  <2>2. \A j \in 1 .. a : ~ Same(c[j], m)
    BY <1>2, <1>6 DEF Absent
  <2> HIDE DEF a, b, c
  <2>3. \A j \in 1 .. a + b : j \in 1 .. a \/ j \in a + 1 .. a + b
    BY <1>1
  <2> QED BY <1>1, <2>1, <2>2, <2>3 DEF Absent
<1> QED BY <1>3, <1>5, <1>6

(* The same for the inbox, by leaf.                                         *)
LEMMA InboxAppend ==
  ASSUME NEW q \in Seq(Payloads), NEW p, NEW x \in Payloads
  PROVE  /\ x = p => LastOf(Append(q, x), p)
         /\ Leaf(x) # Leaf(p) => /\ LastOf(q, p) => LastOf(Append(q, x), p)
                                 /\ NoneOf(q, p) => NoneOf(Append(q, x), p)
<1> DEFINE n == Len(q)
           c == Append(q, x)
<1>1. n \in Nat /\ Len(c) = n + 1 /\ c[n + 1] = x /\ \A i \in 1 .. n : c[i] = q[i]
  OBVIOUS
<1>2. x = p => LastOf(c, p)
  <2> HIDE DEF c, n
  <2> QED BY <1>1 DEF LastOf
<1>3. ASSUME Leaf(x) # Leaf(p), LastOf(q, p) PROVE LastOf(c, p)
  <2>1. PICK i \in 1 .. n : q[i] = p /\ \A j \in i + 1 .. n : Leaf(q[j]) # Leaf(p)
    BY <1>3 DEF LastOf
  <2> HIDE DEF c, n
  <2>2. \A j \in i + 1 .. n + 1 : Leaf(c[j]) # Leaf(p)
    <3> TAKE j \in i + 1 .. n + 1
    <3>1. j = n + 1 \/ j \in i + 1 .. n
      BY <1>1
    <3>2. j \in i + 1 .. n => c[j] = q[j]
      BY <1>1
    <3> QED BY <1>1, <1>3, <2>1, <3>1, <3>2
  <2>3. i \in 1 .. n + 1 /\ c[i] = p
    BY <1>1, <2>1
  <2> QED BY <1>1, <2>2, <2>3 DEF LastOf
<1>4. ASSUME Leaf(x) # Leaf(p), NoneOf(q, p) PROVE NoneOf(c, p)
  <2>1. \A j \in 1 .. n : Leaf(q[j]) # Leaf(p)
    BY <1>4 DEF NoneOf
  <2> HIDE DEF c, n
  <2>2. \A j \in 1 .. n + 1 : j = n + 1 \/ j \in 1 .. n
    BY <1>1
  <2> QED BY <1>1, <1>4, <2>1, <2>2 DEF NoneOf
<1> QED BY <1>2, <1>3, <1>4

LEMMA InboxTail ==
  ASSUME NEW q \in Seq(Payloads), NEW p, q # <<>>
  PROVE  /\ LastOf(q, p) => \/ LastOf(Tail(q), p)
                            \/ Head(q) = p /\ NoneOf(Tail(q), p)
         /\ NoneOf(q, p) => NoneOf(Tail(q), p) /\ Leaf(Head(q)) # Leaf(p)
<1> DEFINE n == Len(q)
           t == Tail(q)
<1>1. n \in Nat \ {0} /\ Len(t) = n - 1 /\ Head(q) = q[1]
  OBVIOUS
<1>2. \A i \in 1 .. n - 1 : t[i] = q[i + 1]
  OBVIOUS
<1>3. ASSUME LastOf(q, p)
      PROVE  LastOf(t, p) \/ (Head(q) = p /\ NoneOf(t, p))
  <2>1. PICK i \in 1 .. n : q[i] = p /\ \A j \in i + 1 .. n : Leaf(q[j]) # Leaf(p)
    BY <1>3 DEF LastOf
  <2> HIDE DEF n, t
  <2>2. CASE i = 1
    <3>1. \A j \in 1 .. n - 1 : Leaf(t[j]) # Leaf(p)
      BY <1>1, <1>2, <2>1, <2>2
    <3> QED BY <1>1, <2>1, <2>2, <3>1 DEF NoneOf
  <2>3. CASE i # 1
    <3>1. i - 1 \in 1 .. n - 1 /\ t[i - 1] = p
      BY <1>1, <1>2, <2>1, <2>3
    <3>2. \A j \in (i - 1) + 1 .. n - 1 : Leaf(t[j]) # Leaf(p)
      BY <1>1, <1>2, <2>1, <2>3
    <3> QED BY <1>1, <3>1, <3>2 DEF LastOf
  <2> QED BY <2>2, <2>3
<1>4. ASSUME NoneOf(q, p)
      PROVE  NoneOf(t, p) /\ Leaf(Head(q)) # Leaf(p)
  <2>1. \A j \in 1 .. n : Leaf(q[j]) # Leaf(p)
    BY <1>4 DEF NoneOf
  <2> HIDE DEF n, t
  <2> QED BY <1>1, <1>2, <2>1 DEF NoneOf
<1> QED BY <1>3, <1>4

-----------------------------------------------------------------------------
(* The inductive invariant *)

(* A payload is retained under its own leaf, and travels under it.           *)
LeavesMatch ==
  /\ \A d \in Devices, leaf \in Leaves :
       retained[d][leaf] \in Payloads => Leaf(retained[d][leaf]) = leaf
  /\ \A i \in 1 .. Len(wire) :
       wire[i].payload \in Payloads => Leaf(wire[i].payload) = wire[i].leaf

(* Whatever is not subscribed is about to be.                               *)
Subscribing ==
  connected => \A leaf \in Leaves :
    leaf \in subscribed \/ \E i \in 1 .. Len(toSubscribe) : toSubscribe[i] = leaf

Newest(d, leaf) == [device |-> d, leaf |-> leaf, payload |-> retained[d][leaf]]

(* Past the Router, p is on its way behind everything of its leaf, or folded. *)
Arriving(p) ==
  \/ held = p
  \/ /\ held = None \/ Leaf(held) # Leaf(p)
     /\ LastOf(inbox, p) \/ (NoneOf(inbox, p) /\ Reflects(st, p))

(* What is retained is the last of its topic on the wire; or the topic is    *)
(* not on the wire, and if the device is ours it has passed the Router.      *)
Fresh(d, leaf) ==
  \/ LastIn(wire, Newest(d, leaf))
  \/ /\ Absent(wire, Newest(d, leaf))
     /\ device_id # None
     /\ device_id = d => Arriving(retained[d][leaf])

AllFresh ==
  \A d \in Devices, leaf \in subscribed :
    retained[d][leaf] \in Payloads => Fresh(d, leaf)

SettleInv == LeavesMatch /\ Subscribing /\ AllFresh

LEMMA PayloadType == ASSUME FeedAssumption, NEW p \in Payloads
                     PROVE  p \in DomainMsg /\ Leaf(p) \in Leaves /\ p # None /\ p # Bad
  BY DEF FeedAssumption, Leaf, Leaves, DomainMsg

LEMMA NewestType ==
  ASSUME NEW d \in Devices, NEW leaf \in Leaves, retained[d][leaf] \in Payloads
  PROVE  Newest(d, leaf) \in Publication
  BY DEF Newest, Publication

(* A publish on a subscribed topic becomes the last on the wire.            *)
LEMMA DeliverStep ==
  ASSUME TypeOK, SettleInv,
         NEW d0 \in Devices, NEW l0 \in Leaves, NEW p0 \in Payloads \cup {Bad},
         NEW kept \in Payloads \cup {Bad, None},
         p0 \in Payloads => Leaf(p0) = l0,
         kept \in Payloads => kept = p0,
         Deliver(d0, l0, p0, kept)
  PROVE  SettleInv'
<1> DEFINE x == [device |-> d0, leaf |-> l0, payload |-> p0]
<1>0. /\ retained \in Retained /\ wire \in Seq(Publication) /\ x \in Publication
      /\ subscribed \subseteq Leaves
  BY DEF TypeOK, Publication
<1>1. /\ retained' = [retained EXCEPT ![d0][l0] = kept]
      /\ wire' = IF l0 \in subscribed THEN Append(wire, x) ELSE wire
      /\ UNCHANGED <<connected, toSubscribe, subscribed, device_id, held, inbox, st>>
  BY DEF Deliver, routerVars, mainVars
<1>2. \A d \in Devices, leaf \in Leaves :
        retained'[d][leaf] = IF d = d0 /\ leaf = l0 THEN kept ELSE retained[d][leaf]
  BY <1>0, <1>1 DEF Retained
<1>3. LeavesMatch'
  <2>1. \A d \in Devices, leaf \in Leaves :
          retained'[d][leaf] \in Payloads => Leaf(retained'[d][leaf]) = leaf
    BY <1>2 DEF SettleInv, LeavesMatch
  <2>2. \A i \in 1 .. Len(wire') : wire'[i] = x \/ \E j \in 1 .. Len(wire) : wire'[i] = wire[j]
    BY <1>0, <1>1
  <2>3. \A i \in 1 .. Len(wire') :
          wire'[i].payload \in Payloads => Leaf(wire'[i].payload) = wire'[i].leaf
    <3>1. x.payload \in Payloads => Leaf(x.payload) = x.leaf
      OBVIOUS
    <3> HIDE DEF x
    <3> QED BY <2>2, <3>1 DEF SettleInv, LeavesMatch
  <2> QED BY <2>1, <2>3 DEF LeavesMatch
<1>4. Subscribing'
  BY <1>1 DEF SettleInv, Subscribing
<1>5. ASSUME NEW d \in Devices, NEW leaf \in subscribed', retained'[d][leaf] \in Payloads
      PROVE  Fresh(d, leaf)'
  <2>0. leaf \in Leaves /\ leaf \in subscribed
    BY <1>0, <1>1, <1>5
  <2>1. CASE d = d0 /\ leaf = l0
    <3>1. Newest(d, leaf)' = x
      BY <1>2, <1>5, <2>0, <2>1 DEF Newest
    <3>2. wire' = Append(wire, x)
      BY <1>1, <2>0, <2>1
    <3> HIDE DEF x
    <3>3. LastIn(wire', x)
      BY <1>0, <3>2, WireAppend
    <3> QED BY <3>1, <3>3 DEF Fresh
  <2>2. CASE ~ (d = d0 /\ leaf = l0)
    <3>1. retained'[d][leaf] = retained[d][leaf]
      BY <1>2, <2>0, <2>2
    <3> DEFINE m == Newest(d, leaf)
    <3>2. Newest(d, leaf)' = m /\ m \in Publication
      BY <1>5, <2>0, <3>1, NewestType DEF Newest
    <3>3. ~ Same(x, m)
      BY <2>2 DEF Same, Newest
    <3>4. Fresh(d, leaf)
      BY <1>5, <2>0, <3>1 DEF SettleInv, AllFresh
    <3> HIDE DEF m, x
    <3>5. /\ LastIn(wire, m) => LastIn(wire', m)
          /\ Absent(wire, m) => Absent(wire', m)
      BY <1>0, <1>1, <3>2, <3>3, WireAppend
    <3>6. Arriving(retained[d][leaf]) => Arriving(retained[d][leaf])'
      BY <1>1, <3>1 DEF Arriving
    <3> QED BY <1>1, <3>1, <3>2, <3>4, <3>5, <3>6 DEF Fresh, m
  <2> QED BY <2>1, <2>2
<1> QED BY <1>3, <1>4, <1>5 DEF SettleInv, AllFresh

(* A subscription replays what the leaf retains, each device once.           *)
Holders(leaf) == {d \in Devices : retained[d][leaf] # None}
Replay(order, leaf) ==
  [i \in DOMAIN order |-> [device |-> order[i], leaf |-> leaf,
                          payload |-> retained[order[i]][leaf]]]

(* A replay holds the newest of each device, and nothing else.              *)
LEMMA ReplayCovers ==
  ASSUME TypeOK, NEW leaf \in Leaves, NEW order \in SetToSeqs(Holders(leaf))
  PROVE  LET v == Replay(order, leaf)
         IN  /\ v \in Seq(Publication)
             /\ \A d \in Devices : retained[d][leaf] # None => LastIn(v, Newest(d, leaf))
             /\ \A d \in Devices, other \in Leaves \ {leaf} : Absent(v, Newest(d, other))
             /\ \A i \in 1 .. Len(v) : \E e \in Devices : v[i] = Newest(e, leaf)
<1> DEFINE holders == Holders(leaf)
           n == Cardinality(holders)
           v == Replay(order, leaf)
<1>1. n \in Nat /\ IsFiniteSet(holders)
  BY FS_Subset, FS_CardinalityType, FeedAssumption DEF FeedAssumption, Holders
<1>2. /\ order \in [1 .. n -> holders]
      /\ \A i, j \in 1 .. n : i # j => order[i] # order[j]
  BY DEF SetToSeqs
<1>3. /\ v \in Seq(Publication)
      /\ Len(v) = n /\ \A i \in 1 .. n : v[i] = Newest(order[i], leaf)
  <2>1. DOMAIN v = 1 .. n
    BY <1>2 DEF Replay
  <2>2. v \in Seq(Publication)
    BY ReplayLemma DEF Holders, Replay
  <2>3. Len(v) \in Nat /\ DOMAIN v = 1 .. Len(v)
    BY <2>2
  <2> HIDE DEF n
  <2> QED BY <1>1, <1>2, <2>1, <2>2, <2>3 DEF Newest, Replay
<1>4. ASSUME NEW d \in Devices, retained[d][leaf] # None
      PROVE  LastIn(v, Newest(d, leaf))
  <2>1. d \in holders
    BY <1>4 DEF Holders
  <2> HIDE DEF holders
  <2>2. order \in Injection(1 .. n, holders)
    BY <1>2 DEF Injection, IsInjective
  <2>3. IsFiniteSet(1 .. n) /\ Cardinality(1 .. n) = n
    BY <1>1, FS_Interval
  <2>4. order \in Surjection(1 .. n, holders)
    BY <1>1, <2>2, <2>3, FS_Injection
  <2>5. PICK i \in 1 .. n : order[i] = d
    BY <2>1, <2>4 DEF Surjection
  <2>6. \A j \in i + 1 .. n : ~ Same(v[j], Newest(d, leaf))
    <3> TAKE j \in i + 1 .. n
    <3> HIDE DEF n
    <3>1. j \in 1 .. n /\ j # i
      BY <1>1
    <3>2. order[j] # d
      BY <1>2, <2>5, <3>1
    <3> QED BY <1>3, <3>1, <3>2 DEF Same, Newest
  <2> QED BY <1>3, <2>5, <2>6 DEF LastIn
<1>5. ASSUME NEW d \in Devices, NEW other \in Leaves \ {leaf}
      PROVE  Absent(v, Newest(d, other))
  <2>1. \A e, l : Newest(e, l).leaf = l
    BY DEF Newest
  <2> HIDE DEF n
  <2> QED BY <1>3, <2>1 DEF Absent, Same
<1>6. \A i \in 1 .. n : order[i] \in Devices
  <2>1. \A e \in holders : e \in Devices
    BY DEF Holders
  <2> HIDE DEF n, holders
  <2> QED BY <1>2, <2>1
<1> QED BY <1>3, <1>4, <1>5, <1>6

LEMMA SubscribeStep ==
  ASSUME TypeOK, SettleInv, Subscribe
  PROVE  SettleInv'
<1> DEFINE leaf == Head(toSubscribe)
<1>1. /\ toSubscribe \in Seq(Leaves) /\ toSubscribe # <<>> /\ leaf \in Leaves
      /\ wire \in Seq(Publication) /\ subscribed \subseteq Leaves
      /\ toSubscribe' = Tail(toSubscribe) /\ subscribed' = subscribed \cup {leaf}
      /\ UNCHANGED <<connected, retained, device_id, held, inbox, st>>
  BY DEF TypeOK, Subscribe, brokerVars, routerVars, mainVars
<1>2. PICK order \in SetToSeqs(Holders(leaf)) : wire' = wire \o Replay(order, leaf)
  BY DEF Subscribe, Holders, Replay
<1> DEFINE v == Replay(order, leaf)
<1>3. wire' = wire \o v
  BY <1>2
<1>4. /\ v \in Seq(Publication)
      /\ \A d \in Devices : retained[d][leaf] # None => LastIn(v, Newest(d, leaf))
      /\ \A d \in Devices, other \in Leaves \ {leaf} : Absent(v, Newest(d, other))
      /\ \A i \in 1 .. Len(v) : \E e \in Devices : v[i] = Newest(e, leaf)
  BY <1>1, <1>2, ReplayCovers
<1>5. \A i \in 1 .. Len(v) : \E e \in Devices : /\ v[i].leaf = leaf
                                              /\ v[i].payload = retained[e][leaf]
  <2> HIDE DEF v, leaf
  <2>1. \A e : Newest(e, leaf).leaf = leaf /\ Newest(e, leaf).payload = retained[e][leaf]
    BY DEF Newest
  <2> QED BY <1>4, <2>1
<1>6. LeavesMatch'
  <2> HIDE DEF v, leaf
  <2>1. ASSUME NEW i \in 1 .. Len(wire'), wire'[i].payload \in Payloads
        PROVE  Leaf(wire'[i].payload) = wire'[i].leaf
    <3>1. \/ i \in 1 .. Len(wire) /\ wire'[i] = wire[i]
          \/ i - Len(wire) \in 1 .. Len(v) /\ wire'[i] = v[i - Len(wire)]
      BY <1>1, <1>3, <1>4
    <3>2. CASE i \in 1 .. Len(wire) /\ wire'[i] = wire[i]
      BY <2>1, <3>2 DEF SettleInv, LeavesMatch
    <3>3. CASE i - Len(wire) \in 1 .. Len(v) /\ wire'[i] = v[i - Len(wire)]
      <4>1. PICK e \in Devices : /\ wire'[i].leaf = leaf
                                /\ wire'[i].payload = retained[e][leaf]
        BY <1>5, <3>3
      <4> QED BY <1>1, <2>1, <4>1 DEF SettleInv, LeavesMatch
    <3> QED BY <3>1, <3>2, <3>3
  <2> QED BY <1>1, <2>1 DEF SettleInv, LeavesMatch
<1>7. Subscribing'
  <2> SUFFICES ASSUME connected, NEW l \in Leaves, l \notin subscribed'
               PROVE  \E i \in 1 .. Len(toSubscribe') : toSubscribe'[i] = l
    BY <1>1 DEF Subscribing
  <2>1. PICK i \in 1 .. Len(toSubscribe) : toSubscribe[i] = l
    BY <1>1 DEF SettleInv, Subscribing
  <2>2. i # 1
    BY <1>1, <2>1
  <2>3. i - 1 \in 1 .. Len(toSubscribe') /\ toSubscribe'[i - 1] = l
    BY <1>1, <2>1, <2>2
  <2> QED BY <2>3
<1>8. ASSUME NEW d \in Devices, NEW l \in subscribed', retained'[d][l] \in Payloads
      PROVE  Fresh(d, l)'
  <2> DEFINE m == Newest(d, l)
  <2>1. l \in Leaves /\ m \in Publication /\ Newest(d, l)' = m
    BY <1>1, <1>8, NewestType DEF Newest
  <2>2. retained[d][l] # None /\ retained[d][l] \in Payloads
    BY <1>1, <1>8, FeedAssumption DEF FeedAssumption
  <2> HIDE DEF v, m
  <2>3. CASE l = leaf
    <3>1. LastIn(v, m)
      BY <1>4, <2>2, <2>3 DEF m
    <3>2. LastIn(wire', m)
      BY <1>1, <1>3, <1>4, <2>1, <3>1, WireConcat
    <3> QED BY <2>1, <3>2 DEF Fresh
  <2>4. CASE l # leaf
    <3>1. Fresh(d, l)
      BY <1>1, <2>2, <2>4 DEF SettleInv, AllFresh
    <3>2. Absent(v, m)
      BY <1>4, <2>1, <2>4 DEF m
    <3>3. /\ LastIn(wire, m) => LastIn(wire', m)
          /\ Absent(wire, m) => Absent(wire', m)
      BY <1>1, <1>3, <1>4, <2>1, <3>2, WireConcat
    <3>4. Arriving(retained[d][l]) => Arriving(retained[d][l])'
      BY <1>1 DEF Arriving
    <3> QED BY <1>1, <2>1, <3>1, <3>3, <3>4 DEF Fresh, m
  <2> QED BY <2>3, <2>4
<1> QED BY <1>6, <1>7, <1>8 DEF SettleInv, AllFresh

(* What leaves the wire is either not ours to take or passes the Router.    *)
LEMMA RouteStep ==
  ASSUME TypeOK, SettleInv, Route
  PROVE  SettleInv'
<1> DEFINE h == Head(wire)
<1>1. /\ wire \in Seq(Publication) /\ wire # <<>> /\ wire' = Tail(wire) /\ held = None
      /\ h \in Publication /\ subscribed \subseteq Leaves
      /\ UNCHANGED <<connected, retained, toSubscribe, subscribed, inbox, st>>
  BY DEF TypeOK, Route, Polling, brokerVars, mainVars
<1>2. /\ device_id' = IF device_id = None THEN h.device ELSE device_id
      /\ held' = IF Accepts(h.device) /\ h.payload # Bad THEN h.payload ELSE None
  BY <1>1 DEF Route
<1>3. h.payload \in Payloads => Leaf(h.payload) = h.leaf
  <2>1. h = wire[1] /\ 1 \in 1 .. Len(wire)
    BY <1>1
  <2> HIDE DEF h
  <2> QED BY <2>1 DEF SettleInv, LeavesMatch
<1>4. LeavesMatch'
  <2>1. \A i \in 1 .. Len(wire') : i + 1 \in 1 .. Len(wire) /\ wire'[i] = wire[i + 1]
    BY <1>1
  <2> QED BY <1>1, <2>1 DEF SettleInv, LeavesMatch
<1>5. Subscribing'
  BY <1>1 DEF SettleInv, Subscribing
<1>6. ASSUME NEW d \in Devices, NEW l \in subscribed', retained'[d][l] \in Payloads
      PROVE  Fresh(d, l)'
  <2> DEFINE m == Newest(d, l)
             p == retained[d][l]
  <2>1. l \in Leaves /\ m \in Publication /\ Newest(d, l)' = m /\ p' = p
        /\ p \in Payloads /\ p # Bad /\ p # None /\ None \notin Devices
    BY <1>1, <1>6, NewestType, FeedAssumption DEF Newest, FeedAssumption
  <2>2. m.device = d /\ m.leaf = l /\ m.payload = p
    BY DEF Newest
  <2>3. Leaf(p) = l
    BY <2>1 DEF SettleInv, LeavesMatch
  <2>4. Fresh(d, l)
    BY <1>1, <2>1 DEF SettleInv, AllFresh
  <2>5. device_id' # None
    BY <1>1, <1>2, <2>1 DEF Publication
  <2> HIDE DEF h, m, p
  <2>6. CASE LastIn(Tail(wire), m)
    BY <1>1, <2>1, <2>6 DEF Fresh
  <2>7. CASE h = m /\ Absent(Tail(wire), m)
    <3>1. device_id' = d => held' = p
      BY <1>2, <2>1, <2>2, <2>7 DEF Accepts
    <3> QED BY <1>1, <2>1, <2>5, <2>7, <3>1 DEF Fresh, Arriving, p
  <2>8. CASE ~ LastIn(wire, m)
    <3>1. Absent(wire, m) /\ device_id # None /\ (device_id = d => Arriving(p))
      BY <2>4, <2>8 DEF Fresh, m, p
    <3>2. Absent(Tail(wire), m) /\ ~ Same(h, m)
      BY <1>1, <2>1, <3>1, WireTail DEF h
    <3>3. device_id' = device_id
      BY <1>2, <3>1
    <3>4. ASSUME device_id = d PROVE Arriving(p)'
      <4>1. held' = None \/ Leaf(held') # Leaf(p)
        <5>1. CASE Accepts(h.device) /\ h.payload # Bad
          <6>1. h.device = d
            BY <3>1, <3>4, <5>1 DEF Accepts
          <6>2. h.leaf # l
            BY <2>2, <3>2, <6>1 DEF Same
          <6>3. h.payload \in Payloads
            BY <1>1, <5>1 DEF Publication
          <6> QED BY <1>2, <1>3, <2>3, <5>1, <6>2, <6>3
        <5>2. CASE ~ (Accepts(h.device) /\ h.payload # Bad)
          BY <1>2, <5>2
        <5> QED BY <5>1, <5>2
      <4>2. LastOf(inbox, p) \/ (NoneOf(inbox, p) /\ Reflects(st, p))
        BY <1>1, <2>1, <3>1, <3>4 DEF Arriving
      <4> QED BY <1>1, <2>1, <4>1, <4>2 DEF Arriving
    <3> QED BY <1>1, <2>1, <3>1, <3>2, <3>3, <3>4 DEF Fresh, p
  <2> QED BY <1>1, <2>1, <2>6, <2>7, <2>8, WireTail DEF h
<1> QED BY <1>4, <1>5, <1>6 DEF SettleInv, AllFresh

(* Where only the ingest task's and main's side moves, it is enough that     *)
(* what is arriving keeps arriving.                                         *)
LEMMA ArrivingStep ==
  ASSUME SettleInv,
         UNCHANGED <<connected, retained, toSubscribe, subscribed, wire, device_id>>,
         subscribed \subseteq Leaves,
         \A p \in Payloads : Arriving(p) => Arriving(p)'
  PROVE  SettleInv'
<1>1. LeavesMatch' /\ Subscribing'
  BY DEF SettleInv, LeavesMatch, Subscribing
<1>2. ASSUME NEW d \in Devices, NEW l \in subscribed', retained'[d][l] \in Payloads
      PROVE  Fresh(d, l)'
  <2>1. Newest(d, l)' = Newest(d, l)
    BY DEF Newest
  <2>2. Fresh(d, l)
    BY <1>2 DEF SettleInv, AllFresh
  <2>3. Arriving(retained[d][l]) => Arriving(retained[d][l])'
    BY <1>2
  <2> QED BY <2>1, <2>2, <2>3 DEF Fresh
<1> QED BY <1>1, <1>2 DEF SettleInv, AllFresh

LEMMA ForwardStep ==
  ASSUME TypeOK, SettleInv, Forward
  PROVE  SettleInv'
<1>1. /\ held \in Payloads /\ inbox \in Seq(Payloads) /\ subscribed \subseteq Leaves
      /\ held # None /\ inbox' = Append(inbox, held) /\ held' = None
      /\ UNCHANGED <<connected, retained, toSubscribe, subscribed, wire, device_id, st>>
  BY DEF TypeOK, Forward, brokerVars, connVars, mainVars
<1>2. ASSUME NEW p \in Payloads, Arriving(p) PROVE Arriving(p)'
  <2>1. CASE held = p
    <3>1. LastOf(inbox', p)
      BY <1>1, <2>1, InboxAppend
    <3> QED BY <1>1, <3>1 DEF Arriving
  <2>2. CASE held # p
    <3>1. Leaf(held) # Leaf(p) /\ (LastOf(inbox, p) \/ (NoneOf(inbox, p) /\ Reflects(st, p)))
      BY <1>1, <1>2, <2>2 DEF Arriving
    <3>2. LastOf(inbox', p) \/ (NoneOf(inbox', p) /\ Reflects(st', p))
      BY <1>1, <3>1, InboxAppend
    <3> QED BY <1>1, <3>2 DEF Arriving
  <2> QED BY <2>1, <2>2
<1> QED BY <1>1, <1>2, ArrivingStep

LEMMA FoldStep ==
  ASSUME TypeOK, SettleInv, Fold
  PROVE  SettleInv'
<1> DEFINE q == Head(inbox)
<1>1. /\ inbox \in Seq(Payloads) /\ inbox # <<>> /\ inbox' = Tail(inbox) /\ q \in Payloads
      /\ subscribed \subseteq Leaves /\ st \in State /\ st' = Apply(st, q)
      /\ UNCHANGED <<connected, retained, toSubscribe, subscribed, wire, device_id, held>>
  BY DEF TypeOK, Fold, brokerVars, connVars, routerVars
<1>2. ASSUME NEW p \in Payloads, Arriving(p) PROVE Arriving(p)'
  <2> HIDE DEF q
  <2>1. p \in DomainMsg /\ q \in DomainMsg
    BY <1>1, FeedAssumption DEF FeedAssumption
  <2>2. CASE held = p
    BY <1>1, <2>2 DEF Arriving
  <2>3. CASE LastOf(inbox, p) /\ held # p
    <3>1. LastOf(inbox', p) \/ (q = p /\ NoneOf(inbox', p))
      BY <1>1, <2>3, InboxTail DEF q
    <3>2. q = p => Reflects(st', p)
      BY <1>1, <2>1, FoldReflects
    <3> QED BY <1>1, <1>2, <2>3, <3>1, <3>2 DEF Arriving
  <2>4. CASE NoneOf(inbox, p) /\ Reflects(st, p) /\ held # p
    <3>1. NoneOf(inbox', p) /\ Leaf(q) # Leaf(p)
      BY <1>1, <2>4, InboxTail DEF q
    <3>2. Reflects(st', p)
      BY <1>1, <2>1, <2>4, <3>1, FoldKeeps
    <3> QED BY <1>1, <1>2, <2>4, <3>1, <3>2 DEF Arriving
  <2> QED BY <1>2, <2>2, <2>3, <2>4 DEF Arriving
<1> QED BY <1>1, <1>2, ArrivingStep

(* Every step keeps what is retained on its way, in order, or folded.       *)
LEMMA SettleStep ==
  ASSUME TypeOK, SettleInv, [Next]_vars
  PROVE  SettleInv'
<1> USE FeedAssumption
<1>1. ASSUME NEW d \in Devices, NEW p \in Payloads, Publish(d, Leaf(p), p)
      PROVE  SettleInv'
  BY <1>1, DeliverStep, PayloadType DEF Publish
<1>2. ASSUME NEW d \in Devices, NEW leaf \in Leaves,
             Publish(d, leaf, Bad) \/ Clear(d, leaf)
      PROVE  SettleInv'
  BY <1>2, DeliverStep DEF Publish, Clear
<1>3. CASE Connect
  <2>1. /\ toSubscribe' = Filters
        /\ UNCHANGED <<retained, subscribed, wire, device_id, held, inbox, st>>
    BY <1>3 DEF Connect, brokerVars, routerVars, mainVars
  <2>2. Subscribing'
    <3>1. /\ Len(Filters) = 3 /\ Filters[1] = "info"
          /\ Filters[2] = "instantaneous" /\ Filters[3] = "status"
      BY DEF Filters
    <3> QED BY <2>1, <3>1 DEF Subscribing, Leaves
  <2>3. LeavesMatch'
    BY <2>1 DEF SettleInv, LeavesMatch
  <2>4. AllFresh'
    BY <2>1 DEF SettleInv, AllFresh, Fresh, Newest, Arriving
  <2> QED BY <2>2, <2>3, <2>4 DEF SettleInv
<1>4. CASE Subscribe
  BY <1>4, SubscribeStep
<1>5. CASE Break
  <2>1. /\ subscribed' = {} /\ wire' = <<>> /\ connected' = FALSE
        /\ UNCHANGED retained
    BY <1>5 DEF Break
  <2> QED BY <2>1 DEF SettleInv, LeavesMatch, Subscribing, AllFresh
<1>6. CASE Route
  BY <1>6, RouteStep
<1>7. CASE Forward
  BY <1>7, ForwardStep
<1>8. CASE Fold
  BY <1>8, FoldStep
<1>9. CASE Start \/ UNCHANGED vars
  <2>1. UNCHANGED <<retained, connected, toSubscribe, subscribed, wire, device_id,
                    held, inbox, st>>
    BY <1>9 DEF Start, vars, brokerVars, connVars, routerVars, mainVars
  <2>2. \A p \in Payloads : Arriving(p) => Arriving(p)'
    BY <2>1 DEF Arriving
  <2>3. subscribed \subseteq Leaves
    BY DEF TypeOK
  <2> QED BY <2>1, <2>2, <2>3, ArrivingStep
<1> QED BY <1>1, <1>2, <1>3, <1>4, <1>5, <1>6, <1>7, <1>8, <1>9 DEF Next

(* At the start nothing is subscribed yet.                                  *)
LEMMA SettleInit ==
  ASSUME Init
  PROVE  SettleInv
<1> USE FeedAssumption
<1>1. LeavesMatch
  BY DEF Init, LeavesMatch
<1> QED BY <1>1 DEF Init, SettleInv, Subscribing, AllFresh

(* What is retained for our device is on its way, in order, or folded.      *)
THEOREM SettleInvCorrect == Spec => []SettleInv
  BY SettleInit, SettleStep, FeedTypeCorrect, PTL DEF Spec

-----------------------------------------------------------------------------
(* Quiet, everything retained is reflected.                                 *)
LEMMA SettledReflects ==
  ASSUME TypeOK, SettleInv, Settled, device_id # None,
         NEW leaf \in Leaves, Holds(leaf)
  PROVE  /\ Leaf(retained[device_id][leaf]) = leaf
         /\ retained[device_id][leaf] \in DomainMsg
         /\ Reflects(st, retained[device_id][leaf])
<1>1. device_id \in Devices /\ retained[device_id][leaf] \in Payloads
  BY DEF TypeOK, Retained, Holds
<1>2. leaf \in subscribed
  BY DEF SettleInv, Subscribing, Settled
<1>3. Fresh(device_id, leaf)
  BY <1>1, <1>2 DEF SettleInv, AllFresh
<1>4. Len(wire) = 0 /\ Len(inbox) = 0 /\ held = None
  BY DEF Settled
<1>5. Arriving(retained[device_id][leaf])
  BY <1>3, <1>4 DEF Fresh, LastIn
<1>6. retained[device_id][leaf] # None
  BY DEF Holds
<1>7. Reflects(st, retained[device_id][leaf])
  BY <1>4, <1>5, <1>6 DEF Arriving, LastOf
<1> QED BY <1>1, <1>7, PayloadType, FeedAssumption DEF SettleInv, LeavesMatch

(* The two properties that a quiet connection has by that invariant.        *)
LEMMA SettledStateHolds ==
  ASSUME TypeOK, SettleInv
  PROVE  SettledState
<1> SUFFICES ASSUME Settled, device_id # None PROVE SettledState
  BY DEF SettledState
<1> DEFINE r == retained[device_id]
<1>1. /\ Holds("status") => st.snapshot.link = r["status"].status
      /\ Holds("info") => st.info = r["info"].info
  BY SettledReflects DEF Leaves, Leaf, Reflects, DomainMsg
<1>2. ASSUME Holds("instantaneous")
      PROVE  r["instantaneous"].type = "Pack" /\ Reflects(st, r["instantaneous"])
  BY <1>2, SettledReflects DEF Leaves, Leaf, DomainMsg
<1> QED BY <1>1, <1>2 DEF SettledState, Reflects

(* The readings are those of the pack, or the mask has taken all of them.   *)
LEMMA SettledReadingsHolds ==
  ASSUME TypeOK, SettleInv
  PROVE  SettledReadings
<1> SUFFICES ASSUME Settled, device_id # None, Holds("instantaneous")
             PROVE  SettledReadings
  BY DEF SettledReadings
<1> DEFINE p == retained[device_id]["instantaneous"]
<1>1. p.type = "Pack" /\ Reflects(st, p)
  BY SettledReflects DEF Leaves, Leaf, DomainMsg
<1> QED BY <1>1 DEF SettledReadings, Reflects

(* State replays by itself: whatever was published or cleared while the      *)
(* connection was down, once MQTT is quiet the link, the identity and the    *)
(* lifetime total are those that the broker retains for our device.          *)
THEOREM SettledStateCorrect == Spec => []SettledState
  BY SettledStateHolds, SettleInvCorrect, FeedTypeCorrect, PTL

(* No reading outlives its pack: once MQTT is quiet the readings and the two *)
(* states are all of the retained pack's or none.                           *)
THEOREM SettledReadingsCorrect == Spec => []SettledReadings
  BY SettledReadingsHolds, SettleInvCorrect, FeedTypeCorrect, PTL
=============================================================================
