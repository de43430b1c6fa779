-------------------------- MODULE MatterNodeProofs --------------------------
(* Theorems on MatterNode, for any snapshots that the bridge may publish.    *)
EXTENDS MatterNode, TLAPS, FiniteSetTheorems

-----------------------------------------------------------------------------
(* The chain answers for the tree                                           *)

(* A segment of the chain with no link for the endpoint passes on.          *)
LEMMA ChainedMiss ==
  ASSUME NEW links, NEW ep, NEW c, NEW next,
         \A k \in DOMAIN links : links[k].endpoint # ep
  PROVE  Chained(links, ep, c, next) = next
  BY DEF Chained

(* One with a single link for the cluster answers by its handler.           *)
LEMMA ChainedHit ==
  ASSUME NEW links, NEW ep, NEW c, NEW next, NEW k \in Nat,
         k \in DOMAIN links, links[k].endpoint = ep, links[k].cluster = c.id,
         \A m \in DOMAIN links : m # k => links[m].cluster # c.id
  PROVE  Chained(links, ep, c, next) = links[k].handler
<1> DEFINE hits == {m \in DOMAIN links : links[m].endpoint = ep /\ links[m].cluster = c.id}
<1>1. hits = {k}
  OBVIOUS
<1>2. (CHOOSE m \in hits : \A j \in hits : j <= m) = k
  BY <1>1
<1> QED BY <1>1, <1>2 DEF Chained

(* Each segment binds the handlers of one endpoint.                         *)
LEMMA SegmentEndpoints ==
  /\ \A k \in DOMAIN RootLinks : RootLinks[k].endpoint = EP_ROOT
  /\ \A k \in DOMAIN SolarLinks : SolarLinks[k].endpoint = EP_SOLAR_POWER
  /\ \A k \in DOMAIN PowerSourceLinks : PowerSourceLinks[k].endpoint = EP_POWER_SOURCE
  /\ \A k \in DOMAIN SensorLinks : SensorLinks[k].endpoint = EP_ELECTRICAL_SENSOR
  /\ \A k \in DOMAIN TemperatureLinks : TemperatureLinks[k].endpoint = EP_TEMPERATURE
<1> USE DEF Link
<1>1. \A k \in DOMAIN RootLinks : RootLinks[k].endpoint = EP_ROOT
  BY DEF RootLinks
<1>2. \A k \in DOMAIN SolarLinks : SolarLinks[k].endpoint = EP_SOLAR_POWER
  BY DEF SolarLinks
<1>3. \A k \in DOMAIN PowerSourceLinks : PowerSourceLinks[k].endpoint = EP_POWER_SOURCE
  BY DEF PowerSourceLinks
<1>4. \A k \in DOMAIN SensorLinks : SensorLinks[k].endpoint = EP_ELECTRICAL_SENSOR
  BY DEF SensorLinks
<1>5. \A k \in DOMAIN TemperatureLinks : TemperatureLinks[k].endpoint = EP_TEMPERATURE
  BY DEF TemperatureLinks
<1> QED BY <1>1, <1>2, <1>3, <1>4, <1>5

(* So a message comes to the segment of its endpoint and to no other.        *)
LEMMA DispatchSegment ==
  ASSUME NEW c
  PROVE  /\ Dispatch(EP_ROOT, c) = Chained(RootLinks, EP_ROOT, c, Handler("none"))
         /\ Dispatch(EP_SOLAR_POWER, c)
              = Chained(SolarLinks, EP_SOLAR_POWER, c, Handler("none"))
         /\ Dispatch(EP_POWER_SOURCE, c)
              = Chained(PowerSourceLinks, EP_POWER_SOURCE, c, Handler("none"))
         /\ Dispatch(EP_ELECTRICAL_SENSOR, c)
              = Chained(SensorLinks, EP_ELECTRICAL_SENSOR, c, Handler("none"))
         /\ Dispatch(EP_TEMPERATURE, c)
              = Chained(TemperatureLinks, EP_TEMPERATURE, c, Handler("none"))
<1> USE DEF EP_ROOT, EP_SOLAR_POWER, EP_POWER_SOURCE, EP_ELECTRICAL_SENSOR, EP_TEMPERATURE
<1>1. \A ep, next : ep # 0 => Chained(RootLinks, ep, c, next) = next
  BY SegmentEndpoints, ChainedMiss
<1>2. \A ep, next : ep # 1 => Chained(SolarLinks, ep, c, next) = next
  BY SegmentEndpoints, ChainedMiss
<1>3. \A ep, next : ep # 2 => Chained(PowerSourceLinks, ep, c, next) = next
  BY SegmentEndpoints, ChainedMiss
<1>4. \A ep, next : ep # 3 => Chained(SensorLinks, ep, c, next) = next
  BY SegmentEndpoints, ChainedMiss
<1>5. \A ep, next : ep # 4 => Chained(TemperatureLinks, ep, c, next) = next
  BY SegmentEndpoints, ChainedMiss
<1> QED BY <1>1, <1>2, <1>3, <1>4, <1>5 DEF Dispatch

(* The handler that answers for a cluster that an endpoint declares.        *)
DescOf(ep) == [Handler("Desc") EXCEPT !.parts = IF ep = EP_SOLAR_POWER THEN "solar" ELSE @]

Bound(ep, c, h) ==
  \/ c = DESC /\ ep \in {EP_ROOT, EP_SOLAR_POWER, EP_ELECTRICAL_SENSOR} /\ h = DescOf(ep)
  \/ c = TAGGED_DESC /\ ep = EP_POWER_SOURCE /\ h = TaggedDesc(GRID_TAG)
  \/ c = TAGGED_DESC /\ ep = EP_TEMPERATURE /\ h = TaggedDesc(INVERTER_TEMPERATURE_TAG)
  \/ c = IDENTIFY /\ h = Handler("Identify")
  \/ c = SYSTEM /\ ep = EP_ROOT /\ h = Handler("System")
  \/ c = POWER_SOURCE /\ ep = EP_POWER_SOURCE /\ h = Handler("PowerSource")
  \/ c = POWER_TOPOLOGY /\ ep = EP_ELECTRICAL_SENSOR /\ h = Handler("PowerTopology")
  \/ c = EPM /\ ep = EP_ELECTRICAL_SENSOR /\ h = Handler("Epm")
  \/ c = EEM /\ ep = EP_ELECTRICAL_SENSOR /\ h = Handler("Eem")
  \/ c = TEMPERATURE /\ ep = EP_TEMPERATURE /\ h = Handler("Temperature")

(* The root and the sensor have the Descriptor that has no parts matcher.    *)
LEMMA DescOfPlain ==
  DescOf(EP_ROOT) = Handler("Desc") /\ DescOf(EP_ELECTRICAL_SENSOR) = Handler("Desc")
  BY DEF DescOf, Handler, EP_ROOT, EP_SOLAR_POWER, EP_ELECTRICAL_SENSOR

(* The clusters have names of their own.                                    *)
LEMMA ClusterIds ==
  /\ DESC.id = "Descriptor" /\ TAGGED_DESC.id = "Descriptor" /\ IDENTIFY.id = "Identify"
  /\ SYSTEM.id = "System" /\ POWER_SOURCE.id = "PowerSource"
  /\ POWER_TOPOLOGY.id = "PowerTopology" /\ EPM.id = "Epm" /\ EEM.id = "Eem"
  /\ TEMPERATURE.id = "Temperature"
  BY DEF Cluster, DESC, TAGGED_DESC, IDENTIFY, SYSTEM, POWER_SOURCE, POWER_TOPOLOGY,
         EPM, EEM, TEMPERATURE

(* What the tree declares.                                                  *)
LEMMA NodeClusters ==
  /\ ToSet(NODE[EP_ROOT].clusters) = {DESC, SYSTEM}
  /\ ToSet(NODE[EP_SOLAR_POWER].clusters) = {DESC, IDENTIFY}
  /\ ToSet(NODE[EP_POWER_SOURCE].clusters) = {TAGGED_DESC, IDENTIFY, POWER_SOURCE}
  /\ ToSet(NODE[EP_ELECTRICAL_SENSOR].clusters)
       = {DESC, IDENTIFY, POWER_TOPOLOGY, EPM, EEM}
  /\ ToSet(NODE[EP_TEMPERATURE].clusters) = {TAGGED_DESC, IDENTIFY, TEMPERATURE}
<1> USE DEF EP_ROOT, EP_SOLAR_POWER, EP_POWER_SOURCE, EP_ELECTRICAL_SENSOR,
            EP_TEMPERATURE, Endpoints, Endpoint, ToSet
<1>1. NODE[EP_ROOT].clusters = <<DESC, SYSTEM>>
  BY DEF NODE
<1>2. NODE[EP_SOLAR_POWER].clusters = <<DESC, IDENTIFY>>
  BY DEF NODE
<1>3. NODE[EP_POWER_SOURCE].clusters = <<TAGGED_DESC, IDENTIFY, POWER_SOURCE>>
  BY DEF NODE
<1>4. NODE[EP_ELECTRICAL_SENSOR].clusters = <<DESC, IDENTIFY, POWER_TOPOLOGY, EPM, EEM>>
  BY DEF NODE
<1>5. NODE[EP_TEMPERATURE].clusters = <<TAGGED_DESC, IDENTIFY, TEMPERATURE>>
  BY DEF NODE
<1>6. \A a, b : ToSet(<<a, b>>) = {a, b}
  OBVIOUS
<1>7. \A a, b, d : ToSet(<<a, b, d>>) = {a, b, d}
  OBVIOUS
<1>8. \A a, b, d, e, f : ToSet(<<a, b, d, e, f>>) = {a, b, d, e, f}
  OBVIOUS
<1> QED BY <1>1, <1>2, <1>3, <1>4, <1>5, <1>6, <1>7, <1>8

(* The links and the clusters of EP_ROOT.                                       *)
LEMMA RootBound ==
  ASSUME NEW c \in ToSet(NODE[EP_ROOT].clusters)
  PROVE  Bound(EP_ROOT, c, Dispatch(EP_ROOT, c))
<1>1. /\ DOMAIN RootLinks = 1 .. 2
      /\ RootLinks[1].endpoint = EP_ROOT
      /\ RootLinks[1].cluster = "Descriptor"
      /\ RootLinks[2].endpoint = EP_ROOT
      /\ RootLinks[2].cluster = "System"
  BY ClusterIds DEF RootLinks, Link
<1>2. CASE c = DESC
  <2>1. Chained(RootLinks, EP_ROOT, c, Handler("none"))
          = RootLinks[1].handler
    BY <1>1, <1>2, ClusterIds, ChainedHit
  <2>2. RootLinks[1].handler = Handler("Desc")
    BY DEF RootLinks, Link
  <2> QED BY <1>2, <2>1, <2>2, DispatchSegment, DescOfPlain DEF Bound
<1>3. CASE c = SYSTEM
  <2>1. Chained(RootLinks, EP_ROOT, c, Handler("none"))
          = RootLinks[2].handler
    BY <1>1, <1>3, ClusterIds, ChainedHit
  <2>2. RootLinks[2].handler = Handler("System")
    BY DEF RootLinks, Link
  <2> QED BY <1>3, <2>1, <2>2, DispatchSegment DEF Bound
<1> QED BY <1>2, <1>3, NodeClusters

(* The links and the clusters of EP_SOLAR_POWER.                                *)
LEMMA SolarBound ==
  ASSUME NEW c \in ToSet(NODE[EP_SOLAR_POWER].clusters)
  PROVE  Bound(EP_SOLAR_POWER, c, Dispatch(EP_SOLAR_POWER, c))
<1>1. /\ DOMAIN SolarLinks = 1 .. 2
      /\ SolarLinks[1].endpoint = EP_SOLAR_POWER
      /\ SolarLinks[1].cluster = "Descriptor"
      /\ SolarLinks[2].endpoint = EP_SOLAR_POWER
      /\ SolarLinks[2].cluster = "Identify"
  BY ClusterIds DEF SolarLinks, Link
<1>2. CASE c = DESC
  <2>1. Chained(SolarLinks, EP_SOLAR_POWER, c, Handler("none"))
          = SolarLinks[1].handler
    BY <1>1, <1>2, ClusterIds, ChainedHit
  <2>2. SolarLinks[1].handler = DescOf(EP_SOLAR_POWER)
    BY DEF SolarLinks, Link, DescOf
  <2> QED BY <1>2, <2>1, <2>2, DispatchSegment DEF Bound
<1>3. CASE c = IDENTIFY
  <2>1. Chained(SolarLinks, EP_SOLAR_POWER, c, Handler("none"))
          = SolarLinks[2].handler
    BY <1>1, <1>3, ClusterIds, ChainedHit
  <2>2. SolarLinks[2].handler = Handler("Identify")
    BY DEF SolarLinks, Link
  <2> QED BY <1>3, <2>1, <2>2, DispatchSegment DEF Bound
<1> QED BY <1>2, <1>3, NodeClusters

(* The links and the clusters of EP_POWER_SOURCE.                               *)
LEMMA PowerSourceBound ==
  ASSUME NEW c \in ToSet(NODE[EP_POWER_SOURCE].clusters)
  PROVE  Bound(EP_POWER_SOURCE, c, Dispatch(EP_POWER_SOURCE, c))
<1>1. /\ DOMAIN PowerSourceLinks = 1 .. 3
      /\ PowerSourceLinks[1].endpoint = EP_POWER_SOURCE
      /\ PowerSourceLinks[1].cluster = "Descriptor"
      /\ PowerSourceLinks[2].endpoint = EP_POWER_SOURCE
      /\ PowerSourceLinks[2].cluster = "Identify"
      /\ PowerSourceLinks[3].endpoint = EP_POWER_SOURCE
      /\ PowerSourceLinks[3].cluster = "PowerSource"
  BY ClusterIds DEF PowerSourceLinks, Link
<1>2. CASE c = TAGGED_DESC
  <2>1. Chained(PowerSourceLinks, EP_POWER_SOURCE, c, Handler("none"))
          = PowerSourceLinks[1].handler
    BY <1>1, <1>2, ClusterIds, ChainedHit
  <2>2. PowerSourceLinks[1].handler = TaggedDesc(GRID_TAG)
    BY DEF PowerSourceLinks, Link
  <2> QED BY <1>2, <2>1, <2>2, DispatchSegment DEF Bound
<1>3. CASE c = IDENTIFY
  <2>1. Chained(PowerSourceLinks, EP_POWER_SOURCE, c, Handler("none"))
          = PowerSourceLinks[2].handler
    BY <1>1, <1>3, ClusterIds, ChainedHit
  <2>2. PowerSourceLinks[2].handler = Handler("Identify")
    BY DEF PowerSourceLinks, Link
  <2> QED BY <1>3, <2>1, <2>2, DispatchSegment DEF Bound
<1>4. CASE c = POWER_SOURCE
  <2>1. Chained(PowerSourceLinks, EP_POWER_SOURCE, c, Handler("none"))
          = PowerSourceLinks[3].handler
    BY <1>1, <1>4, ClusterIds, ChainedHit
  <2>2. PowerSourceLinks[3].handler = Handler("PowerSource")
    BY DEF PowerSourceLinks, Link
  <2> QED BY <1>4, <2>1, <2>2, DispatchSegment DEF Bound
<1> QED BY <1>2, <1>3, <1>4, NodeClusters

(* The links and the clusters of EP_ELECTRICAL_SENSOR.                          *)
LEMMA SensorBound ==
  ASSUME NEW c \in ToSet(NODE[EP_ELECTRICAL_SENSOR].clusters)
  PROVE  Bound(EP_ELECTRICAL_SENSOR, c, Dispatch(EP_ELECTRICAL_SENSOR, c))
<1>1. /\ DOMAIN SensorLinks = 1 .. 5
      /\ SensorLinks[1].endpoint = EP_ELECTRICAL_SENSOR
      /\ SensorLinks[1].cluster = "Descriptor"
      /\ SensorLinks[2].endpoint = EP_ELECTRICAL_SENSOR
      /\ SensorLinks[2].cluster = "Identify"
      /\ SensorLinks[3].endpoint = EP_ELECTRICAL_SENSOR
      /\ SensorLinks[3].cluster = "PowerTopology"
      /\ SensorLinks[4].endpoint = EP_ELECTRICAL_SENSOR
      /\ SensorLinks[4].cluster = "Epm"
      /\ SensorLinks[5].endpoint = EP_ELECTRICAL_SENSOR
      /\ SensorLinks[5].cluster = "Eem"
  BY ClusterIds DEF SensorLinks, Link
<1>2. CASE c = DESC
  <2>1. Chained(SensorLinks, EP_ELECTRICAL_SENSOR, c, Handler("none"))
          = SensorLinks[1].handler
    BY <1>1, <1>2, ClusterIds, ChainedHit
  <2>2. SensorLinks[1].handler = Handler("Desc")
    BY DEF SensorLinks, Link
  <2> QED BY <1>2, <2>1, <2>2, DispatchSegment, DescOfPlain DEF Bound
<1>3. CASE c = IDENTIFY
  <2>1. Chained(SensorLinks, EP_ELECTRICAL_SENSOR, c, Handler("none"))
          = SensorLinks[2].handler
    BY <1>1, <1>3, ClusterIds, ChainedHit
  <2>2. SensorLinks[2].handler = Handler("Identify")
    BY DEF SensorLinks, Link
  <2> QED BY <1>3, <2>1, <2>2, DispatchSegment DEF Bound
<1>4. CASE c = POWER_TOPOLOGY
  <2>1. Chained(SensorLinks, EP_ELECTRICAL_SENSOR, c, Handler("none"))
          = SensorLinks[3].handler
    <3>1. \A m \in 1 .. 5 : m # 3 => SensorLinks[m].cluster # "PowerTopology"
      BY <1>1
    <3> QED BY <1>1, <1>4, <3>1, ClusterIds, ChainedHit
  <2>2. SensorLinks[3].handler = Handler("PowerTopology")
    BY DEF SensorLinks, Link
  <2> QED BY <1>4, <2>1, <2>2, DispatchSegment DEF Bound
<1>5. CASE c = EPM
  <2>1. Chained(SensorLinks, EP_ELECTRICAL_SENSOR, c, Handler("none"))
          = SensorLinks[4].handler
    BY <1>1, <1>5, ClusterIds, ChainedHit
  <2>2. SensorLinks[4].handler = Handler("Epm")
    BY DEF SensorLinks, Link
  <2> QED BY <1>5, <2>1, <2>2, DispatchSegment DEF Bound
<1>6. CASE c = EEM
  <2>1. Chained(SensorLinks, EP_ELECTRICAL_SENSOR, c, Handler("none"))
          = SensorLinks[5].handler
    BY <1>1, <1>6, ClusterIds, ChainedHit
  <2>2. SensorLinks[5].handler = Handler("Eem")
    BY DEF SensorLinks, Link
  <2> QED BY <1>6, <2>1, <2>2, DispatchSegment DEF Bound
<1> QED BY <1>2, <1>3, <1>4, <1>5, <1>6, NodeClusters

(* The links and the clusters of EP_TEMPERATURE.                                *)
LEMMA TemperatureBound ==
  ASSUME NEW c \in ToSet(NODE[EP_TEMPERATURE].clusters)
  PROVE  Bound(EP_TEMPERATURE, c, Dispatch(EP_TEMPERATURE, c))
<1>1. /\ DOMAIN TemperatureLinks = 1 .. 3
      /\ TemperatureLinks[1].endpoint = EP_TEMPERATURE
      /\ TemperatureLinks[1].cluster = "Descriptor"
      /\ TemperatureLinks[2].endpoint = EP_TEMPERATURE
      /\ TemperatureLinks[2].cluster = "Identify"
      /\ TemperatureLinks[3].endpoint = EP_TEMPERATURE
      /\ TemperatureLinks[3].cluster = "Temperature"
  BY ClusterIds DEF TemperatureLinks, Link
<1>2. CASE c = TAGGED_DESC
  <2>1. Chained(TemperatureLinks, EP_TEMPERATURE, c, Handler("none"))
          = TemperatureLinks[1].handler
    BY <1>1, <1>2, ClusterIds, ChainedHit
  <2>2. TemperatureLinks[1].handler = TaggedDesc(INVERTER_TEMPERATURE_TAG)
    BY DEF TemperatureLinks, Link
  <2> QED BY <1>2, <2>1, <2>2, DispatchSegment DEF Bound
<1>3. CASE c = IDENTIFY
  <2>1. Chained(TemperatureLinks, EP_TEMPERATURE, c, Handler("none"))
          = TemperatureLinks[2].handler
    BY <1>1, <1>3, ClusterIds, ChainedHit
  <2>2. TemperatureLinks[2].handler = Handler("Identify")
    BY DEF TemperatureLinks, Link
  <2> QED BY <1>3, <2>1, <2>2, DispatchSegment DEF Bound
<1>4. CASE c = TEMPERATURE
  <2>1. Chained(TemperatureLinks, EP_TEMPERATURE, c, Handler("none"))
          = TemperatureLinks[3].handler
    BY <1>1, <1>4, ClusterIds, ChainedHit
  <2>2. TemperatureLinks[3].handler = Handler("Temperature")
    BY DEF TemperatureLinks, Link
  <2> QED BY <1>4, <2>1, <2>2, DispatchSegment DEF Bound
<1> QED BY <1>2, <1>3, <1>4, NodeClusters

(* Every cluster that the tree declares is answered by a handler of its own: *)
(* no link of the chain is missing, and none hides another.                  *)
LEMMA ChainCoversTree ==
  ASSUME NEW ep \in Endpoints, NEW c \in ToSet(NODE[ep].clusters)
  PROVE  Bound(ep, c, Dispatch(ep, c))
<1>1. ep \in {EP_ROOT, EP_SOLAR_POWER, EP_POWER_SOURCE, EP_ELECTRICAL_SENSOR, EP_TEMPERATURE}
  BY DEF Endpoints, EP_ROOT, EP_SOLAR_POWER, EP_POWER_SOURCE, EP_ELECTRICAL_SENSOR,
         EP_TEMPERATURE
<1> QED BY <1>1, RootBound, SolarBound, PowerSourceBound, SensorBound, TemperatureBound

-----------------------------------------------------------------------------
(* The lists                                                                *)

(* The attributes of each cluster.                                          *)
LEMMA ClusterAttrs ==
  /\ DESC.attrs = {"DeviceTypeList", "ServerList", "ClientList", "PartsList"}
  /\ TAGGED_DESC.attrs
       = {"DeviceTypeList", "ServerList", "ClientList", "PartsList", "TagList"}
  /\ IDENTIFY.attrs = {"IdentifyTime", "IdentifyType"}
  /\ SYSTEM.attrs = {"NodeLabel"}
  /\ POWER_SOURCE.attrs
       = {"Status", "Order", "Description", "WiredCurrentType", "EndpointList"}
  /\ POWER_TOPOLOGY.attrs = {}
  /\ EPM.attrs = {"PowerMode", "NumberOfMeasurementTypes", "Accuracy",
                  "ActivePower", "Voltage", "ActiveCurrent", "Frequency"}
  /\ EEM.attrs = {"EnergyAccuracy", "CumulativeEnergyExported"}
  /\ TEMPERATURE.attrs = {"MeasuredValue", "MinMeasuredValue", "MaxMeasuredValue"}
  BY DEF Cluster, DESC, TAGGED_DESC, IDENTIFY, SYSTEM, POWER_SOURCE, POWER_TOPOLOGY,
         EPM, EEM, TEMPERATURE

(* A list as it is served: a sequence, not too long.                        *)
Served5(q) == q \in Seq(ToSet(q)) /\ Len(q) <= MaxRows

(* A function on 1 .. n, short enough, is such a list.                      *)
LEMMA SequenceServed ==
  ASSUME NEW n \in 0 .. 5, NEW q, DOMAIN q = 1 .. n, q = [k \in 1 .. n |-> q[k]]
  PROVE  Served5(q) /\ Len(q) = n
<1>1. q \in [1 .. n -> ToSet(q)]
  BY DEF ToSet
<1> QED BY <1>1 DEF Served5, MaxRows

(* The parts of each endpoint.                                              *)
Parts(ep) ==
  IF ep = EP_ROOT THEN Endpoints \ {EP_ROOT}
  ELSE IF ep = EP_SOLAR_POWER THEN SOLAR_PARTS ELSE {}

(* The ascending sequence of a set, when there is one.                      *)
Climbs(q) == \A j, k \in DOMAIN q : j < k => q[j] < q[k]

LEMMA AscendingProperty ==
  ASSUME NEW S, NEW n \in Nat, Cardinality(S) = n, \E q \in [1 .. n -> S] : Climbs(q)
  PROVE  Ascending(S) \in [1 .. n -> S] /\ Climbs(Ascending(S))
  BY DEF Ascending, Climbs

(* An endpoint without parts has the empty sequence.                        *)
LEMMA NoParts == Ascending({}) \in [1 .. 0 -> {}] /\ ToSet(Ascending({})) = {}
<1>1. Cardinality({}) = 0
  BY FS_EmptySet
<1>2. [k \in 1 .. 0 |-> k] \in [1 .. 0 -> {}] /\ Climbs([k \in 1 .. 0 |-> k])
  BY DEF Climbs
<1>3. \E q \in [1 .. 0 -> {}] : Climbs(q)
  BY <1>2
<1>4. Ascending({}) \in [1 .. 0 -> {}]
  BY <1>1, <1>3, AscendingProperty, 0 \in Nat
<1> QED BY <1>4 DEF ToSet

(* The Solar Power device has its three components.                         *)
LEMMA SolarParts ==
  Ascending({2, 3, 4}) \in [1 .. 3 -> {2, 3, 4}] /\ ToSet(Ascending({2, 3, 4})) = {2, 3, 4}
<1> DEFINE q == Ascending({2, 3, 4})
<1>1. Cardinality({2, 3, 4}) = 3
  <2>1. IsFiniteSet({2}) /\ Cardinality({2}) = 1
    BY FS_Singleton
  <2>2. IsFiniteSet({2} \cup {3}) /\ Cardinality({2} \cup {3}) = 2
    BY <2>1, FS_AddElement
  <2>3. Cardinality(({2} \cup {3}) \cup {4}) = 3
    BY <2>2, FS_AddElement
  <2>4. ({2} \cup {3}) \cup {4} = {2, 3, 4}
    OBVIOUS
  <2> QED BY <2>3, <2>4
<1>2. <<2, 3, 4>> \in [1 .. 3 -> {2, 3, 4}] /\ Climbs(<<2, 3, 4>>)
  BY DEF Climbs
<1>3. q \in [1 .. 3 -> {2, 3, 4}] /\ Climbs(q)
  BY <1>1, <1>2, AscendingProperty
<1>4. q[1] = 2 /\ q[2] = 3 /\ q[3] = 4
  BY <1>3 DEF Climbs
<1> QED BY <1>3, <1>4 DEF ToSet

(* The root has every other endpoint.                                       *)
LEMMA RootParts ==
  /\ Ascending({1, 2, 3, 4}) \in [1 .. 4 -> {1, 2, 3, 4}]
  /\ ToSet(Ascending({1, 2, 3, 4})) = {1, 2, 3, 4}
<1> DEFINE q == Ascending({1, 2, 3, 4})
<1>1. Cardinality({1, 2, 3, 4}) = 4
  <2>1. IsFiniteSet({1}) /\ Cardinality({1}) = 1
    BY FS_Singleton
  <2>2. IsFiniteSet({1} \cup {2}) /\ Cardinality({1} \cup {2}) = 2
    BY <2>1, FS_AddElement
  <2>3. IsFiniteSet(({1} \cup {2}) \cup {3}) /\ Cardinality(({1} \cup {2}) \cup {3}) = 3
    BY <2>2, FS_AddElement
  <2>4. Cardinality((({1} \cup {2}) \cup {3}) \cup {4}) = 4
    BY <2>3, FS_AddElement
  <2>5. (({1} \cup {2}) \cup {3}) \cup {4} = {1, 2, 3, 4}
    OBVIOUS
  <2> QED BY <2>4, <2>5
<1>2. <<1, 2, 3, 4>> \in [1 .. 4 -> {1, 2, 3, 4}] /\ Climbs(<<1, 2, 3, 4>>)
  BY DEF Climbs
<1>3. q \in [1 .. 4 -> {1, 2, 3, 4}] /\ Climbs(q)
  BY <1>1, <1>2, AscendingProperty
<1>4. q[1] = 1 /\ q[2] = 2 /\ q[3] = 3 /\ q[4] = 4
  BY <1>3 DEF Climbs
<1> QED BY <1>3, <1>4 DEF ToSet

(* Whichever parts matcher the Descriptor has been given.                   *)
LEMMA PartsAgree ==
  ASSUME NEW ep \in Endpoints, NEW c \in {DESC, TAGGED_DESC}, NEW h, Bound(ep, c, h)
  PROVE  PartsOf(h, ep) = Parts(ep)
<1> USE DEF EP_ROOT, EP_SOLAR_POWER, EP_POWER_SOURCE, EP_ELECTRICAL_SENSOR,
            EP_TEMPERATURE, Endpoints
<1>1. h.parts = (IF ep = EP_SOLAR_POWER THEN "solar" ELSE "standard")
  <2>1. CASE c = DESC
    <3>1. h = DescOf(ep)
      BY <2>1, ClusterIds, ClusterAttrs DEF Bound
    <3> QED BY <3>1 DEF DescOf, Handler
  <2>2. CASE c = TAGGED_DESC
    <3>1. ep # EP_SOLAR_POWER /\ \E tags : h = TaggedDesc(tags)
      BY <2>2, ClusterIds, ClusterAttrs DEF Bound
    <3> QED BY <3>1 DEF TaggedDesc, Handler
  <2> QED BY <2>1, <2>2
<1>2. CASE ep = EP_SOLAR_POWER
  BY <1>1, <1>2 DEF PartsOf, Parts
<1>3. CASE ep # EP_SOLAR_POWER
  BY <1>1, <1>3 DEF PartsOf, Parts
<1> QED BY <1>2, <1>3

(* A PartsList has the parts, in a sequence.                                *)
LEMMA PartsListServed ==
  ASSUME NEW ep \in Endpoints
  PROVE  Served5(Ascending(Parts(ep))) /\ ToSet(Ascending(Parts(ep))) = Parts(ep)
<1>1. Parts(ep) \in {{}, {2, 3, 4}, {1, 2, 3, 4}}
  BY DEF Parts, SOLAR_PARTS, Endpoints, EP_ROOT, EP_SOLAR_POWER, EP_POWER_SOURCE,
         EP_ELECTRICAL_SENSOR, EP_TEMPERATURE
<1>2. \E n \in 0 .. 5 : Ascending(Parts(ep)) \in [1 .. n -> Parts(ep)]
  <2>1. CASE Parts(ep) = {}
    <3>1. Ascending({}) \in [1 .. 0 -> {}]
      BY NoParts
    <3> QED BY <2>1, <3>1, 0 \in 0 .. 5
  <2>2. CASE Parts(ep) = {2, 3, 4}
    BY <2>2, SolarParts, 3 \in 0 .. 5
  <2>3. CASE Parts(ep) = {1, 2, 3, 4}
    BY <2>3, RootParts, 4 \in 0 .. 5
  <2> QED BY <1>1, <2>1, <2>2, <2>3
<1>3. Served5(Ascending(Parts(ep)))
  BY <1>2, SequenceServed
<1> QED BY <1>1, <1>3, NoParts, SolarParts, RootParts

(* The lists of a Descriptor.                                               *)
LEMMA DescServed ==
  ASSUME NEW ep \in Endpoints, NEW h, PartsOf(h, ep) = Parts(ep)
  PROVE  LET lists == DescLists(h, ep)
         IN  /\ DOMAIN lists = {"DeviceTypeList", "ServerList", "ClientList", "PartsList"}
             /\ \A attr \in DOMAIN lists : Served5(lists[attr])
             /\ ToSet(lists["PartsList"]) = Parts(ep)
<1> DEFINE lists == DescLists(h, ep)
<1>1. Served5(lists.DeviceTypeList)
  <2>1. \A a : Served5(<<a>>)
    BY SequenceServed
  <2> QED BY <2>1 DEF DescLists
<1>2. Served5(lists.ServerList)
  <2>1. \E n \in 0 .. 5 : DOMAIN NODE[ep].clusters = 1 .. n
    BY DEF NODE, Endpoint, Endpoints, EP_ROOT, EP_SOLAR_POWER, EP_POWER_SOURCE,
           EP_ELECTRICAL_SENSOR, EP_TEMPERATURE
  <2> QED BY <2>1, SequenceServed DEF DescLists
<1>3. Served5(lists.ClientList)
  <2>1. Served5(<<>>)
    BY SequenceServed
  <2> QED BY <2>1 DEF DescLists
<1>4. lists.PartsList = Ascending(Parts(ep))
  BY DEF DescLists
<1>5. DOMAIN lists = {"DeviceTypeList", "ServerList", "ClientList", "PartsList"}
  BY DEF DescLists
<1> QED BY <1>1, <1>2, <1>3, <1>4, <1>5, PartsListServed

(* The Accuracy list has four rows, whose types do not depend on the rating. *)
LEMMA AccuracyServed ==
  ASSUME NEW w
  PROVE  LET rows == AccuracyEntries(w)
         IN  /\ Served5(rows) /\ Len(rows) = 4
             /\ rows[1].type = "ActivePower" /\ rows[2].type = "Voltage"
             /\ rows[3].type = "ActiveCurrent" /\ rows[4].type = "Frequency"
<1>1. \A a, b, d, e : Served5(<<a, b, d, e>>) /\ Len(<<a, b, d, e>>) = 4
  BY SequenceServed
<1>2. \A type, min, max : Row(type, min, max).type = type
  BY DEF Row
<1> QED BY <1>1, <1>2 DEF AccuracyEntries

(* The clusters with lists, and who serves them.                            *)
LEMMA ListHandlers ==
  ASSUME NEW ep \in Endpoints, NEW c, NEW h, Bound(ep, c, h), NEW attr \in c.attrs \cap Lists
  PROVE  \/ c = DESC /\ h.kind = "Desc"
         \/ /\ c = TAGGED_DESC /\ h.kind = "TaggedDesc"
            /\ h.tags \in {GRID_TAG, INVERTER_TEMPERATURE_TAG}
         \/ c = POWER_SOURCE /\ h.kind = "PowerSource" /\ attr = "EndpointList"
         \/ c = EPM /\ h.kind = "Epm" /\ attr = "Accuracy"
<1>1. /\ \A e : DescOf(e).kind = "Desc"
      /\ \A tags : TaggedDesc(tags).kind = "TaggedDesc" /\ TaggedDesc(tags).tags = tags
      /\ \A kind : Handler(kind).kind = kind
  BY DEF DescOf, TaggedDesc, Handler
<1>2. c \in {DESC, TAGGED_DESC, POWER_SOURCE, EPM}
  BY ClusterAttrs DEF Bound, Lists
<1>3. CASE c = DESC
  BY <1>1, <1>3, ClusterIds, ClusterAttrs DEF Bound
<1>4. CASE c = TAGGED_DESC
  BY <1>1, <1>4, ClusterIds, ClusterAttrs DEF Bound
<1>5. CASE c = POWER_SOURCE
  <2>1. attr = "EndpointList"
    BY <1>5, ClusterAttrs DEF Lists
  <2> QED BY <1>1, <1>5, <2>1, ClusterIds DEF Bound
<1>6. CASE c = EPM
  <2>1. attr = "Accuracy"
    BY <1>6, ClusterAttrs DEF Lists
  <2> QED BY <1>1, <1>6, <2>1, ClusterIds DEF Bound
<1> QED BY <1>2, <1>3, <1>4, <1>5, <1>6

(* Every list that the tree declares is answered, with a sequence; what a    *)
(* controller goes by is right in it, and only Accuracy depends on the       *)
(* snapshot.                                                                *)
RowsOf(ep, c, attr, s) == ListsOf(Dispatch(ep, c), ep, s)[attr]

(* What they are is the same under every snapshot, but for Accuracy.        *)
LEMMA ListsServed ==
  ASSUME NEW ep \in Endpoints, NEW c \in ToSet(NODE[ep].clusters),
         NEW attr \in c.attrs \cap Lists, NEW s
  PROVE  /\ attr \in DOMAIN ListsOf(Dispatch(ep, c), ep, s)
         /\ Served5(RowsOf(ep, c, attr, s))
         /\ attr = "PartsList" => ToSet(RowsOf(ep, c, attr, s)) = Parts(ep)
         /\ attr = "EndpointList" =>
              ToSet(RowsOf(ep, c, attr, s)) = {EP_SOLAR_POWER} \cup SOLAR_PARTS
         /\ attr = "Accuracy" =>
              RowsOf(ep, c, attr, s) = AccuracyEntries(s.max_power_w)
         /\ attr # "Accuracy" =>
              \A t : RowsOf(ep, c, attr, t) = RowsOf(ep, c, attr, s)
<1> DEFINE h == Dispatch(ep, c)
<1>1. Bound(ep, c, h)
  BY ChainCoversTree
<1> HIDE DEF h
<1>2. RowsOf(ep, c, attr, s) = ListsOf(h, ep, s)[attr]
      /\ \A t : RowsOf(ep, c, attr, t) = ListsOf(h, ep, t)[attr]
  BY DEF RowsOf, h
<1>3. CASE c = DESC /\ h.kind = "Desc"
  <2>1. PartsOf(h, ep) = Parts(ep)
    BY <1>1, <1>3, PartsAgree
  <2>2. \A t : ListsOf(h, ep, t) = DescLists(h, ep)
    BY <1>3 DEF ListsOf
  <2>3. attr \in {"DeviceTypeList", "ServerList", "ClientList", "PartsList"}
    BY <1>3, ClusterAttrs
  <2> QED BY <1>2, <2>1, <2>2, <2>3, DescServed DEF h
<1>4. CASE /\ c = TAGGED_DESC /\ h.kind = "TaggedDesc"
           /\ h.tags \in {GRID_TAG, INVERTER_TEMPERATURE_TAG}
  <2>1. PartsOf(h, ep) = Parts(ep)
    BY <1>1, <1>4, PartsAgree
  <2>2. \A t : ListsOf(h, ep, t) = TaggedDescLists(h, ep)
    BY <1>4 DEF ListsOf
  <2>3. attr \in {"DeviceTypeList", "ServerList", "ClientList", "PartsList", "TagList"}
    BY <1>4, ClusterAttrs
  <2>4. /\ DOMAIN TaggedDescLists(h, ep)
            = {"DeviceTypeList", "ServerList", "ClientList", "PartsList", "TagList"}
        /\ TaggedDescLists(h, ep)["TagList"] = h.tags
        /\ \A a \in {"DeviceTypeList", "ServerList", "ClientList", "PartsList"} :
             TaggedDescLists(h, ep)[a] = DescLists(h, ep)[a]
    BY <2>1, DescServed DEF TaggedDescLists
  <2>5. Served5(h.tags)
    <3>1. \A a : Served5(<<a>>)
      BY SequenceServed
    <3> QED BY <1>4, <3>1 DEF GRID_TAG, INVERTER_TEMPERATURE_TAG
  <2> QED BY <1>2, <2>1, <2>2, <2>3, <2>4, <2>5, DescServed DEF h
<1>5. CASE c = POWER_SOURCE /\ h.kind = "PowerSource" /\ attr = "EndpointList"
  <2>1. \A t : ListsOf(h, ep, t) = [EndpointList |-> POWERED_ENDPOINTS]
    BY <1>5 DEF ListsOf
  <2>2. \A a, b, d, e : /\ Served5(<<a, b, d, e>>)
                        /\ ToSet(<<a, b, d, e>>) = {a, b, d, e}
    BY SequenceServed DEF ToSet
  <2>3. /\ Served5(POWERED_ENDPOINTS)
        /\ ToSet(POWERED_ENDPOINTS) = {EP_SOLAR_POWER} \cup SOLAR_PARTS
    BY <2>2 DEF POWERED_ENDPOINTS, SOLAR_PARTS
  <2> QED BY <1>2, <1>5, <2>1, <2>3 DEF h
<1>6. CASE c = EPM /\ h.kind = "Epm" /\ attr = "Accuracy"
  <2>1. ListsOf(h, ep, s) = [Accuracy |-> AccuracyEntries(s.max_power_w)]
    BY <1>6 DEF ListsOf
  <2> QED BY <1>2, <1>6, <2>1, AccuracyServed DEF h
<1> QED BY <1>1, <1>3, <1>4, <1>5, <1>6, ListHandlers

(* The scalars likewise.                                                    *)
LEMMA ScalarsServed ==
  ASSUME NEW ep \in Endpoints, NEW c \in ToSet(NODE[ep].clusters),
         NEW attr \in c.attrs \ Lists, NEW s
  PROVE  LET answers == ScalarsOf(Dispatch(ep, c), s)
         IN  /\ attr \in DOMAIN answers
             /\ attr = "NumberOfMeasurementTypes" => answers[attr] = MEASUREMENT_TYPES
<1> DEFINE h == Dispatch(ep, c)
<1>1. Bound(ep, c, h)
  BY ChainCoversTree
<1> HIDE DEF h
<1>2. \A kind : Handler(kind).kind = kind
  BY DEF Handler
<1>3. c \in {IDENTIFY, SYSTEM, POWER_SOURCE, EPM, EEM, TEMPERATURE}
  BY <1>1, ClusterAttrs DEF Bound, Lists
<1> USE DEF Lists
<1>4. CASE c = IDENTIFY
  <2>1. h.kind = "Identify"
    BY <1>1, <1>2, <1>4, ClusterIds DEF Bound
  <2> QED BY <1>4, <2>1, ClusterAttrs DEF ScalarsOf, h
<1>5. CASE c = SYSTEM
  <2>1. h.kind = "System"
    BY <1>1, <1>2, <1>5, ClusterIds DEF Bound
  <2> QED BY <1>5, <2>1, ClusterAttrs DEF ScalarsOf, h
<1>6. CASE c = POWER_SOURCE
  <2>1. h.kind = "PowerSource"
    BY <1>1, <1>2, <1>6, ClusterIds DEF Bound
  <2> QED BY <1>6, <2>1, ClusterAttrs DEF ScalarsOf, PowerSourceScalars, h
<1>7. CASE c = EPM
  <2>1. h.kind = "Epm"
    BY <1>1, <1>2, <1>7, ClusterIds DEF Bound
  <2> QED BY <1>7, <2>1, ClusterAttrs DEF ScalarsOf, EpmScalars, h
<1>8. CASE c = EEM
  <2>1. h.kind = "Eem"
    BY <1>1, <1>2, <1>8, ClusterIds DEF Bound
  <2> QED BY <1>8, <2>1, ClusterAttrs DEF ScalarsOf, EemScalars, h
<1>9. CASE c = TEMPERATURE
  <2>1. h.kind = "Temperature"
    BY <1>1, <1>2, <1>9, ClusterIds DEF Bound
  <2> QED BY <1>9, <2>1, ClusterAttrs DEF ScalarsOf, TemperatureScalars, h
<1> QED BY <1>3, <1>4, <1>5, <1>6, <1>7, <1>8, <1>9


-----------------------------------------------------------------------------
(* The invariant                                                            *)

(* What a controller has read of a list: a beginning of it, each row as it   *)
(* was in some snapshot of the read...                                      *)
Partial(ep, c, attr, rows, seen) ==
  /\ ep \in Endpoints /\ c \in ToSet(NODE[ep].clusters) /\ attr \in c.attrs \cap Lists
  /\ rows \in Seq(ToSet(rows)) /\ seen # {}
  /\ \A s \in seen : Len(rows) <= Len(RowsOf(ep, c, attr, s))
  /\ \A k \in 1 .. Len(rows) : \E s \in seen : rows[k] = RowsOf(ep, c, attr, s)[k]

(* ...and in the end all of it.                                             *)
Whole(ep, c, attr, rows, seen) ==
  /\ Partial(ep, c, attr, rows, seen)
  /\ \A s \in seen : Len(rows) = Len(RowsOf(ep, c, attr, s))

ReadingInv ==
  reading # None =>
    /\ reading = [ep |-> reading.ep, cluster |-> reading.cluster, attr |-> reading.attr,
                  rows |-> reading.rows, seen |-> reading.seen]
    /\ Partial(reading.ep, reading.cluster, reading.attr, reading.rows, reading.seen)
    /\ snapshot \in reading.seen

LastInv ==
  last # None => \E c \in ToSet(NODE[last.ep].clusters) :
                   Whole(last.ep, c, last.attr, last.rows, last.seen)

(* What it has found is what there is, and nothing was refused.              *)
FoundInv ==
  /\ parts \in [Endpoints -> (SUBSET Endpoints) \cup {None}]
  /\ \A ep \in Endpoints : parts[ep] \in {None, Parts(ep)}
  /\ powered \in {None, {EP_SOLAR_POWER} \cup SOLAR_PARTS}
  /\ types \in {None, MEASUREMENT_TYPES}
  /\ refused = FALSE

NodeInv == snapshot \in Snapshots /\ FoundInv /\ ReadingInv /\ LastInv

(* The length of a list does not depend on the snapshot.                    *)
LEMMA LengthSteady ==
  ASSUME NEW ep \in Endpoints, NEW c \in ToSet(NODE[ep].clusters),
         NEW attr \in c.attrs \cap Lists, NEW s, NEW t
  PROVE  /\ Len(RowsOf(ep, c, attr, s)) \in Nat
         /\ Len(RowsOf(ep, c, attr, s)) <= MaxRows
         /\ Len(RowsOf(ep, c, attr, s)) = Len(RowsOf(ep, c, attr, t))
<1>1. Served5(RowsOf(ep, c, attr, s))
  BY ListsServed
<1>2. Len(RowsOf(ep, c, attr, s)) = Len(RowsOf(ep, c, attr, t))
  <2>1. CASE attr = "Accuracy"
    <3>1. /\ RowsOf(ep, c, attr, s) = AccuracyEntries(s.max_power_w)
          /\ RowsOf(ep, c, attr, t) = AccuracyEntries(t.max_power_w)
      BY <2>1, ListsServed
    <3> QED BY <3>1, AccuracyServed
  <2>2. CASE attr # "Accuracy"
    BY <2>2, ListsServed
  <2> QED BY <2>1, <2>2
<1> QED BY <1>1, <1>2 DEF Served5

(* A list but Accuracy that has been read whole is the one that is served.   *)
LEMMA WholeExact ==
  ASSUME NEW ep, NEW c, NEW attr, NEW rows, NEW seen,
         Whole(ep, c, attr, rows, seen), attr # "Accuracy", NEW s
  PROVE  ToSet(rows) = ToSet(RowsOf(ep, c, attr, s))
<1> USE DEF Whole, Partial
<1>1. \A r : RowsOf(ep, c, attr, r) = RowsOf(ep, c, attr, s)
  BY ListsServed
<1>2. Len(rows) = Len(RowsOf(ep, c, attr, s))
  BY <1>1
<1>3. \A k \in 1 .. Len(rows) : rows[k] = RowsOf(ep, c, attr, s)[k]
  BY <1>1
<1>4. DOMAIN rows = 1 .. Len(rows)
      /\ DOMAIN RowsOf(ep, c, attr, s) = 1 .. Len(RowsOf(ep, c, attr, s))
  BY ListsServed DEF Served5
<1> QED BY <1>2, <1>3, <1>4 DEF ToSet

(* Taking in a list that was read whole.                                    *)
LEMMA FinishKeeps ==
  ASSUME FoundInv, NEW ep, NEW c, NEW attr, NEW rows, NEW seen,
         Whole(ep, c, attr, rows, seen), Finish(ep, attr, rows, seen), UNCHANGED refused
  PROVE  FoundInv' /\ LastInv' /\ UNCHANGED snapshot
<1> USE DEF FoundInv, Finish
<1>1. ep \in Endpoints /\ c \in ToSet(NODE[ep].clusters) /\ attr \in c.attrs \cap Lists
  BY DEF Whole, Partial
<1>2. attr = "PartsList" => ToSet(rows) = Parts(ep)
  BY <1>1, WholeExact, ListsServed
<1>3. attr = "EndpointList" => ToSet(rows) = {EP_SOLAR_POWER} \cup SOLAR_PARTS
  BY <1>1, WholeExact, ListsServed
<1>4. Parts(ep) \in SUBSET Endpoints
  BY <1>1 DEF Parts, SOLAR_PARTS, Endpoints, EP_ROOT, EP_POWER_SOURCE,
              EP_ELECTRICAL_SENSOR, EP_TEMPERATURE
<1>5. FoundInv'
  BY <1>1, <1>2, <1>3, <1>4
<1>6. LastInv'
  BY <1>1 DEF LastInv
<1> QED BY <1>5, <1>6

(* At first it has read nothing.                                            *)
LEMMA NodeInit == Init => NodeInv
<1> SUFFICES ASSUME Init PROVE NodeInv
  OBVIOUS
<1> USE DEF Init
<1>1. parts \in [Endpoints -> (SUBSET Endpoints) \cup {None}]
      /\ \A ep \in Endpoints : parts[ep] = None
  OBVIOUS
<1>2. FoundInv
  BY <1>1 DEF FoundInv
<1>3. ReadingInv /\ LastInv
  BY DEF ReadingInv, LastInv
<1> QED BY <1>2, <1>3 DEF NodeInv

(* A scalar that is read changes at most what is known of the types.        *)
LEMMA ReadScalarKeeps ==
  ASSUME NodeInv, NEW ep \in Endpoints, NEW c \in ToSet(NODE[ep].clusters),
         NEW attr \in c.attrs, ReadScalar(ep, c, attr)
  PROVE  NodeInv'
<1> USE DEF NodeInv, ReadScalar
<1>1. /\ attr \in DOMAIN ScalarsOf(Dispatch(ep, c), snapshot)
      /\ attr = "NumberOfMeasurementTypes" =>
           ScalarsOf(Dispatch(ep, c), snapshot)[attr] = MEASUREMENT_TYPES
  BY ScalarsServed
<1>2. FoundInv'
  BY <1>1 DEF FoundInv
<1>3. ReadingInv' /\ LastInv'
  BY DEF ReadingInv, LastInv
<1> QED BY <1>2, <1>3

(* A list that is answered at once is whole.                                *)
LEMMA ReadAllKeeps ==
  ASSUME NodeInv, NEW ep \in Endpoints, NEW c \in ToSet(NODE[ep].clusters),
         NEW attr \in c.attrs, ReadAll(ep, c, attr)
  PROVE  NodeInv'
<1> DEFINE rows == RowsOf(ep, c, attr, snapshot)
<1>1. attr \in c.attrs \cap Lists
  BY DEF ReadAll
<1>2. Whole(ep, c, attr, rows, {snapshot})
  <2>1. rows \in Seq(ToSet(rows)) /\ Len(rows) <= Len(rows)
    BY <1>1, ListsServed DEF Served5
  <2> HIDE DEF rows
  <2>2. \A k \in 1 .. Len(rows) : \E s \in {snapshot} : rows[k] = RowsOf(ep, c, attr, s)[k]
    BY DEF rows
  <2> QED BY <1>1, <2>1, <2>2 DEF Whole, Partial, rows
<1>3. Finish(ep, attr, rows, {snapshot}) /\ UNCHANGED <<refused, reading>>
  BY <1>1, ListsServed DEF ReadAll, RowsOf
<1>4. FoundInv' /\ LastInv' /\ UNCHANGED snapshot
  BY <1>2, <1>3, FinishKeeps DEF NodeInv
<1> QED BY <1>3, <1>4 DEF NodeInv, ReadingInv

(* A read by element starts with nothing.                                   *)
LEMMA ReadNoneKeeps ==
  ASSUME NodeInv, NEW ep \in Endpoints, NEW c \in ToSet(NODE[ep].clusters),
         NEW attr \in c.attrs, ReadNone(ep, c, attr)
  PROVE  NodeInv'
<1> USE DEF NodeInv, ReadNone
<1>1. attr \in c.attrs \cap Lists
  OBVIOUS
<1>2. Partial(ep, c, attr, <<>>, {snapshot})
  <2>1. <<>> \in Seq(ToSet(<<>>)) /\ Len(<<>>) = 0
    OBVIOUS
  <2> QED BY <1>1, <2>1, LengthSteady DEF Partial
<1>3. ReadingInv'
  BY <1>2 DEF ReadingInv
<1> QED BY <1>3 DEF FoundInv, LastInv

(* The rows that the next element is taken from.                            *)
LEMMA CurrentRowsOf ==
  ASSUME NodeInv, reading # None
  PROVE  /\ reading.ep \in Endpoints /\ reading.cluster \in ToSet(NODE[reading.ep].clusters)
         /\ reading.attr \in reading.cluster.attrs \cap Lists
         /\ CurrentRows = RowsOf(reading.ep, reading.cluster, reading.attr, snapshot)
  BY DEF NodeInv, ReadingInv, Partial, CurrentRows, RowsOf
(* One more element: its row is that of the snapshot there is now.          *)
LEMMA ReadOneKeeps == ASSUME NodeInv, ReadOne PROVE NodeInv'
<1> DEFINE rows == reading.rows
           served(s) == RowsOf(reading.ep, reading.cluster, reading.attr, s)
           row == served(snapshot)[Len(rows) + 1]
<1>1. /\ reading # None /\ CurrentRows = served(snapshot)
      /\ reading.ep \in Endpoints /\ reading.cluster \in ToSet(NODE[reading.ep].clusters)
      /\ reading.attr \in reading.cluster.attrs \cap Lists
  BY CurrentRowsOf DEF ReadOne
<1>2. Len(rows) < Len(served(snapshot))
  BY <1>1 DEF ReadOne
<1>3. reading' = [reading EXCEPT !.rows = Append(rows, row)]
  BY <1>1 DEF ReadOne
<1>4. Partial(reading.ep, reading.cluster, reading.attr, rows, reading.seen)
      /\ snapshot \in reading.seen
  BY <1>1 DEF NodeInv, ReadingInv
<1>5. \A s : Len(served(s)) = Len(served(snapshot)) /\ Len(served(s)) \in Nat
  BY <1>1, LengthSteady
<1>6. rows \in Seq(ToSet(rows)) /\ Len(rows) \in Nat
  BY <1>4 DEF Partial
<1> HIDE DEF rows, served, row
<1>7. /\ Append(rows, row) \in Seq(ToSet(rows) \cup {row})
      /\ Len(Append(rows, row)) = Len(rows) + 1
      /\ Append(rows, row)[Len(rows) + 1] = row
      /\ \A k \in 1 .. Len(rows) : Append(rows, row)[k] = rows[k]
  BY <1>6
<1>8. Append(rows, row) \in Seq(ToSet(Append(rows, row)))
  BY <1>7 DEF ToSet
<1>9. \A k \in 1 .. Len(rows) + 1 :
        \E s \in reading.seen : Append(rows, row)[k] = served(s)[k]
  <2>1. \A k \in 1 .. Len(rows) : \E s \in reading.seen : rows[k] = served(s)[k]
    BY <1>4 DEF Partial, served
  <2>2. row = served(snapshot)[Len(rows) + 1]
    BY DEF row
  <2> QED BY <1>4, <1>6, <1>7, <2>1, <2>2
<1>10. \A s \in reading.seen : Len(Append(rows, row)) <= Len(served(s))
  BY <1>2, <1>5, <1>6, <1>7
<1>11. Partial(reading.ep, reading.cluster, reading.attr, Append(rows, row), reading.seen)
  BY <1>1, <1>4, <1>7, <1>8, <1>9, <1>10 DEF Partial, served
<1>12. reading' = [ep |-> reading.ep, cluster |-> reading.cluster, attr |-> reading.attr,
                   rows |-> Append(rows, row), seen |-> reading.seen]
  BY <1>1, <1>3 DEF NodeInv, ReadingInv
<1>13. UNCHANGED <<snapshot, controller>>
  BY DEF ReadOne
<1>14. ReadingInv'
  BY <1>4, <1>11, <1>12, <1>13 DEF ReadingInv
<1> QED BY <1>13, <1>14 DEF NodeInv, FoundInv, LastInv, controller

(* The list ends where it ends in every snapshot: it is whole.              *)
LEMMA ReadEndKeeps == ASSUME NodeInv, ReadEnd PROVE NodeInv'
<1>1. /\ reading # None
      /\ CurrentRows = RowsOf(reading.ep, reading.cluster, reading.attr, snapshot)
      /\ reading.ep \in Endpoints /\ reading.cluster \in ToSet(NODE[reading.ep].clusters)
      /\ reading.attr \in reading.cluster.attrs \cap Lists
  BY CurrentRowsOf DEF ReadEnd
<1>2. Partial(reading.ep, reading.cluster, reading.attr, reading.rows, reading.seen)
      /\ snapshot \in reading.seen
  BY <1>1 DEF NodeInv, ReadingInv
<1>3. Whole(reading.ep, reading.cluster, reading.attr, reading.rows, reading.seen)
  <2> DEFINE served(s) == RowsOf(reading.ep, reading.cluster, reading.attr, s)
  <2>1. \A s : Len(served(s)) = Len(served(snapshot)) /\ Len(served(s)) \in Nat
    BY <1>1, LengthSteady
  <2>2. Len(reading.rows) >= Len(served(snapshot))
    BY <1>1 DEF ReadEnd
  <2>3. Len(reading.rows) \in Nat /\ Len(reading.rows) <= Len(served(snapshot))
    BY <1>2 DEF Partial
  <2>4. \A s \in reading.seen : Len(reading.rows) = Len(served(s))
    BY <2>1, <2>2, <2>3
  <2> QED BY <1>2, <2>4 DEF Whole
<1>4. FoundInv' /\ LastInv' /\ UNCHANGED snapshot
  BY <1>3, FinishKeeps DEF ReadEnd, NodeInv
<1>5. ReadingInv'
  BY DEF ReadEnd, ReadingInv
<1> QED BY <1>4, <1>5 DEF NodeInv

(* A new snapshot between two elements changes no row read, and no length.   *)
LEMMA ReplaceKeeps ==
  ASSUME NodeInv, NEW next \in Snapshots, Replace(next)
  PROVE  NodeInv'
<1> USE DEF NodeInv, Replace
<1>1. FoundInv' /\ LastInv' /\ snapshot' = next
  BY DEF FoundInv, LastInv, controller
<1>2. ASSUME reading # None
      PROVE  ReadingInv'
  <2>1. Partial(reading.ep, reading.cluster, reading.attr, reading.rows,
                reading.seen \cup {next})
    <3> DEFINE served(s) == RowsOf(reading.ep, reading.cluster, reading.attr, s)
    <3>1. Partial(reading.ep, reading.cluster, reading.attr, reading.rows, reading.seen)
      BY <1>2 DEF ReadingInv
    <3>2. /\ reading.ep \in Endpoints
          /\ reading.cluster \in ToSet(NODE[reading.ep].clusters)
          /\ reading.attr \in reading.cluster.attrs \cap Lists
      BY <3>1 DEF Partial
    <3>3. \A s, t : Len(served(s)) = Len(served(t))
      BY <3>2, LengthSteady
    <3>4. \A s \in reading.seen \cup {next} : Len(reading.rows) <= Len(served(s))
      BY <3>1, <3>3 DEF Partial
    <3> QED BY <3>1, <3>4 DEF Partial
  <2>2. reading' = [ep |-> reading.ep, cluster |-> reading.cluster, attr |-> reading.attr,
                    rows |-> reading.rows, seen |-> reading.seen \cup {next}]
    BY <1>2 DEF ReadingInv
  <2> QED BY <2>1, <2>2 DEF ReadingInv
<1>3. ASSUME reading = None PROVE ReadingInv'
  <2>1. reading' = None
    BY <1>3
  <2> QED BY <2>1 DEF ReadingInv
<1> QED BY <1>1, <1>2, <1>3

(* A controller that starts at the root meets only endpoints that there are. *)
LEMMA KnownExist == ASSUME FoundInv PROVE Known \subseteq Endpoints
<1>1. \A ep \in Endpoints : parts[ep] # None => parts[ep] \subseteq Endpoints
  BY DEF FoundInv
<1>2. EP_ROOT \in Endpoints
  BY DEF Endpoints, EP_ROOT, EP_TEMPERATURE
<1> QED BY <1>1, <1>2 DEF Known

(* No step of the controller or the bridge breaks it.                       *)
LEMMA NodeStep == NodeInv /\ [Next]_vars => NodeInv'
<1> SUFFICES ASSUME NodeInv, [Next]_vars PROVE NodeInv'
  OBVIOUS
<1>1. Known \subseteq Endpoints
  BY KnownExist DEF NodeInv
<1>2. ASSUME NEW ep \in Known, NEW c \in ToSet(NODE[ep].clusters), NEW attr \in c.attrs,
             ReadScalar(ep, c, attr) \/ ReadAll(ep, c, attr) \/ ReadNone(ep, c, attr)
      PROVE  NodeInv'
  BY <1>1, <1>2, ReadScalarKeeps, ReadAllKeeps, ReadNoneKeeps
<1>3. CASE ReadOne \/ ReadEnd
  BY <1>3, ReadOneKeeps, ReadEndKeeps
<1>4. ASSUME NEW next \in Snapshots, Replace(next) PROVE NodeInv'
  BY <1>4, ReplaceKeeps
<1>5. CASE UNCHANGED vars
  BY <1>5 DEF vars, controller, NodeInv, FoundInv, ReadingInv, LastInv
<1> QED BY <1>2, <1>3, <1>4, <1>5 DEF Next

(* So it holds at all times.                                                *)
LEMMA NodeCorrect == Spec => []NodeInv
  BY NodeInit, NodeStep, PTL DEF Spec

-----------------------------------------------------------------------------
(* What follows from it                                                     *)

(* The controller finds only endpoints that there are, and a read by element *)
(* never gets past the longest list.                                        *)
THEOREM NodeTypeCorrect == Spec => []TypeOK
<1>1. ASSUME NodeInv, reading # None
      PROVE  Len(reading.rows) <= MaxRows /\ snapshot \in reading.seen
  <2>1. Partial(reading.ep, reading.cluster, reading.attr, reading.rows, reading.seen)
        /\ snapshot \in reading.seen
    BY <1>1 DEF NodeInv, ReadingInv
  <2>2. Len(RowsOf(reading.ep, reading.cluster, reading.attr, snapshot)) \in Nat
        /\ Len(RowsOf(reading.ep, reading.cluster, reading.attr, snapshot)) <= MaxRows
    BY <2>1, LengthSteady DEF Partial
  <2>3. Len(reading.rows) \in Nat
        /\ Len(reading.rows)
             <= Len(RowsOf(reading.ep, reading.cluster, reading.attr, snapshot))
    BY <2>1 DEF Partial
  <2> QED BY <2>1, <2>2, <2>3 DEF MaxRows
<1>2. ({EP_SOLAR_POWER} \cup SOLAR_PARTS) \in SUBSET Endpoints
  BY DEF SOLAR_PARTS, Endpoints, EP_ROOT, EP_SOLAR_POWER, EP_POWER_SOURCE,
         EP_ELECTRICAL_SENSOR, EP_TEMPERATURE
<1>3. NodeInv => TypeOK
  BY <1>1, <1>2 DEF NodeInv, FoundInv, TypeOK
<1> QED BY <1>3, NodeCorrect, PTL

(* Every attribute that the tree declares is answered, whoever asks when:    *)
(* for every endpoint and cluster the chain of handlers has the right link.  *)
THEOREM AnsweredCorrect == Spec => []Answered
<1>1. NodeInv => Answered
  BY DEF NodeInv, FoundInv, Answered
<1> QED BY <1>1, NodeCorrect, PTL

(* No list is torn, whatever snapshots come between its elements.           *)
THEOREM ListsWholeCorrect == Spec => []ListsWhole
<1>1. ASSUME NEW ep, NEW c, NEW attr, NEW rows, NEW seen, Whole(ep, c, attr, rows, seen)
      PROVE  /\ attr \in c.attrs
             /\ \A s \in seen : Len(RowsOf(ep, c, attr, s)) = Len(rows)
             /\ \A k \in DOMAIN rows : \E s \in seen : rows[k] = RowsOf(ep, c, attr, s)[k]
  <2>1. DOMAIN rows = 1 .. Len(rows)
    BY <1>1 DEF Whole, Partial
  <2> QED BY <1>1, <2>1 DEF Whole, Partial
<1>2. NodeInv => ListsWhole
  BY <1>1 DEF NodeInv, LastInv, ListsWhole, RowsOf
<1> QED BY <1>2, NodeCorrect, PTL

(* The Accuracy list has a row for each measurement and as many as announced, *)
(* even if the rating came or went between two of its elements.             *)
THEOREM AccuracyCoversCorrect == Spec => []AccuracyCovers
<1>1. ASSUME NodeInv, last # None, last.attr = "Accuracy"
      PROVE  /\ DOMAIN last.rows = 1 .. 4 /\ Len(last.rows) = 4
             /\ last.rows[1].type = "ActivePower" /\ last.rows[2].type = "Voltage"
             /\ last.rows[3].type = "ActiveCurrent" /\ last.rows[4].type = "Frequency"
  <2>1. PICK c \in ToSet(NODE[last.ep].clusters) :
          Whole(last.ep, c, last.attr, last.rows, last.seen)
    BY <1>1 DEF NodeInv, LastInv
  <2> DEFINE served(s) == RowsOf(last.ep, c, last.attr, s)
  <2>2. \A s : served(s) = AccuracyEntries(s.max_power_w)
    BY <1>1, <2>1, ListsServed DEF Whole, Partial
  <2> HIDE DEF served
  <2>3. ASSUME NEW s
        PROVE  /\ Len(served(s)) = 4
               /\ served(s)[1].type = "ActivePower" /\ served(s)[2].type = "Voltage"
               /\ served(s)[3].type = "ActiveCurrent" /\ served(s)[4].type = "Frequency"
    <3> DEFINE w == s.max_power_w
    <3>1. served(s) = AccuracyEntries(w)
      BY <2>2
    <3> HIDE DEF w
    <3> QED BY <3>1, AccuracyServed
  <2>4. /\ last.rows \in Seq(ToSet(last.rows)) /\ last.seen # {}
        /\ \A s \in last.seen : Len(last.rows) = Len(served(s))
        /\ \A k \in 1 .. Len(last.rows) : \E s \in last.seen : last.rows[k] = served(s)[k]
    BY <2>1 DEF Whole, Partial, served
  <2>5. Len(last.rows) = 4 /\ DOMAIN last.rows = 1 .. 4
    BY <2>3, <2>4
  <2>6. \A k \in 1 .. 4 : \E s : last.rows[k] = served(s)[k]
    BY <2>4, <2>5
  <2> QED BY <2>3, <2>5, <2>6
<1>2. ASSUME NodeInv, last # None, last.attr = "Accuracy"
      PROVE  \A a \in {"ActivePower", "Voltage", "ActiveCurrent", "Frequency"} :
               Cardinality({k \in DOMAIN last.rows : last.rows[k].type = a}) = 1
  <2>1. ASSUME NEW a \in {"ActivePower", "Voltage", "ActiveCurrent", "Frequency"}
        PROVE  \E k : {j \in DOMAIN last.rows : last.rows[j].type = a} = {k}
    <3> DEFINE hits == {j \in DOMAIN last.rows : last.rows[j].type = a}
    <3>1. CASE a = "ActivePower"
      <4>1. hits = {1}
        BY <1>1, <1>2, <3>1
      <4> QED BY <4>1
    <3>2. CASE a = "Voltage"
      <4>1. hits = {2}
        BY <1>1, <1>2, <3>2
      <4> QED BY <4>1
    <3>3. CASE a = "ActiveCurrent"
      <4>1. hits = {3}
        BY <1>1, <1>2, <3>3
      <4> QED BY <4>1
    <3>4. CASE a = "Frequency"
      <4>1. hits = {4}
        BY <1>1, <1>2, <3>4
      <4> QED BY <4>1
    <3> QED BY <3>1, <3>2, <3>3, <3>4
  <2>2. \A k : Cardinality({k}) = 1
    BY FS_Singleton
  <2> QED BY <2>1, <2>2
<1>3. NodeInv => AccuracyCovers
  <2> SUFFICES ASSUME NodeInv, last # None, last.attr = "Accuracy"
               PROVE  /\ \A a \in {"ActivePower", "Voltage", "ActiveCurrent", "Frequency"} :
                           Cardinality({k \in DOMAIN last.rows : last.rows[k].type = a}) = 1
                      /\ types # None => Len(last.rows) = types
    BY DEF AccuracyCovers
  <2>1. types # None => types = 4
    BY DEF NodeInv, FoundInv, MEASUREMENT_TYPES
  <2> QED BY <1>1, <1>2, <2>1
<1> QED BY <1>3, NodeCorrect, PTL

(* A controller that follows the parts lists ends up with the whole device,  *)
(* and what the source powers is the Solar Power composition.               *)
THEOREM DiscoveredCorrect == Spec => []Discovered
<1>1. ASSUME NodeInv, \A ep \in Known : parts[ep] # None
      PROVE  Known = Endpoints
  <2>1. EP_ROOT \in Known /\ EP_ROOT \in Endpoints
    BY DEF Known, Endpoints, EP_ROOT, EP_TEMPERATURE
  <2>2. parts[EP_ROOT] # None /\ parts[EP_ROOT] = Endpoints \ {EP_ROOT}
    BY <1>1, <2>1 DEF NodeInv, FoundInv, Parts
  <2>3. parts[EP_ROOT] \subseteq Known
    BY <2>1, <2>2 DEF Known
  <2>4. Known \subseteq Endpoints
    BY <1>1, KnownExist DEF NodeInv
  <2> QED BY <2>1, <2>2, <2>3, <2>4
<1>2. ASSUME NodeInv, powered # None, parts[EP_SOLAR_POWER] # None
      PROVE  powered = {EP_SOLAR_POWER} \cup parts[EP_SOLAR_POWER]
  <2>1. EP_SOLAR_POWER \in Endpoints /\ EP_SOLAR_POWER # EP_ROOT
    BY DEF Endpoints, EP_ROOT, EP_SOLAR_POWER, EP_TEMPERATURE
  <2>2. parts[EP_SOLAR_POWER] = SOLAR_PARTS
    BY <1>2, <2>1 DEF NodeInv, FoundInv, Parts
  <2> QED BY <1>2, <2>2 DEF NodeInv, FoundInv
<1>3. NodeInv => Discovered
  BY <1>1, <1>2 DEF Discovered
<1> QED BY <1>3, NodeCorrect, PTL
=============================================================================
