----------------------------- MODULE MatterNode -----------------------------
(***************************************************************************)
(* The composed Matter device as a controller finds it: the static tree NODE *)
(* and the chain dm_handler (src/matter/node.rs), the Descriptor extensions  *)
(* (desc_tags.rs) and the list attributes of power_source.rs and epm.rs.     *)
(*                                                                         *)
(* rs-matter answers a list in one message or, if it does not fit, an        *)
(* element at a time until the handler returns ConstraintError; between the  *)
(* elements the bridge may publish another snapshot.  Global attributes are  *)
(* rs-matter's; the Accuracy of EEM, a struct, is called EnergyAccuracy.     *)
(***************************************************************************)
EXTENDS MatterAttributes, SequencesExt

CONSTANT Snapshots    \* what the bridge may publish

ASSUME NodeAssumption == Snapshots \subseteq PvSnapshot

EP_ROOT == 0
EP_SOLAR_POWER == 1
EP_POWER_SOURCE == 2
EP_ELECTRICAL_SENSOR == 3
EP_TEMPERATURE == 4
Endpoints == EP_ROOT .. EP_TEMPERATURE

-----------------------------------------------------------------------------
(* Cluster metadata: id and attributes *)

Cluster(id, attrs) == [id |-> id, attrs |-> attrs]

DESC == Cluster("Descriptor", {"DeviceTypeList", "ServerList", "ClientList", "PartsList"})
TAGGED_DESC == Cluster("Descriptor", DESC.attrs \cup {"TagList"})
IDENTIFY == Cluster("Identify", {"IdentifyTime", "IdentifyType"})
SYSTEM == Cluster("System", {"NodeLabel"})
POWER_SOURCE == Cluster("PowerSource",
  {"Status", "Order", "Description", "WiredCurrentType", "EndpointList"})
POWER_TOPOLOGY == Cluster("PowerTopology", {})
EPM == Cluster("Epm", {"PowerMode", "NumberOfMeasurementTypes", "Accuracy",
                       "ActivePower", "Voltage", "ActiveCurrent", "Frequency"})
EEM == Cluster("Eem", {"EnergyAccuracy", "CumulativeEnergyExported"})
TEMPERATURE == Cluster("Temperature",
  {"MeasuredValue", "MinMeasuredValue", "MaxMeasuredValue"})

Lists == {"DeviceTypeList", "ServerList", "ClientList", "PartsList", "TagList",
          "EndpointList", "Accuracy"}

Endpoint(device, clusters) == [device |-> device, clusters |-> clusters]

NODE ==
  [ep \in Endpoints |->
     CASE ep = EP_ROOT        -> Endpoint("RootNode", <<DESC, SYSTEM>>)
       [] ep = EP_SOLAR_POWER -> Endpoint("SolarPower", <<DESC, IDENTIFY>>)
       [] ep = EP_POWER_SOURCE ->
            Endpoint("PowerSource", <<TAGGED_DESC, IDENTIFY, POWER_SOURCE>>)
       [] ep = EP_ELECTRICAL_SENSOR ->
            Endpoint("ElectricalSensor", <<DESC, IDENTIFY, POWER_TOPOLOGY, EPM, EEM>>)
       [] ep = EP_TEMPERATURE ->
            Endpoint("TemperatureSensor", <<TAGGED_DESC, IDENTIFY, TEMPERATURE>>)]

-----------------------------------------------------------------------------
(* The handler chain *)

(* Mutant: a component that was added to the tree is no part.               *)
SolarPartsShort == {EP_POWER_SOURCE, EP_ELECTRICAL_SENSOR}

SOLAR_PARTS == {EP_POWER_SOURCE, EP_ELECTRICAL_SENSOR, EP_TEMPERATURE}
POWERED_ENDPOINTS ==
  <<EP_SOLAR_POWER, EP_POWER_SOURCE, EP_ELECTRICAL_SENSOR, EP_TEMPERATURE>>

GRID_TAG == <<[namespace |-> "PowerSource", tag |-> "Grid"]>>
INVERTER_TEMPERATURE_TAG == <<[namespace |-> "CommonLocation", tag |-> "Inside"]>>

Handler(kind) == [kind |-> kind, parts |-> "standard", tags |-> <<>>]
TaggedDesc(tags) == [Handler("TaggedDesc") EXCEPT !.tags = tags]

Link(ep, cluster, handler) ==
  [endpoint |-> ep, cluster |-> cluster.id, handler |-> handler]

RootLinks == <<Link(EP_ROOT, DESC, Handler("Desc")), Link(EP_ROOT, SYSTEM, Handler("System"))>>

SolarLinks ==
  <<Link(EP_SOLAR_POWER, DESC, [Handler("Desc") EXCEPT !.parts = "solar"]),
    Link(EP_SOLAR_POWER, IDENTIFY, Handler("Identify"))>>

PowerSourceLinks ==
  <<Link(EP_POWER_SOURCE, DESC, TaggedDesc(GRID_TAG)),
    Link(EP_POWER_SOURCE, IDENTIFY, Handler("Identify")),
    Link(EP_POWER_SOURCE, POWER_SOURCE, Handler("PowerSource"))>>

SensorLinks ==
  <<Link(EP_ELECTRICAL_SENSOR, DESC, Handler("Desc")),
    Link(EP_ELECTRICAL_SENSOR, IDENTIFY, Handler("Identify")),
    Link(EP_ELECTRICAL_SENSOR, POWER_TOPOLOGY, Handler("PowerTopology")),
    Link(EP_ELECTRICAL_SENSOR, EPM, Handler("Epm")),
    Link(EP_ELECTRICAL_SENSOR, EEM, Handler("Eem"))>>

(* Mutant: the plain Descriptor where NODE promises a TagList.               *)
TemperatureLinksUntagged ==
  <<Link(EP_TEMPERATURE, DESC, Handler("Desc")),
    Link(EP_TEMPERATURE, IDENTIFY, Handler("Identify")),
    Link(EP_TEMPERATURE, TEMPERATURE, Handler("Temperature"))>>

TemperatureLinks ==
  <<Link(EP_TEMPERATURE, DESC, TaggedDesc(INVERTER_TEMPERATURE_TAG)),
    Link(EP_TEMPERATURE, IDENTIFY, Handler("Identify")),
    Link(EP_TEMPERATURE, TEMPERATURE, Handler("Temperature"))>>

(* ChainedHandler: of some links the latest that matches, else the rest.     *)
Chained(links, ep, cluster, next) ==
  LET hits == {k \in DOMAIN links : links[k].endpoint = ep /\ links[k].cluster = cluster.id}
  IN  IF hits = {} THEN next
      ELSE links[CHOOSE k \in hits : \A m \in hits : m <= k].handler

(* dm_handler: what a message to a cluster of an endpoint comes to.          *)
Dispatch(ep, cluster) ==
  LET chain(links, next) == Chained(links, ep, cluster, next)
  IN  chain(TemperatureLinks, chain(SensorLinks, chain(PowerSourceLinks,
        chain(SolarLinks, chain(RootLinks, Handler("none"))))))

-----------------------------------------------------------------------------
(* What the handlers answer *)

(* SolarPartsMatcher, and rs-matter's: everything is part of the root.       *)
PartsOf(h, ep) ==
  IF h.parts = "solar" THEN {e \in SOLAR_PARTS : ep = EP_SOLAR_POWER}
  ELSE {e \in Endpoints : ep = EP_ROOT /\ e # EP_ROOT}

MEASUREMENT_TYPES == 4
ENERGY_MAX_KWH == 1000000    \* the code's 10^12 mWh is more than TLC can hold

Row(type, min, max) == [type |-> type, min |-> min, max |-> max]

(* Mutant: the rows that the rating sizes are left out until it is known.    *)
AccuracyEntriesOnceRated(w) ==
  LET fixed == <<Row("Voltage", VOLTAGE_MIN_MV, 230000 + 45000),
                 Row("Frequency", 50000 - 5000, 50000 + 5000)>>
  IN  IF w = None THEN fixed
      ELSE <<Row("ActivePower", ActivePowerCurrentMin(w)[1], 0), fixed[1],
             Row("ActiveCurrent", ActivePowerCurrentMin(w)[2], 0), fixed[2]>>

(* Mutant: a measurement is served without a row of its own.                *)
AccuracyEntriesThree(w) ==
  <<Row("ActivePower", ActivePowerCurrentMin(w)[1], 0),
    Row("Voltage", VOLTAGE_MIN_MV, 230000 + 45000),
    Row("ActiveCurrent", ActivePowerCurrentMin(w)[2], 0)>>

AccuracyEntries(w) ==
  <<Row("ActivePower", ActivePowerCurrentMin(w)[1], 0),
    Row("Voltage", VOLTAGE_MIN_MV, 230000 + 45000),
    Row("ActiveCurrent", ActivePowerCurrentMin(w)[2], 0),
    Row("Frequency", 50000 - 5000, 50000 + 5000)>>

(* rs-matter goes through the endpoints in the order of their numbers.       *)
Ascending(S) ==
  CHOOSE q \in [1 .. Cardinality(S) -> S] : \A m, n \in DOMAIN q : m < n => q[m] < q[n]

DescLists(h, ep) ==
  [DeviceTypeList |-> <<NODE[ep].device>>,
   ServerList     |-> [i \in DOMAIN NODE[ep].clusters |-> NODE[ep].clusters[i].id],
   ClientList     |-> <<>>,
   PartsList      |-> Ascending(PartsOf(h, ep))]

TaggedDescLists(h, ep) ==
  LET lists == DescLists(h, ep)
  IN  [a \in DOMAIN lists \cup {"TagList"} |-> IF a = "TagList" THEN h.tags ELSE lists[a]]

(* Each list attribute that a handler implements, with its rows.            *)
ListsOf(h, ep, s) ==
  CASE h.kind = "Desc"        -> DescLists(h, ep)
    [] h.kind = "TaggedDesc"  -> TaggedDescLists(h, ep)
    [] h.kind = "PowerSource" -> [EndpointList |-> POWERED_ENDPOINTS]
    [] h.kind = "Epm"         -> [Accuracy |-> AccuracyEntries(s.max_power_w)]
    [] OTHER                  -> <<>>

(* Each attribute that it answers with one value.                           *)
PowerSourceScalars(s) ==
  [Status |-> SourceStatus(s), Order |-> 0,
   Description |-> "PV inverter (grid)", WiredCurrentType |-> "AC"]

EpmScalars(s) ==
  [PowerMode |-> "AC", NumberOfMeasurementTypes |-> MEASUREMENT_TYPES,
   ActivePower |-> Served(s)["ActivePower"], Voltage |-> Served(s)["Voltage"],
   ActiveCurrent |-> Served(s)["ActiveCurrent"], Frequency |-> Served(s)["Frequency"]]

EemScalars(s) ==
  [EnergyAccuracy |-> Row("ElectricalEnergy", 0, ENERGY_MAX_KWH),
   CumulativeEnergyExported |-> Served(s)["CumulativeEnergyExported"]]

TemperatureScalars(s) ==
  [MeasuredValue |-> Served(s)["MeasuredValue"],
   MinMeasuredValue |-> 0, MaxMeasuredValue |-> 8000]

ScalarsOf(h, s) ==
  CASE h.kind = "PowerSource" -> PowerSourceScalars(s)
    [] h.kind = "Epm"         -> EpmScalars(s)
    [] h.kind = "Eem"         -> EemScalars(s)
    [] h.kind = "Temperature" -> TemperatureScalars(s)
    [] h.kind = "Identify"    -> [IdentifyTime |-> 0, IdentifyType |-> 0]
    [] h.kind = "System"      -> [NodeLabel |-> 0]
    [] OTHER                  -> <<>>

-----------------------------------------------------------------------------
VARIABLES
  snapshot,    \* the shared RefCell
  parts,       \* controller: the PartsList it read, per endpoint, or None
  powered,     \* controller: the EndpointList it read, or None
  types,       \* controller: the NumberOfMeasurementTypes it read, or None
  refused,     \* a declared attribute was not answered
  reading,     \* the list that is being read by element, or None
  last         \* the list that was just read, or None

controller == <<parts, powered, types, refused, last>>
vars == <<snapshot, controller, reading>>

Init ==
  /\ snapshot \in Snapshots
  /\ parts = [ep \in Endpoints |-> None]
  /\ powered = None /\ types = None /\ refused = FALSE
  /\ reading = None /\ last = None

(* The endpoints that it has found, and whose metadata it goes by.          *)
Known == {EP_ROOT} \cup UNION {parts[ep] : ep \in {e \in Endpoints : parts[e] # None}}

ReadScalar(ep, c, attr) ==
  /\ reading = None
  /\ attr \in c.attrs \ Lists
  /\ LET answers == ScalarsOf(Dispatch(ep, c), snapshot)
     IN  /\ refused' = (refused \/ attr \notin DOMAIN answers)
         /\ types' = IF attr = "NumberOfMeasurementTypes" THEN answers[attr] ELSE types
  /\ UNCHANGED <<snapshot, parts, powered, reading, last>>

(* The controller takes in a list, complete.                                *)
Finish(ep, attr, rows, seen) ==
  /\ last' = [ep |-> ep, attr |-> attr, rows |-> rows, seen |-> seen]
  /\ parts' = IF attr = "PartsList" THEN [parts EXCEPT ![ep] = ToSet(rows)] ELSE parts
  /\ powered' = IF attr = "EndpointList" THEN ToSet(rows) ELSE powered
  /\ UNCHANGED <<snapshot, types>>

ReadAll(ep, c, attr) ==
  /\ reading = None
  /\ attr \in c.attrs \cap Lists
  /\ LET lists == ListsOf(Dispatch(ep, c), ep, snapshot)
     IN  IF attr \in DOMAIN lists
         THEN Finish(ep, attr, lists[attr], {snapshot}) /\ UNCHANGED refused
         ELSE refused' = TRUE /\ UNCHANGED <<snapshot, parts, powered, types, last>>
  /\ UNCHANGED reading

(* The list does not fit: an empty array first.                             *)
ReadNone(ep, c, attr) ==
  /\ reading = None
  /\ attr \in c.attrs \cap Lists
  /\ attr \in DOMAIN ListsOf(Dispatch(ep, c), ep, snapshot)
  /\ reading' = [ep |-> ep, cluster |-> c, attr |-> attr, rows |-> <<>>, seen |-> {snapshot}]
  /\ last' = None
  /\ UNCHANGED <<snapshot, parts, powered, types, refused>>

CurrentRows ==
  ListsOf(Dispatch(reading.ep, reading.cluster), reading.ep, snapshot)[reading.attr]

(* Mutant: an index past the end repeats the last element.                  *)
ReadOneClamped ==
  /\ reading # None
  /\ CurrentRows # <<>>
  /\ reading' = [reading EXCEPT !.rows =
       Append(@, IF Len(@) < Len(CurrentRows) THEN CurrentRows[Len(@) + 1]
                                              ELSE Last(CurrentRows))]
  /\ UNCHANGED <<snapshot, controller>>

ReadOne ==
  /\ reading # None
  /\ Len(reading.rows) < Len(CurrentRows)
  /\ reading' = [reading EXCEPT !.rows = Append(@, CurrentRows[Len(@) + 1])]
  /\ UNCHANGED <<snapshot, controller>>

(* ConstraintError: there is no such element.                               *)
ReadEnd ==
  /\ reading # None
  /\ Len(reading.rows) >= Len(CurrentRows)
  /\ Finish(reading.ep, reading.attr, reading.rows, reading.seen)
  /\ reading' = None
  /\ UNCHANGED refused

(* The bridge replaces the snapshot, also between two elements.             *)
Replace(next) ==
  /\ snapshot' = next
  /\ reading' = IF reading = None THEN None ELSE [reading EXCEPT !.seen = @ \cup {next}]
  /\ UNCHANGED controller

Next ==
  \/ \E ep \in Known : \E c \in ToSet(NODE[ep].clusters) : \E attr \in c.attrs :
       ReadScalar(ep, c, attr) \/ ReadAll(ep, c, attr) \/ ReadNone(ep, c, attr)
  \/ ReadOne \/ ReadEnd
  \/ \E next \in Snapshots : Replace(next)

Spec == Init /\ [][Next]_vars

-----------------------------------------------------------------------------
(* Properties *)

MaxRows == 5

(* Type invariant: reading by element ends, past no list's longest.         *)
TypeOK ==
  /\ snapshot \in Snapshots
  /\ parts \in [Endpoints -> (SUBSET Endpoints) \cup {None}]
  /\ powered \in (SUBSET Endpoints) \cup {None}
  /\ types \in {MEASUREMENT_TYPES, None} /\ refused \in BOOLEAN
  /\ reading # None => Len(reading.rows) <= MaxRows /\ snapshot \in reading.seen

(* The tree and the chain agree: every attribute that NODE declares for an    *)
(* endpoint is answered by a handler bound to that endpoint.                *)
Answered == ~ refused

(* A list that was read by element while snapshots came and went has all its *)
(* rows, in order, each as it was at some time of the read.                 *)
ListsWhole ==
  last # None =>
    \E c \in ToSet(NODE[last.ep].clusters) :
      /\ last.attr \in c.attrs
      /\ LET rowsOf(s) == ListsOf(Dispatch(last.ep, c), last.ep, s)[last.attr]
         IN  /\ \A s \in last.seen : Len(rowsOf(s)) = Len(last.rows)
             /\ \A i \in DOMAIN last.rows : \E s \in last.seen : last.rows[i] = rowsOf(s)[i]

(* The Accuracy list a controller holds, torn or not, has exactly one row    *)
(* for each measurement that EPM serves, as many as it was told.            *)
AccuracyCovers ==
  last # None /\ last.attr = "Accuracy" =>
    /\ \A a \in {"ActivePower", "Voltage", "ActiveCurrent", "Frequency"} :
         a \in EPM.attrs =>
           Cardinality({i \in DOMAIN last.rows : last.rows[i].type = a}) = 1
    /\ types # None => Len(last.rows) = types

(* A controller that follows the parts lists finds the whole device, and     *)
(* what the source says it powers is the Solar Power composition.           *)
Discovered ==
  /\ (\A ep \in Known : parts[ep] # None) => Known = Endpoints
  /\ powered # None /\ parts[EP_SOLAR_POWER] # None =>
       powered = {EP_SOLAR_POWER} \cup parts[EP_SOLAR_POWER]
=============================================================================
