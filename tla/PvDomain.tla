------------------------------ MODULE PvDomain ------------------------------
(***************************************************************************)
(* The pure PV domain of pv-matter (src/domain.rs): the snapshot that the   *)
(* Matter handlers read, the identity of the inverter, and the mapping from *)
(* contract messages onto both.                                             *)
(*                                                                         *)
(* A reading is an integer in Matter's units or None (Rust's None, read as  *)
(* null).  A record of a SenML pack carries the value that `scaled` or the  *)
(* text parsers return for it: None when the unit is unexpected, the        *)
(* literal malformed or the text outside the contract's set.  A number      *)
(* under device/status or device/grid_relay has no effect in the code and   *)
(* is a record of another name.                                             *)
(***************************************************************************)
EXTENDS Integers, Sequences

CONSTANTS
  None,        \* Rust's Option::None
  Identities   \* serial, name, model, lines and strings of an info document

ASSUME NoneAssumption == None \notin Int

-----------------------------------------------------------------------------
(* Types *)

LinkStatus   == {"Unknown", "Online", "Asleep", "Offline"}
DeviceStatus == {"Ok", "Warning", "Fault", "Off", "Unknown"}
GridRelay    == {"Closed", "Open", "Fault", "Unknown"}

(* In severity order: the derived Ord of the Rust enum.                     *)
Severity == [Unspecified |-> 0, Active |-> 1, Standby |-> 2, Unavailable |-> 3]

(* The instantaneous readings that are numbers.                             *)
Numeric == {"voltage_mv", "current_ma", "power_mw", "frequency_mhz",
            "temperature_centi_c"}

OptInt == Int \cup {None}

PvSnapshot ==
  [link             : LinkStatus,
   readings         : [Numeric -> OptInt],
   device_status    : DeviceStatus \cup {None},
   grid_relay       : GridRelay \cup {None},
   energy_total_mwh : OptInt,
   energy_end_ts    : OptInt,
   max_power_w      : OptInt]

InverterInfo == [identity : Identities, max_power_w : Nat \cup {None}]

Record ==
  [name : Numeric \cup {"energy_total_mwh"}, value : OptInt, time_offset : Int]
  \cup [name : {"device_status"}, value : DeviceStatus \cup {None}, time_offset : Int]
  \cup [name : {"grid_relay"}, value : GridRelay \cup {None}, time_offset : Int]
  \cup [name : {"other"}, value : {None}, time_offset : {0}]

Pack == [base_time : Int, records : Seq(Record)]

DomainMsg == [type : {"Info"}, info : InverterInfo]
             \cup [type : {"Pack"}, pack : Pack]
             \cup [type : {"Status"}, status : LinkStatus \ {"Unknown"}]

(* What a State accumulates: the snapshot and the identity, if any arrived. *)
State == [snapshot : PvSnapshot, info : InverterInfo \cup {None}]

-----------------------------------------------------------------------------
(* Defaults (derive(Default)) *)

Blank == [n \in Numeric |-> None]

DefaultSnapshot ==
  [link |-> "Unknown", readings |-> Blank, device_status |-> None,
   grid_relay |-> None, energy_total_mwh |-> None, energy_end_ts |-> None,
   max_power_w |-> None]

DefaultState == [snapshot |-> DefaultSnapshot, info |-> None]

-----------------------------------------------------------------------------
(* Folding messages into the snapshot *)

(* Off line, nothing instantaneous can be measured.                         *)
EnforceLinkMask(s) ==
  IF s.link = "Online"
  THEN s
  ELSE [s EXCEPT !.readings = Blank, !.device_status = None, !.grid_relay = None]

(* Record i is the last one of its name: later records overwrite earlier.   *)
IsLast(records, name, i) ==
  /\ records[i].name = name
  /\ \A j \in DOMAIN records : j > i => records[j].name # name

Resolved(records, name) ==
  IF \E i \in DOMAIN records : IsLast(records, name, i)
  THEN records[CHOOSE i \in DOMAIN records : IsLast(records, name, i)].value
  ELSE None

(* i16::try_from: hundredths of a degree that do not fit are not reported.  *)
FitsI16(v) == v # None /\ v \in -32768 .. 32767

ReadingsOf(records) ==
  [n \in Numeric |->
     IF n = "temperature_centi_c" /\ ~ FitsI16(Resolved(records, n))
     THEN None
     ELSE Resolved(records, n)]

(* Record i is the last usable energy total: unlike a reading, a total that *)
(* cannot be used does not overwrite one that can.                          *)
IsLastTotal(records, i) ==
  /\ records[i].name = "energy_total_mwh"
  /\ records[i].value # None
  /\ \A j \in DOMAIN records :
       j > i /\ records[j].name = "energy_total_mwh" => records[j].value = None

(* Mutant: a pack without a usable total blanks it, as it does a reading.    *)
ForgetTotal(s, pack) ==
  IF \E i \in DOMAIN pack.records : IsLastTotal(pack.records, i)
  THEN LET r == pack.records[CHOOSE i \in DOMAIN pack.records :
                               IsLastTotal(pack.records, i)]
       IN  [s EXCEPT !.energy_total_mwh = r.value,
                     !.energy_end_ts = pack.base_time + r.time_offset]
  ELSE [s EXCEPT !.energy_total_mwh = None, !.energy_end_ts = None]

RetainTotal(s, pack) ==
  IF \E i \in DOMAIN pack.records : IsLastTotal(pack.records, i)
  THEN LET r == pack.records[CHOOSE i \in DOMAIN pack.records :
                               IsLastTotal(pack.records, i)]
       IN  [s EXCEPT !.energy_total_mwh = r.value,
                     !.energy_end_ts = pack.base_time + r.time_offset]
  ELSE s

(* Mutant: only status transitions mask.                                    *)
ApplyPackUnmasked(s, pack) ==
  [RetainTotal(s, pack) EXCEPT
     !.readings      = ReadingsOf(pack.records),
     !.device_status = Resolved(pack.records, "device_status"),
     !.grid_relay    = Resolved(pack.records, "grid_relay")]

(* Mutant: a reading that the pack omits keeps its value.                   *)
ApplyPackMerging(s, pack) ==
  EnforceLinkMask(
    [RetainTotal(s, pack) EXCEPT
       !.readings      = [n \in Numeric |-> IF ReadingsOf(pack.records)[n] = None
                                            THEN s.readings[n]
                                            ELSE ReadingsOf(pack.records)[n]],
       !.device_status = Resolved(pack.records, "device_status"),
       !.grid_relay    = Resolved(pack.records, "grid_relay")])

ApplyPack(s, pack) ==
  EnforceLinkMask(
    [RetainTotal(s, pack) EXCEPT
       !.readings      = ReadingsOf(pack.records),
       !.device_status = Resolved(pack.records, "device_status"),
       !.grid_relay    = Resolved(pack.records, "grid_relay")])

SetStatus(s, status) == EnforceLinkMask([s EXCEPT !.link = status])

ApplyInfo(st, info) ==
  [st EXCEPT !.snapshot.max_power_w = info.max_power_w, !.info = info]

(* State::apply *)
Apply(st, m) ==
  CASE m.type = "Info"   -> ApplyInfo(st, m.info)
    [] m.type = "Pack"   -> [st EXCEPT !.snapshot = ApplyPack(st.snapshot, m.pack)]
    [] m.type = "Status" -> [st EXCEPT !.snapshot = SetStatus(st.snapshot, m.status)]

-----------------------------------------------------------------------------
(* The Power Source status derived from the snapshot *)

DeviceVote == [Ok |-> "Active", Warning |-> "Active", Fault |-> "Unavailable",
               Off |-> "Unavailable", Unknown |-> None]
RelayVote  == [Closed |-> "Active", Open |-> "Standby", Unknown |-> "Standby",
               Fault |-> "Unavailable"]

Votes(s) ==
  {v \in {IF s.device_status = None THEN None ELSE DeviceVote[s.device_status],
          IF s.grid_relay = None THEN None ELSE RelayVote[s.grid_relay]} : v # None}

MostSevere(votes) ==
  CHOOSE v \in votes : \A w \in votes : Severity[w] <= Severity[v]

OnlineStatus(s) == IF Votes(s) = {} THEN "Active" ELSE MostSevere(Votes(s))

SourceStatus(s) ==
  CASE s.link = "Unknown" -> "Unspecified"
    [] s.link = "Offline" -> "Unavailable"
    [] s.link = "Asleep"  -> "Standby"
    [] s.link = "Online"  -> OnlineStatus(s)

-----------------------------------------------------------------------------
(* All that a snapshot knows only while the inverter is online, and what a   *)
(* pack brings of it.                                                       *)
Instantaneous(s) == <<s.readings, s.device_status, s.grid_relay>>
Brought(records) ==
  <<ReadingsOf(records), Resolved(records, "device_status"), Resolved(records, "grid_relay")>>

(* Nothing instantaneous in a snapshot whose link is not online.            *)
Masked(s) ==
  s.link # "Online" => /\ \A n \in Numeric : s.readings[n] = None
                       /\ s.device_status = None
                       /\ s.grid_relay = None
=============================================================================
