---------------------------- MODULE SenmlReader ----------------------------
(***************************************************************************)
(* One payload of the instantaneous topic, from its JSON records to the      *)
(* snapshot: the loop of senml::parse_pack (src/senml.rs) and the loop of    *)
(* PvSnapshot::apply_pack (src/domain.rs), a record a step.                  *)
(*                                                                         *)
(* A record name is the field it feeds, or any other string; a text is the   *)
(* enum member it spells, or "other"; bn leaves no trace.  scale_decimal     *)
(* is its specification, Nearest, which module Decimal shows it to meet.    *)
(***************************************************************************)
EXTENDS MatterAttributes, SequencesExt

CONSTANTS
  Junk, I64_MAX,   \* as in Literals
  Payloads,        \* the arrays of raw records that may be retained
  Snapshots        \* what may have been accumulated before

Lit == INSTANCE Literals

Units == {"W", "V", "A", "Hz", "Wh", "Cel", "kV"}
Names == Numeric \cup {"energy_total_mwh", "device_status", "grid_relay", "other"}
Texts == DeviceStatus \cup GridRelay \cup {"other"}

Opt(S) == S \cup {None}

RawRecord == [bt : Opt(Lit!Literal), bu : Opt(Units), n : Opt(Names), u : Opt(Units),
              t : Opt(Lit!Literal), v : Opt(Lit!Literal), vs : Opt(Texts)]

(* The widths of the snapshot's fields: i64, and i16 for the temperature.     *)
Fits(s) ==
  /\ \A n \in Numeric : s.readings[n] = None \/ s.readings[n] \in Lit!I64
  /\ \A x \in {s.energy_total_mwh, s.energy_end_ts} : x = None \/ x \in Lit!I64
  /\ LET celsius == s.readings["temperature_centi_c"]
     IN  celsius = None \/ FitsI16(celsius)

ASSUME ReaderAssumption ==
  /\ I64_MAX \in Nat \ {0} /\ Junk \notin Int
  /\ None \notin Lit!Literal \cup Units \cup Names \cup Texts
  /\ MATTER_EPOCH_SECS + EPOCH_S_MAX <= I64_MAX
  /\ Payloads \subseteq Seq(RawRecord)
  /\ Snapshots \subseteq PvSnapshot /\ \A s \in Snapshots : Fits(s)

VARIABLES
  source, before,               \* the arguments: payload and snapshot
  pc, pos,                      \* "parse" | "apply" | "refused" | "done"; records read
  base_time, base_unit,         \* of parse_pack
  records,                      \* senml::Record: number or text, unit resolved
  locals,                       \* of apply_pack: what it found per field
  snapshot

vars == <<source, before, pc, pos, base_time, base_unit, records, locals, snapshot>>

Found == Numeric \cup {"device_status", "grid_relay"}

-----------------------------------------------------------------------------
(* parse_pack *)

OrZero(l) == IF Lit!Nearest(l, 0) = None THEN 0 ELSE Lit!Nearest(l, 0)

(* Mutant: a bt that scale_decimal refuses leaves the base time as it was.   *)
BaseTimeKept(rec) ==
  IF rec.bt = None \/ (base_time # None /\ Lit!Nearest(rec.bt, 0) = None)
  THEN base_time ELSE OrZero(rec.bt)

BaseTime(rec) == IF rec.bt = None THEN base_time ELSE OrZero(rec.bt)
BaseUnit(rec) == IF rec.bu = None THEN base_unit ELSE rec.bu

(* Mutant: the pack's unit comes before the record's own.                   *)
UnitOfBase(rec) == IF BaseUnit(rec) = None THEN rec.u ELSE BaseUnit(rec)

UnitOf(rec) == IF rec.u = None THEN BaseUnit(rec) ELSE rec.u

Init ==
  /\ source \in Payloads /\ before \in Snapshots
  /\ pc = "parse" /\ pos = 0
  /\ base_time = None /\ base_unit = None /\ records = <<>>
  /\ locals = [f \in Found |-> None]
  /\ snapshot = before

(* The record's base fields take effect before its own are resolved.        *)
ParseRecord ==
  /\ pc = "parse" /\ pos < Len(source)
  /\ LET rec == source[pos + 1]
     IN  /\ base_time' = BaseTime(rec)
         /\ base_unit' = BaseUnit(rec)
         /\ records' =
              IF rec.n = None \/ (rec.v = None /\ rec.vs = None) THEN records
              ELSE Append(records,
                     [name        |-> rec.n,
                      unit        |-> UnitOf(rec),
                      time_offset |-> IF rec.t = None THEN 0 ELSE OrZero(rec.t),
                      number      |-> rec.v,
                      text        |-> IF rec.v = None THEN rec.vs ELSE None])
  /\ pos' = pos + 1
  /\ UNCHANGED <<source, before, pc, locals, snapshot>>

(* PackError::MissingHeader: the message is dropped.                        *)
Refuse ==
  /\ pc = "parse" /\ pos = Len(source) /\ base_time = None
  /\ pc' = "refused"
  /\ UNCHANGED <<source, before, pos, base_time, base_unit, records, locals, snapshot>>

Parsed ==
  /\ pc = "parse" /\ pos = Len(source) /\ base_time # None
  /\ pc' = "apply" /\ pos' = 0
  /\ UNCHANGED <<source, before, base_time, base_unit, records, locals, snapshot>>

-----------------------------------------------------------------------------
(* apply_pack *)

MilliShift(unit) == IF unit \in {"W", "V", "A", "Hz", "Wh"} THEN 3 ELSE None

Scaled(r, shift) ==
  IF shift = None \/ r.number = None THEN None ELSE Lit!Nearest(r.number, shift)

(* Mutant: a temperature beyond i16 is not dropped.                         *)
ReadingUnfitted(r) ==
  IF r.name # "temperature_centi_c" THEN Scaled(r, MilliShift(r.unit))
  ELSE IF r.unit = "Cel" THEN Scaled(r, 2) ELSE None

Reading(r) ==
  IF r.name # "temperature_centi_c" THEN Scaled(r, MilliShift(r.unit))
  ELSE IF r.unit = "Cel" /\ FitsI16(Scaled(r, 2)) THEN Scaled(r, 2) ELSE None

(* Mutant: the record's offset is left out.                                 *)
DatedAtBase(r) == base_time

(* i64 addition, in a release build.                                        *)
Dated(r) == Lit!Wrapped(base_time + r.time_offset)

Enum(text, members) == IF text \in members THEN text ELSE None

Current == records[pos + 1]
Applying == pc = "apply" /\ pos < Len(records) /\ pos' = pos + 1

(* A reading overwrites what an earlier record of its name left, with None   *)
(* when it cannot be used.                                                  *)
ApplyReading ==
  /\ Applying /\ Current.name \in Numeric
  /\ locals' = [locals EXCEPT ![Current.name] = Reading(Current)]
  /\ UNCHANGED <<source, before, pc, base_time, base_unit, records, snapshot>>

(* A total goes straight into the snapshot, if it can be used.              *)
ApplyTotal ==
  /\ Applying /\ Current.name = "energy_total_mwh"
  /\ LET mwh == Scaled(Current, MilliShift(Current.unit))
     IN  snapshot' = IF mwh = None THEN snapshot
                     ELSE [snapshot EXCEPT !.energy_total_mwh = mwh,
                                           !.energy_end_ts = Dated(Current)]
  /\ UNCHANGED <<source, before, pc, base_time, base_unit, records, locals>>

ApplyText ==
  /\ Applying /\ Current.name \in {"device_status", "grid_relay"} /\ Current.text # None
  /\ locals' = [locals EXCEPT ![Current.name] =
                  Enum(Current.text, IF Current.name = "grid_relay" THEN GridRelay
                                                                ELSE DeviceStatus)]
  /\ UNCHANGED <<source, before, pc, base_time, base_unit, records, snapshot>>

(* Another name, or a number where the contract has a text.                 *)
ApplyNothing ==
  /\ Applying
  /\ \/ Current.name = "other"
     \/ Current.name \in {"device_status", "grid_relay"} /\ Current.text = None
  /\ UNCHANGED <<source, before, pc, base_time, base_unit, records, locals, snapshot>>

Assign ==
  /\ pc = "apply" /\ pos = Len(records)
  /\ pc' = "done"
  /\ snapshot' = EnforceLinkMask(
       [snapshot EXCEPT !.readings      = [n \in Numeric |-> locals[n]],
                        !.device_status = locals["device_status"],
                        !.grid_relay    = locals["grid_relay"]])
  /\ UNCHANGED <<source, before, pos, base_time, base_unit, records, locals>>

Next == \/ ParseRecord \/ Refuse \/ Parsed
        \/ ApplyReading \/ ApplyTotal \/ ApplyText \/ ApplyNothing \/ Assign

Spec == Init /\ [][Next]_vars

-----------------------------------------------------------------------------
(* What the payload says, without the loops *)

Refused(l) == l # None /\ Lit!Nearest(l, 0) = None

(* The last bt, or bu, among the first k records.                           *)
LastBase(field, k) ==
  LET at == {i \in 1 .. k : source[i][field] # None}
  IN  IF at = {} THEN None ELSE source[CHOOSE i \in at : \A j \in at : j <= i][field]

UnitAt(i) == IF source[i].u # None THEN source[i].u ELSE LastBase("bu", i)

(* The value of record i: v beats vs, and a number needs a mapped unit.     *)
Meaning(i) ==
  LET rec == source[i]
      shift == CASE rec.n = "temperature_centi_c" /\ UnitAt(i) = "Cel" -> 2
                 [] rec.n # "temperature_centi_c" /\ UnitAt(i) \in Units \ {"Cel", "kV"} -> 3
                 [] OTHER -> None
  IN  CASE rec.n = "device_status" -> Enum(rec.vs, DeviceStatus)
        [] rec.n = "grid_relay" -> Enum(rec.vs, GridRelay)
        [] OTHER -> IF rec.v = None \/ shift = None THEN None
                    ELSE Lit!Nearest(rec.v, shift)

(* The records that reach a field: a text field is not fed by a number.     *)
Reaches(i) ==
  \/ source[i].n \in Numeric \cup {"energy_total_mwh"}
     /\ (source[i].v # None \/ source[i].vs # None)
  \/ source[i].n \in {"device_status", "grid_relay"}
     /\ source[i].v = None /\ source[i].vs # None

OffsetAt(i) == IF source[i].t = None \/ Refused(source[i].t) THEN 0
               ELSE Lit!Nearest(source[i].t, 0)

Ignored == [name |-> "other", value |-> None, time_offset |-> 0]

(* The Pack of PvDomain that the payload stands for, record by record.       *)
Decoded ==
  LET bt == LastBase("bt", Len(source))
  IN  [base_time |-> IF Refused(bt) THEN 0 ELSE Lit!Nearest(bt, 0),
       records   |-> [i \in DOMAIN source |->
                        IF ~ Reaches(i) THEN Ignored
                        ELSE [name        |-> source[i].n,
                              value       |-> Meaning(i),
                              time_offset |-> OffsetAt(i)]]]

Totals == {i \in DOMAIN source : /\ source[i].n = "energy_total_mwh"
                                 /\ Meaning(i) # None}

-----------------------------------------------------------------------------
(* Properties *)

(* Type invariant: a snapshot holds i64 values, i16 hundredths of a degree   *)
(* and members of the contract's enums, whatever the literals were.         *)
TypeOK ==
  /\ pc \in {"parse", "apply", "refused", "done"}
  /\ pos \in 0 .. IF pc \in {"parse", "refused"} THEN Len(source) ELSE Len(records)
  /\ base_time = None \/ base_time \in Lit!I64
  /\ \A i \in DOMAIN records : records[i].time_offset \in Lit!I64
  /\ snapshot \in PvSnapshot /\ Fits(snapshot)

(* What the other modules take a pack to do is what the two loops do, for    *)
(* every order and repetition of records, with base fields anywhere.  The    *)
(* time of the total is ServedExact's.                                      *)
PackFolded ==
  pc = "done" =>
    [snapshot EXCEPT !.energy_end_ts = None]
      = [ApplyPack(before, Decoded) EXCEPT !.energy_end_ts = None]

(* The total that Matter serves is dated exactly as its payload says or not  *)
(* at all, also when base time and offset do not add up in an i64.  Not so   *)
(* below the i64: a sum of two times that far before 1970 would wrap into    *)
(* what epoch-s can express.                                                *)
ServedExact ==
  pc = "done" /\ (\A i \in Totals : base_time + OffsetAt(i) >= -(I64_MAX + 1)) =>
    EnergyExported(snapshot) = EnergyExported(ApplyPack(before, Decoded))

(* A time that is no plain number (a fraction is one, and rounded) leaves    *)
(* nothing behind and takes nothing over from another record: without its    *)
(* base the total is dated by its own t alone, and by its base without its t. *)
MalformedTimes ==
  pc = "done" =>
    \A i \in Totals : (\A j \in Totals : j <= i) =>
      /\ Refused(LastBase("bt", Len(source)))
           => EnergyExported(snapshot).end = ToEpochS(OffsetAt(i))
      /\ Refused(source[i].t)
           => EnergyExported(snapshot).end = ToEpochS(base_time)
=============================================================================
