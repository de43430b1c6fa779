-------------------------- MODULE SenmlReaderProofs --------------------------
(* Theorems on SenmlReader, for every set of payloads and of snapshots and   *)
(* every width of the integers.                                             *)
EXTENDS SenmlReader, TLAPS

(* The constants the i64 arithmetic rests on.                                *)
LEMMA Constants ==
  /\ I64_MAX \in Nat \ {0} /\ None \notin Int
  /\ MATTER_EPOCH_SECS \in Nat /\ EPOCH_S_MAX \in Nat
  BY ReaderAssumption, NoneAssumption, EpochAssumption

(* What scaling returns is None or fits an i64.                              *)
LEMMA NearestType ==
  ASSUME NEW l, NEW exp
  PROVE  Lit!Nearest(l, exp) = None \/ Lit!Nearest(l, exp) \in Lit!I64
<1> DEFINE ulp == Lit!Pow10[Len(l.frac)]
           m == (2 * Lit!ValueOf(l.int \o l.frac) * Lit!Pow10[exp] + ulp) \div (2 * ulp)
<1>1. Lit!Nearest(l, exp) = IF Lit!IsPlain(l) /\ m \in 0 .. I64_MAX
                            THEN Lit!Signed(l, m) ELSE None
  BY DEF Lit!Nearest
<1> HIDE DEF m
<1>2. CASE Lit!IsPlain(l) /\ m \in 0 .. I64_MAX
  BY <1>1, <1>2, Constants DEF Lit!Signed, Lit!I64
<1> QED BY <1>1, <1>2

(* An unusable integer is read as 0.                                        *)
LEMMA OrZeroType == ASSUME NEW l PROVE OrZero(l) \in Lit!I64
<1>1. 0 \in Lit!I64
  BY Constants DEF Lit!I64
<1> QED BY <1>1, NearestType DEF OrZero

(* Wrapping leaves what fits and brings back what does not.                  *)
LEMMA WrappedLemma ==
  ASSUME NEW x \in Int
  PROVE  /\ Lit!Wrapped(x) \in Lit!I64
         /\ x \in Lit!I64 => Lit!Wrapped(x) = x
<1> DEFINE n == 2 * (I64_MAX + 1)
           y == x + I64_MAX + 1
<1>1. n \in Nat \ {0} /\ y \in Int
  BY Constants
<1>2. Lit!Wrapped(x) = (y % n) - (I64_MAX + 1)
  BY DEF Lit!Wrapped
<1>3. y % n \in 0 .. n - 1
  <2> HIDE DEF n, y
  <2> QED BY <1>1
<1>4. x \in Lit!I64 => y \in 0 .. n - 1
  BY Constants DEF Lit!I64
<1>5. y \in 0 .. n - 1 => y % n = y
  <2> HIDE DEF n, y
  <2> QED BY <1>1
<1>6. Lit!Wrapped(x) \in Lit!I64
  BY <1>2, <1>3, Constants DEF Lit!I64
<1> QED BY <1>2, <1>4, <1>5, <1>6, Constants

(* Twice the range is left once: the sum of two i64 wraps at most once.       *)
LEMMA WrappedOnce ==
  ASSUME NEW x \in Int, x > I64_MAX, x <= 2 * I64_MAX
  PROVE  Lit!Wrapped(x) = x - 2 * (I64_MAX + 1)
<1> DEFINE n == 2 * (I64_MAX + 1)
           y == x + I64_MAX + 1
<1>1. n \in Nat \ {0} /\ y \in Int /\ n <= y /\ y < 2 * n
  BY Constants
<1>2. y % n = y - n
  <2> HIDE DEF n, y
  <2> QED BY <1>1
<1> QED BY <1>2, Constants DEF Lit!Wrapped

-----------------------------------------------------------------------------
(* The inductive invariant *)

(* What parse_pack keeps of record i of the payload.                        *)
Kept(i) == source[i].n # None /\ (source[i].v # None \/ source[i].vs # None)

RecordOf(i) ==
  [name        |-> source[i].n,
   unit        |-> UnitAt(i),
   time_offset |-> OffsetAt(i),
   number      |-> source[i].v,
   text        |-> IF source[i].v = None THEN source[i].vs ELSE None]

(* The records of the payload that have been parsed.                        *)
Read == IF pc \in {"parse", "refused"} THEN pos ELSE Len(source)

(* The base in force is the last one read.                                  *)
BasesRead ==
  /\ base_time = IF LastBase("bt", Read) = None THEN None
                 ELSE OrZero(LastBase("bt", Read))
  /\ base_unit = LastBase("bu", Read)

(* The records are those that were kept, in their order and in the meaning    *)
(* they have in place: at is where each of them was read.                   *)
RecordsAt(at) ==
  /\ at \in [DOMAIN records -> 1 .. Read]
  /\ \A j \in DOMAIN records : Kept(at[j]) /\ records[j] = RecordOf(at[j])
  /\ \A i \in 1 .. Read : Kept(i) => \E j \in DOMAIN records : at[j] = i
  /\ \A j, h \in DOMAIN records : j < h => at[j] < at[h]

RecordsRead == \E at : RecordsAt(at)

(* How much of the records has been applied.                                *)
Applied == IF pc = "apply" THEN pos ELSE IF pc = "done" THEN Len(records) ELSE 0

(* The records that feed a local, and what it takes from one.               *)
Feeds(r, n) == r.name = n /\ (n \notin Numeric => r.text # None)

FieldValue(r) ==
  IF r.name \in Numeric THEN Reading(r)
  ELSE Enum(r.text, IF r.name = "grid_relay" THEN GridRelay ELSE DeviceStatus)

(* A local has what the last record that feeds it says.                     *)
LocalRead(n) ==
  \/ /\ locals[n] = None
     /\ \A j \in 1 .. Applied : ~ Feeds(records[j], n)
  \/ \E j \in 1 .. Applied : /\ Feeds(records[j], n) /\ locals[n] = FieldValue(records[j])
                             /\ \A h \in j + 1 .. Applied : ~ Feeds(records[h], n)

LocalsRead == \A n \in Found : LocalRead(n)

(* A total that can be used, and what it comes to.                          *)
TotalOf(r) == Scaled(r, MilliShift(r.unit))
Usable(r) == r.name = "energy_total_mwh" /\ TotalOf(r) # None

(* The total is the last usable one, or the one there was before.            *)
TotalRead ==
  \/ /\ snapshot.energy_total_mwh = before.energy_total_mwh
     /\ snapshot.energy_end_ts = before.energy_end_ts
     /\ \A j \in 1 .. Applied : ~ Usable(records[j])
  \/ \E j \in 1 .. Applied : /\ Usable(records[j])
                             /\ snapshot.energy_total_mwh = TotalOf(records[j])
                             /\ snapshot.energy_end_ts = Dated(records[j])
                             /\ \A h \in j + 1 .. Applied : ~ Usable(records[h])

(* The rest of the snapshot is assigned at the end, under the link mask.     *)
Totalled == [before EXCEPT !.energy_total_mwh = snapshot.energy_total_mwh,
                           !.energy_end_ts    = snapshot.energy_end_ts]

Assigned == [Totalled EXCEPT !.readings      = [n \in Numeric |-> locals[n]],
                             !.device_status = locals["device_status"],
                             !.grid_relay    = locals["grid_relay"]]

SnapshotRead ==
  snapshot = IF pc = "done" THEN EnforceLinkMask(Assigned) ELSE Totalled

LocalsFit ==
  /\ locals \in [Found -> Int \cup DeviceStatus \cup GridRelay \cup {None}]
  /\ \A n \in Numeric : locals[n] = None \/ locals[n] \in Lit!I64
  /\ locals["temperature_centi_c"] = None \/ FitsI16(locals["temperature_centi_c"])
  /\ locals["device_status"] \in DeviceStatus \cup {None}
  /\ locals["grid_relay"] \in GridRelay \cup {None}

ParsedRecord == [name : Names, unit : Opt(Units), time_offset : Int,
                 number : Opt(Lit!Literal), text : Opt(Texts)]

ReaderInv ==
  /\ TypeOK
  /\ source \in Seq(RawRecord) /\ records \in Seq(ParsedRecord)
  /\ base_unit \in Opt(Units)
  /\ pc \in {"apply", "done"} => base_time # None
  /\ BasesRead /\ RecordsRead /\ LocalsRead /\ TotalRead
  /\ before \in PvSnapshot /\ SnapshotRead /\ LocalsFit

-----------------------------------------------------------------------------
(* Lemmas on the invariant's operators *)

(* One more record: its base field, if it has one, is the last.              *)
LEMMA LastBaseStep ==
  ASSUME NEW field, NEW k \in Nat
  PROVE  /\ LastBase(field, 0) = None
         /\ LastBase(field, k + 1) = IF source[k + 1][field] # None
                                    THEN source[k + 1][field] ELSE LastBase(field, k)
<1> DEFINE at(m) == {i \in 1 .. m : source[i][field] # None}
           last(m) == CHOOSE i \in at(m) : \A j \in at(m) : j <= i
<1>1. \A m : LastBase(field, m) = IF at(m) = {} THEN None ELSE source[last(m)][field]
  BY DEF LastBase
<1>2. at(0) = {}
  OBVIOUS
<1>3. CASE source[k + 1][field] # None
  <2>1. k + 1 \in at(k + 1)
    BY <1>3
  <2>2. \A i \in at(k + 1) : i \in Nat /\ i <= k + 1
    OBVIOUS
  <2>3. \A i \in at(k + 1) : (\A j \in at(k + 1) : j <= i) <=> i = k + 1
    <3> HIDE DEF at
    <3> QED BY <2>1, <2>2
  <2>4. last(k + 1) = k + 1
    <3> HIDE DEF at
    <3> QED BY <2>1, <2>3
  <2> HIDE DEF at, last
  <2> QED BY <1>1, <1>2, <1>3, <2>1, <2>4
<1>4. CASE source[k + 1][field] = None
  <2>1. at(k + 1) = at(k)
    BY <1>4
  <2>2. last(k + 1) = last(k)
    BY <2>1
  <2> HIDE DEF at, last
  <2> QED BY <1>1, <1>2, <1>4, <2>1, <2>2
<1> QED BY <1>3, <1>4

(* What is said of the payload stays said: no step changes it.              *)
LEMMA SourceKept ==
  ASSUME source' = source
  PROVE  /\ \A field, k : LastBase(field, k)' = LastBase(field, k)
         /\ \A i : Kept(i)' = Kept(i) /\ RecordOf(i)' = RecordOf(i)
<1>1. \A field, k : LastBase(field, k)' = LastBase(field, k)
  BY DEF LastBase
<1>2. \A i : UnitAt(i)' = UnitAt(i) /\ OffsetAt(i)' = OffsetAt(i)
  BY <1>1 DEF UnitAt, OffsetAt
<1>3. \A i : Kept(i)' = Kept(i)
  BY DEF Kept
<1> QED BY <1>1, <1>2, <1>3 DEF RecordOf

(* The fields of a raw record.                                              *)
LEMMA RawType ==
  ASSUME NEW rec \in RawRecord
  PROVE  /\ rec.n # None => rec.n \in Names
         /\ rec.u \in Opt(Units) /\ rec.bu \in Opt(Units)
         /\ rec.v \in Opt(Lit!Literal) /\ rec.vs \in Opt(Texts)
  BY DEF RawRecord, Opt

(* A value the pack's loop computes is None or an i64, a temperature an i16. *)
LEMMA ReadingType ==
  ASSUME NEW r
  PROVE  /\ \A shift : Scaled(r, shift) = None \/ Scaled(r, shift) \in Lit!I64
         /\ Reading(r) = None \/ Reading(r) \in Lit!I64
         /\ r.name = "temperature_centi_c" => Reading(r) = None \/ FitsI16(Reading(r))
<1>1. \A shift : Scaled(r, shift) = None \/ Scaled(r, shift) \in Lit!I64
  BY NearestType DEF Scaled
<1> QED BY <1>1 DEF Reading

(* A record is usable exactly if the payload means a total there.           *)
LEMMA UsableTotal ==
  ASSUME NEW i \in DOMAIN source, Kept(i)
  PROVE  /\ Usable(RecordOf(i)) <=> i \in Totals
         /\ i \in Totals => Meaning(i) = TotalOf(RecordOf(i))
<1> DEFINE shift == CASE source[i].n = "temperature_centi_c" /\ UnitAt(i) = "Cel" -> 2
                      [] source[i].n # "temperature_centi_c"
                           /\ UnitAt(i) \in Units \ {"Cel", "kV"} -> 3
                      [] OTHER -> None
<1>1. CASE source[i].n = "energy_total_mwh"
  <2>1. Units \ {"Cel", "kV"} = {"W", "V", "A", "Hz", "Wh"}
    BY DEF Units
  <2>2. shift = MilliShift(UnitAt(i))
    BY <1>1, <2>1 DEF MilliShift
  <2>3. Meaning(i) = IF source[i].v = None \/ shift = None THEN None
                     ELSE Lit!Nearest(source[i].v, shift)
    BY <1>1 DEF Meaning
  <2>4. TotalOf(RecordOf(i))
          = IF shift = None \/ source[i].v = None THEN None
            ELSE Lit!Nearest(source[i].v, shift)
    BY <2>2 DEF Scaled, TotalOf, RecordOf
  <2>5. Usable(RecordOf(i)) <=> TotalOf(RecordOf(i)) # None
    BY <1>1 DEF Usable, RecordOf
  <2>6. i \in Totals <=> Meaning(i) # None
    BY <1>1 DEF Totals
  <2> HIDE DEF shift
  <2> QED BY <2>3, <2>4, <2>5, <2>6
<1>2. CASE source[i].n # "energy_total_mwh"
  BY <1>2 DEF Usable, RecordOf, Totals
<1> QED BY <1>1, <1>2

-----------------------------------------------------------------------------
(* The steps *)

LEMMA InitInv == Init => ReaderInv
<1> SUFFICES ASSUME Init PROVE ReaderInv
  OBVIOUS
<1>1. /\ source \in Seq(RawRecord)
      /\ before \in PvSnapshot /\ snapshot = before
      /\ snapshot \in PvSnapshot /\ Fits(snapshot)
      /\ pc = "parse" /\ pos = 0 /\ base_time = None /\ base_unit = None
      /\ records = <<>> /\ locals = [f \in Found |-> None]
  BY ReaderAssumption DEF Init
<1>2. Len(source) \in Nat /\ DOMAIN records = {} /\ records \in Seq(ParsedRecord)
  BY <1>1
<1>3. TypeOK
  BY <1>1, <1>2 DEF TypeOK
<1>4. BasesRead
  BY <1>1, LastBaseStep DEF BasesRead, Read
<1>5. RecordsRead
  <2> DEFINE at == [j \in {} |-> 1]
  <2>1. RecordsAt(at)
    BY <1>1, <1>2 DEF RecordsAt, Read
  <2> QED BY <2>1 DEF RecordsRead
<1>6. LocalsRead /\ TotalRead
  BY <1>1 DEF LocalsRead, LocalRead, TotalRead, Applied
<1>7. LocalsFit
  BY <1>1 DEF LocalsFit, Found, Numeric
<1>8. SnapshotRead
  BY <1>1 DEF SnapshotRead, Totalled, PvSnapshot
<1> QED BY <1>1, <1>2, <1>3, <1>4, <1>5, <1>6, <1>7, <1>8 DEF ReaderInv, Opt

(* Nothing changes what has been read but reading.                          *)
LEMMA ReadKept ==
  ASSUME ReaderInv, Read' = Read, UNCHANGED <<source, base_time, base_unit, records>>
  PROVE  BasesRead' /\ RecordsRead'
<1>1. BasesRead'
  BY SourceKept DEF ReaderInv, BasesRead
<1>2. PICK at : RecordsAt(at)
  BY DEF ReaderInv, RecordsRead
<1>3. RecordsAt(at)'
  BY <1>2, SourceKept DEF RecordsAt
<1> QED BY <1>1, <1>3 DEF RecordsRead

(* Before the first record is applied there is nothing in the locals.        *)
LEMMA AppliedNone ==
  ASSUME ReaderInv, Applied = 0, Applied' = 0, UNCHANGED <<before, locals, snapshot>>
  PROVE  LocalsRead' /\ TotalRead'
<1>1. /\ \A n \in Found : locals[n] = None
      /\ snapshot.energy_total_mwh = before.energy_total_mwh
      /\ snapshot.energy_end_ts = before.energy_end_ts
  BY DEF ReaderInv, LocalsRead, LocalRead, TotalRead
<1> QED BY <1>1 DEF LocalsRead, LocalRead, TotalRead

(* Parsing a record: its base field first, then what it inherits.           *)
LEMMA ParseRecordInv == ReaderInv /\ ParseRecord => ReaderInv'
<1> SUFFICES ASSUME ReaderInv, ParseRecord PROVE ReaderInv'
  OBVIOUS
<1> DEFINE k == pos + 1
           rec == source[k]
           parsed == [name        |-> rec.n,
                      unit        |-> UnitOf(rec),
                      time_offset |-> IF rec.t = None THEN 0 ELSE OrZero(rec.t),
                      number      |-> rec.v,
                      text        |-> IF rec.v = None THEN rec.vs ELSE None]
<1>1. /\ pc = "parse" /\ pc' = "parse" /\ pos \in Nat /\ pos' = k
      /\ source' = source /\ snapshot' = snapshot /\ locals' = locals /\ before' = before
      /\ source \in Seq(RawRecord) /\ Len(source) \in Nat /\ k \in 1 .. Len(source)
      /\ Read = pos /\ Read' = k /\ Applied = 0 /\ Applied' = 0
      /\ records \in Seq(ParsedRecord)
  BY DEF ReaderInv, TypeOK, ParseRecord, Read, Applied
<1>2. rec \in RawRecord
  BY <1>1
<1>3. /\ base_time' = BaseTime(rec) /\ base_unit' = BaseUnit(rec)
      /\ records' = IF Kept(k) THEN Append(records, parsed) ELSE records
  BY DEF ParseRecord, Kept
<1>4. BasesRead'
  <2>1. /\ base_time = IF LastBase("bt", pos) = None THEN None
                       ELSE OrZero(LastBase("bt", pos))
        /\ base_unit = LastBase("bu", pos)
    BY <1>1 DEF ReaderInv, BasesRead
  <2>2. LastBase("bt", k) = IF rec.bt # None THEN rec.bt ELSE LastBase("bt", pos)
    BY <1>1, LastBaseStep
  <2>3. LastBase("bu", k) = IF rec.bu # None THEN rec.bu ELSE LastBase("bu", pos)
    BY <1>1, LastBaseStep
  <2>4. base_time' = IF LastBase("bt", k) = None THEN None ELSE OrZero(LastBase("bt", k))
    BY <1>3, <2>1, <2>2 DEF BaseTime
  <2>5. base_unit' = LastBase("bu", k)
    BY <1>3, <2>1, <2>3 DEF BaseUnit
  <2> QED BY <1>1, <2>4, <2>5, SourceKept DEF BasesRead
<1>5. Kept(k) => parsed = RecordOf(k)
  <2>1. base_unit' = LastBase("bu", k)
    BY <1>1, <1>4, SourceKept DEF BasesRead
  <2>2. UnitOf(rec) = UnitAt(k)
    BY <1>3, <2>1 DEF UnitOf, UnitAt
  <2>3. OffsetAt(k) = IF rec.t = None THEN 0 ELSE OrZero(rec.t)
    BY DEF OffsetAt, OrZero, Refused
  <2> QED BY <2>2, <2>3 DEF RecordOf
<1>6. parsed.time_offset \in Lit!I64
  BY OrZeroType, Constants DEF Lit!I64
<1>7. Kept(k) => parsed \in ParsedRecord
  <2>1. parsed.time_offset \in Int
    BY <1>6, Constants DEF Lit!I64
  <2>2. UnitOf(rec) \in Opt(Units)
    <3>1. base_unit \in Opt(Units)
      BY DEF ReaderInv
    <3> QED BY <1>2, <3>1, RawType DEF UnitOf, BaseUnit
  <2>3. rec.vs \in Opt(Texts) /\ rec.v \in Opt(Lit!Literal)
    BY <1>2, RawType
  <2>4. None \in Opt(Texts)
    BY DEF Opt
  <2>5. Kept(k) => rec.n \in Names
    BY <1>2, RawType DEF Kept
  <2> QED BY <2>1, <2>2, <2>3, <2>4, <2>5 DEF ParsedRecord
<1> HIDE DEF parsed, rec
<1>8. /\ records' \in Seq(ParsedRecord)
      /\ Kept(k) => /\ Len(records') = Len(records) + 1
                    /\ records'[Len(records) + 1] = parsed
                    /\ \A j \in DOMAIN records : records'[j] = records[j]
  BY <1>1, <1>3, <1>7
<1>9. RecordsRead'
  <2>1. PICK at : RecordsAt(at)
    BY DEF ReaderInv, RecordsRead
  <2>2. /\ at \in [DOMAIN records -> 1 .. pos]
        /\ \A j \in DOMAIN records : Kept(at[j]) /\ records[j] = RecordOf(at[j])
        /\ \A i \in 1 .. pos : Kept(i) => \E j \in DOMAIN records : at[j] = i
        /\ \A j, h \in DOMAIN records : j < h => at[j] < at[h]
    BY <1>1, <2>1 DEF RecordsAt
  <2>3. 1 .. k = 1 .. pos \cup {k} /\ \A i \in 1 .. pos : i < k
    BY <1>1
  <2>4. \A b : RecordsAt(b)' <=>
          /\ b \in [DOMAIN records' -> 1 .. k]
          /\ \A j \in DOMAIN records' : Kept(b[j]) /\ records'[j] = RecordOf(b[j])
          /\ \A i \in 1 .. k : Kept(i) => \E j \in DOMAIN records' : b[j] = i
          /\ \A j, h \in DOMAIN records' : j < h => b[j] < b[h]
    BY <1>1, SourceKept DEF RecordsAt
  <2>5. CASE Kept(k)
    <3> DEFINE l == Len(records)
               b == [j \in DOMAIN records' |-> IF j = l + 1 THEN k ELSE at[j]]
    <3>1. /\ DOMAIN records' = DOMAIN records \cup {l + 1} /\ l + 1 \notin DOMAIN records
          /\ \A j \in DOMAIN records : j \in Nat /\ j < l + 1
      BY <1>1, <1>8, <2>5
    <3>2. \A j \in DOMAIN records : b[j] = at[j] /\ at[j] \in 1 .. pos /\ b[j] < k
      BY <2>2, <2>3, <3>1
    <3>3. b[l + 1] = k
      BY <3>1
    <3>4. b \in [DOMAIN records' -> 1 .. k]
      BY <2>3, <3>1, <3>2, <3>3
    <3>5. \A j \in DOMAIN records' : Kept(b[j]) /\ records'[j] = RecordOf(b[j])
      <4> HIDE DEF b, l
      <4> QED BY <1>5, <1>8, <2>2, <2>5, <3>1, <3>2, <3>3 DEF l
    <3>6. \A i \in 1 .. k : Kept(i) => \E j \in DOMAIN records' : b[j] = i
      <4> HIDE DEF b, l
      <4> QED BY <2>2, <2>3, <3>1, <3>2, <3>3
    <3>7. \A j, h \in DOMAIN records' : j < h => b[j] < b[h]
      <4>1. \A j \in DOMAIN records : ~ (l + 1 < j)
        BY <1>1, <3>1
      <4>2. ~ (l + 1 < l + 1)
        BY <1>1
      <4> HIDE DEF b, l
      <4> QED BY <2>2, <3>1, <3>2, <3>3, <4>1, <4>2
    <3> HIDE DEF b
    <3> QED BY <2>4, <3>4, <3>5, <3>6, <3>7 DEF RecordsRead
  <2>6. CASE ~ Kept(k)
    <3>1. records' = records
      BY <1>3, <2>6
    <3>2. at \in [DOMAIN records -> 1 .. k]
      BY <2>2, <2>3
    <3>3. \A i \in 1 .. k : Kept(i) => \E j \in DOMAIN records : at[j] = i
      BY <2>2, <2>3, <2>6
    <3> QED BY <2>2, <2>4, <3>1, <3>2, <3>3 DEF RecordsRead
  <2> QED BY <2>5, <2>6
<1>10. TypeOK'
  <2>1. base_time' = None \/ base_time' \in Lit!I64
    BY <1>3, OrZeroType DEF BaseTime, ReaderInv, TypeOK
  <2>2. \A j \in DOMAIN records' : records'[j].time_offset \in Lit!I64
    <3>1. \A j \in DOMAIN records : records[j].time_offset \in Lit!I64
      BY DEF ReaderInv, TypeOK
    <3>2. CASE Kept(k)
      <4>1. DOMAIN records' = DOMAIN records \cup {Len(records) + 1}
        BY <1>1, <1>8, <3>2
      <4> QED BY <1>6, <1>8, <3>1, <3>2, <4>1
    <3>3. CASE ~ Kept(k)
      BY <1>3, <3>1, <3>3
    <3> QED BY <3>2, <3>3
  <2>3. snapshot' \in PvSnapshot /\ Fits(snapshot)'
    BY <1>1 DEF ReaderInv, TypeOK, Fits
  <2> QED BY <1>1, <2>1, <2>2, <2>3 DEF TypeOK
<1>11. base_unit' \in Opt(Units)
  BY <1>2, <1>3, RawType DEF BaseUnit, ReaderInv
<1>12. LocalsRead' /\ TotalRead' /\ LocalsFit' /\ SnapshotRead'
  BY <1>1, AppliedNone DEF ReaderInv, LocalsFit, SnapshotRead, Totalled
<1> QED BY <1>1, <1>4, <1>8, <1>9, <1>10, <1>11, <1>12 DEF ReaderInv

(* Dates and values of what is applied fit the snapshot.                     *)
LEMMA DatedType ==
  ASSUME ReaderInv, pc = "apply", NEW j \in DOMAIN records
  PROVE  Dated(records[j]) \in Lit!I64
<1>1. base_time \in Int /\ records[j].time_offset \in Int
  BY Constants DEF ReaderInv, TypeOK, Lit!I64
<1> QED BY <1>1, WrappedLemma DEF Dated

LEMMA PhaseInv == ReaderInv /\ (Refuse \/ Parsed) => ReaderInv'
<1> SUFFICES ASSUME ReaderInv, Refuse \/ Parsed PROVE ReaderInv'
  OBVIOUS
<1>1. /\ source' = source /\ snapshot' = snapshot /\ locals' = locals /\ before' = before
      /\ records' = records /\ base_time' = base_time /\ base_unit' = base_unit
      /\ Read = pos /\ Read' = pos /\ Applied = 0 /\ Applied' = 0
      /\ source \in Seq(RawRecord) /\ records \in Seq(ParsedRecord)
      /\ Len(source) \in Nat /\ Len(records) \in Nat
  BY DEF Refuse, Parsed, Read, Applied, ReaderInv
<1>2. TypeOK'
  BY <1>1 DEF ReaderInv, TypeOK, Fits, Refuse, Parsed
<1>3. BasesRead' /\ RecordsRead'
  BY <1>1, ReadKept
<1>4. LocalsRead' /\ TotalRead' /\ LocalsFit' /\ SnapshotRead'
  BY <1>1, AppliedNone DEF ReaderInv, LocalsFit, SnapshotRead, Totalled, Refuse, Parsed
<1>5. (pc \in {"apply", "done"} => base_time # None)'
  BY DEF Refuse, Parsed
<1> QED BY <1>1, <1>2, <1>3, <1>4, <1>5 DEF ReaderInv

(* What every step of apply_pack leaves alone.                              *)
LEMMA ApplyFrame ==
  ASSUME ReaderInv, pc = "apply", pc' \in {"apply", "done"},
         UNCHANGED <<source, before, base_time, base_unit, records>>
  PROVE  /\ BasesRead' /\ RecordsRead'
         /\ (pc \in {"apply", "done"} => base_time # None)'
         /\ before' \in PvSnapshot
         /\ source' \in Seq(RawRecord) /\ records' \in Seq(ParsedRecord)
         /\ base_unit' \in Opt(Units)
<1>1. Read = Len(source) /\ Read' = Len(source)
  BY DEF Read
<1>2. BasesRead' /\ RecordsRead'
  BY <1>1, ReadKept
<1> QED BY <1>2 DEF ReaderInv

(* One record more: it is the last that feeds its local.                     *)
LEMMA LocalsStep ==
  ASSUME ReaderInv, Applying, UNCHANGED <<pc, records>>,
         \A n \in Found : locals'[n] = IF Feeds(Current, n) THEN FieldValue(Current) ELSE locals[n]
  PROVE  LocalsRead'
<1>1. Applied = pos /\ Applied' = pos + 1 /\ pos \in Nat
  BY DEF Applying, Applied, ReaderInv, TypeOK
<1>2. 1 .. pos + 1 = 1 .. pos \cup {pos + 1} /\ pos + 2 .. pos + 1 = {}
  BY <1>1
<1>3. \A j \in 1 .. pos : j + 1 .. pos + 1 = (j + 1 .. pos) \cup {pos + 1}
  BY <1>1
<1> SUFFICES ASSUME NEW n \in Found PROVE LocalRead(n)'
  BY DEF LocalsRead
<1>4. LocalRead(n)
  BY DEF ReaderInv, LocalsRead
<1>5. LocalRead(n)' <=>
        \/ /\ locals'[n] = None
           /\ \A j \in 1 .. pos + 1 : ~ Feeds(records[j], n)
        \/ \E j \in 1 .. pos + 1 : /\ Feeds(records[j], n) /\ locals'[n] = FieldValue(records[j])
                                   /\ \A h \in j + 1 .. pos + 1 : ~ Feeds(records[h], n)
  BY <1>1 DEF LocalRead, Feeds, FieldValue, Reading, Scaled
<1>6. CASE Feeds(Current, n)
  <2>1. Feeds(records[pos + 1], n) /\ locals'[n] = FieldValue(records[pos + 1])
    BY <1>6 DEF Current
  <2>2. (pos + 1) + 1 .. pos + 1 = {}
    BY <1>1
  <2> QED BY <1>2, <1>5, <2>1, <2>2
<1>7. CASE ~ Feeds(Current, n)
  <2>1. ~ Feeds(records[pos + 1], n) /\ locals'[n] = locals[n]
    BY <1>7 DEF Current
  <2> QED BY <1>1, <1>2, <1>3, <1>4, <1>5, <2>1 DEF LocalRead
<1> QED BY <1>6, <1>7

(* One record more: if it is a usable total, it is the last.                 *)
LEMMA TotalStep ==
  ASSUME ReaderInv, Applying, UNCHANGED <<pc, before, base_time, records>>,
         snapshot'.energy_total_mwh = IF Usable(Current) THEN TotalOf(Current)
                                      ELSE snapshot.energy_total_mwh,
         snapshot'.energy_end_ts = IF Usable(Current) THEN Dated(Current)
                                   ELSE snapshot.energy_end_ts
  PROVE  TotalRead'
<1>1. Applied = pos /\ Applied' = pos + 1 /\ pos \in Nat
  BY DEF Applying, Applied, ReaderInv, TypeOK
<1>2. 1 .. pos + 1 = 1 .. pos \cup {pos + 1}
  BY <1>1
<1>3. \A j \in 1 .. pos : j + 1 .. pos + 1 = (j + 1 .. pos) \cup {pos + 1}
  BY <1>1
<1>4. TotalRead
  BY DEF ReaderInv
<1>5. TotalRead' <=>
        \/ /\ snapshot'.energy_total_mwh = before.energy_total_mwh
           /\ snapshot'.energy_end_ts = before.energy_end_ts
           /\ \A j \in 1 .. pos + 1 : ~ Usable(records[j])
        \/ \E j \in 1 .. pos + 1 : /\ Usable(records[j])
                                   /\ snapshot'.energy_total_mwh = TotalOf(records[j])
                                   /\ snapshot'.energy_end_ts = Dated(records[j])
                                   /\ \A h \in j + 1 .. pos + 1 : ~ Usable(records[h])
  BY <1>1 DEF TotalRead, Usable, TotalOf, Scaled, MilliShift, Dated
<1>6. CASE Usable(Current)
  <2>1. /\ Usable(records[pos + 1]) /\ snapshot'.energy_total_mwh = TotalOf(records[pos + 1])
        /\ snapshot'.energy_end_ts = Dated(records[pos + 1])
    BY <1>6 DEF Current
  <2>2. (pos + 1) + 1 .. pos + 1 = {}
    BY <1>1
  <2> QED BY <1>2, <1>5, <2>1, <2>2
<1>7. CASE ~ Usable(Current)
  <2>1. /\ ~ Usable(records[pos + 1])
        /\ snapshot'.energy_total_mwh = snapshot.energy_total_mwh
        /\ snapshot'.energy_end_ts = snapshot.energy_end_ts
    BY <1>7 DEF Current
  <2> QED BY <1>1, <1>2, <1>3, <1>4, <1>5, <2>1 DEF TotalRead
<1> QED BY <1>6, <1>7

(* What is applied to the locals leaves the snapshot alone.                  *)
LEMMA SnapshotKept ==
  ASSUME ReaderInv, pc = "apply", UNCHANGED <<pc, before, snapshot>>
  PROVE  SnapshotRead'
  BY DEF ReaderInv, SnapshotRead, Totalled

LEMMA ApplyReadingInv == ReaderInv /\ ApplyReading => ReaderInv'
<1> SUFFICES ASSUME ReaderInv, ApplyReading PROVE ReaderInv'
  OBVIOUS
<1>1. /\ Applying /\ pc = "apply" /\ pc' = "apply"
      /\ UNCHANGED <<source, before, pc, base_time, base_unit, records, snapshot>>
  BY DEF ApplyReading, Applying
<1>2. Len(records) \in Nat /\ pos \in Nat /\ pos + 1 <= Len(records) /\ pos' = pos + 1
  BY <1>1 DEF Applying, ReaderInv, TypeOK
<1>3. TypeOK'
  BY <1>1, <1>2 DEF ReaderInv, TypeOK, Fits
<1>4. ~ Usable(Current)
  BY DEF Usable, ApplyReading, Numeric
<1>5. TotalRead' /\ SnapshotRead'
  BY <1>1, <1>4, TotalStep, SnapshotKept
<1>6. LocalsFit'
  <2> DEFINE n == Current.name
             v == Reading(Current)
  <2>1. n \in Numeric /\ locals' = [locals EXCEPT ![n] = v]
    BY DEF ApplyReading
  <2>2. /\ v = None \/ v \in Lit!I64
        /\ n = "temperature_centi_c" => v = None \/ FitsI16(v)
    BY ReadingType
  <2>3. v \in Int \cup {None}
    BY <2>2, Constants DEF Lit!I64
  <2> HIDE DEF n, v
  <2> QED BY <2>1, <2>2, <2>3 DEF ReaderInv, LocalsFit, Found, Numeric
<1>7. LocalsRead'
  <2>1. ASSUME NEW n \in Found
        PROVE  locals'[n] = IF Feeds(Current, n) THEN FieldValue(Current) ELSE locals[n]
    <3>1. /\ Current.name \in Numeric /\ locals \in [Found -> Int \cup DeviceStatus \cup GridRelay \cup {None}]
          /\ locals' = [locals EXCEPT ![Current.name] = Reading(Current)]
      BY DEF ApplyReading, ReaderInv, LocalsFit
    <3> QED BY <3>1 DEF Feeds, FieldValue
  <2> QED BY <1>1, <2>1, LocalsStep
<1> QED BY <1>1, <1>3, <1>5, <1>6, <1>7, ApplyFrame DEF ReaderInv

LEMMA ApplyTextInv == ReaderInv /\ ApplyText => ReaderInv'
<1> SUFFICES ASSUME ReaderInv, ApplyText PROVE ReaderInv'
  OBVIOUS
<1>1. /\ Applying /\ pc = "apply" /\ pc' = "apply"
      /\ UNCHANGED <<source, before, pc, base_time, base_unit, records, snapshot>>
  BY DEF ApplyText, Applying
<1>2. Len(records) \in Nat /\ pos \in Nat /\ pos + 1 <= Len(records) /\ pos' = pos + 1
  BY <1>1 DEF Applying, ReaderInv, TypeOK
<1>3. TypeOK'
  BY <1>1, <1>2 DEF ReaderInv, TypeOK, Fits
<1>4. ~ Usable(Current)
  BY DEF Usable, ApplyText
<1>5. TotalRead' /\ SnapshotRead'
  BY <1>1, <1>4, TotalStep, SnapshotKept
<1>6. LocalsFit'
  <2>1. CASE Current.name = "device_status"
    <3> DEFINE v == Enum(Current.text, DeviceStatus)
    <3>1. v \in DeviceStatus \cup {None}
      BY DEF Enum
    <3>2. locals' = [locals EXCEPT !["device_status"] = v]
      BY <2>1 DEF ApplyText
    <3> HIDE DEF v
    <3> QED BY <3>1, <3>2 DEF ReaderInv, LocalsFit, Found, Numeric
  <2>2. CASE Current.name = "grid_relay"
    <3> DEFINE v == Enum(Current.text, GridRelay)
    <3>1. v \in GridRelay \cup {None}
      BY DEF Enum
    <3>2. locals' = [locals EXCEPT !["grid_relay"] = v]
      BY <2>2 DEF ApplyText
    <3> HIDE DEF v
    <3> QED BY <3>1, <3>2 DEF ReaderInv, LocalsFit, Found, Numeric
  <2> QED BY <2>1, <2>2 DEF ApplyText
<1>7. LocalsRead'
  <2>1. ASSUME NEW n \in Found
        PROVE  locals'[n] = IF Feeds(Current, n) THEN FieldValue(Current) ELSE locals[n]
    <3>1. /\ Current.name \in {"device_status", "grid_relay"} /\ Current.text # None
          /\ Current.name \notin Numeric
          /\ locals \in [Found -> Int \cup DeviceStatus \cup GridRelay \cup {None}]
          /\ locals' = [locals EXCEPT ![Current.name] =
                          Enum(Current.text, IF Current.name = "grid_relay" THEN GridRelay
                                                                        ELSE DeviceStatus)]
      BY DEF ApplyText, ReaderInv, LocalsFit, Numeric
    <3> QED BY <3>1 DEF Feeds, FieldValue
  <2> QED BY <1>1, <2>1, LocalsStep
<1> QED BY <1>1, <1>3, <1>5, <1>6, <1>7, ApplyFrame DEF ReaderInv

LEMMA ApplyNothingInv == ReaderInv /\ ApplyNothing => ReaderInv'
<1> SUFFICES ASSUME ReaderInv, ApplyNothing PROVE ReaderInv'
  OBVIOUS
<1>1. /\ Applying /\ pc = "apply" /\ pc' = "apply"
      /\ UNCHANGED <<source, before, pc, base_time, base_unit, records, locals, snapshot>>
  BY DEF ApplyNothing, Applying
<1>2. Len(records) \in Nat /\ pos \in Nat /\ pos + 1 <= Len(records) /\ pos' = pos + 1
  BY <1>1 DEF Applying, ReaderInv, TypeOK
<1>3. TypeOK'
  BY <1>1, <1>2 DEF ReaderInv, TypeOK, Fits
<1>4. ~ Usable(Current)
  BY DEF Usable, ApplyNothing
<1>5. TotalRead' /\ SnapshotRead'
  BY <1>1, <1>4, TotalStep, SnapshotKept
<1>6. LocalsFit'
  BY <1>1 DEF ReaderInv, LocalsFit
<1>7. LocalsRead'
  <2>1. \A n \in Found : ~ Feeds(Current, n)
    BY DEF ApplyNothing, Feeds, Found, Numeric
  <2> QED BY <1>1, <2>1, LocalsStep
<1> QED BY <1>1, <1>3, <1>5, <1>6, <1>7, ApplyFrame DEF ReaderInv

(* A usable total is dated here, an unusable one is passed over.            *)
LEMMA ApplyTotalInv == ReaderInv /\ ApplyTotal => ReaderInv'
<1> SUFFICES ASSUME ReaderInv, ApplyTotal PROVE ReaderInv'
  OBVIOUS
<1> DEFINE mwh == Scaled(Current, MilliShift(Current.unit))
<1>1. /\ Applying /\ pc = "apply" /\ pc' = "apply"
      /\ UNCHANGED <<source, before, pc, base_time, base_unit, records, locals>>
      /\ Current.name = "energy_total_mwh"
  BY DEF ApplyTotal, Applying
<1>2. /\ Len(records) \in Nat /\ pos \in Nat /\ pos + 1 <= Len(records) /\ pos' = pos + 1
      /\ records \in Seq(ParsedRecord) /\ pos + 1 \in DOMAIN records
  BY <1>1 DEF Applying, ReaderInv, TypeOK
<1>3. mwh = None \/ mwh \in Lit!I64
  BY ReadingType
<1>4. Usable(Current) <=> mwh # None
  BY <1>1 DEF Usable, TotalOf
<1>5. Dated(Current) \in Lit!I64
  BY <1>1, <1>2, DatedType DEF Current
<1>6. snapshot' = IF mwh = None THEN snapshot
                  ELSE [snapshot EXCEPT !.energy_total_mwh = mwh,
                                        !.energy_end_ts = Dated(Current)]
  BY DEF ApplyTotal
<1>7. mwh # None => mwh \in Int /\ Dated(Current) \in Int
  BY <1>3, <1>5, Constants DEF Lit!I64
<1>8. snapshot \in PvSnapshot /\ Fits(snapshot)
  BY DEF ReaderInv, TypeOK
<1> HIDE DEF mwh
<1>9. snapshot' \in PvSnapshot
  BY <1>6, <1>7, <1>8 DEF PvSnapshot, OptInt
<1>10. Fits(snapshot)'
  <2>1. snapshot'.readings = snapshot.readings
    BY <1>6, <1>8 DEF PvSnapshot
  <2>2. /\ snapshot'.energy_total_mwh = None \/ snapshot'.energy_total_mwh \in Lit!I64
        /\ snapshot'.energy_end_ts = None \/ snapshot'.energy_end_ts \in Lit!I64
    BY <1>3, <1>5, <1>6, <1>8 DEF PvSnapshot, Fits
  <2> QED BY <1>8, <2>1, <2>2 DEF Fits
<1>11. TypeOK'
  BY <1>1, <1>2, <1>9, <1>10 DEF ReaderInv, TypeOK
<1>12. TotalRead' /\ SnapshotRead'
  <2>1. /\ snapshot'.energy_total_mwh = IF Usable(Current) THEN TotalOf(Current)
                                        ELSE snapshot.energy_total_mwh
        /\ snapshot'.energy_end_ts = IF Usable(Current) THEN Dated(Current)
                                     ELSE snapshot.energy_end_ts
    BY <1>4, <1>6, <1>8 DEF PvSnapshot, TotalOf, mwh
  <2>2. TotalRead'
    BY <1>1, <2>1, TotalStep
  <2>3. snapshot = Totalled /\ before \in PvSnapshot /\ before' = before
    BY <1>1 DEF ReaderInv, SnapshotRead
  <2>4. snapshot' = Totalled'
    BY <1>6, <2>3 DEF Totalled, PvSnapshot
  <2> QED BY <1>1, <2>2, <2>4 DEF SnapshotRead
<1>13. LocalsFit'
  BY <1>1 DEF ReaderInv, LocalsFit
<1>14. LocalsRead'
  <2>1. \A n \in Found : ~ Feeds(Current, n)
    BY <1>1 DEF Feeds, Found, Numeric
  <2> QED BY <1>1, <2>1, LocalsStep
<1> QED BY <1>1, <1>11, <1>12, <1>13, <1>14, ApplyFrame DEF ReaderInv

(* The assignment of the locals, under the link mask.                       *)
LEMMA AssignInv == ReaderInv /\ Assign => ReaderInv'
<1> SUFFICES ASSUME ReaderInv, Assign PROVE ReaderInv'
  OBVIOUS
<1> DEFINE s == [snapshot EXCEPT !.readings      = [n \in Numeric |-> locals[n]],
                                 !.device_status = locals["device_status"],
                                 !.grid_relay    = locals["grid_relay"]]
<1>1. /\ pc = "apply" /\ pc' = "done" /\ pos = Len(records) /\ pos' = pos
      /\ UNCHANGED <<source, before, base_time, base_unit, records, locals>>
      /\ snapshot' = EnforceLinkMask(s)
  BY DEF Assign
<1>2. /\ snapshot \in PvSnapshot /\ Fits(snapshot) /\ LocalsFit
      /\ Len(records) \in Nat
  BY DEF ReaderInv, TypeOK
<1>3. [n \in Numeric |-> locals[n]] \in [Numeric -> OptInt]
  <2>1. \A n \in Numeric : locals[n] \in OptInt
    BY <1>2, Constants DEF LocalsFit, OptInt, Lit!I64
  <2> QED BY <2>1
<1>4. /\ s \in PvSnapshot
      /\ s.energy_total_mwh = snapshot.energy_total_mwh
      /\ s.energy_end_ts = snapshot.energy_end_ts
      /\ s.readings = [n \in Numeric |-> locals[n]]
  BY <1>2, <1>3 DEF PvSnapshot, LocalsFit
<1> HIDE DEF s
<1>5. /\ snapshot' \in PvSnapshot
      /\ snapshot'.energy_total_mwh = snapshot.energy_total_mwh
      /\ snapshot'.energy_end_ts = snapshot.energy_end_ts
      /\ snapshot'.readings = Blank \/ snapshot'.readings = s.readings
  BY <1>1, <1>4 DEF EnforceLinkMask, PvSnapshot, Blank, OptInt
<1>6. Fits(snapshot)'
  <2>1. "temperature_centi_c" \in Numeric
    BY DEF Numeric
  <2> QED BY <1>2, <1>4, <1>5, <2>1 DEF Fits, LocalsFit, Blank
<1>7. TypeOK'
  BY <1>1, <1>2, <1>5, <1>6 DEF ReaderInv, TypeOK
<1>8. LocalsRead' /\ TotalRead'
  <2>1. Applied' = Applied
    BY <1>1 DEF Applied
  <2>2. LocalsRead /\ TotalRead
    BY DEF ReaderInv
  <2>3. LocalsRead'
    BY <1>1, <2>1, <2>2 DEF LocalsRead, LocalRead, Feeds, FieldValue, Reading, Scaled
  <2>4. TotalRead'
    BY <1>1, <1>4, <1>5, <2>1, <2>2 DEF TotalRead, Usable, TotalOf, Scaled, MilliShift, Dated
  <2> QED BY <2>3, <2>4
<1>9. LocalsFit'
  BY <1>1, <1>2 DEF LocalsFit
<1>10. SnapshotRead'
  <2>1. snapshot = Totalled
    BY <1>1 DEF ReaderInv, SnapshotRead
  <2>2. Totalled' = Totalled
    BY <1>1, <1>4, <1>5 DEF Totalled
  <2>3. s = Assigned
    BY <2>1 DEF s, Assigned
  <2>4. Assigned' = Assigned
    BY <1>1, <2>2 DEF Assigned
  <2> QED BY <1>1, <2>3, <2>4 DEF SnapshotRead
<1> QED BY <1>1, <1>7, <1>8, <1>9, <1>10, ApplyFrame DEF ReaderInv

-----------------------------------------------------------------------------
(* What the payload means and what the loops made of it *)

(* A name resolves to its last record, the total to its last usable one.     *)
LEMMA ResolvedLast ==
  ASSUME NEW recs, DOMAIN recs \subseteq Nat, NEW n
  PROVE  /\ (\A i \in DOMAIN recs : recs[i].name # n) => Resolved(recs, n) = None
         /\ \A i \in DOMAIN recs : IsLast(recs, n, i) => Resolved(recs, n) = recs[i].value
<1>1. ASSUME NEW i \in DOMAIN recs, IsLast(recs, n, i)
      PROVE  \A j \in DOMAIN recs : IsLast(recs, n, j) => j = i
  <2> TAKE j \in DOMAIN recs
  <2>1. i \in Nat /\ j \in Nat
    OBVIOUS
  <2>2. IsLast(recs, n, j) => ~ (j > i) /\ ~ (i > j)
    BY <1>1 DEF IsLast
  <2> QED BY <2>1, <2>2
<1>2. ASSUME NEW i \in DOMAIN recs, IsLast(recs, n, i)
      PROVE  Resolved(recs, n) = recs[i].value
  <2>1. (CHOOSE j \in DOMAIN recs : IsLast(recs, n, j)) = i
    BY <1>1, <1>2
  <2> QED BY <1>2, <2>1 DEF Resolved
<1>3. (\A i \in DOMAIN recs : recs[i].name # n) => Resolved(recs, n) = None
  BY DEF Resolved, IsLast
<1> QED BY <1>2, <1>3

WithTotal(s, mwh, end) == [s EXCEPT !.energy_total_mwh = mwh, !.energy_end_ts = end]

(* A pack's last usable total is retained; without one, the one before.     *)
LEMMA RetainLast ==
  ASSUME NEW s, NEW pack, DOMAIN pack.records \subseteq Nat
  PROVE  /\ (\A i \in DOMAIN pack.records : ~ IsLastTotal(pack.records, i)) =>
              RetainTotal(s, pack) = s
         /\ \A i \in DOMAIN pack.records : IsLastTotal(pack.records, i) =>
              RetainTotal(s, pack) =
                WithTotal(s, pack.records[i].value,
                          pack.base_time + pack.records[i].time_offset)
<1> DEFINE recs == pack.records
<1>1. ASSUME NEW i \in DOMAIN recs, IsLastTotal(recs, i)
      PROVE  \A j \in DOMAIN recs : IsLastTotal(recs, j) => j = i
  <2> TAKE j \in DOMAIN recs
  <2>1. i \in Nat /\ j \in Nat
    OBVIOUS
  <2>2. IsLastTotal(recs, j) => ~ (j > i) /\ ~ (i > j)
    BY <1>1 DEF IsLastTotal
  <2> QED BY <2>1, <2>2
<1>2. ASSUME NEW i \in DOMAIN recs, IsLastTotal(recs, i)
      PROVE  RetainTotal(s, pack) =
               WithTotal(s, recs[i].value, pack.base_time + recs[i].time_offset)
  <2>1. (CHOOSE j \in DOMAIN recs : IsLastTotal(recs, j)) = i
    BY <1>1, <1>2
  <2> QED BY <1>2, <2>1 DEF RetainTotal, WithTotal
<1>3. (\A i \in DOMAIN recs : ~ IsLastTotal(recs, i)) => RetainTotal(s, pack) = s
  BY DEF RetainTotal
<1> QED BY <1>2, <1>3

(* The fields of what the payload stands for.                               *)
LEMMA DecodedFields ==
  ASSUME source \in Seq(RawRecord)
  PROVE  /\ DOMAIN Decoded.records = DOMAIN source /\ DOMAIN source \subseteq Nat
         /\ \A i \in DOMAIN source, n \in Found \cup {"energy_total_mwh"} :
              Decoded.records[i].name = n <=> Reaches(i) /\ source[i].n = n
         /\ \A i \in DOMAIN source : Reaches(i) =>
              /\ Kept(i) /\ Decoded.records[i].value = Meaning(i)
              /\ Decoded.records[i].time_offset = OffsetAt(i)
<1>1. DOMAIN source = 1 .. Len(source)
  OBVIOUS
<1>2. Decoded.records = [i \in DOMAIN source |->
                           IF ~ Reaches(i) THEN Ignored
                           ELSE [name        |-> source[i].n,
                                 value       |-> Meaning(i),
                                 time_offset |-> OffsetAt(i)]]
  BY DEF Decoded
<1>3. \A i \in DOMAIN source :
        Decoded.records[i] = IF ~ Reaches(i) THEN Ignored
                             ELSE [name        |-> source[i].n,
                                   value       |-> Meaning(i),
                                   time_offset |-> OffsetAt(i)]
  BY <1>2
<1>4. "other" \notin Found \cup {"energy_total_mwh"} /\ Ignored.name = "other"
  BY DEF Found, Numeric, Ignored
<1>5. \A i \in DOMAIN source : Reaches(i) => Kept(i)
  BY ReaderAssumption DEF Reaches, Kept, Names
<1> HIDE DEF Ignored
<1> QED BY <1>1, <1>2, <1>3, <1>4, <1>5

(* What a kept record feeds, and with what.                                 *)
LEMMA RecordMeaning ==
  ASSUME NEW i \in DOMAIN source, Kept(i), NEW n \in Found
  PROVE  /\ Feeds(RecordOf(i), n) <=> Reaches(i) /\ source[i].n = n
         /\ Reaches(i) /\ source[i].n = n =>
              FieldValue(RecordOf(i)) =
                IF n = "temperature_centi_c" /\ ~ FitsI16(Meaning(i)) THEN None ELSE Meaning(i)
<1> DEFINE r == RecordOf(i)
           shift == CASE source[i].n = "temperature_centi_c" /\ UnitAt(i) = "Cel" -> 2
                      [] source[i].n # "temperature_centi_c"
                           /\ UnitAt(i) \in Units \ {"Cel", "kV"} -> 3
                      [] OTHER -> None
<1>1. /\ r.name = source[i].n /\ r.number = source[i].v /\ r.unit = UnitAt(i)
      /\ r.text = IF source[i].v = None THEN source[i].vs ELSE None
  BY DEF RecordOf
<1>2. n \in Numeric \/ n \in {"device_status", "grid_relay"}
  BY DEF Found
<1>3. "device_status" \notin Numeric /\ "grid_relay" \notin Numeric
  BY DEF Numeric
<1> HIDE DEF r
<1>4. Feeds(r, n) <=> Reaches(i) /\ source[i].n = n
  BY <1>1, <1>2, <1>3 DEF Feeds, Reaches, Kept
<1>5. ASSUME source[i].n = n, n \in Numeric
      PROVE  FieldValue(r) = IF n = "temperature_centi_c" /\ ~ FitsI16(Meaning(i))
                          THEN None ELSE Meaning(i)
  <2>1. Meaning(i) = IF source[i].v = None \/ shift = None THEN None
                     ELSE Lit!Nearest(source[i].v, shift)
    BY <1>3, <1>5 DEF Meaning
  <2>2. FieldValue(r) = Reading(r)
    BY <1>1, <1>5 DEF FieldValue
  <2>3. CASE n = "temperature_centi_c"
    <3>1. shift = IF UnitAt(i) = "Cel" THEN 2 ELSE None
      BY <1>5, <2>3
    <3>2. Scaled(r, 2) = IF source[i].v = None THEN None ELSE Lit!Nearest(source[i].v, 2)
      BY <1>1, Constants DEF Scaled
    <3>3. ~ FitsI16(None)
      BY DEF FitsI16
    <3> HIDE DEF shift
    <3>4. UnitAt(i) = "Cel" => Meaning(i) = Scaled(r, 2)
      BY <2>1, <3>1, <3>2, Constants
    <3>5. UnitAt(i) # "Cel" => Meaning(i) = None
      BY <2>1, <3>1
    <3> QED BY <1>1, <1>5, <2>2, <2>3, <3>3, <3>4, <3>5 DEF Reading
  <2>4. CASE n # "temperature_centi_c"
    <3>1. Units \ {"Cel", "kV"} = {"W", "V", "A", "Hz", "Wh"}
      BY DEF Units
    <3>2. shift = MilliShift(UnitAt(i))
      BY <1>5, <2>4, <3>1 DEF MilliShift
    <3> HIDE DEF shift
    <3>3. Meaning(i) = Scaled(r, MilliShift(r.unit))
      BY <1>1, <2>1, <3>2 DEF Scaled
    <3> QED BY <1>1, <1>5, <2>2, <2>4, <3>3 DEF Reading
  <2> QED BY <2>3, <2>4
<1>6. ASSUME source[i].n = n, n \notin Numeric, Reaches(i)
      PROVE  FieldValue(r) = Meaning(i)
  <2>1. r.text = source[i].vs
    BY <1>1, <1>2, <1>3, <1>6 DEF Reaches
  <2> QED BY <1>1, <1>2, <1>3, <1>6, <2>1 DEF FieldValue, Meaning
<1>7. "temperature_centi_c" \in Numeric
  BY DEF Numeric
<1> QED BY <1>4, <1>5, <1>6, <1>7 DEF r

(* What the loops found for a field is what the payload's last word on it is. *)
LEMMA LocalsMeant ==
  ASSUME ReaderInv, pc = "done", NEW n \in Found
  PROVE  locals[n] = LET v == Resolved(Decoded.records, n)
                     IN  IF n = "temperature_centi_c" /\ ~ FitsI16(v) THEN None ELSE v
<1> DEFINE recs == Decoded.records
           v == Resolved(recs, n)
<1>1. /\ Read = Len(source) /\ Applied = Len(records) /\ source \in Seq(RawRecord)
      /\ DOMAIN source = 1 .. Len(source) /\ DOMAIN records = 1 .. Len(records)
      /\ Len(source) \in Nat /\ Len(records) \in Nat
  BY DEF Read, Applied, ReaderInv
<1>2. PICK at : RecordsAt(at)
  BY DEF ReaderInv, RecordsRead
<1>3. /\ \A j \in DOMAIN records : /\ at[j] \in DOMAIN source /\ Kept(at[j])
                                   /\ records[j] = RecordOf(at[j])
      /\ \A i \in DOMAIN source : Kept(i) => \E j \in DOMAIN records : at[j] = i
      /\ \A j, h \in DOMAIN records : j < h => at[j] < at[h]
  BY <1>1, <1>2 DEF RecordsAt
<1>4. /\ DOMAIN recs = DOMAIN source /\ DOMAIN recs \subseteq Nat
      /\ \A i \in DOMAIN source : recs[i].name = n <=> Reaches(i) /\ source[i].n = n
      /\ \A i \in DOMAIN source : Reaches(i) => Kept(i) /\ recs[i].value = Meaning(i)
  BY <1>1, DecodedFields
<1>5. LocalRead(n)
  BY DEF ReaderInv, LocalsRead
<1> HIDE DEF recs, v
<1>6. \A j \in DOMAIN records : Feeds(records[j], n) <=> recs[at[j]].name = n
  BY <1>3, <1>4, RecordMeaning
<1>7. CASE \A j \in DOMAIN records : ~ Feeds(records[j], n)
  <2>1. locals[n] = None
    BY <1>1, <1>5, <1>7 DEF LocalRead
  <2>2. \A i \in DOMAIN recs : recs[i].name # n
    BY <1>3, <1>4, <1>6, <1>7
  <2>3. v = None
    BY <1>4, <2>2, ResolvedLast DEF v
  <2> QED BY <2>1, <2>3 DEF v, recs
<1>8. ASSUME NEW j \in DOMAIN records, Feeds(records[j], n),
             locals[n] = FieldValue(records[j]),
             \A h \in DOMAIN records : h > j => ~ Feeds(records[h], n)
      PROVE  locals[n] = IF n = "temperature_centi_c" /\ ~ FitsI16(v) THEN None ELSE v
  <2>1. at[j] \in DOMAIN recs /\ recs[at[j]].name = n
    BY <1>3, <1>4, <1>6, <1>8
  <2>2. ASSUME NEW i \in DOMAIN recs, i > at[j] PROVE recs[i].name # n
    <3> SUFFICES ASSUME recs[i].name = n PROVE FALSE
      OBVIOUS
    <3>1. PICK h \in DOMAIN records : at[h] = i
      BY <1>3, <1>4
    <3>2. Feeds(records[h], n)
      BY <1>6, <3>1
    <3>3. ~ (h > j) /\ h \in Nat /\ j \in Nat
      BY <1>1, <1>8, <3>2
    <3>4. i \in Nat /\ at[j] \in Nat
      BY <1>4, <2>1
    <3>5. h < j => i < at[j]
      BY <1>3, <3>1
    <3>6. h = j => i = at[j]
      BY <3>1
    <3> QED BY <2>2, <3>3, <3>4, <3>5, <3>6
  <2>3. v = recs[at[j]].value
    BY <1>4, <2>1, <2>2, ResolvedLast DEF v, IsLast
  <2>4. /\ Reaches(at[j]) /\ source[at[j]].n = n /\ v = Meaning(at[j])
    BY <1>4, <2>1, <2>3
  <2> QED BY <1>3, <1>8, <2>4, RecordMeaning
<1>9. CASE \E j \in 1 .. Applied : /\ Feeds(records[j], n) /\ locals[n] = FieldValue(records[j])
                                   /\ \A h \in j + 1 .. Applied : ~ Feeds(records[h], n)
  <2>1. PICK j \in DOMAIN records : /\ Feeds(records[j], n) /\ locals[n] = FieldValue(records[j])
                                    /\ \A h \in j + 1 .. Len(records) : ~ Feeds(records[h], n)
    BY <1>1, <1>9
  <2>2. \A h \in DOMAIN records : h > j => h \in j + 1 .. Len(records)
    BY <1>1
  <2> QED BY <1>8, <2>1, <2>2 DEF v, recs
<1> QED BY <1>1, <1>5, <1>7, <1>9 DEF LocalRead

(* The total is the payload's last usable one, dated with an offset from the *)
(* base time.                                                               *)
LEMMA TotalMeant ==
  ASSUME ReaderInv, pc = "done"
  PROVE  \/ /\ Totals = {}
            /\ RetainTotal(before, Decoded) = before
            /\ snapshot.energy_total_mwh = before.energy_total_mwh
            /\ snapshot.energy_end_ts = before.energy_end_ts
         \/ \E i \in Totals :
              /\ \A k \in Totals : k <= i
              /\ OffsetAt(i) \in Lit!I64 /\ snapshot.energy_total_mwh # None
              /\ RetainTotal(before, Decoded) =
                   WithTotal(before, snapshot.energy_total_mwh, base_time + OffsetAt(i))
              /\ snapshot.energy_end_ts = Lit!Wrapped(base_time + OffsetAt(i))
<1> DEFINE recs == Decoded.records
<1>1. /\ Read = Len(source) /\ Applied = Len(records) /\ source \in Seq(RawRecord)
      /\ DOMAIN source = 1 .. Len(source) /\ DOMAIN records = 1 .. Len(records)
      /\ Len(source) \in Nat /\ Len(records) \in Nat
  BY DEF Read, Applied, ReaderInv
<1>2. PICK at : RecordsAt(at)
  BY DEF ReaderInv, RecordsRead
<1>3. /\ \A j \in DOMAIN records : /\ at[j] \in DOMAIN source /\ Kept(at[j])
                                   /\ records[j] = RecordOf(at[j])
      /\ \A i \in DOMAIN source : Kept(i) => \E j \in DOMAIN records : at[j] = i
      /\ \A j, h \in DOMAIN records : j < h => at[j] < at[h]
  BY <1>1, <1>2 DEF RecordsAt
<1>4. /\ DOMAIN recs = DOMAIN source /\ DOMAIN recs \subseteq Nat
      /\ \A i \in DOMAIN source :
           recs[i].name = "energy_total_mwh" <=> Reaches(i) /\ source[i].n = "energy_total_mwh"
      /\ \A i \in DOMAIN source : Reaches(i) => /\ Kept(i) /\ recs[i].value = Meaning(i)
                                                /\ recs[i].time_offset = OffsetAt(i)
  BY <1>1, DecodedFields
<1>5. base_time = Decoded.base_time
  BY <1>1 DEF ReaderInv, BasesRead, Decoded, OrZero, Refused
<1>6. TotalRead
  BY DEF ReaderInv
<1> HIDE DEF recs
<1>7. \A i \in DOMAIN source :
        i \in Totals <=> recs[i].name = "energy_total_mwh" /\ recs[i].value # None
  <2> TAKE i \in DOMAIN source
  <2>1. i \in Totals => source[i].v # None
    BY DEF Totals, Meaning
  <2>2. i \in Totals => Reaches(i)
    BY <2>1 DEF Reaches, Totals
  <2> QED BY <1>4, <2>2 DEF Totals
<1>8. \A j \in DOMAIN records : Usable(records[j]) <=> at[j] \in Totals
  BY <1>3, UsableTotal
<1>9. CASE \A j \in DOMAIN records : ~ Usable(records[j])
  <2>1. \A i \in DOMAIN source : i \notin Totals
    <3>1. \A i \in Totals : Kept(i)
      BY <1>4, <1>7 DEF Totals
    <3> QED BY <1>3, <1>8, <1>9, <3>1
  <2>2. \A i \in DOMAIN recs : ~ IsLastTotal(recs, i)
    BY <1>4, <1>7, <2>1 DEF IsLastTotal
  <2>3. RetainTotal(before, Decoded) = before
    BY <1>4, <2>2, RetainLast DEF recs
  <2>4. Totals = {}
    BY <2>1 DEF Totals
  <2> QED BY <1>1, <1>6, <1>9, <2>3, <2>4 DEF TotalRead
<1>10. ASSUME NEW j \in DOMAIN records, Usable(records[j]),
              snapshot.energy_total_mwh = TotalOf(records[j]),
              snapshot.energy_end_ts = Dated(records[j]),
              \A h \in DOMAIN records : h > j => ~ Usable(records[h])
       PROVE  \E i \in Totals :
                /\ \A k \in Totals : k <= i
                /\ OffsetAt(i) \in Lit!I64 /\ snapshot.energy_total_mwh # None
                /\ RetainTotal(before, Decoded) =
                     WithTotal(before, snapshot.energy_total_mwh, base_time + OffsetAt(i))
                /\ snapshot.energy_end_ts = Lit!Wrapped(base_time + OffsetAt(i))
  <2> DEFINE i == at[j]
  <2>1. /\ i \in DOMAIN recs /\ i \in DOMAIN source /\ i \in Totals
        /\ Kept(i) /\ records[j] = RecordOf(i)
    BY <1>3, <1>4, <1>8, <1>10
  <2> HIDE DEF i
  <2>2. ASSUME NEW k \in DOMAIN recs, k > i PROVE k \notin Totals
    <3> SUFFICES ASSUME k \in Totals PROVE FALSE
      OBVIOUS
    <3>1. Kept(k)
      BY <1>4, <1>7
    <3>2. PICK h \in DOMAIN records : at[h] = k
      BY <1>3, <1>4, <3>1
    <3>3. ~ (h > j) /\ h \in Nat /\ j \in Nat
      BY <1>1, <1>8, <1>10, <3>2
    <3>4. k \in Nat /\ i \in Nat
      BY <1>4, <2>1
    <3>5. h < j => k < i
      BY <1>3, <3>2 DEF i
    <3>6. h = j => k = i
      BY <3>2 DEF i
    <3> QED BY <2>2, <3>3, <3>4, <3>5, <3>6
  <2>3. IsLastTotal(recs, i)
    BY <1>4, <1>7, <2>1, <2>2 DEF IsLastTotal
  <2>4. RetainTotal(before, Decoded) =
          WithTotal(before, recs[i].value, Decoded.base_time + recs[i].time_offset)
    BY <1>4, <2>1, <2>3, RetainLast DEF recs
  <2>5. recs[i].value = Meaning(i) /\ recs[i].time_offset = OffsetAt(i)
    BY <1>4, <1>7, <2>1
  <2>6. Meaning(i) = TotalOf(RecordOf(i))
    BY <2>1, UsableTotal
  <2>7. OffsetAt(i) = records[j].time_offset /\ OffsetAt(i) \in Lit!I64
    BY <2>1 DEF RecordOf, ReaderInv, TypeOK
  <2>8. \A k \in Totals : k <= i
    BY <1>1, <1>4, <2>1, <2>2 DEF Totals
  <2>9. TotalOf(records[j]) # None
    BY <1>10 DEF Usable
  <2> QED BY <1>5, <1>10, <2>1, <2>4, <2>5, <2>6, <2>7, <2>8, <2>9 DEF Dated
<1>11. CASE \E j \in 1 .. Applied : /\ Usable(records[j])
                                    /\ snapshot.energy_total_mwh = TotalOf(records[j])
                                    /\ snapshot.energy_end_ts = Dated(records[j])
                                    /\ \A h \in j + 1 .. Applied : ~ Usable(records[h])
  <2>1. PICK j \in DOMAIN records :
          /\ Usable(records[j])
          /\ snapshot.energy_total_mwh = TotalOf(records[j])
          /\ snapshot.energy_end_ts = Dated(records[j])
          /\ \A h \in j + 1 .. Len(records) : ~ Usable(records[h])
    BY <1>1, <1>11
  <2>2. \A h \in DOMAIN records : h > j => h \in j + 1 .. Len(records)
    BY <1>1
  <2> QED BY <1>10, <2>1, <2>2
<1> QED BY <1>1, <1>6, <1>9, <1>11 DEF TotalRead

(* Snapshots with the same fields are the same.                             *)
LEMMA SameSnapshot ==
  ASSUME NEW s \in PvSnapshot, NEW t \in PvSnapshot,
         s.link = t.link, s.readings = t.readings, s.device_status = t.device_status,
         s.grid_relay = t.grid_relay, s.energy_total_mwh = t.energy_total_mwh,
         s.energy_end_ts = t.energy_end_ts, s.max_power_w = t.max_power_w
  PROVE  s = t
  BY DEF PvSnapshot

(* The snapshot that the payload makes of the one before, but for the time    *)
(* of its total.                                                            *)
Unmasked(end) ==
  [link             |-> before.link,
   readings         |-> ReadingsOf(Decoded.records),
   device_status    |-> Resolved(Decoded.records, "device_status"),
   grid_relay       |-> Resolved(Decoded.records, "grid_relay"),
   energy_total_mwh |-> snapshot.energy_total_mwh,
   energy_end_ts    |-> end,
   max_power_w      |-> before.max_power_w]

Meant(end) == EnforceLinkMask(Unmasked(end))

(* Loops and Pack come to the same snapshot, but for how the total's date is *)
(* added up.                                                                *)
LEMMA SnapshotMeant ==
  ASSUME ReaderInv, pc = "done"
  PROVE  /\ snapshot = Meant(snapshot.energy_end_ts)
         /\ \A e \in OptInt : Unmasked(e) \in PvSnapshot
         /\ \E end \in OptInt :
                     /\ ApplyPack(before, Decoded) = Meant(end)
                     /\ \/ end = snapshot.energy_end_ts
                        \/ \E i \in Totals :
                             /\ OffsetAt(i) \in Lit!I64
                             /\ end = base_time + OffsetAt(i)
                             /\ snapshot.energy_end_ts = Lit!Wrapped(end)
<1> DEFINE readings == ReadingsOf(Decoded.records)
           status == Resolved(Decoded.records, "device_status")
           relay == Resolved(Decoded.records, "grid_relay")
           mwh == snapshot.energy_total_mwh
           end == snapshot.energy_end_ts
           assigned(s) == [s EXCEPT !.readings = readings, !.device_status = status,
                                    !.grid_relay = relay]
           full(e) == Unmasked(e)
<1>1. Numeric \subseteq Found /\ {"device_status", "grid_relay"} \subseteq Found
  BY DEF Found
<1>2. [n \in Numeric |-> locals[n]] = readings
  <2>1. \A n \in Numeric : locals[n] = readings[n]
    BY <1>1, LocalsMeant DEF ReadingsOf
  <2> QED BY <2>1 DEF ReadingsOf
<1>3. locals["device_status"] = status /\ locals["grid_relay"] = relay
  BY <1>1, LocalsMeant
<1>4. /\ before \in PvSnapshot /\ mwh \in OptInt /\ end \in OptInt
      /\ readings \in [Numeric -> OptInt]
      /\ status \in DeviceStatus \cup {None} /\ relay \in GridRelay \cup {None}
  <2>1. before \in PvSnapshot /\ snapshot \in PvSnapshot /\ LocalsFit
    BY DEF ReaderInv, TypeOK
  <2>2. \A n \in Numeric : locals[n] \in OptInt
    BY <2>1, Constants DEF LocalsFit, OptInt, Lit!I64
  <2>3. [n \in Numeric |-> locals[n]] \in [Numeric -> OptInt]
    BY <2>2
  <2>4. mwh \in OptInt /\ end \in OptInt
    BY <2>1 DEF PvSnapshot
  <2> HIDE DEF readings, status, relay
  <2> QED BY <1>2, <1>3, <2>1, <2>3, <2>4 DEF LocalsFit
<1> HIDE DEF readings, status, relay, mwh, end
<1>5. ASSUME NEW e \in OptInt
      PROVE  assigned(WithTotal(before, mwh, e)) = full(e) /\ full(e) \in PvSnapshot
  <2> DEFINE w == WithTotal(before, mwh, e)
  <2>1. /\ w \in PvSnapshot /\ w.link = before.link /\ w.max_power_w = before.max_power_w
        /\ w.energy_total_mwh = mwh /\ w.energy_end_ts = e
    BY <1>4 DEF PvSnapshot, WithTotal
  <2> HIDE DEF w
  <2>2. /\ assigned(w) \in PvSnapshot
        /\ assigned(w).link = w.link /\ assigned(w).readings = readings
        /\ assigned(w).device_status = status /\ assigned(w).grid_relay = relay
        /\ assigned(w).energy_total_mwh = w.energy_total_mwh
        /\ assigned(w).energy_end_ts = w.energy_end_ts
        /\ assigned(w).max_power_w = w.max_power_w
    BY <1>4, <2>1 DEF PvSnapshot
  <2>3. full(e) \in PvSnapshot
    BY <1>4 DEF PvSnapshot, Unmasked, readings, status, relay, mwh
  <2>4. /\ full(e).link = before.link /\ full(e).readings = readings
        /\ full(e).device_status = status /\ full(e).grid_relay = relay
        /\ full(e).energy_total_mwh = mwh /\ full(e).energy_end_ts = e
        /\ full(e).max_power_w = before.max_power_w
    BY DEF Unmasked, readings, status, relay, mwh
  <2> HIDE DEF assigned, full
  <2>5. assigned(w) = full(e)
    BY <2>1, <2>2, <2>3, <2>4, SameSnapshot
  <2> QED BY <2>3, <2>5 DEF w
<1>6. \A e : Meant(e) = EnforceLinkMask(full(e))
  BY DEF Meant
<1>7. snapshot = Meant(end)
  <2>1. snapshot = EnforceLinkMask(Assigned)
    BY DEF ReaderInv, SnapshotRead
  <2>2. Assigned = assigned(WithTotal(before, mwh, end))
    BY <1>2, <1>3 DEF Assigned, Totalled, WithTotal, mwh, end
  <2> HIDE DEF assigned, full
  <2> QED BY <1>4, <1>5, <1>6, <2>1, <2>2
<1>8. ApplyPack(before, Decoded) = EnforceLinkMask(assigned(RetainTotal(before, Decoded)))
  BY DEF ApplyPack, readings, status, relay
<1>9. ASSUME NEW e \in OptInt, RetainTotal(before, Decoded) = WithTotal(before, mwh, e)
      PROVE  ApplyPack(before, Decoded) = Meant(e)
  <2> HIDE DEF assigned, full
  <2> QED BY <1>5, <1>6, <1>8, <1>9
<1> DEFINE Ends == \E e \in OptInt : /\ ApplyPack(before, Decoded) = Meant(e)
                                    /\ \/ e = end
                                       \/ \E i \in Totals :
                                            /\ OffsetAt(i) \in Lit!I64
                                            /\ e = base_time + OffsetAt(i)
                                            /\ end = Lit!Wrapped(e)
<1>10. ASSUME RetainTotal(before, Decoded) = before,
              mwh = before.energy_total_mwh, end = before.energy_end_ts
       PROVE  Ends
  <2>1. before = WithTotal(before, mwh, end)
    BY <1>4, <1>10 DEF PvSnapshot, WithTotal
  <2>2. ApplyPack(before, Decoded) = Meant(end)
    BY <1>4, <1>9, <1>10, <2>1
  <2> QED BY <1>4, <2>2
<1>11. ASSUME \E i \in Totals :
                /\ OffsetAt(i) \in Lit!I64
                /\ RetainTotal(before, Decoded) = WithTotal(before, mwh, base_time + OffsetAt(i))
                /\ end = Lit!Wrapped(base_time + OffsetAt(i))
       PROVE  Ends
  <2>1. PICK i \in Totals :
          /\ OffsetAt(i) \in Lit!I64
          /\ RetainTotal(before, Decoded) = WithTotal(before, mwh, base_time + OffsetAt(i))
          /\ end = Lit!Wrapped(base_time + OffsetAt(i))
    BY <1>11
  <2>2. base_time + OffsetAt(i) \in OptInt
    BY <2>1, Constants DEF ReaderInv, TypeOK, Lit!I64, OptInt
  <2>3. ApplyPack(before, Decoded) = Meant(base_time + OffsetAt(i))
    BY <1>9, <2>1, <2>2
  <2> QED BY <2>1, <2>2, <2>3
<1>12. \A e \in OptInt : full(e) \in PvSnapshot
  BY <1>5
<1>13. Ends
  <2> HIDE DEF Ends
  <2> QED BY <1>10, <1>11, TotalMeant DEF mwh, end
<1> QED BY <1>7, <1>12, <1>13 DEF end, full

(* What the link mask makes of each field.                                  *)
LEMMA MaskFields ==
  ASSUME NEW s \in PvSnapshot
  PROVE  LET m == EnforceLinkMask(s)
         IN  /\ m \in PvSnapshot /\ m.link = s.link /\ m.max_power_w = s.max_power_w
             /\ m.energy_total_mwh = s.energy_total_mwh /\ m.energy_end_ts = s.energy_end_ts
             /\ m.readings = IF s.link = "Online" THEN s.readings ELSE Blank
             /\ m.device_status = IF s.link = "Online" THEN s.device_status ELSE None
             /\ m.grid_relay = IF s.link = "Online" THEN s.grid_relay ELSE None
  BY DEF EnforceLinkMask, PvSnapshot, Blank, OptInt

(* The time of the total is a field of its own.                             *)
LEMMA MeantTime ==
  ASSUME ReaderInv, pc = "done", NEW e \in OptInt
  PROVE  [Meant(e) EXCEPT !.energy_end_ts = None] = Meant(None)
<1> DEFINE s == [Meant(e) EXCEPT !.energy_end_ts = None]
           t == Meant(None)
           full(x) == Unmasked(x)
<1>1. None \in OptInt
  BY DEF OptInt
<1>2. full(e) \in PvSnapshot /\ full(None) \in PvSnapshot
  BY <1>1, SnapshotMeant
<1>3. /\ full(e).link = full(None).link /\ full(e).readings = full(None).readings
      /\ full(e).device_status = full(None).device_status
      /\ full(e).grid_relay = full(None).grid_relay
      /\ full(e).energy_total_mwh = full(None).energy_total_mwh
      /\ full(None).energy_end_ts = None
      /\ full(e).max_power_w = full(None).max_power_w
  BY DEF Unmasked
<1>4. Meant(e) = EnforceLinkMask(full(e)) /\ t = EnforceLinkMask(full(None))
  BY DEF Meant
<1> HIDE DEF full, t
<1>5. /\ Meant(e) \in PvSnapshot /\ t \in PvSnapshot
      /\ Meant(e).link = t.link /\ Meant(e).readings = t.readings
      /\ Meant(e).device_status = t.device_status /\ Meant(e).grid_relay = t.grid_relay
      /\ Meant(e).energy_total_mwh = t.energy_total_mwh /\ t.energy_end_ts = None
      /\ Meant(e).max_power_w = t.max_power_w
  BY <1>2, <1>3, <1>4, MaskFields
<1>6. /\ s \in PvSnapshot /\ s.link = Meant(e).link /\ s.readings = Meant(e).readings
      /\ s.device_status = Meant(e).device_status /\ s.grid_relay = Meant(e).grid_relay
      /\ s.energy_total_mwh = Meant(e).energy_total_mwh /\ s.energy_end_ts = None
      /\ s.max_power_w = Meant(e).max_power_w
  BY <1>1, <1>5 DEF PvSnapshot
<1> HIDE DEF s
<1>7. s = t
  BY <1>5, <1>6, SameSnapshot
<1> QED BY <1>7 DEF s, t

(* The pack of a payload is one of those that the rest of the project is      *)
(* about.                                                                   *)
LEMMA DecodedIsPack ==
  ASSUME ReaderInv, pc = "done" PROVE Decoded \in Pack
<1>1. /\ Read = Len(source) /\ source \in Seq(RawRecord)
      /\ DOMAIN source = 1 .. Len(source) /\ Len(source) \in Nat
  BY DEF Read, ReaderInv
<1>2. Decoded.base_time = base_time
  BY <1>1 DEF ReaderInv, BasesRead, Decoded, OrZero, Refused
<1>3. base_time \in Int
  BY Constants DEF ReaderInv, TypeOK, Lit!I64
<1>4. ASSUME NEW l PROVE Lit!Nearest(l, 0) \in OptInt /\ Lit!Nearest(l, 3) \in OptInt
                         /\ Lit!Nearest(l, 2) \in OptInt
  BY NearestType, Constants DEF OptInt, Lit!I64
<1>5. ASSUME NEW i \in DOMAIN source PROVE Decoded.records[i] \in Record
  <2> DEFINE r == [name |-> source[i].n, value |-> Meaning(i), time_offset |-> OffsetAt(i)]
  <2>1. Decoded.records[i] = IF ~ Reaches(i) THEN Ignored ELSE r
    BY DEF Decoded
  <2>2. Ignored \in Record
    BY DEF Ignored, Record
  <2>3. OffsetAt(i) \in Int
    BY <1>4, Constants DEF OffsetAt, Refused, OptInt
  <2>4. CASE source[i].n \in Numeric \cup {"energy_total_mwh"}
    <3>1. source[i].n \notin {"device_status", "grid_relay"}
      BY <2>4 DEF Numeric
    <3>2. Meaning(i) \in OptInt
      BY <1>4, <3>1 DEF Meaning, OptInt
    <3> QED BY <2>1, <2>2, <2>3, <2>4, <3>2 DEF Record
  <2>5. CASE source[i].n = "device_status"
    <3>1. Meaning(i) \in DeviceStatus \cup {None}
      BY <2>5 DEF Meaning, Enum
    <3> QED BY <2>1, <2>2, <2>3, <2>5, <3>1 DEF Record
  <2>6. CASE source[i].n = "grid_relay"
    <3>1. Meaning(i) \in GridRelay \cup {None}
      BY <2>6 DEF Meaning, Enum
    <3> QED BY <2>1, <2>2, <2>3, <2>6, <3>1 DEF Record
  <2> QED BY <2>1, <2>2, <2>4, <2>5, <2>6 DEF Reaches
<1>6. Decoded.records \in Seq(Record)
  <2>1. Decoded.records \in [1 .. Len(source) -> Record]
    BY <1>1, <1>5 DEF Decoded
  <2> QED BY <1>1, <2>1
<1>7. Decoded = [base_time |-> Decoded.base_time, records |-> Decoded.records]
  BY DEF Decoded
<1> QED BY <1>2, <1>3, <1>6, <1>7 DEF Pack

-----------------------------------------------------------------------------
(* The theorems *)

(* The invariant holds of every payload that a broker can have retained.     *)
THEOREM ReaderInvCorrect == Spec => []ReaderInv
<1>1. ReaderInv /\ [Next]_vars => ReaderInv'
  <2> SUFFICES ASSUME ReaderInv, [Next]_vars PROVE ReaderInv'
    OBVIOUS
  <2>1. CASE ParseRecord
    BY <2>1, ParseRecordInv
  <2>2. CASE Refuse \/ Parsed
    BY <2>2, PhaseInv
  <2>3. CASE ApplyReading
    BY <2>3, ApplyReadingInv
  <2>4. CASE ApplyTotal
    BY <2>4, ApplyTotalInv
  <2>5. CASE ApplyText
    BY <2>5, ApplyTextInv
  <2>6. CASE ApplyNothing
    BY <2>6, ApplyNothingInv
  <2>7. CASE Assign
    BY <2>7, AssignInv
  <2>8. CASE UNCHANGED vars
    <3>1. Read' = Read /\ Applied' = Applied
      BY <2>8 DEF vars, Read, Applied
    <3>2. TypeOK' /\ LocalsFit'
      BY <2>8, <3>1 DEF vars, ReaderInv, TypeOK, Fits, LocalsFit
    <3>3. BasesRead' /\ RecordsRead'
      BY <2>8, <3>1, ReadKept DEF vars
    <3>4. LocalsRead'
      BY <2>8, <3>1 DEF vars, ReaderInv, LocalsRead, LocalRead, Feeds, FieldValue, Reading, Scaled
    <3>5. TotalRead' /\ SnapshotRead'
      BY <2>8, <3>1 DEF vars, ReaderInv, TotalRead, Usable, TotalOf, Scaled, MilliShift, Dated,
                        SnapshotRead, Totalled, Assigned
    <3> QED BY <2>8, <3>2, <3>3, <3>4, <3>5 DEF vars, ReaderInv
  <2> QED BY <2>1, <2>2, <2>3, <2>4, <2>5, <2>6, <2>7, <2>8 DEF Next
<1> QED BY <1>1, InitInv, PTL DEF Spec

(* What the pack's loops leave in the snapshot fits its i64 and i16 fields   *)
(* and its enums, and no time they compute is out of range.                 *)
THEOREM ReaderTypeCorrect == Spec => []TypeOK
<1>1. ReaderInv => TypeOK
  BY DEF ReaderInv
<1> QED BY <1>1, ReaderInvCorrect, PTL

(* The loops of parse_pack and apply_pack fold a payload of any length, with   *)
(* records in any order and number and base fields anywhere, into what the   *)
(* records mean one by one; and that is a pack that the rest of the project  *)
(* is about.                                                                *)
THEOREM PackFoldedCorrect == Spec => [](PackFolded /\ (pc = "done" => Decoded \in Pack))
<1>1. ReaderInv => PackFolded
  <2> SUFFICES ASSUME ReaderInv, pc = "done"
               PROVE  [snapshot EXCEPT !.energy_end_ts = None]
                        = [ApplyPack(before, Decoded) EXCEPT !.energy_end_ts = None]
    BY DEF PackFolded
  <2>1. PICK end \in OptInt : ApplyPack(before, Decoded) = Meant(end)
    BY SnapshotMeant
  <2>2. snapshot = Meant(snapshot.energy_end_ts) /\ snapshot.energy_end_ts \in OptInt
    BY SnapshotMeant DEF ReaderInv, TypeOK, PvSnapshot
  <2>3. \A e \in OptInt : [Meant(e) EXCEPT !.energy_end_ts = None] = Meant(None)
    BY MeantTime
  <2> QED BY <2>1, <2>2, <2>3
<1> QED BY <1>1, DecodedIsPack, ReaderInvCorrect, PTL

(* Matter serves the total with the date that the payload means, or with none *)
(* if epoch-s cannot express it: wrapping in apply_pack never turns a date   *)
(* above the i64 into one that is served.                                   *)
THEOREM ServedExactCorrect == Spec => []ServedExact
<1>1. ReaderInv => ServedExact
  <2> SUFFICES ASSUME ReaderInv, pc = "done",
                      \A i \in Totals : base_time + OffsetAt(i) >= -(I64_MAX + 1)
               PROVE  EnergyExported(snapshot) = EnergyExported(ApplyPack(before, Decoded))
    BY DEF ServedExact
  <2> DEFINE ts == snapshot.energy_end_ts
  <2>1. PICK end : /\ ApplyPack(before, Decoded) = Meant(end)
                   /\ \/ end = ts
                      \/ \E i \in Totals :
                           /\ OffsetAt(i) \in Lit!I64
                           /\ end = base_time + OffsetAt(i) /\ ts = Lit!Wrapped(end)
    BY SnapshotMeant
  <2>2. snapshot = Meant(ts)
    BY SnapshotMeant
  <2> HIDE DEF ts
  <2>3. \A e : EnergyExported(Meant(e))
                 = EnergyMeasurement(snapshot.energy_total_mwh,
                                     IF snapshot.energy_total_mwh = None THEN None ELSE e)
    BY DEF EnergyExported, Meant, Unmasked, EnforceLinkMask
  <2>4. ASSUME NEW i \in Totals, OffsetAt(i) \in Lit!I64,
               end = base_time + OffsetAt(i), ts = Lit!Wrapped(end)
        PROVE  ToEpochS(ts) = ToEpochS(end)
    <3>1. base_time \in Int /\ base_time <= I64_MAX
      BY Constants DEF ReaderInv, TypeOK, Lit!I64
    <3>2. OffsetAt(i) \in Int /\ OffsetAt(i) <= I64_MAX
      BY <2>4, Constants DEF Lit!I64
    <3>3. end \in Int /\ end >= -(I64_MAX + 1) /\ end <= 2 * I64_MAX
      BY <2>4, <3>1, <3>2, Constants
    <3>4. CASE end <= I64_MAX
      <4>1. end \in Lit!I64
        BY <3>3, <3>4, Constants DEF Lit!I64
      <4> QED BY <2>4, <3>3, <4>1, WrappedLemma
    <3>5. CASE end > I64_MAX
      <4>1. ts = end - 2 * (I64_MAX + 1)
        BY <2>4, <3>3, <3>5, WrappedOnce
      <4>2. ts < 0 /\ ts \in Int
        BY <3>3, <4>1, Constants
      <4>3. end > MATTER_EPOCH_SECS + EPOCH_S_MAX
        BY <3>3, <3>5, ReaderAssumption, Constants
      <4>4. /\ ~ (ts - MATTER_EPOCH_SECS \in 0 .. EPOCH_S_MAX)
            /\ ~ (end - MATTER_EPOCH_SECS \in 0 .. EPOCH_S_MAX)
        BY <3>3, <4>2, <4>3, Constants
      <4> QED BY <4>4 DEF ToEpochS
    <3> QED BY <3>3, <3>4, <3>5, Constants
  <2>5. ToEpochS(ts) = ToEpochS(end)
    BY <2>1, <2>4
  <2> QED BY <2>1, <2>2, <2>3, <2>5 DEF EnergyMeasurement
<1> QED BY <1>1, ReaderInvCorrect, PTL

(* A malformed base time never becomes a date of its own, and neither does a *)
(* malformed offset: the total is dated by the other one alone.             *)
THEOREM MalformedTimesCorrect == Spec => []MalformedTimes
<1>1. ReaderInv => MalformedTimes
  <2> SUFFICES ASSUME ReaderInv, pc = "done", NEW i \in Totals, \A j \in Totals : j <= i
               PROVE  /\ Refused(LastBase("bt", Len(source)))
                           => EnergyExported(snapshot).end = ToEpochS(OffsetAt(i))
                      /\ Refused(source[i].t)
                           => EnergyExported(snapshot).end = ToEpochS(base_time)
    BY DEF MalformedTimes
  <2>1. PICK k \in Totals : /\ \A j \in Totals : j <= k
                            /\ OffsetAt(k) \in Lit!I64 /\ snapshot.energy_total_mwh # None
                            /\ snapshot.energy_end_ts = Lit!Wrapped(base_time + OffsetAt(k))
    BY TotalMeant
  <2>2. k = i
    <3>1. Totals \subseteq Int
      BY DEF Totals, ReaderInv
    <3> QED BY <2>1, <3>1
  <2>3. base_time \in Lit!I64
    BY DEF ReaderInv, TypeOK
  <2>4. EnergyExported(snapshot).end = ToEpochS(Lit!Wrapped(base_time + OffsetAt(i)))
    BY <2>1, <2>2 DEF EnergyExported, EnergyMeasurement
  <2>5. ASSUME Refused(LastBase("bt", Len(source)))
        PROVE  EnergyExported(snapshot).end = ToEpochS(OffsetAt(i))
    <3>1. base_time = 0
      BY <2>5 DEF Read, ReaderInv, BasesRead, Refused, OrZero
    <3>2. OffsetAt(i) \in Int /\ 0 + OffsetAt(i) = OffsetAt(i)
      BY <2>1, <2>2, Constants DEF Lit!I64
    <3> QED BY <2>1, <2>2, <2>4, <3>1, <3>2, WrappedLemma
  <2>6. ASSUME Refused(source[i].t)
        PROVE  EnergyExported(snapshot).end = ToEpochS(base_time)
    <3>1. OffsetAt(i) = 0
      BY <2>6 DEF OffsetAt
    <3>2. base_time \in Int /\ base_time + 0 = base_time
      BY <2>3, Constants DEF Lit!I64
    <3> QED BY <2>3, <2>4, <3>1, <3>2, WrappedLemma
  <2> QED BY <2>5, <2>6
<1> QED BY <1>1, ReaderInvCorrect, PTL
=============================================================================
