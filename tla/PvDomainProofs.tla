--------------------------- MODULE PvDomainProofs ---------------------------
(* Lemmas on the fold of contract messages into the snapshot.                *)
EXTENDS PvDomain, TLAPS

(* The default snapshot, before any message, is a masked snapshot.          *)
LEMMA DefaultType == DefaultState \in State /\ Masked(DefaultSnapshot)
  BY DEF DefaultState, DefaultSnapshot, State, PvSnapshot, Blank, OptInt,
         LinkStatus, Masked

(* enforce_link_mask keeps the type, masks, and leaves link and energy alone. *)
LEMMA MaskLemma ==
  ASSUME NEW s \in PvSnapshot
  PROVE  /\ EnforceLinkMask(s) \in PvSnapshot
         /\ Masked(EnforceLinkMask(s))
         /\ EnforceLinkMask(s).energy_total_mwh = s.energy_total_mwh
  BY DEF EnforceLinkMask, Masked, PvSnapshot, Blank, OptInt

(* What a name resolves to has the type of that name's records.             *)
LEMMA ResolvedType ==
  ASSUME NEW records \in Seq(Record)
  PROVE  /\ \A n \in Numeric : Resolved(records, n) \in OptInt
         /\ Resolved(records, "device_status") \in DeviceStatus \cup {None}
         /\ Resolved(records, "grid_relay") \in GridRelay \cup {None}
<1>1. \A i \in DOMAIN records : records[i] \in Record
  OBVIOUS
<1>2. ASSUME NEW n, NEW i \in DOMAIN records, IsLast(records, n, i)
      PROVE  \E j \in DOMAIN records : /\ records[j].name = n
                                       /\ Resolved(records, n) = records[j].value
  BY <1>2 DEF Resolved, IsLast
<1>3. ASSUME NEW n
      PROVE  \/ Resolved(records, n) = None
             \/ \E j \in DOMAIN records : /\ records[j].name = n
                                          /\ Resolved(records, n) = records[j].value
  BY <1>2 DEF Resolved
<1>4. \A n \in Numeric : Resolved(records, n) \in OptInt
  <2> TAKE n \in Numeric
  <2>1. n \notin {"device_status", "grid_relay", "other"}
    BY DEF Numeric
  <2>2. CASE Resolved(records, n) = None
    BY <2>2 DEF OptInt
  <2>3. CASE \E j \in DOMAIN records : /\ records[j].name = n
                                       /\ Resolved(records, n) = records[j].value
    BY <1>1, <2>1, <2>3 DEF Record
  <2> QED BY <1>3, <2>2, <2>3
<1>5. Resolved(records, "device_status") \in DeviceStatus \cup {None}
  BY <1>1, <1>3 DEF Record, Numeric
<1>6. Resolved(records, "grid_relay") \in GridRelay \cup {None}
  BY <1>1, <1>3 DEF Record, Numeric
<1> QED BY <1>4, <1>5, <1>6

(* A pack keeps the snapshot's type, and its total unless it brings one.    *)
LEMMA RetainTotalLemma ==
  ASSUME NEW s \in PvSnapshot, NEW pack \in Pack
  PROVE  /\ RetainTotal(s, pack) \in PvSnapshot
         /\ s.energy_total_mwh # None => RetainTotal(s, pack).energy_total_mwh # None
<1> DEFINE Total(i) == IsLastTotal(pack.records, i)
           r == pack.records[CHOOSE i \in DOMAIN pack.records : Total(i)]
<1>1. pack.base_time \in Int /\ pack.records \in Seq(Record)
  BY DEF Pack
<1>2. CASE \E i \in DOMAIN pack.records : Total(i)
  <2>1. \E i \in DOMAIN pack.records : Total(i) /\ r = pack.records[i]
    BY <1>2
  <2>2. r \in Record /\ r.name = "energy_total_mwh" /\ r.value # None
    BY <1>1, <2>1 DEF IsLastTotal
  <2>3. r.value \in Int /\ r.time_offset \in Int
    BY <2>2 DEF Record, OptInt
  <2>4. RetainTotal(s, pack) = [s EXCEPT !.energy_total_mwh = r.value,
                                         !.energy_end_ts = pack.base_time + r.time_offset]
    BY <1>2 DEF RetainTotal
  <2>5. pack.base_time + r.time_offset \in Int
    BY <1>1, <2>3
  <2> HIDE DEF r
  <2>6. RetainTotal(s, pack) \in PvSnapshot
    BY <2>3, <2>4, <2>5 DEF PvSnapshot, OptInt
  <2>7. RetainTotal(s, pack).energy_total_mwh = r.value
    BY <2>4 DEF PvSnapshot
  <2> QED BY <2>2, <2>6, <2>7
<1>3. CASE ~ \E i \in DOMAIN pack.records : Total(i)
  BY <1>3 DEF RetainTotal
<1> QED BY <1>2, <1>3

(* PvSnapshot::apply_pack                                                    *)
LEMMA ApplyPackLemma ==
  ASSUME NEW s \in PvSnapshot, NEW pack \in Pack
  PROVE  /\ ApplyPack(s, pack) \in PvSnapshot
         /\ Masked(ApplyPack(s, pack))
         /\ s.energy_total_mwh # None => ApplyPack(s, pack).energy_total_mwh # None
<1> DEFINE t == RetainTotal(s, pack)
           u == [t EXCEPT !.readings      = ReadingsOf(pack.records),
                          !.device_status = Resolved(pack.records, "device_status"),
                          !.grid_relay    = Resolved(pack.records, "grid_relay")]
<1>1. pack.records \in Seq(Record)
  BY DEF Pack
<1>2. ReadingsOf(pack.records) \in [Numeric -> OptInt]
  BY <1>1, ResolvedType DEF ReadingsOf, OptInt
<1>3. t \in PvSnapshot /\ (s.energy_total_mwh # None => t.energy_total_mwh # None)
  BY RetainTotalLemma
<1>4. u \in PvSnapshot /\ u.energy_total_mwh = t.energy_total_mwh
  BY <1>1, <1>2, <1>3, ResolvedType DEF PvSnapshot
<1>5. ApplyPack(s, pack) = EnforceLinkMask(u)
  BY DEF ApplyPack
<1> HIDE DEF t, u
<1> QED BY <1>3, <1>4, <1>5, MaskLemma

(* State::apply keeps the type and the mask, and never loses the total.     *)
LEMMA ApplyLemma ==
  ASSUME NEW st \in State, NEW m \in DomainMsg
  PROVE  /\ Apply(st, m) \in State
         /\ Masked(st.snapshot) => Masked(Apply(st, m).snapshot)
         /\ st.snapshot.energy_total_mwh # None
              => Apply(st, m).snapshot.energy_total_mwh # None
<1>0. st.snapshot \in PvSnapshot
  BY DEF State
<1>1. CASE m.type = "Info"
  <2>1. m.info \in InverterInfo
    BY <1>1 DEF DomainMsg
  <2>2. m.info.max_power_w \in OptInt
    BY <2>1 DEF InverterInfo, OptInt
  <2>3. Apply(st, m) = ApplyInfo(st, m.info)
    BY <1>1 DEF Apply
  <2> QED BY <1>0, <2>1, <2>2, <2>3 DEF ApplyInfo, State, PvSnapshot, Masked
<1>2. CASE m.type = "Pack"
  <2>1. m.pack \in Pack
    BY <1>2 DEF DomainMsg
  <2>2. Apply(st, m) = [st EXCEPT !.snapshot = ApplyPack(st.snapshot, m.pack)]
    BY <1>2 DEF Apply
  <2> QED BY <1>0, <2>1, <2>2, ApplyPackLemma DEF State
<1>3. CASE m.type = "Status"
  <2>1. m.status \in LinkStatus
    BY <1>3 DEF DomainMsg
  <2> DEFINE t == [st.snapshot EXCEPT !.link = m.status]
  <2>2. t \in PvSnapshot /\ t.energy_total_mwh = st.snapshot.energy_total_mwh
    BY <1>0, <2>1 DEF PvSnapshot
  <2>3. Apply(st, m) = [st EXCEPT !.snapshot = EnforceLinkMask(t)]
    BY <1>3 DEF Apply, SetStatus
  <2> HIDE DEF t
  <2> QED BY <2>2, <2>3, MaskLemma DEF State
<1> QED BY <1>1, <1>2, <1>3 DEF DomainMsg

(* enforce_link_mask leaves the total alone and keeps everything instantaneous *)
(* or nothing.                                                              *)
LEMMA MaskKeeps ==
  ASSUME NEW s \in PvSnapshot
  PROVE  /\ EnforceLinkMask(s).energy_total_mwh = s.energy_total_mwh
         /\ EnforceLinkMask(s).energy_end_ts = s.energy_end_ts
         /\ EnforceLinkMask(s).link = s.link
         /\ Instantaneous(EnforceLinkMask(s)) \in
              {Instantaneous(DefaultSnapshot), Instantaneous(s)}
         /\ s.link = "Online" => EnforceLinkMask(s) = s
  BY DEF EnforceLinkMask, PvSnapshot, Instantaneous, DefaultSnapshot

(* A pack's usable total replaces whatever total there was; without one the  *)
(* total stays.                                                             *)
LEMMA TotalReplaced ==
  ASSUME NEW s \in PvSnapshot, NEW pack \in Pack
  PROVE  LET e == RetainTotal(DefaultSnapshot, pack)
             t == RetainTotal(s, pack)
         IN  /\ e.energy_total_mwh # None => /\ t.energy_total_mwh = e.energy_total_mwh
                                             /\ t.energy_end_ts = e.energy_end_ts
             /\ e.energy_total_mwh = None => t.energy_total_mwh = s.energy_total_mwh
             /\ t.link = s.link
<1> DEFINE r == pack.records[CHOOSE i \in DOMAIN pack.records :
                               IsLastTotal(pack.records, i)]
           e == RetainTotal(DefaultSnapshot, pack)
           t == RetainTotal(s, pack)
<1>1. DefaultSnapshot \in PvSnapshot /\ DefaultSnapshot.energy_total_mwh = None
  BY DefaultType DEF DefaultState, DefaultSnapshot, State
<1>2. CASE \E i \in DOMAIN pack.records : IsLastTotal(pack.records, i)
  <2>1. /\ t = [s EXCEPT !.energy_total_mwh = r.value,
                         !.energy_end_ts = pack.base_time + r.time_offset]
        /\ e = [DefaultSnapshot EXCEPT !.energy_total_mwh = r.value,
                                       !.energy_end_ts = pack.base_time + r.time_offset]
    BY <1>2 DEF RetainTotal
  <2>4. r.value # None
    BY <1>2 DEF IsLastTotal
  <2> HIDE DEF r, e, t
  <2>2. /\ t.energy_total_mwh = r.value /\ t.link = s.link
        /\ t.energy_end_ts = pack.base_time + r.time_offset
    BY <2>1 DEF PvSnapshot
  <2>3. /\ e.energy_total_mwh = r.value
        /\ e.energy_end_ts = pack.base_time + r.time_offset
    BY <1>1, <2>1 DEF PvSnapshot
  <2> QED BY <2>2, <2>3, <2>4 DEF e, t
<1>3. CASE ~ \E i \in DOMAIN pack.records : IsLastTotal(pack.records, i)
  BY <1>1, <1>3 DEF RetainTotal
<1> QED BY <1>2, <1>3

(* apply_pack: a usable total replaces the old one, the link stays, and all   *)
(* that is instantaneous is the pack's, or nothing while the link is down.   *)
LEMMA PackApplied ==
  ASSUME NEW s \in PvSnapshot, NEW pack \in Pack
  PROVE  LET e == RetainTotal(DefaultSnapshot, pack)
             t == ApplyPack(s, pack)
         IN  /\ e.energy_total_mwh # None => /\ t.energy_total_mwh = e.energy_total_mwh
                                             /\ t.energy_end_ts = e.energy_end_ts
             /\ e.energy_total_mwh = None => t.energy_total_mwh = s.energy_total_mwh
             /\ t.link = s.link
             /\ Instantaneous(t) \in {Instantaneous(DefaultSnapshot), Brought(pack.records)}
             /\ s.link = "Online" => Instantaneous(t) = Brought(pack.records)
<1> DEFINE t == RetainTotal(s, pack)
           u == [t EXCEPT !.readings      = ReadingsOf(pack.records),
                          !.device_status = Resolved(pack.records, "device_status"),
                          !.grid_relay    = Resolved(pack.records, "grid_relay")]
<1>1. pack.records \in Seq(Record)
  BY DEF Pack
<1>2. ReadingsOf(pack.records) \in [Numeric -> OptInt]
  BY <1>1, ResolvedType DEF ReadingsOf, OptInt
<1>3. t \in PvSnapshot
  BY RetainTotalLemma
<1>4. /\ u \in PvSnapshot /\ u.energy_total_mwh = t.energy_total_mwh
      /\ u.energy_end_ts = t.energy_end_ts /\ u.link = t.link
      /\ Instantaneous(u) = Brought(pack.records)
  BY <1>1, <1>2, <1>3, ResolvedType DEF PvSnapshot, Instantaneous, Brought
<1>5. ApplyPack(s, pack) = EnforceLinkMask(u)
  BY DEF ApplyPack
<1> HIDE DEF t, u
<1> QED BY <1>4, <1>5, MaskKeeps, TotalReplaced DEF t

(* A masked snapshot whose link is down shows nothing instantaneous.        *)
LEMMA MaskedBlank ==
  ASSUME NEW s \in PvSnapshot, Masked(s), s.link # "Online"
  PROVE  Instantaneous(s) = Instantaneous(DefaultSnapshot)
<1>1. s.readings \in [Numeric -> OptInt] /\ \A n \in Numeric : s.readings[n] = None
  BY DEF PvSnapshot, Masked
<1>2. s.readings = Blank
  BY <1>1 DEF Blank
<1> QED BY <1>2 DEF Masked, Instantaneous, DefaultSnapshot
=============================================================================
