-------------------------- MODULE MatterAttributes --------------------------
(***************************************************************************)
(* What the Matter cluster handlers answer from the shared snapshot (the    *)
(* live attributes of src/matter/{epm,eem,power_source,temperature}.rs) and *)
(* which attributes the bridge marks as changed between two snapshots.      *)
(*                                                                         *)
(* Times and ratings are scaled by constants: TLC's integers have 32 bits.  *)
(***************************************************************************)
EXTENDS PvDomain

CONSTANTS
  MATTER_EPOCH_SECS,   \* 2000-01-01 in unix seconds (rs-matter)
  EPOCH_S_MAX          \* u32::MAX, the largest epoch-s

ASSUME EpochAssumption == MATTER_EPOCH_SECS \in Nat /\ EPOCH_S_MAX \in Nat

POWER_HEADROOM_MW_PER_W       == 1100
VOLTAGE_MIN_MV                == 230000 - 45000
DEFAULT_ACTIVE_POWER_MIN_MW   == -30000000
DEFAULT_ACTIVE_CURRENT_MIN_MA == -30000

(* The field behind each attribute that is a plain reading.                 *)
Field == [Voltage |-> "voltage_mv", ActiveCurrent |-> "current_ma",
          ActivePower |-> "power_mw", Frequency |-> "frequency_mhz",
          MeasuredValue |-> "temperature_centi_c"]

(* The attributes the bridge notifies, and the one it does not.             *)
NotifiedAttrs == DOMAIN Field \cup {"CumulativeEnergyExported", "Status"}
Attrs == NotifiedAttrs \cup {"Accuracy"}

(* The Q-quality attributes of EPM and EEM: at most one report per second.  *)
QuietAttrs == {"Voltage", "ActiveCurrent", "ActivePower", "Frequency",
               "CumulativeEnergyExported"}

-----------------------------------------------------------------------------
(* Import-positive: what the inverter produces is reported negative.        *)
Negated(v) == IF v = None THEN None ELSE -v

(* Instants that epoch-s cannot express are dropped, not wrapped.           *)
ToEpochS(unix) ==
  IF unix # None /\ unix - MATTER_EPOCH_SECS \in 0 .. EPOCH_S_MAX
  THEN unix - MATTER_EPOCH_SECS
  ELSE None

(* The struct that the attribute read and the event both carry.             *)
EnergyMeasurement(mwh, end) == [energy |-> mwh, end |-> ToEpochS(end)]

(* Null, when there is no total, is the struct without an energy.            *)
EnergyExported(s) ==
  EnergyMeasurement(s.energy_total_mwh,
                    IF s.energy_total_mwh = None THEN None ELSE s.energy_end_ts)

(* The lower bounds of the accuracy envelope, sized by the nameplate.       *)
ActivePowerCurrentMin(w) ==
  IF w = None
  THEN <<DEFAULT_ACTIVE_POWER_MIN_MW, DEFAULT_ACTIVE_CURRENT_MIN_MA>>
  ELSE LET power_mw == w * POWER_HEADROOM_MW_PER_W
       IN  <<-power_mw, -((power_mw * 1000) \div VOLTAGE_MIN_MV)>>

(* What a read of each attribute answers.                                   *)
Served(s) ==
  [a \in Attrs |->
     CASE a \in {"ActiveCurrent", "ActivePower"} -> Negated(s.readings[Field[a]])
       [] a \in {"Voltage", "Frequency", "MeasuredValue"} -> s.readings[Field[a]]
       [] a = "CumulativeEnergyExported" -> EnergyExported(s)
       [] a = "Status" -> SourceStatus(s)
       [] a = "Accuracy" -> ActivePowerCurrentMin(s.max_power_w)]

-----------------------------------------------------------------------------
(* Mutant: Status is notified when one of its inputs moves.                 *)
ChangedByInputs(prev, next) ==
  {a \in DOMAIN Field : next.readings[Field[a]] # prev.readings[Field[a]]}
  \cup {a \in {"CumulativeEnergyExported"} :
          next.energy_total_mwh # prev.energy_total_mwh}
  \cup {a \in {"Status"} : \/ next.link # prev.link
                           \/ next.device_status # prev.device_status
                           \/ next.grid_relay # prev.grid_relay}

(* The attributes that run_bridge notifies when next replaces prev.         *)
Changed(prev, next) ==
  {a \in DOMAIN Field : next.readings[Field[a]] # prev.readings[Field[a]]}
  \cup {a \in {"CumulativeEnergyExported"} :
          next.energy_total_mwh # prev.energy_total_mwh}
  \cup {a \in {"Status"} : SourceStatus(next) # SourceStatus(prev)}

(* A subscriber acts on the total, not on the time it was read.             *)
SameReport(a, x, y) ==
  IF a = "CumulativeEnergyExported" THEN x.energy = y.energy ELSE x = y
=============================================================================
