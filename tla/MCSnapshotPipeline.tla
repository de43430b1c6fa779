------------------------- MODULE MCSnapshotPipeline -------------------------
(* Instances of SnapshotPipeline for TLC.  A unit of time is one second of   *)
(* the inverter's clock; the Matter epoch is second 100.                     *)
EXTENDS SnapshotPipeline

CONSTANTS i1

Rec(name, value, offset) ==
  [name |-> name, value |-> value, time_offset |-> offset]

PackMsg(base, records) ==
  [type |-> "Pack", pack |-> [base_time |-> base, records |-> records]]

InfoMsg(w) == [type |-> "Info", info |-> [identity |-> i1, max_power_w |-> w]]

StatusMsg(s) == [type |-> "Status", status |-> s]

(* A full pack; a sparse one with an unusable total, a fault and an open     *)
(* relay; one with a new total.                                             *)
Noon ==
  PackMsg(105, << Rec("power_mw", 7, 0), Rec("voltage_mv", 230, 0),
                  Rec("current_ma", 3, 0), Rec("frequency_mhz", 50, 0),
                  Rec("temperature_centi_c", 40, 0),
                  Rec("energy_total_mwh", 10, 0), Rec("energy_total_mwh", None, 1),
                  Rec("device_status", "Ok", 0), Rec("grid_relay", "Closed", 0) >>)
Sparse ==
  PackMsg(0, << Rec("power_mw", 5, 0), Rec("power_mw", None, 0),
                Rec("temperature_centi_c", 40000, 0),
                Rec("energy_total_mwh", None, 0),
                Rec("device_status", "Fault", 0), Rec("grid_relay", "Open", 0) >>)
Evening ==
  PackMsg(98, << Rec("power_mw", 2, 0), Rec("energy_total_mwh", 11, 1),
                 Rec("device_status", "Warning", 0) >>)

AllMessages ==
  { Noon, Sparse, Evening, InfoMsg(3), StatusMsg("Online"), StatusMsg("Asleep") }

RatingMessages == { Noon, InfoMsg(3), InfoMsg(None), StatusMsg("Online") }
=============================================================================
