--------------------------- MODULE MCBridgeSystem ---------------------------
(* An inverter at noon, retained; an evening and a sunset still to come.    *)
EXTENDS BridgeSystem

CONSTANTS d1, i1

Rec(name, value) == [name |-> name, value |-> value, time_offset |-> 0]

PackMsg(base, records) ==
  [type |-> "Pack", pack |-> [base_time |-> base, records |-> records]]

Info == [type |-> "Info", info |-> [identity |-> i1, max_power_w |-> 3]]

StatusMsg(s) == [type |-> "Status", status |-> s]

Noon    == PackMsg(5, << Rec("power_mw", 7), Rec("energy_total_mwh", 10),
                         Rec("device_status", "Fault") >>)
Evening == PackMsg(8, << Rec("power_mw", 2), Rec("energy_total_mwh", 11) >>)

SystemPayloads == {Noon, Evening, Info, StatusMsg("Online"), StatusMsg("Asleep")}

SystemRetained ==
  {[d \in Devices |-> [info |-> None, instantaneous |-> Noon, status |-> StatusMsg("Online")]]}
=============================================================================
