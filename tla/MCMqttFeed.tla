----------------------------- MODULE MCMqttFeed -----------------------------
(* Instances of MqttFeed for TLC: a device d1 with a full and a sparse pack  *)
(* and, in the first instance, a second device.                             *)
EXTENDS MqttFeed

CONSTANTS d1, d2, i1

Rec(name, value, offset) ==
  [name |-> name, value |-> value, time_offset |-> offset]

PackMsg(base, records) ==
  [type |-> "Pack", pack |-> [base_time |-> base, records |-> records]]

Info == [type |-> "Info", info |-> [identity |-> i1, max_power_w |-> 3]]

StatusMsg(s) == [type |-> "Status", status |-> s]

Noon    == PackMsg(5, << Rec("power_mw", 7, 0), Rec("voltage_mv", 230, 0),
                         Rec("energy_total_mwh", 10, 0), Rec("device_status", "Ok", 0) >>)
Evening == PackMsg(8, << Rec("power_mw", 2, 0), Rec("energy_total_mwh", 11, -1) >>)

FeedPayloads == { Noon, Evening, Info, StatusMsg("Online"), StatusMsg("Asleep") }

Nothing == [l \in Leaves |-> None]
FullDay == [info |-> Info, instantaneous |-> Noon, status |-> StatusMsg("Online")]

(* A broker that has never seen the publisher, and one that has.            *)
FeedRetained == { [d \in Devices |-> Nothing],
                  [d \in Devices |-> IF d = d1 THEN FullDay ELSE Nothing] }

FullRetained == { [d \in Devices |-> FullDay] }
=============================================================================
