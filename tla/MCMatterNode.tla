---------------------------- MODULE MCMatterNode ----------------------------
(* A dark start, a nameplate that arrives, a cold sunny morning.            *)
EXTENDS MatterNode

SomeSnapshots ==
  {DefaultSnapshot,
   [DefaultSnapshot EXCEPT !.link = "Asleep", !.max_power_w = 5],
   [DefaultSnapshot EXCEPT !.link = "Online", !.max_power_w = 7,
                           !.readings["power_mw"] = 4000,
                           !.readings["temperature_centi_c"] = -400]}
=============================================================================
