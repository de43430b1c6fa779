---------------------------- MODULE MCSenmlReader ----------------------------
(* Every payload of up to MaxRecords records out of a vocabulary: headers in *)
(* any place, base times that overflow or are malformed, units that are      *)
(* inherited, missing or unexpected, totals that cannot be used.            *)
EXTENDS SenmlReader

CONSTANT MaxRecords    \* longest payload (a bound)

Num(digits) == [negative |-> FALSE, int |-> digits, frac |-> <<>>]
Minus(digits) == [negative |-> TRUE, int |-> digits, frac |-> <<>>]

Blanks == [bt |-> None, bu |-> None, n |-> None, u |-> None, t |-> None,
           v |-> None, vs |-> None]

Exponent == Num(<<2, Junk, 4>>)    \* "2e4"
Largest == Num(<<5, 0, 0, 0, 0>>)  \* I64_MAX

Headers ==
  {[Blanks EXCEPT !.bt = Num(<<9, 0>>), !.bu = "W"],
   [Blanks EXCEPT !.bt = Exponent],
   [Blanks EXCEPT !.bt = Largest],
   [Blanks EXCEPT !.bt = Minus(<<5, 0, 0, 0, 0>>), !.bu = "V"]}

Readings ==
  {[Blanks EXCEPT !.n = "power_mw", !.v = Num(<<3>>)],
   [Blanks EXCEPT !.n = "voltage_mv", !.v = Num(<<2>>), !.u = "V"],
   [Blanks EXCEPT !.n = "voltage_mv", !.v = Num(<<7>>)],
   [Blanks EXCEPT !.n = "voltage_mv", !.v = Num(<<7>>), !.u = "kV"],
   [Blanks EXCEPT !.n = "temperature_centi_c", !.v = Num(<<4, 0, 0>>), !.u = "Cel"],
   [Blanks EXCEPT !.n = "temperature_centi_c", !.v = Minus(<<4>>), !.u = "Cel"],
   [Blanks EXCEPT !.n = "device_status", !.vs = "Fault"],
   [Blanks EXCEPT !.n = "device_status", !.vs = "Open"],
   [Blanks EXCEPT !.n = "device_status", !.v = Num(<<1>>), !.vs = "Ok"],
   [Blanks EXCEPT !.n = "grid_relay", !.vs = "Fault"],
   [Blanks EXCEPT !.n = "other", !.vs = "other"],
   [Blanks EXCEPT !.n = "power_mw"]}

TotalRecords ==
  {[Blanks EXCEPT !.n = "energy_total_mwh", !.v = Num(<<8>>), !.u = "Wh", !.t = t] :
     t \in {None, Minus(<<9>>), Num(<<6, 0>>), Exponent, Minus(<<4, 9, 9, 0, 0>>)}}
  \cup {[Blanks EXCEPT !.n = "energy_total_mwh", !.v = Exponent, !.u = "Wh"],
        [Blanks EXCEPT !.n = "energy_total_mwh", !.v = Num(<<5>>), !.u = "Wh",
                       !.bt = Num(<<9, 5>>)]}

SomePayloads == BoundedSeq(Headers \cup Readings \cup TotalRecords, MaxRecords)

SomeSnapshots ==
  {DefaultSnapshot,
   [DefaultSnapshot EXCEPT !.link = "Online", !.readings["power_mw"] = 1000,
                           !.grid_relay = "Closed", !.max_power_w = 5,
                           !.energy_total_mwh = 4000, !.energy_end_ts = 70],
   [DefaultSnapshot EXCEPT !.link = "Asleep", !.energy_total_mwh = 4000,
                           !.energy_end_ts = 70]}
=============================================================================
