------------------------------- MODULE MCDecimal -------------------------------
(* Every literal of up to two digits before and four after the point, over   *)
(* the digits that rounding and carrying tell apart.                        *)
EXTENDS Decimal

SomeBytes == {0, 4, 5, 9}

SomeLiterals ==
  [negative : BOOLEAN, int : BoundedSeq({0, 5, 9}, 2), frac : BoundedSeq(SomeBytes, 4)]
  \cup [negative : {FALSE}, int : BoundedSeq({9, Junk}, 2), frac : BoundedSeq({0, Junk}, 1)]
=============================================================================
