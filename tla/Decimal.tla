------------------------------- MODULE Decimal -------------------------------
(***************************************************************************)
(* senml::scale_decimal (src/senml.rs), digit by digit: exact scaling of a   *)
(* decimal literal in an i64, without floating point.                       *)
(*                                                                         *)
(* raw.trim() and a leading '+' leave no trace in a literal.                *)
(***************************************************************************)
EXTENDS Literals

CONSTANTS Inputs, Exps    \* the literals and the powers of ten

ASSUME DecimalAssumption == Inputs \subseteq Literal /\ Exps \subseteq Nat

VARIABLES raw, exp, pos, magnitude, pc, result

vars == <<raw, exp, pos, magnitude, pc, result>>

Init ==
  /\ raw \in Inputs /\ exp \in Exps
  /\ pos = 0 /\ magnitude = 0
  /\ pc = "check" /\ result = None

(* Not a plain literal: exponent notation, nothing at all.                  *)
Reject ==
  /\ pc = "check"
  /\ ~ IsPlain(raw)
  /\ pc' = "done"
  /\ UNCHANGED <<raw, exp, pos, magnitude, result>>

Accept ==
  /\ pc = "check"
  /\ IsPlain(raw)
  /\ pc' = "push"
  /\ UNCHANGED <<raw, exp, pos, magnitude, result>>

(* The digits that are pushed: all of the integer part, then exactly exp of  *)
(* the fraction, padded with zeros.                                         *)
Digit(k) ==
  IF k <= Len(raw.int) THEN raw.int[k]
  ELSE IF k - Len(raw.int) <= Len(raw.frac) THEN raw.frac[k - Len(raw.int)]
  ELSE 0

Pushing == pc = "push" /\ pos < Len(raw.int) + exp

(* Mutant: the multiplication and the addition wrap.                        *)
PushWrapping ==
  /\ Pushing
  /\ magnitude' = Wrapped(10 * magnitude + Digit(pos + 1))
  /\ pos' = pos + 1
  /\ UNCHANGED <<raw, exp, pc, result>>

(* checked_mul and checked_add of the next digit, both within i64.          *)
Push ==
  /\ Pushing
  /\ 10 * magnitude + Digit(pos + 1) <= I64_MAX
  /\ magnitude' = 10 * magnitude + Digit(pos + 1)
  /\ pos' = pos + 1
  /\ UNCHANGED <<raw, exp, pc, result>>

Overflow ==
  /\ Pushing
  /\ 10 * magnitude + Digit(pos + 1) > I64_MAX
  /\ pc' = "done"
  /\ UNCHANGED <<raw, exp, pos, magnitude, result>>

(* Mutant: surplus digits are cut off.                                      *)
NeverUp == 0

(* One more when the first surplus digit of the fraction is five or more.   *)
RoundUp == IF Len(raw.frac) > exp /\ raw.frac[exp + 1] >= 5 THEN 1 ELSE 0

Round ==
  /\ pc = "push" /\ ~ Pushing
  /\ result' = IF magnitude + RoundUp <= I64_MAX
               THEN Signed(raw, magnitude + RoundUp) ELSE None
  /\ pc' = "done"
  /\ UNCHANGED <<raw, exp, pos, magnitude>>

Next == Reject \/ Accept \/ Push \/ Overflow \/ Round

Spec == Init /\ [][Next]_vars

-----------------------------------------------------------------------------
(* Properties *)

(* Type invariant: no intermediate magnitude leaves the non-negative half of *)
(* i64, which checked arithmetic has to see to.                             *)
TypeOK ==
  /\ raw \in Inputs /\ exp \in Exps
  /\ pos \in 0 .. Len(raw.int) + exp
  /\ magnitude \in 0 .. I64_MAX
  /\ pc \in {"check", "push", "done"}
  /\ result \in (-I64_MAX .. I64_MAX) \cup {None}

(* The shift by string arithmetic is exact: what comes out is the nearest    *)
(* integer, for every sign, every missing or surplus digit and every        *)
(* magnitude; and nothing comes out exactly when that does not fit.         *)
Exact == pc = "done" => result = Nearest(raw, exp)
=============================================================================
