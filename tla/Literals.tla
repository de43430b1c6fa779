------------------------------- MODULE Literals -------------------------------
(***************************************************************************)
(* Decimal literals as the publisher serialises them, and the integer that   *)
(* scaling one by a power of ten stands for.                                *)
(*                                                                         *)
(* A literal is its sign and the bytes before and after the first point; a   *)
(* byte is a digit or Junk (a letter, an exponent, a second point).         *)
(***************************************************************************)
EXTENDS Integers, SequencesExt

CONSTANTS
  None,        \* Rust's Option::None
  Junk,        \* a byte that is no digit
  I64_MAX      \* i64::MAX, scaled down: TLC's integers have 32 bits

ASSUME LiteralsAssumption ==
  /\ I64_MAX \in Nat \ {0}
  /\ None \notin Int /\ Junk \notin Int

Digits  == 0 .. 9
Bytes   == Digits \cup {Junk}
Literal == [negative : BOOLEAN, int : Seq(Bytes), frac : Seq(Bytes)]

I64 == -(I64_MAX + 1) .. I64_MAX

(* A release build's i64 addition wraps.                                    *)
Wrapped(x) == ((x + I64_MAX + 1) % (2 * (I64_MAX + 1))) - (I64_MAX + 1)

IsPlain(l) ==
  /\ l.int # <<>> \/ l.frac # <<>>
  /\ Junk \notin ToSet(l.int) \cup ToSet(l.frac)

(* The powers of ten, and the values of the prefixes of a row of digits.     *)
Pow10[k \in Nat] == IF k = 0 THEN 1 ELSE 10 * Pow10[k - 1]

Values(digits) ==
  LET value[k \in 0 .. Len(digits)] ==
        IF k = 0 THEN 0 ELSE 10 * value[k - 1] + digits[k]
  IN  value

ValueOf(digits) == Values(digits)[Len(digits)]

Signed(l, magnitude) == IF l.negative THEN -magnitude ELSE magnitude

(* The integer nearest to l * 10^exp, halves away from zero; None if l is    *)
(* not plain or the magnitude does not fit.                                 *)
Nearest(l, exp) ==
  LET ulp == Pow10[Len(l.frac)]
      magnitude == (2 * ValueOf(l.int \o l.frac) * Pow10[exp] + ulp) \div (2 * ulp)
  IN  IF IsPlain(l) /\ magnitude \in 0 .. I64_MAX THEN Signed(l, magnitude) ELSE None
=============================================================================
