------------------------------- MODULE Money -------------------------------
(***************************************************************************)
(* The amounts of internal/money.  A decimal is what a mail or Firefly III *)
(* writes: a sign, the whole units, and any number of digits behind the    *)
(* point.  The program computes with minor units (paise).  An int64 holds  *)
(* 9.2 * 10^16 rupees; its overflow is left out.                           *)
(***************************************************************************)
EXTENDS Integers, SequencesExt

Decimals == [neg: BOOLEAN, whole: Nat, frac: Seq(0 .. 9)]

Decimal(whole, frac) == [neg |-> FALSE, whole |-> whole, frac |-> frac]

(* With a plausible bug: a lone digit behind the point counts as paise. *)
TwoDigitsUnpadded(frac) == IF Len(frac) = 1 THEN <<0>> \o frac ELSE SubSeq(frac \o <<0, 0>>, 1, 2)

(* The digits behind the point, filled up or cut to two.                    *)
TwoDigits(frac) == SubSeq(frac \o <<0, 0>>, 1, 2)

ParseMinor(d) ==
    LET digits == TwoDigits(d.frac)
        minor  == d.whole * 100 + digits[1] * 10 + digits[2]
    IN  IF d.neg THEN -minor ELSE minor

(* With a plausible bug: the sign is that of the whole units, so -0.05 has none. *)
FormatMinorWholeSign(minor) ==
    LET size == IF minor < 0 THEN -minor ELSE minor
    IN  [neg |-> minor < 0 /\ size >= 100, whole |-> size \div 100,
         frac |-> <<(size % 100) \div 10, size % 10>>]

(* The sign is set apart first, so that the division cannot lose it.        *)
FormatMinor(minor) ==
    LET size == IF minor < 0 THEN -minor ELSE minor
    IN  [neg |-> minor < 0, whole |-> size \div 100,
         frac |-> <<(size % 100) \div 10, size % 10>>]

(* Amounts added up one after the other. *)
Total(amounts) ==
    LET sum[i \in 0 .. Len(amounts)] == IF i = 0 THEN 0 ELSE sum[i - 1] + amounts[i]
    IN  sum[Len(amounts)]

----------------------------------------------------------------------------
(* What a decimal is worth, cut to whole paise: the definition that         *)
(* ParseMinor and FormatMinor are held against.                             *)
Number(digits) ==
    LET number[i \in 0 .. Len(digits)] == IF i = 0 THEN 0 ELSE 10 * number[i - 1] + digits[i]
    IN  number[Len(digits)]

PowerOfTen(n) ==
    LET power[i \in 0 .. n] == IF i = 0 THEN 1 ELSE 10 * power[i - 1]
    IN  power[n]

Worth(d) ==
    LET scale == PowerOfTen(Len(d.frac))
        minor == ((d.whole * scale + Number(d.frac)) * 100) \div scale
    IN  IF d.neg THEN -minor ELSE minor
=============================================================================
