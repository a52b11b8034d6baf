--------------------------- MODULE NumberReading ---------------------------
(***************************************************************************)
(* The two readers of decimal numbers, digit by digit, in the words they   *)
(* keep them in: az_span_to_uint64 (az_span.c), for the status code and    *)
(* the index in a JSON pointer, and the numbers of the JSON parser         *)
(* (az_json_parser.c), for the lifetime of a token.                        *)
(*                                                                         *)
(* A JSON number is kept as its first digits, as many as fit below a       *)
(* limit, and the power of ten they are to be multiplied by; the product,  *)
(* a double, is not modelled.  Characters are their codes.                 *)
(***************************************************************************)
EXTENDS Integers, Sequences, AzResult

CONSTANTS
  MaxWord,    \* UINT64_MAX
  MaxNumber,  \* AZ_DEC_NUMBER_MAX, 10^18 - 1
  HalfExp     \* an exponent is at least - HalfExp and less than it, 2^15

ASSUME NumberAssumption ==
  /\ MaxNumber \in Nat /\ MaxNumber % 10 = 9
  /\ MaxWord \in Nat /\ MaxWord >= MaxNumber
  /\ HalfExp \in Nat /\ HalfExp > 9

Byte  == 0 .. 255
Minus == 45   Plus == 43   Dot == 46   SmallE == 101   BigE == 69   Zero == 48
IsDigit(c) == c \in 48 .. 57
DigitOf(c) == c - Zero

VARIABLES
  text,    \* what is read
  reader,  \* "uint64" or "json", "none" while nothing is read
  phase,   \* the part of the number that is read, or "done"
  at,      \* position of the next character
  result,  \* what the reader returns
  n,       \* what the reader keeps: [value, exp, remainder, e_int, e_sign]
  said     \* history, what the digits read so far say: the number that they are,
           \* how many stand behind the point, how many were left out, ten to the
           \* power of that, and the number behind the e
           \* [digits, places, dropped, scale, power]

numberVars == <<text, reader, phase, at, result, n, said>>

Nothing  == [value |-> 0, exp |-> 0, remainder |-> FALSE, e_int |-> 0, e_sign |-> 1]
NoDigits == [digits |-> 0, places |-> 0, dropped |-> 0, scale |-> 1, power |-> 0]

NumberInit ==
  /\ text = <<>> /\ reader = "none" /\ phase = "done" /\ at = 1 /\ result = "OK"
  /\ n = Nothing /\ said = NoDigits

\* A value in a word of 64 bits, and one that is assigned to an int16_t.
Word(x)  == x % (MaxWord + 1)
Int16(x) == ((x + HalfExp) % (2 * HalfExp)) - HalfExp

Returns(answer) ==
  phase' = "done" /\ result' = answer /\ UNCHANGED <<text, reader>>

ReadsOn(part, p) ==
  phase' = part /\ at' = p /\ UNCHANGED <<text, reader, result>>

\* The reader is called for a text.  The JSON parser calls its own on a digit or
\* a minus sign.
BeginReading(which, chars, first) ==
  /\ text' = chars /\ reader' = which /\ at' = 1 /\ result' = "OK"
  /\ phase' = first /\ n' = Nothing /\ said' = NoDigits

BeginUint64(chars) == BeginReading("uint64", chars, "uint64")

BeginJsonNumber(chars) ==
  /\ chars # <<>> /\ (IsDigit(chars[1]) \/ chars[1] = Minus)
  /\ BeginReading("json", chars, "sign")
------------------------------------------------------------------------------
\* Variant of FitsWord: the highest numbers are refused.
FitsWordStrict(value, d) == value < (MaxWord - d) \div 10

\* The check of az_span_to_uint64 against overflow.
FitsWord(value, d) == value <= (MaxWord - d) \div 10

\* What the digit d adds to what was said.
SayDigit(d, behindPoint) ==
  [said EXCEPT !.digits = @ * 10 + d, !.places = @ + behindPoint]

\* A pass of the loop of az_span_to_uint64.
Uint64Digit ==
  /\ phase = "uint64" /\ at <= Len(text)
  /\ LET d == DigitOf(text[at])
     IN  IF IsDigit(text[at]) /\ FitsWord(n.value, d)
         THEN /\ n' = [n EXCEPT !.value = Word(@ * 10 + d)]
              /\ said' = SayDigit(d, 0)
              /\ ReadsOn("uint64", at + 1)
         ELSE Returns("ERROR_PARSER_UNEXPECTED_CHAR") /\ UNCHANGED <<at, n, said>>

Uint64End ==
  /\ phase = "uint64" /\ at > Len(text)
  /\ Returns(IF text = <<>> THEN "ERROR_EOF" ELSE "OK")
  /\ UNCHANGED <<at, n, said>>
------------------------------------------------------------------------------
\* Where a digit has to stand: what the reader returns if none does there.
NoDigit(p) == IF p > Len(text) THEN "ERROR_EOF" ELSE "ERROR_PARSER_UNEXPECTED_CHAR"
DigitAt(p) == p <= Len(text) /\ IsDigit(text[p])

\* The sign, and a leading zero, which stands alone.
JsonSign ==
  /\ phase = "sign"
  /\ LET p == IF text[1] = Minus THEN 2 ELSE 1
     IN  IF ~ DigitAt(p) THEN Returns(NoDigit(p)) /\ at' = p
         ELSE IF text[p] = Zero THEN ReadsOn("point", p + 1)
         ELSE ReadsOn("integer", p)
  /\ UNCHANGED <<n, said>>

\* Variant of KeepDigit: a digit that is left out does not count.
KeepDigitShort(d, e_offset) ==
  IF n.value <= (MaxNumber - d) \div 10
  THEN [n EXCEPT !.value = Word(@ * 10 + d), !.exp = Int16(@ + e_offset)]
  ELSE [n EXCEPT !.remainder = @ \/ d # 0, !.exp = Int16(@ + e_offset)]

\* A digit in the 18 that are kept, or behind them.
KeepDigit(d, e_offset) ==
  IF n.value <= (MaxNumber - d) \div 10
  THEN [n EXCEPT !.value = Word(@ * 10 + d), !.exp = Int16(@ + e_offset)]
  ELSE [n EXCEPT !.remainder = @ \/ d # 0, !.exp = Int16(@ + e_offset + 1)]

DropDigit(s) == [s EXCEPT !.dropped = @ + 1, !.scale = @ * 10]

\* A pass of the loop of az_span_reader_get_json_number_int, which reads the
\* digits before the point and those behind it.
JsonDigits(part, e_offset, next) ==
  /\ phase = part
  /\ LET d == DigitOf(text[at])
     IN  /\ n' = KeepDigit(d, e_offset)
         /\ said' = IF n.value <= (MaxNumber - d) \div 10
                    THEN SayDigit(d, - e_offset)
                    ELSE DropDigit(SayDigit(d, - e_offset))
  /\ ReadsOn(IF DigitAt(at + 1) THEN part ELSE next, at + 1)

\* The point, with a digit behind it.
JsonPoint ==
  /\ phase = "point"
  /\ IF at > Len(text) THEN Returns("OK") /\ UNCHANGED at
     ELSE IF text[at] # Dot THEN ReadsOn("e", at)
     ELSE IF ~ DigitAt(at + 1) THEN Returns(NoDigit(at + 1)) /\ at' = at + 1
     ELSE ReadsOn("fraction", at + 1)
  /\ UNCHANGED <<n, said>>

\* The e, with a sign or none, and a digit behind it.
JsonE ==
  /\ phase = "e"
  /\ LET signed == at < Len(text) /\ text[at + 1] \in {Plus, Minus}
         p      == IF signed THEN at + 2 ELSE at + 1
     IN  IF at > Len(text) \/ text[at] \notin {SmallE, BigE}
         THEN Returns("OK") /\ UNCHANGED <<at, n>>
         ELSE /\ n' = [n EXCEPT !.e_sign = IF signed /\ text[at + 1] = Minus
                                           THEN -1 ELSE 1]
              /\ IF DigitAt(p) THEN ReadsOn("exponent", p)
                 ELSE Returns(NoDigit(p)) /\ at' = p
  /\ UNCHANGED said

\* A pass of the loop over the digits of the exponent; behind the last of them
\* it is added to the one that the point and the digits left out have made.
JsonExponent ==
  /\ phase = "exponent"
  /\ LET d     == DigitOf(text[at])
         e_int == Int16(n.e_int * 10 + d)
         last  == ~ DigitAt(at + 1)
     IN  /\ n' = [n EXCEPT !.e_int = e_int,
                           !.exp = IF last THEN Int16(@ + e_int * n.e_sign) ELSE @]
         /\ said' = [said EXCEPT !.power = @ * 10 + d]
         /\ at' = at + 1
         /\ IF last THEN Returns("OK") ELSE UNCHANGED <<text, reader, phase, result>>

ReadNumber ==
  \/ Uint64Digit \/ Uint64End
  \/ JsonSign \/ JsonPoint \/ JsonE \/ JsonExponent
  \/ JsonDigits("integer", 0, "point") \/ JsonDigits("fraction", -1, "e")

\* Numbers are read one after the other, out of any texts.
NumberNext ==
  \/ /\ phase = "done"
     /\ \E chars \in Seq(Byte) : BeginUint64(chars) \/ BeginJsonNumber(chars)
  \/ ReadNumber

NumberSpec == NumberInit /\ [][NumberNext]_numberVars
------------------------------------------------------------------------------
(***************************************************************************)
(* Properties.                                                             *)
(***************************************************************************)
\* A number that is returned is the number that was read, although it is put
\* together in words that wrap around.  A JSON number is cut off behind the
\* digits that fit, which are as many as fit, and tells whether it lost
\* something; its exponent is right but for multiples of 2^16, so it is the
\* right one for every number whose exponent fits 16 bits, and wrong by a power
\* of ten of that size otherwise.
ReadsExactly ==
  phase = "done" /\ result = "OK" =>
    /\ reader = "uint64" => n.value = said.digits
    /\ reader = "json" =>
         /\ n.value * said.scale <= said.digits
         /\ said.digits < (n.value + 1) * said.scale
         /\ n.remainder <=> n.value * said.scale # said.digits
         /\ said.dropped > 0 => n.value > MaxNumber \div 10
         /\ n.exp = Int16(said.dropped - said.places + n.e_sign * said.power)

\* A number of digits is only refused if it is larger than a word holds.
RefusesOnlyTooLarge ==
  /\ phase = "done" /\ reader = "uint64" /\ result = "ERROR_PARSER_UNEXPECTED_CHAR"
  /\ IsDigit(text[at])
  => said.digits * 10 + DigitOf(text[at]) > MaxWord
=============================================================================
