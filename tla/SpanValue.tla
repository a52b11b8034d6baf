----------------------------- MODULE SpanValue -----------------------------
(***************************************************************************)
(* What the functions on spans promise, without memory and pointers: a     *)
(* span has a content and a capacity; a call says which texts went into    *)
(* it, and the content is changed by these texts, whole, or up to the      *)
(* first that does not fit, or not at all.                                 *)
(*                                                                         *)
(* Nothing is promised of the content when a function is given a source    *)
(* that it overwrites while it reads it.                                   *)
(***************************************************************************)
EXTENDS Span, Integers, SequencesExt

CONSTANTS ValueMax

VARIABLES
  value,  \* the span: [items, capacity]
  shown   \* the last call: [of, asked, clear, result, got]

valueVars == <<value, shown>>

\* The decimal digits of a number, as characters.
Decimal(n) ==
  LET digits[m \in 0 .. n] ==
        IF m < 10 THEN <<48 + m>> ELSE Append(digits[m \div 10], 48 + (m % 10))
  IN  digits[n]

\* A text in a URL: what is neither a letter, a digit nor one of - . _ ~ becomes
\* a percent sign and two hexadecimal digits.
Hex == <<48, 49, 50, 51, 52, 53, 54, 55, 56, 57, 65, 66, 67, 68, 69, 70>>
Unreserved == {45, 46, 95, 126} \cup (48 .. 57) \cup (65 .. 90) \cup (97 .. 122)
InUrl(items) ==
  FlattenSeq([i \in DOMAIN items |->
    IF items[i] \in Unreserved THEN <<items[i]>>
    ELSE <<37, Hex[(items[i] \div 16) + 1], Hex[(items[i] % 16) + 1]>>])

\* The portions of a logged value: whole, or its beginning and its end around
\* five characters, together no longer than ValueMax.
Logged(items) ==
  LET front == (ValueMax - 5) \div 2
      back  == ValueMax - 5 - front
  IN  IF Len(items) <= ValueMax THEN <<items>>
      ELSE << SubSeq(items, 1, front), <<32, 46, 46, 46, 32>>,
              SubSeq(items, Len(items) - back + 1, Len(items)) >>

Signed(negative, digits) == IF negative THEN <<<<45>>>> \o digits ELSE digits
Each(items) == [i \in DOMAIN items |-> <<items[i]>>]

\* The texts that a call puts together, in the portions that are written whole
\* or not at all.
Portions(of, asked) ==
  CASE of = "uint64"  -> Each(Decimal(asked.number))
    [] of = "int64"   -> Signed(asked.number < 0,
                                Each(Decimal(IF asked.number < 0 THEN - asked.number
                                             ELSE asked.number)))
    [] of = "double"  -> Signed(asked.number.negative
                                  /\ (asked.number.whole > 0 \/ asked.number.fraction),
                                IF asked.number.fraction THEN <<>>
                                ELSE Each(Decimal(asked.number.whole)))
    [] of = "encode"  -> <<InUrl(asked.items)>>
    [] of = "url"     -> << <<104>>, InUrl(asked.items), <<47>> >>
    [] of = "body"    -> << <<103>>, InUrl(asked.items), <<38>>, InUrl(asked.items) >>
                         \o (IF asked.items = <<>> THEN <<>>
                             ELSE << <<38>>, InUrl(asked.items) >>)
    [] of = "request" -> << <<72>>, asked.items, <<32>>, asked.items,
                            <<10>>, asked.items >>
                         \o (IF asked.items = <<>> THEN <<>>
                             ELSE << <<58>> >> \o Logged(asked.items))

\* How many of some portions fit.
Fitting(portions) ==
  LET Fits(k) == SpanLength(value) + Len(FlattenSeq(SubSeq(portions, 1, k)))
                   <= value.capacity
  IN  CHOOSE k \in 0 .. Len(portions) :
        Fits(k) /\ (k = Len(portions) \/ ~ Fits(k + 1))

Becomes(outcome) == value' = outcome.object /\ shown'.result = outcome.result

Appends == shown'.of = "append" /\ Becomes(SpanAppend(value, shown'.asked.items))

AppendsZeros ==
  shown'.of = "zeros" /\ Becomes(SpanAppend(value, [i \in 1 .. shown'.asked.number |-> 0]))

Copies ==
  /\ shown'.of = "copy"
  /\ LET copy == SpanAppend(EmptySpan(value.capacity), shown'.asked.items)
     IN  IF Failed(copy.result) THEN value' = value /\ shown'.result = copy.result
         ELSE Becomes(copy)

Replaces ==
  /\ shown'.of = "replace"
  /\ Becomes(SpanReplace(value, shown'.asked.start, shown'.asked.end,
                         shown'.asked.items))

Writes ==
  /\ shown'.of \in {"uint64", "int64", "double", "encode", "url", "body", "request"}
  /\ LET portions == Portions(shown'.of, shown'.asked)
         k == Fitting(portions)
         unfinished == shown'.of = "double" /\ shown'.asked.number.fraction
     IN  /\ value' = [value EXCEPT !.items = @ \o FlattenSeq(SubSeq(portions, 1, k))]
         /\ shown'.result = IF k < Len(portions) THEN "ERROR_BUFFER_OVERFLOW"
                            ELSE IF unfinished THEN "ERROR_NOT_IMPLEMENTED" ELSE "OK"

\* The beginnings of both, as long as the shorter, change places.
Swaps ==
  /\ shown'.of = "swap" /\ shown'.result = "OK"
  /\ LET from  == shown'.asked.items
         count == IF Len(from) < SpanLength(value) THEN Len(from) ELSE SpanLength(value)
         Put(head, tail) == SubSeq(head, 1, count) \o SubSeq(tail, count + 1, Len(tail))
     IN  /\ value' = [value EXCEPT !.items = Put(from, @)]
         /\ shown'.got = Put(value.items, from)

\* A part of the content, and the content as a string of C.
Gives ==
  /\ shown'.of \in {"slice", "string"} /\ value' = value
  /\ \/ /\ shown'.of = "slice" /\ shown'.result = "OK"
        /\ LET end == IF shown'.asked.end \in 0 .. SpanLength(value)
                      THEN shown'.asked.end ELSE SpanLength(value)
           IN  shown'.got = SubSeq(value.items, shown'.asked.start + 1, end)
     \/ /\ shown'.of = "string" /\ shown'.asked.number > SpanLength(value)
        /\ shown'.result = "OK" /\ shown'.got = value.items \o <<0>>
     \/ /\ shown'.of = "string" /\ shown'.asked.number <= SpanLength(value)
        /\ shown'.result = "ERROR_BUFFER_OVERFLOW"

\* A source that is overwritten: the lengths are as promised.
Spoils == /\ ~ shown'.clear
          /\ value'.capacity = value.capacity /\ SpanLength(value') <= value.capacity

ValueInit == shown.of = "none"
ValueNext == \/ Appends \/ AppendsZeros \/ Copies \/ Replaces \/ Writes \/ Swaps
             \/ Gives \/ Spoils
=============================================================================
