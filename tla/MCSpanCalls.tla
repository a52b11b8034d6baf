---------------------------- MODULE MCSpanCalls ----------------------------
(***************************************************************************)
(* Small instances of SpanCalls: words of three digits, numbers of two     *)
(* digits, exponents of one, and buffers of a few bytes.                   *)
(***************************************************************************)
EXTENDS SpanCalls

Digits(S, most) == UNION {[1 .. k -> S] : k \in 1 .. most}
Joined(heads, tails) == {head \o tail : head \in heads, tail \in tails}

\* Texts of numbers, whole, cut off or with something wrong in them.  The
\* exponents go around the word of an exponent twice.
Wholes    == Digits({48, 57}, 3)
Fractions == {<<>>, <<46>>, <<46, 45>>} \cup {<<46>> \o f : f \in Digits({48, 57}, 2)}
Exponents == {<<>>, <<101>>, <<69, 45>>, <<101, 97>>}
             \cup Joined({<<101>>, <<69, 43>>, <<101, 45>>}, Digits({49, 55}, 2))
JsonTexts == Joined({<<>>, <<45>>}, {<<97>>} \cup
                    Joined(Joined(Wholes, Fractions), Exponents))
WordTexts == {<<>>} \cup Digits({48, 49, 50, 51, 52}, 5) \cup Joined(Wholes, {<<97>>})

NumberStarts == {[content |-> <<>>, text |-> number, room |-> 0, calls |-> 0] :
                   number \in JsonTexts \cup WordTexts}

\* Buffers with something in them, and texts that grow when they are encoded.
Contents == {<<>>, <<65>>, <<65, 37, 66>>}
Texts    == {<<>>, <<66>>, <<126, 233>>, <<32, 67, 68>>}
LongText == <<65, 66, 67, 68, 69, 70, 71, 72, 73>>

BufferStarts ==
  {[content |-> c, text |-> t, room |-> r, calls |-> 2] :
     c \in Contents, t \in Texts, r \in {3, 5}}
  \cup {[content |-> c, text |-> t, room |-> r, calls |-> 1] :
     c \in {<<>>, <<65, 37, 66>>}, t \in Texts \cup {LongText}, r \in 3 .. 44}

\* A slice stays where it is while the content of the buffer is replaced by less.
SliceStarts == {[content |-> <<65, 65, 233, 65>>, text |-> <<66>>, room |-> 8, calls |-> 3]}

MCStarts  == NumberStarts \cup BufferStarts \cup SliceStarts
MCNumbers == {-512, -9, 0, 99, 100}
MCDoubles == [negative: BOOLEAN, whole: {0, 305}, fraction: BOOLEAN]
=============================================================================
