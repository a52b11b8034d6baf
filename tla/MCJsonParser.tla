---------------------------- MODULE MCJsonParser ----------------------------
(***************************************************************************)
(* Small instances of JsonParser: well-formed texts, written from their    *)
(* events in several styles, and texts that differ from a well-formed one  *)
(* in one place or lack their end.                                         *)
(***************************************************************************)
EXTENDS JsonParser, JsonDocuments

MCUnit == {"{", "}", "[", "]", ",", ":", "quote", "scalar", "part", "escape",
           " ", "LF", "NUL"}

Names == {<<>>, <<"}", "escape">>}

WellFormed == {Document(es, white, trailing) :
                 es \in UNION {Value(n, Names) : n \in 1 .. 5},
                 white \in {<<>>, <<" ">>}, trailing \in BOOLEAN}

Texts == {<<"{", "quote", "quote", ":", "scalar", "}">>,
          <<"[", "scalar", ",", "[", "]", "]">>,
          <<"[", "[", "[", "]", "]", ",", "]">>,
          <<"{", "quote", " ", "quote", ":", "[", "]", ",", "quote", "quote", ":",
            "{", "}", "}">>,
          <<"{", "quote", "quote", ":", "{", "quote", "quote", ":", "{", "}", "}", "}">>,
          <<" ", "scalar", " ">>,
          <<"[", "]", "quote", "quote">>}

Replaced(t) == {[t EXCEPT ![i] = u] : i \in DOMAIN t, u \in MCUnit}
Shortened(t) == {RemoveAt(t, i) : i \in DOMAIN t} \cup {SubSeq(t, 1, n) : n \in 0 .. Len(t)}

\* One of them is damaged in two places.
Twice == UNION {Replaced(t) : t \in Replaced(<<"[", "scalar", ",", "[", "]", "]">>)}

Damaged == {[text |-> t, events |-> <<>>] :
              t \in UNION {{d, d \o <<"NUL">>} :
                             d \in UNION {Replaced(t) \cup Shortened(t) : t \in Texts}
                                    \cup Twice}}

AnyText == WellFormed \cup Damaged
=============================================================================
