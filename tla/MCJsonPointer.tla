--------------------------- MODULE MCJsonPointer ---------------------------
(***************************************************************************)
(* Small instances of JsonPointer: well-formed documents with every        *)
(* pointer up to a length, and damaged texts.                              *)
(***************************************************************************)
EXTENDS JsonPointer, JsonDocuments

MCUnit == {"{", "}", "[", "]", ",", ":", "quote", "scalar", "part", "escape",
           " ", "LF", "NUL", "/", "~", "0", "1", "a"}

\* Solidi, written in two ways, and tildes.
Names == {<<"/">>, <<"escape">>, <<"~", "1">>, <<>>}

\* Small documents with any names, and larger ones with few.
WellFormed == {Document(es, <<" ">>, FALSE) :
                 es \in UNION {Value(n, Names) : n \in 1 .. 4}
                          \cup UNION {Value(n, {<<"1">>}) : n \in 5 .. 7}}

\* What can stand in a pointer, up to two tokens, with and without faults.
Segments == {<<"~", "1">>, <<"0">>, <<"1">>}
Oddities == {<<>>, <<"~", "0", "1">>, <<"0", "1">>, <<"1", "0">>, <<"~">>, <<"~", "a">>}

Paths == {<<>>, <<"a">>} \cup {<<"/">> \o s : s \in Segments \cup Oddities}
          \cup {<<"/">> \o s \o <<"/">> \o t : s \in Segments, t \in Segments \cup Oddities}
          \cup {<<"/", "1", "/", "1", "/">> \o s : s \in Segments}

Nested(v) == <<"{", "quote", "quote", ":">> \o v \o <<"}">>

\* One text is nested one level too deep for the stack.
Texts == {Nested(Nested(Nested(<<"{", "}">>))),
          <<"[", "[", "scalar", "]", ",", "[", "]", ",", "scalar", "]">>,
          <<"{", "quote", "0", "quote", ":", "{", "quote", "quote", ":", "[", "]", "}", ",",
            "quote", "1", "quote", ":", "[", "scalar", ",", "scalar", "]", "}">>}

Replaced(t) == {[t EXCEPT ![i] = u] : i \in DOMAIN t, u \in MCUnit \ {"/", "~", "a"}}
Shortened(t) == {RemoveAt(t, i) : i \in DOMAIN t} \cup {SubSeq(t, 1, n) : n \in 0 .. Len(t)}

Damaged == {[text |-> t, events |-> <<>>] :
              t \in UNION {{d, d \o <<"NUL">>} :
                             d \in UNION {Replaced(t) \cup Shortened(t) : t \in Texts}}}

AnyText == WellFormed \cup Damaged
=============================================================================
