--------------------------- MODULE MCJsonBuilding ---------------------------
(***************************************************************************)
(* Small instances of JsonBuilding: values of every kind, strings that     *)
(* look like JSON and spans that need escapes, and buffers in which        *)
(* everything fits or a call fails at any of its appends.                  *)
(***************************************************************************)
EXTENDS JsonBuilding

MCUnit == {"{", "}", "[", "]", ",", ":", "quote", "scalar", "part", "escape",
           " ", "LF", "NUL"}

MCTokens == {Bare("scalar"), Bare("fraction"), Bare("object"), Bare("array"),
             Text("string", <<"]", ",">>), Text("span", <<"LF", ":", "quote">>)}

MCNames == {<<>>, <<"}", "escape">>}

MCCapacities == (0 .. 8) \cup {50}
=============================================================================
