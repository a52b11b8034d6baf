---------------------------- MODULE JsonBuilder ----------------------------
(***************************************************************************)
(* The operations of the JSON builder (az_json_builder.c) as operators: a  *)
(* builder is the text so far, in a span of fixed capacity, the flag that  *)
(* says whether the next item needs a comma in front, and the result of    *)
(* the call so far.  A text is made of the units of JsonText.              *)
(***************************************************************************)
EXTENDS JsonText

\* az_json_builder_init, on a buffer of the given size
NewBuilder(capacity) ==
  [json |-> EmptySpan(capacity), needComma |-> FALSE, result |-> "OK"]

\* The tokens that can be appended: a scalar is null, a boolean or an integer; a
\* number that is none is not implemented.  A string is written as it is, a
\* span is escaped.
Bare(kind)        == [kind |-> kind, value |-> <<>>]
Text(kind, value) == [kind |-> kind, value |-> value]
Scalars == {"scalar", "fraction"}
Texts   == {"string", "span"}

\* az_span_append to the text, unless the call has failed before.
Write(b, units) ==
  LET appended == SpanAppend(b.json, units)
  IN  IF b.result # "OK" THEN b
      ELSE [b EXCEPT !.json = appended.object, !.result = appended.result]

\* az_json_builder_append_str
AppendStr(b, value) == Write(Write(Write(b, <<"quote">>), value), <<"quote">>)

\* Variant of Escaped: what cannot be written as it is is left out.
EscapedDropped(unit) == IF unit \in Control \cup {"quote", "escape"} THEN <<>> ELSE <<unit>>

\* _az_json_esc_encode, or the hexadecimal form of a control character: both are
\* one escape sequence.
Escaped(unit) ==
  IF unit \in Control \cup {"quote", "escape"} THEN <<"escape">> ELSE <<unit>>

\* az_json_builder_write_span: character by character
WriteQuoted(b, pieces) ==
  LET write[n \in 0 .. Len(pieces)] ==
        IF n = 0 THEN Write(b, <<"quote">>) ELSE Write(write[n - 1], pieces[n])
  IN  Write(write[Len(pieces)], <<"quote">>)

WriteSpan(b, value) == WriteQuoted(b, [i \in DOMAIN value |-> Escaped(value[i])])

\* Variant of Marked: a container leaves the flag as it is.
MarkedOnce(b, token) ==
  IF b.result # "OK" THEN b
  ELSE [b EXCEPT !.needComma = @ \/ token.kind \notin Containers]

\* The first item of a container needs no comma, what follows a value does.
Marked(b, token) ==
  IF b.result # "OK" THEN b
  ELSE [b EXCEPT !.needComma = token.kind \notin Containers]

\* az_span_append_double of a negative fraction, whose sign is written.
Refuse(b) ==
  LET signed == Write(b, <<"part">>)
  IN  IF signed.result = "OK" THEN [signed EXCEPT !.result = "ERROR_NOT_IMPLEMENTED"]
      ELSE signed

\* az_json_builder_append_token: the flag is set in front of the append, which
\* may fail.
AppendToken(b, token) ==
  LET marked == Marked(b, token)
  IN  CASE token.kind = "scalar"   -> Write(marked, <<"scalar">>)
        [] token.kind = "fraction" -> Refuse(marked)
        [] token.kind = "string"   -> AppendStr(marked, token.value)
        [] token.kind = "span"     -> WriteSpan(marked, token.value)
        [] token.kind = "object"   -> Write(marked, <<"{">>)
        [] token.kind = "array"    -> Write(marked, <<"[">>)

\* az_json_builder_write_comma
WriteComma(b) == IF b.needComma THEN Write(b, <<",">>) ELSE b

\* az_json_builder_append_object
AppendObject(b, name, token) ==
  AppendToken(Write(AppendStr(WriteComma(b), name), <<":">>), token)

\* az_json_builder_append_array_item
AppendArrayItem(b, token) == AppendToken(WriteComma(b), token)

\* Variant of WriteClose: what follows a container gets no comma.
WriteCloseBare(b, bracket) == Write(b, <<bracket>>)

\* az_json_builder_write_close: here the flag is set behind the append.
WriteClose(b, bracket) ==
  LET closed == Write(b, <<bracket>>)
  IN  IF closed.result = "OK" THEN [closed EXCEPT !.needComma = TRUE] ELSE closed

AppendObjectClose(b) == WriteClose(b, Close(Object))
AppendArrayClose(b)  == WriteClose(b, Close(Array))
=============================================================================
