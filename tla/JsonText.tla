------------------------------ MODULE JsonText ------------------------------
(***************************************************************************)
(* The operations of the JSON parser (az_json_parser.c) as operators on    *)
(* what they read and what they keep.                                      *)
(*                                                                         *)
(* A text is a sequence of units: brackets, commas, colons, quotes and     *)
(* white space, "scalar" for a literal or a number, "part" for the         *)
(* beginning of a number that needs more.  What stands between two quotes  *)
(* is a string, whatever the units are; "escape" is an escape sequence and *)
(* has no meaning outside of one.                                          *)
(*                                                                         *)
(* The parser is a position in the text and the containers that are open,  *)
(* as the bits of an integer that fits a machine word: a 1 in front, then  *)
(* 0 for an object or 1 for an array, the innermost last.                  *)
(***************************************************************************)
EXTENDS Span, Integers

CONSTANTS
  Unit,   \* what a text is made of
  Top     \* the value of the highest bit of a word, 2^63 in the code

ASSUME JsonTextAssumption ==
  /\ {"{", "}", "[", "]", ",", ":", "quote", "scalar", "part", "escape",
      " ", "LF", "NUL"} \subseteq Unit
  /\ Top \in Nat \ {0}

\* az_json_stack_item
Object == 0
Array  == 1
Close(item) == IF item = Object THEN "}" ELSE "]"

\* Variant of White: the zero byte behind a text is taken for white space.
WhiteNul == {" ", "LF", "NUL"}

\* az_json_is_white_space
White == {" ", "LF"}

\* Units below ' ', which a string may not hold.
Control == {"LF", "NUL"}

Containers == {"object", "array"}
Kind == Containers \cup {"none", "scalar", "string"}

Views   == [from: Nat, to: Nat]
Nowhere == [from |-> 1, to |-> 0]   \* an empty view
View(text, v) == SubSeq(text, v.from, v.to)

\* The code reads a unit behind the end of its span: there is no telling what
\* comes of it.
ReadBehind == "READ_BEHIND"

\* The results that do not mean that a call has failed.
Fine == {"OK", "ERROR_ITEM_NOT_FOUND"}

(***************************************************************************)
(* An operation is a chain of steps that hand on a record: the result so   *)
(* far, the parser, and the token, which is its kind, the position of its  *)
(* first unit and the name of the member it is the value of.  A step does  *)
(* nothing after a failure (AZ_RETURN_IF_FAILED).                          *)
(***************************************************************************)
Parser(at, stack) ==
  [result |-> "OK", at |-> at, stack |-> stack,
   kind |-> "none", value |-> 0, string |-> Nowhere, name |-> Nowhere]

Fail(p, result) == [p EXCEPT !.result = result]

\* az_span_reader_skip_json_white_space
SkipWhite(text, p) ==
  LET ink == FirstIn(text, p.at, Unit \ White)
  IN  IF p.result # "OK" THEN p
      ELSE [p EXCEPT !.at = IF ink = 0 THEN Len(text) + 1 ELSE ink]

\* _az_is_expected_span, for a single unit
Expect(text, p, unit) ==
  IF p.result # "OK"         THEN p
  ELSE IF p.at > Len(text)   THEN Fail(p, "ERROR_EOF")
  ELSE IF text[p.at] # unit  THEN Fail(p, "ERROR_PARSER_UNEXPECTED_CHAR")
  ELSE [p EXCEPT !.at = @ + 1]

\* az_span_reader_get_json_string_rest, behind the opening quote
StringRest(text, p) ==
  LET stop == FirstIn(text, p.at, {"quote"} \cup Control)
  IN  IF p.result # "OK" THEN p
      ELSE IF stop = 0 THEN
        [p EXCEPT !.result = "ERROR_EOF", !.at = Len(text) + 1]
      ELSE IF text[stop] # "quote" THEN
        [p EXCEPT !.result = "ERROR_PARSER_UNEXPECTED_CHAR", !.at = stop]
      ELSE
        [p EXCEPT !.at = stop + 1, !.string = [from |-> p.at, to |-> stop - 1]]

\* Variants of PushStack: the limit is noticed one level late,
PushStackLate(p, item) ==
  IF p.stack >= 2 * Top
  THEN Fail(p, "ERROR_JSON_NESTING_OVERFLOW")
  ELSE [p EXCEPT !.stack = (2 * @ + item) % (2 * Top)]

\* or one level early.
PushStackEarly(p, item) ==
  IF 2 * p.stack >= Top
  THEN Fail(p, "ERROR_JSON_NESTING_OVERFLOW")
  ELSE [p EXCEPT !.stack = (2 * @ + item) % (2 * Top)]

\* az_json_parser_push_stack: the stack is shifted to the left, in its word.
PushStack(p, item) ==
  IF p.stack >= Top
  THEN Fail(p, "ERROR_JSON_NESTING_OVERFLOW")
  ELSE [p EXCEPT !.stack = (2 * @ + item) % (2 * Top)]

\* az_json_parser_get_value.  What has been passed when it fails stays passed.
GetValue(text, p) ==
  LET unit == text[p.at]
      Token(kind) == [p EXCEPT !.at = @ + 1, !.kind = kind, !.value = p.at]
  IN  IF p.result # "OK" THEN p
      ELSE IF p.at > Len(text) THEN Fail(p, "ERROR_EOF")
      ELSE CASE unit = "scalar" -> Token("scalar")
             [] unit = "part"   -> Fail(Token("scalar"),
                                        IF p.at = Len(text) THEN "ERROR_EOF"
                                        ELSE "ERROR_PARSER_UNEXPECTED_CHAR")
             [] unit = "quote"  -> StringRest(text, Token("string"))
             [] unit = "{"      -> PushStack(Token("object"), Object)
             [] unit = "["      -> PushStack(Token("array"), Array)
             [] OTHER           -> Fail(p, "ERROR_PARSER_UNEXPECTED_CHAR")

GetValueSpace(text, p) == SkipWhite(text, GetValue(text, p))

\* Variant of ReadCommaOrClose: white space behind a comma stays.
ReadCommaOrCloseOnly(text, p) ==
  IF p.result # "OK"        THEN p
  ELSE IF p.at > Len(text)  THEN Fail(p, ReadBehind)
  ELSE IF text[p.at] = ","  THEN [p EXCEPT !.at = @ + 1]
  ELSE IF text[p.at] = Close(p.stack % 2) THEN p
  ELSE Fail(p, "ERROR_PARSER_UNEXPECTED_CHAR")

\* az_json_parser_read_comma_or_close.  It does not look at the length; a
\* closing bracket is left for the next call.
ReadCommaOrClose(text, p) ==
  IF p.result # "OK"        THEN p
  ELSE IF p.at > Len(text)  THEN Fail(p, ReadBehind)
  ELSE IF text[p.at] = ","  THEN SkipWhite(text, [p EXCEPT !.at = @ + 1])
  ELSE IF text[p.at] = Close(p.stack % 2) THEN p
  ELSE Fail(p, "ERROR_PARSER_UNEXPECTED_CHAR")

\* Variant of CheckItemBegin: what follows a closing bracket is not looked at.
CheckItemBeginOnly(text, p, item) ==
  IF p.stack = 1 \/ p.stack % 2 # item THEN Fail(p, "ERROR_JSON_INVALID_STATE")
  ELSE IF p.at > Len(text)             THEN Fail(p, "ERROR_EOF")
  ELSE IF text[p.at] # Close(item)     THEN p
  ELSE Fail(SkipWhite(text, [p EXCEPT !.at = @ + 1, !.stack = @ \div 2]),
            "ERROR_ITEM_NOT_FOUND")

\* az_json_parser_check_item_begin: the end of the container is the end of an
\* item of the one around it, unless that is the whole text.
CheckItemBegin(text, p, item) ==
  LET closed == SkipWhite(text, [p EXCEPT !.at = @ + 1, !.stack = @ \div 2])
      next   == IF closed.stack = 1 THEN closed ELSE ReadCommaOrClose(text, closed)
  IN  IF p.stack = 1 \/ p.stack % 2 # item THEN Fail(p, "ERROR_JSON_INVALID_STATE")
      ELSE IF p.at > Len(text)             THEN Fail(p, "ERROR_EOF")
      ELSE IF text[p.at] # Close(item)     THEN p
      ELSE IF next.result # "OK"           THEN next
      ELSE Fail(next, "ERROR_ITEM_NOT_FOUND")

\* az_json_parser_check_item_end
CheckItemEnd(text, p) ==
  IF p.kind \in Containers THEN p ELSE ReadCommaOrClose(text, p)

\* az_json_parser_parse_token_member
ParseTokenMember(text, p) ==
  LET begun  == CheckItemBegin(text, p, Object)
      named  == StringRest(text, Expect(text, begun, "quote"))
      colon  == Expect(text, SkipWhite(text, named), ":")
      valued == GetValueSpace(text, SkipWhite(text, colon))
  IN  CheckItemEnd(text, [valued EXCEPT !.name = named.string])

\* Variant of ParseArrayItem: what follows the item is not looked at.
ParseArrayItemOnly(text, p) == GetValueSpace(text, CheckItemBegin(text, p, Array))

\* az_json_parser_parse_array_item
ParseArrayItem(text, p) ==
  CheckItemEnd(text, GetValueSpace(text, CheckItemBegin(text, p, Array)))

\* az_json_parser_parse_token
ParseToken(text, p) ==
  LET read == GetValueSpace(text, SkipWhite(text, p))
      over == read.at > Len(text)
  IN  IF p.stack # 1            THEN Fail(p, "ERROR_JSON_INVALID_STATE")
      ELSE IF read.result # "OK" THEN read
      ELSE IF read.kind \in Containers /\ over     THEN Fail(read, "ERROR_EOF")
      ELSE IF read.kind \notin Containers /\ ~ over
                                 THEN Fail(read, "ERROR_PARSER_UNEXPECTED_CHAR")
      ELSE read

\* az_json_parser_done
Done(text, p) ==
  IF p.at <= Len(text) \/ p.stack # 1 THEN Fail(p, "ERROR_JSON_INVALID_STATE")
  ELSE p

\* One pass of the loop of az_json_parser_skip_children.
SkipItem(text, p) ==
  IF p.stack % 2 = Object THEN ParseTokenMember(text, p) ELSE ParseArrayItem(text, p)
=============================================================================
