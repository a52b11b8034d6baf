---------------------------- MODULE JsonPointer ----------------------------
(***************************************************************************)
(* az_json_parse_by_pointer (az_json_get.c, az_json_pointer.c): a JSON     *)
(* pointer is followed through a text, token by token.  The members and    *)
(* items in front of the wanted one are read and their children skipped;   *)
(* a pass of one of these loops is a step.                                 *)
(*                                                                         *)
(* The characters of pointers and names are units.  In a name, "escape"    *)
(* stands for an escaped solidus.  Digits only stand in names here: a      *)
(* number is a "scalar".                                                   *)
(***************************************************************************)
EXTENDS JsonCursor, FiniteSets

CONSTANTS
  Pointers   \* the pointers to be followed

Digits == {"0", "1"}

ASSUME JsonPointerAssumption ==
  /\ {"/", "~"} \cup Digits \subseteq Unit
  /\ Pointers \subseteq Seq(Unit)

VARIABLES
  pointer,  \* the pointer
  next,     \* position of the first character of it that remains
  token,    \* the value that has been reached, [kind, value, name]
  name,     \* the token of it that is looked for
  count,    \* how many items are in front of the one it means
  goal,     \* the stack with which skip_children ends
  step,     \* "begin", "pointer", "item", "member", "skip" or "returned"
  result,
  turn      \* history: changes with every pass of a loop

searchVars == <<text, events, at, stack, pointer, next, token, name, count,
                goal, step, result, turn>>

TokenOf(p) == [kind |-> p.kind, value |-> p.value, name |-> p.name]

(***************************************************************************)
(* Pointers.                                                               *)
(***************************************************************************)
\* The end of the token that begins at i: the position of '/', or behind all.
TokenEnd(i) ==
  LET stop == FirstIn(pointer, i, {"/"})
  IN  IF stop = 0 THEN Len(pointer) + 1 ELSE stop

\* The positions of a '~' in it that begins no escape sequence.
BadTildes(i) ==
  {j \in i .. TokenEnd(i) - 1 :
     pointer[j] = "~" /\ (j = Len(pointer) \/ pointer[j + 1] \notin {"0", "1"})}

\* _az_span_reader_read_json_pointer_token
PointerToken ==
  LET tildes == BadTildes(next + 1)
  IN  IF next > Len(pointer)        THEN "ERROR_ITEM_NOT_FOUND"
      ELSE IF pointer[next] # "/"   THEN "ERROR_PARSER_UNEXPECTED_CHAR"
      ELSE IF tildes = {}           THEN "OK"
      ELSE IF tildes = {Len(pointer)} THEN "ERROR_EOF"
      ELSE "ERROR_PARSER_UNEXPECTED_CHAR"

\* az_span_reader_read_json_pointer_char, one after another, for a good token.
PlainToken(t) ==
  LET plain[i \in 1 .. Len(t) + 1] ==
        IF i = Len(t) + 1   THEN <<>>
        ELSE IF t[i] = "~"  THEN <<IF t[i + 1] = "0" THEN "~" ELSE "/">> \o plain[i + 2]
        ELSE <<t[i]>> \o plain[i + 1]
  IN  plain[1]

\* _az_span_reader_read_json_string_char, one after another
PlainName(n) == [i \in DOMAIN n |-> IF n[i] = "escape" THEN "/" ELSE n[i]]

\* Variant of IsNamed: the characters are compared as they are written.
IsNamedRaw(t, n) == t = n

\* az_json_pointer_token_eq_json_string
IsNamed(t, n) == PlainToken(t) = PlainName(n)

\* az_span_to_uint64, of numbers that fit its 64 bits, as a result and a number
Number(t) ==
  LET value[i \in 0 .. Len(t)] ==
        IF i = 0 THEN 0 ELSE 10 * value[i - 1] + (IF t[i] = "1" THEN 1 ELSE 0)
  IN  IF t = <<>> THEN [result |-> "ERROR_EOF", value |-> 0]
      ELSE IF \E i \in DOMAIN t : t[i] \notin Digits
           THEN [result |-> "ERROR_PARSER_UNEXPECTED_CHAR", value |-> 0]
      ELSE [result |-> "OK", value |-> value[Len(t)]]

(***************************************************************************)
(* Actions.                                                                *)
(***************************************************************************)
SearchInit ==
  /\ CursorInit
  /\ pointer \in Pointers /\ next = 1
  /\ token = TokenOf(Now) /\ name = <<>> /\ count = 0 /\ goal = 1
  /\ step = "begin" /\ result = "OK" /\ turn = TRUE

Return(r) == step' = "returned" /\ result' = r

\* The parser as a call leaves it behind, which has failed or goes on; and the
\* token, which a call writes that gets as far as a value.
Moved(p) == at' = p.at /\ stack' = p.stack
Reads(p) == token' = IF p.kind = "none" THEN token ELSE TokenOf(p)

ParseRoot ==
  /\ step = "begin"
  /\ LET p == ParseToken(text, Now)
     IN  /\ Moved(p) /\ Reads(p)
         /\ IF p.result = "OK" THEN step' = "pointer" /\ UNCHANGED result
            ELSE Return(p.result)
  /\ UNCHANGED <<text, events, pointer, next, name, count, goal, turn>>

\* The pointer is at its end: the value has been found.  Or it is none.
EndOfPointer ==
  /\ step = "pointer" /\ PointerToken # "OK"
  /\ Return(IF PointerToken = "ERROR_ITEM_NOT_FOUND" THEN "OK" ELSE PointerToken)
  /\ UNCHANGED <<text, events, at, stack, pointer, next, token, name, count, goal, turn>>

\* az_json_parser_get_by_pointer_token, up to its loops
LookFor ==
  /\ step = "pointer" /\ PointerToken = "OK"
  /\ next' = TokenEnd(next + 1)
  /\ name' = SubSeq(pointer, next + 1, next' - 1)
  /\ LET number == Number(name')
     IN  \/ /\ token.kind = "array" /\ number.result = "OK"
            /\ step' = "item" /\ count' = number.value /\ UNCHANGED result
         \/ /\ token.kind = "array" /\ number.result # "OK"
            /\ Return(number.result) /\ UNCHANGED count
         \/ /\ token.kind = "object"
            /\ step' = "member" /\ UNCHANGED <<count, result>>
         \/ /\ token.kind \notin Containers
            /\ Return("ERROR_ITEM_NOT_FOUND") /\ UNCHANGED count
  /\ UNCHANGED <<text, events, at, stack, pointer, token, goal, turn>>

\* az_json_parser_skip_children of what p has read, up to its loop; what is
\* looked for then is still in front of the parser.
StepOver(p, loop) ==
  IF p.kind \notin Containers
  THEN step' = loop /\ UNCHANGED <<goal, result>>
  ELSE step' = "skip" /\ goal' = p.stack \div 2 /\ UNCHANGED result

\* Variant of TryItem: nothing is skipped.
TryItemFlat ==
  /\ step = "item" /\ turn' = ~ turn
  /\ LET p == ParseArrayItem(text, Now)
     IN  /\ Moved(p) /\ Reads(p)
         /\ IF p.result # "OK" THEN Return(p.result) /\ UNCHANGED <<count, goal>>
            ELSE IF count = 0
                 THEN step' = "pointer" /\ UNCHANGED <<count, goal, result>>
            ELSE count' = count - 1 /\ UNCHANGED <<step, goal, result>>
  /\ UNCHANGED <<text, events, pointer, next, name>>

TryItem ==
  /\ step = "item" /\ turn' = ~ turn
  /\ LET p == ParseArrayItem(text, Now)
     IN  /\ Moved(p) /\ Reads(p)
         /\ IF p.result # "OK" THEN Return(p.result) /\ UNCHANGED <<count, goal>>
            ELSE IF count = 0
                 THEN step' = "pointer" /\ UNCHANGED <<count, goal, result>>
            ELSE count' = count - 1 /\ StepOver(p, "item")
  /\ UNCHANGED <<text, events, pointer, next, name>>

TryMember ==
  /\ step = "member" /\ turn' = ~ turn
  /\ LET p == ParseTokenMember(text, Now)
     IN  /\ Moved(p)
         /\ IF p.result # "OK" THEN Return(p.result) /\ UNCHANGED <<token, goal>>
            ELSE IF IsNamed(name, View(text, p.name))
                 THEN /\ token' = TokenOf(p) /\ step' = "pointer"
                      /\ UNCHANGED <<goal, result>>
            ELSE StepOver(p, "member") /\ UNCHANGED token
  /\ UNCHANGED <<text, events, pointer, next, name, count>>

\* Variant of SearchPass: it does not end with an error.
SearchPassOn ==
  /\ step = "skip" /\ turn' = ~ turn
  /\ LET p == SkipItem(text, Now)
     IN  /\ at' = p.at /\ stack' = p.stack
         /\ IF p.stack = goal THEN step' = IF stack % 2 = 0 THEN "member" ELSE "item"
            ELSE UNCHANGED step
  /\ UNCHANGED <<text, events, pointer, next, token, name, count, goal, result>>

\* A pass of the loop of az_json_parser_skip_children.  It has been called for
\* an item or a member of the container around.
SearchPass ==
  /\ step = "skip" /\ turn' = ~ turn
  /\ LET p == SkipItem(text, Now)
     IN  /\ Moved(p)
         /\ IF p.result \notin Fine THEN Return(p.result)
            ELSE IF p.stack # goal THEN UNCHANGED <<step, result>>
            ELSE /\ step' = IF goal % 2 = Object THEN "member" ELSE "item"
                 /\ UNCHANGED result
  /\ UNCHANGED <<text, events, pointer, next, token, name, count, goal>>

SearchNext == ParseRoot \/ EndOfPointer \/ LookFor \/ TryItem \/ TryMember \/ SearchPass

SearchSpec == SearchInit /\ [][SearchNext]_searchVars
------------------------------------------------------------------------------
(***************************************************************************)
(* What a pointer refers to, in terms of the events of a document.         *)
(***************************************************************************)
IsValue(j) == events[j].is # "end"
Opening(S) == Cardinality({j \in S : events[j].is \in Containers})
Ending(S)  == Cardinality({j \in S : events[j].is = "end"})

\* How many containers are open in front of the j-th event.
Level(j) == Opening(1 .. j - 1) - Ending(1 .. j - 1)

\* The items of the container that the j-th event opens.
Children(j) ==
  {k \in j + 1 .. Len(events) :
     /\ IsValue(k) /\ Level(k) = Level(j) + 1
     /\ \A m \in j + 1 .. k : Level(m) > Level(j)}

\* The ones of them that a name or a number means: the first of its name, or
\* the one with so many in front of it.
Meant(j, segment) ==
  {k \in Children(j) :
     CASE events[j].is = "array" ->
            /\ Number(segment).result = "OK"
            /\ Cardinality({m \in Children(j) : m < k}) = Number(segment).value
       [] events[j].is = "object" ->
            /\ PlainName(events[k].name) = PlainToken(segment)
            /\ \A m \in Children(j) : m < k => PlainName(events[m].name) # PlainToken(segment)}

\* Where the tokens of the pointer begin.
Solidi == {i \in DOMAIN pointer : pointer[i] = "/"}

IsPointer == /\ pointer # <<>> => pointer[1] = "/"
             /\ \A i \in Solidi : BadTildes(i + 1) = {}

\* The events that its first n tokens lead to: one, or none.
Reached ==
  LET nth(n) ==
        LET i == CHOOSE i \in Solidi : Cardinality({k \in Solidi : k < i}) = n - 1
        IN  SubSeq(pointer, i + 1, TokenEnd(i + 1) - 1)
      reach[n \in 0 .. Cardinality(Solidi)] ==
        IF n = 0 THEN {1} ELSE UNION {Meant(j, nth(n)) : j \in reach[n - 1]}
  IN  IF IsPointer THEN reach[Cardinality(Solidi)] ELSE {}

(***************************************************************************)
(* Properties.                                                             *)
(***************************************************************************)
\* In a well-formed document, a pointer leads to the value that it means, and
\* to none exactly if it means none: items are counted from 0 and the first of
\* several members of one name is taken, however deep the items are that were
\* skipped, and however '/' and '~' are written.
FindsValue ==
  step = "returned" /\ events # <<>> =>
    /\ result = "OK" <=> Reached # {}
    /\ result = "OK" => /\ Reached = {Passed(at)}
                        /\ token.kind = events[Passed(at)].is

\* In any text, what is found is as deep in the text as the pointer is long:
\* the text in front of it has been read as what it is.
StandsAtDepth ==
  step = "returned" /\ result = "OK" =>
    Nesting(SubSeq(text, 1, token.value - 1)) = Cardinality(Solidi)

\* In a text that ends with a zero byte, as a reply's body does, nothing behind
\* its end is looked at, however the values are skipped that do not matter.
SearchStaysInText ==
  (text # <<>> /\ text[Len(text)] = "NUL") => result # ReadBehind

\* The search ends, whatever the text and the pointer are: every step but the
\* last one reads something of the text or of the pointer.
SearchAdvances == [][step' = "returned" \/ at' > at \/ next' > next]_searchVars
=============================================================================
