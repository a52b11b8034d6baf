----------------------------- MODULE JsonParser -----------------------------
(***************************************************************************)
(* An application that reads a JSON text with the parser, in any order of  *)
(* calls.  az_json_parser_skip_children is a loop of calls; one pass of it *)
(* is a step.                                                              *)
(***************************************************************************)
EXTENDS JsonCursor

VARIABLES
  answer,  \* what was asked for last, and what came of it
  user,    \* "none", or "skip" in the loop of skip_children
  target,  \* the stack with which that loop ends
  from,    \* history: where the parser was when the loop began
  sound    \* history: no call has failed

vars == <<text, events, at, stack, answer, user, target, from, sound>>

Init ==
  /\ CursorInit
  /\ answer = [of |-> "nothing", token |-> Parser(1, 1)]
  /\ user = "none" /\ target = 1 /\ from = 1
  /\ sound = TRUE

\* The application makes a call, which leaves the parser p behind.
Returns(of, p) ==
  /\ user = "none" /\ answer.token.result # ReadBehind
  /\ at' = p.at /\ stack' = p.stack
  /\ answer' = [of |-> of, token |-> p]
  /\ sound' = (sound /\ p.result \in Fine)
  /\ UNCHANGED <<text, events, user, target, from>>

ReadToken  == Returns("token", ParseToken(text, Now))
ReadMember == Returns("member", ParseTokenMember(text, Now))
ReadItem   == Returns("item", ParseArrayItem(text, Now))
AskDone    == Returns("done", Done(text, Now))

\* az_json_parser_skip_children, of a token that is no container, or is one
\* although none is open,
SkipNothing == Returns("skip nothing", Now)
SkipRefused == stack <= 1 /\ Returns("skip", Fail(Now, "ERROR_JSON_INVALID_STATE"))

\* or of one that is.
SkipChildren ==
  /\ user = "none" /\ answer.token.result # ReadBehind /\ stack > 1
  /\ user' = "skip" /\ target' = stack \div 2 /\ from' = at
  /\ UNCHANGED <<text, events, at, stack, answer, sound>>

\* Variant of SkipPass: it does not end with an error.
SkipPassOn ==
  /\ user = "skip"
  /\ LET p == SkipItem(text, Now)
     IN  /\ at' = p.at /\ stack' = p.stack
         /\ IF p.stack = target
            THEN /\ user' = "none"
                 /\ answer' = [of |-> "skip", token |-> [p EXCEPT !.result = "OK"]]
            ELSE UNCHANGED <<user, answer>>
         /\ sound' = (sound /\ p.result \in Fine)
  /\ UNCHANGED <<text, events, target, from>>

SkipPass ==
  /\ user = "skip"
  /\ LET p == SkipItem(text, Now)
     IN  /\ at' = p.at /\ stack' = p.stack
         /\ \/ /\ p.result \in Fine /\ p.stack # target
               /\ UNCHANGED <<user, answer>>
            \/ /\ p.result \in Fine /\ p.stack = target
               /\ user' = "none"
               /\ answer' = [of |-> "skip", token |-> [p EXCEPT !.result = "OK"]]
            \/ /\ p.result \notin Fine
               /\ user' = "none" /\ answer' = [of |-> "skip", token |-> p]
         /\ sound' = (sound /\ p.result \in Fine)
  /\ UNCHANGED <<text, events, target, from>>

Next == \/ ReadToken \/ ReadMember \/ ReadItem \/ AskDone
        \/ SkipNothing \/ SkipRefused \/ SkipChildren \/ SkipPass

Spec == Init /\ [][Next]_vars
------------------------------------------------------------------------------
(***************************************************************************)
(* Properties.                                                             *)
(***************************************************************************)
Parsers == [result: AzResults \cup {ReadBehind},
            at: 1 .. Len(text) + 1, stack: 1 .. 2 * Top - 1,
            kind: Kind, value: Nat, string: Views, name: Views]

\* Every variable has its type; the stack in particular has its first bit, and
\* is never shifted out of its word.
TypeOK ==
  /\ text \in Seq(Unit)
  /\ at \in 1 .. Len(text) + 1
  /\ stack \in 1 .. 2 * Top - 1
  /\ answer \in [of: {"nothing", "token", "member", "item", "done", "skip nothing",
                      "skip"}, token: Parsers]
  /\ user \in {"none", "skip"}
  /\ target \in 1 .. Top
  /\ from \in 1 .. Len(text) + 1
  /\ sound \in BOOLEAN

\* The parser looks at the unit behind a value without a look at the length
\* (az_json_parser.c:351).  The zero byte that the transport puts behind a body
\* stops it: it looks at nothing behind the end of a text that has one.
ReadsOnlyText ==
  (text # <<>> /\ text[Len(text)] = "NUL") => answer.token.result # ReadBehind

\* While no call has failed, the stack holds the containers that are open at
\* the parser's position, whatever has been read and skipped.
StackIsPath == sound => stack = Path(SubSeq(text, 1, at - 1))

\* Nesting is refused as too deep exactly one level behind the deepest that the
\* word holds: 63 levels are read, the 64th is not (test/main.c:357, 369).
NestingLimit ==
  [][sound /\ answer'.token.result = "ERROR_JSON_NESTING_OVERFLOW"
       => 2 ^ (Nesting(SubSeq(text, 1, at' - 1)) - 1) = Top]_vars

\* When the application is told that the text is complete, having read a value
\* and without a failure on the way, it is JSON: no text with brackets that do
\* not match, or with anything between, before or behind values that does not
\* belong there, gets that far, whatever the order of calls.
DoneMeansJson ==
  answer.of = "done" /\ sound /\ at > 1 => IsJson(text)

\* The loop of skip_children ends, whatever the text is: every pass that is not
\* the last has read something.
SkipAdvances == [][user = "skip" => user' = "none" \/ at' > at]_vars

Event(e) == IF e.is = "end" THEN [is |-> "end"] ELSE [is |-> e.is, name |-> e.name]

Shown ==
  LET of == answer.of
      token == answer.token
  IN  CASE of = "nothing"      -> <<"nothing">>
        [] of = "skip nothing" -> <<"skip", "nothing">>
        [] of \in {"skip", "done"} ->
             <<of, IF token.result = "OK" THEN "done" ELSE "refused">>
        [] of \in {"token", "member", "item"} ->
             CASE token.result = "OK" ->
                    <<of, "value", [is |-> token.kind, name |-> View(text, token.name)]>>
               [] token.result = "ERROR_ITEM_NOT_FOUND" -> <<of, "end">>
               [] OTHER -> <<of, "refused">>

Read == INSTANCE JsonReading WITH
  document <- [i \in DOMAIN events |-> Event(events[i])],
  next     <- Passed(IF user = "skip" THEN from ELSE at) + 1,
  shown    <- Shown

\* Well-formed documents are read as what they are, in whatever order the calls
\* come: every value once and in order, skipping lands behind the container,
\* and the calls that do not fit the document are refused without effect.
GivesDocument ==
  /\ events # <<>> => Read!ReadingInit
  /\ [][events # <<>> => [Read!ReadingNext]_(Read!readingVars)]_vars
=============================================================================
