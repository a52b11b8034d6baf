---------------------------- MODULE JsonBuilding ----------------------------
(***************************************************************************)
(* An application that builds a JSON text in a buffer of fixed size, call  *)
(* by call, and reads it back with the parser.  It opens and closes its    *)
(* containers as they nest; after a failure it may stop or go on.          *)
(***************************************************************************)
EXTENDS JsonBuilder, JsonGrammar, JsonReadBack, SequencesExt

CONSTANTS
  Tokens,      \* the tokens it appends
  MemberNames, \* the names it gives
  Capacities,  \* the sizes of its buffer
  MaxCalls     \* bound on the number of calls

\* A name, and the text of a string, are written as they are: they have to be
\* JSON already, whatever they look like.  A span may hold anything.
Escapeless(text) == \A i \in DOMAIN text : text[i] \notin {"quote", "LF", "NUL"}

ASSUME JsonBuildingAssumption ==
  /\ \A t \in Tokens : /\ t.kind \in Containers \cup Scalars \cup Texts
                       /\ t.value \in Seq(Unit)
                       /\ t.kind = "string" => Escapeless(t.value)
  /\ MemberNames \subseteq Seq(Unit) /\ \A name \in MemberNames : Escapeless(name)
  /\ Capacities \subseteq Nat /\ MaxCalls \in Nat

VARIABLES
  builder,  \* the builder
  nested,   \* history: the containers that are open, outermost first
  written,  \* history: the events of what has been appended
  unbroken, \* history: no call has failed
  calls     \* how many calls there were

buildVars == <<builder, nested, written, unbroken, calls>>

BuildInit ==
  /\ \E capacity \in Capacities : builder = NewBuilder(capacity)
  /\ nested = <<>> /\ written = <<>> /\ unbroken = TRUE /\ calls = 0

\* What a parser shows of a token: a string as it is, a span with an escape
\* sequence for every character that cannot stand in a JSON string.
ShownSpan(value) ==
  [i \in DOMAIN value |->
     IF value[i] \in {"quote", "escape"} \cup Control THEN "escape" ELSE value[i]]

ReadAs(token, name) ==
  [is    |-> CASE token.kind = "fraction" -> "scalar"
               [] token.kind \in Texts    -> "string"
               [] OTHER                   -> token.kind,
   name  |-> name,
   value |-> CASE token.kind = "string" -> token.value
               [] token.kind = "span"   -> ShownSpan(token.value)
               [] OTHER                 -> <<>>]

\* What it shows of the end of a container.
EndEvent == [is |-> "end", name |-> <<>>, value |-> <<>>]

\* A call leaves the builder b behind; the application takes note of it.
Builds(b, event, containers) ==
  /\ calls < MaxCalls
  /\ builder' = b /\ calls' = calls + 1
  /\ unbroken' = (unbroken /\ b.result = "OK")
  /\ IF b.result = "OK" THEN written' = Append(written, event) /\ nested' = containers
     ELSE UNCHANGED <<written, nested>>

Fresh == [builder EXCEPT !.result = "OK"]

OpenWith(token) ==
  CASE token.kind = "object" -> Append(nested, Object)
    [] token.kind = "array"  -> Append(nested, Array)
    [] OTHER                 -> nested

StandsIn(item) == nested # <<>> /\ Last(nested) = item

\* The value that the whole text is.
BuildValue(token) ==
  /\ written = <<>>
  /\ Builds(AppendToken(Fresh, token), ReadAs(token, <<>>), OpenWith(token))

BuildMember(name, token) ==
  /\ StandsIn(Object)
  /\ Builds(AppendObject(Fresh, name, token), ReadAs(token, name), OpenWith(token))

BuildItem(token) ==
  /\ StandsIn(Array)
  /\ Builds(AppendArrayItem(Fresh, token), ReadAs(token, <<>>), OpenWith(token))

CloseObject ==
  /\ StandsIn(Object)
  /\ Builds(AppendObjectClose(Fresh), EndEvent, Front(nested))

CloseArray ==
  /\ StandsIn(Array)
  /\ Builds(AppendArrayClose(Fresh), EndEvent, Front(nested))

BuildNext ==
  \/ \E token \in Tokens : \/ BuildValue(token)
                          \/ BuildItem(token)
                          \/ \E name \in MemberNames : BuildMember(name, token)
  \/ CloseObject \/ CloseArray

BuildSpec == BuildInit /\ [][BuildNext]_buildVars
------------------------------------------------------------------------------
(***************************************************************************)
(* Properties.                                                             *)
(***************************************************************************)
Items == builder.json.items

\* As long as no call has failed, the text lacks nothing but the brackets that
\* close what is open: with them it is JSON, whatever the strings hold, and no
\* comma stands in front of a closing bracket or another comma.
CanBeClosed ==
  unbroken /\ written # <<>> =>
    LET closing == Reverse([i \in DOMAIN nested |-> Close(nested[i])])
        tokens  == Lexed(Items \o closing)
    IN  /\ IsJson(Items \o closing)
        /\ \A i \in 1 .. Len(tokens) - 1 :
             tokens[i] = "," => tokens[i + 1] \notin {"}", "]", ","}

\* A text that has been built without a failure and closed is read back as what
\* was appended: the same kinds of value, under the same names, in the same order,
\* each string with its text.  An escape sequence stands where an escaped
\* character was; which sequence it is the units do not tell, nor which number.
ReadsBack ==
  unbroken /\ written # <<>> /\ nested = <<>> =>
    ReadBack(Items, Len(written)) = [events |-> written, done |-> "OK"]
=============================================================================
