---------------------------- MODULE JsonReading ----------------------------
(***************************************************************************)
(* What reading a JSON document promises, in terms of the document and not *)
(* of its text: values come in order, each once, with their names; the end *)
(* of a container is told where it is; what is skipped is the rest of the  *)
(* innermost container that is open; and nothing else is granted.          *)
(*                                                                         *)
(* A document is a sequence of events: a value, [is, name], where is says  *)
(* whether it is a scalar, a string or the beginning of an object or an    *)
(* array, or the end of the innermost container, [is |-> "end"].           *)
(***************************************************************************)
EXTENDS Naturals, Sequences, FiniteSets

VARIABLES
  document,  \* the events
  next,      \* the index of the next one
  shown      \* what was asked for last, and what came of it

readingVars == <<document, next, shown>>

Opens(i) == document[i].is \in {"object", "array"}
Ends(i)  == document[i].is = "end"

\* How many containers are open behind the i-th event.
Depth(i) == Cardinality({j \in 1 .. i : Opens(j)}) - Cardinality({j \in 1 .. i : Ends(j)})

\* The innermost of them: the last that is open from its beginning on.
Innermost(i) ==
  LET open == {j \in 1 .. i : Opens(j) /\ \A k \in j .. i : Depth(k) >= Depth(j)}
  IN  document[CHOOSE j \in open : \A k \in open : k <= j].is

\* Where it ends.
EndOf(i) ==
  CHOOSE j \in i + 1 .. Len(document) :
    Depth(j) < Depth(i) /\ \A k \in i + 1 .. j - 1 : Depth(k) >= Depth(i)

Inside == next > 1 /\ next <= Len(document)
Asked(of) == \/ of = "token" /\ next = 1
             \/ of = "member" /\ Inside /\ Innermost(next - 1) = "object"
             \/ of = "item" /\ Inside /\ Innermost(next - 1) = "array"
             \/ of = "skip" /\ Inside
             \/ of = "done" /\ next = Len(document) + 1

ReadingInit == next = 1 /\ shown = <<"nothing">>

GiveValue(of) ==
  /\ of \in {"token", "member", "item"} /\ Asked(of) /\ ~ Ends(next)
  /\ next' = next + 1 /\ shown' = <<of, "value", document[next]>>

TellEnd(of) ==
  /\ of \in {"member", "item"} /\ Asked(of) /\ Ends(next)
  /\ next' = next + 1 /\ shown' = <<of, "end">>

SkipRest ==
  /\ Asked("skip")
  /\ next' = EndOf(next - 1) + 1 /\ shown' = <<"skip", "done">>

\* A value that is no container has nothing to be skipped.
SkipNothing == next' = next /\ shown' = <<"skip", "nothing">>

Finish == Asked("done") /\ next' = next /\ shown' = <<"done", "done">>

Refuse(of) == ~ Asked(of) /\ next' = next /\ shown' = <<of, "refused">>

ReadingNext ==
  /\ UNCHANGED document
  /\ \/ \E of \in {"token", "member", "item", "skip", "done"} :
          GiveValue(of) \/ TellEnd(of) \/ Refuse(of)
     \/ SkipRest \/ SkipNothing \/ Finish

ReadingSpec == ReadingInit /\ [][ReadingNext]_readingVars
=============================================================================
