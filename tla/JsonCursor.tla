----------------------------- MODULE JsonCursor -----------------------------
(***************************************************************************)
(* A text and the az_json_parser that reads it: what the application that  *)
(* calls the parser and the search by pointer have in common.              *)
(***************************************************************************)
EXTENDS JsonGrammar

CONSTANTS
  Documents   \* what there is to be read: [text, events], where events are those
              \* of a well-formed text, [is, name, end], and
              \* none are known of any other

ASSUME JsonCursorAssumption == \A d \in Documents : d.text \in Seq(Unit)

VARIABLES
  text,    \* what is read
  events,  \* history: the events that the text was put together from
  at,      \* the parser: position of the first unit that remains
  stack    \* the parser: the containers that are open

Now == Parser(at, stack)

\* az_json_parser_init
CursorInit ==
  /\ \E d \in Documents : text = d.text /\ events = d.events
  /\ at = 1 /\ stack = 1

\* How many events are in front of p.  An event's last unit is at end - 1.
Passed(p) == Len(SelectSeq(events, LAMBDA e : e.end <= p))
=============================================================================
