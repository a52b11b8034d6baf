---------------------------- MODULE ReplyReading ----------------------------
(***************************************************************************)
(* What the parser of a response promises for a well-formed one, in terms  *)
(* of its parts and not of its text: the headers come in order, each once, *)
(* then the end of the headers, then the body; reading the status line, or *)
(* the body of a response that has been read, starts over.                 *)
(***************************************************************************)
EXTENDS Naturals, Sequences

VARIABLES
  headers,   \* the headers of the response, pairs of key and value
  body,      \* its body
  next,      \* "status", "header", "body" or "end": the part that comes next
  given,     \* how many headers have been given
  shown      \* the part given last

readingVars == <<headers, body, next, given, shown>>

ReadingInit == next = "status" /\ given = 0 /\ shown = <<"nothing">>

ReadStatus ==
  /\ next' = "header" /\ given' = 0 /\ shown' = <<"status">>

ReadHeader ==
  /\ next = "header" /\ given < Len(headers)
  /\ given' = given + 1 /\ shown' = <<"header", headers[given + 1]>>
  /\ UNCHANGED next

NoMoreHeaders ==
  /\ \/ next = "header" /\ given = Len(headers)
     \/ next = "body"
  /\ next' = "body" /\ shown' = <<"no header">>
  /\ UNCHANGED given

\* Headers can only be asked for between the status line and the body.
RefuseHeader ==
  /\ next \in {"status", "end"} /\ shown' = <<"refused">>
  /\ UNCHANGED <<next, given>>

ReadBody ==
  /\ next = "body" /\ next' = "end" /\ given' = 0 /\ shown' = <<"body", body>>

ReadingNext ==
  /\ UNCHANGED <<headers, body>>
  /\ ReadStatus \/ ReadHeader \/ NoMoreHeaders \/ RefuseHeader \/ ReadBody

ReadingSpec == ReadingInit /\ [][ReadingNext]_readingVars
=============================================================================
