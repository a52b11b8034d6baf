--------------------------- MODULE ResponseReader ---------------------------
(***************************************************************************)
(* The parser of a response (az_http_response.c) and the two that use it   *)
(* on the same response: the log, which reads it while it builds its       *)
(* message, and then the application.                                      *)
(*                                                                         *)
(* The text of a response is a sequence of units: the delimiters, digits,  *)
(* "HTTP/", other characters.  The parser's span of what remains is always *)
(* a tail of the text, so it is the position at of its first unit; spans   *)
(* handed out are views of the text, pairs of positions.                   *)
(*                                                                         *)
(* The log and az_http_response_get_body read headers in a loop.  One pass *)
(* of the loop is a step here, and user says who is in it.                 *)
(***************************************************************************)
EXTENDS Span, Integers, FiniteSets

CONSTANTS
  Unit,      \* what a text is made of
  Responses, \* what an exchange can leave behind: [text, parts, returned], where
             \* parts tell what a well-formed text consists of (Consists)
  MaxLines   \* header lines for which a log message has room

ASSUME ReaderAssumption ==
  /\ {"HTTP/", "digit", ".", " ", "TAB", ":", "CR", "LF", "NUL"} \subseteq Unit
  /\ \A r \in Responses : r.text \in Seq(Unit) /\ r.returned \in AzResults
  /\ MaxLines \in Nat

\* The text ends with the zero byte that the transport appends.
Terminated(t) == t # <<>> /\ t[Len(t)] = "NUL"

\* It is appended when the reply is complete, and an exchange in which it does not
\* fit fails (az_curl.c:489).  Of one that has failed there may be any part of a
\* reply, and no zero byte.
ASSUME SuccessTerminates ==
  \A r \in Responses : r.returned = "OK" => Terminated(r.text)

\* Variant of White: a tab is not white space.
WhiteBlank == {" "}

\* _az_is_http_whitespace
White == {" ", "TAB"}

\* Variant of Control: only the line feed ends a value that lacks its CR.
ControlLineFeed == {"LF"}

\* Units up to ' ' that a value may not hold, besides CR.
Control == {"LF", "NUL"}

\* The code reads a unit behind the end of its span: there is no telling what
\* comes of it, and the model stops.
ReadBehind == "READ_BEHIND"

Nowhere == [from |-> 1, to |-> 0]   \* an empty view
View(text, v) == SubSeq(text, v.from, v.to)
------------------------------------------------------------------------------
(***************************************************************************)
(* The three operations on a text, for a parser at position at.            *)
(***************************************************************************)

StatusPattern == <<"HTTP/", "digit", ".", "digit", " ",
                   "digit", "digit", "digit", " ">>

\* How much of the pattern the text starts with.
Matched(text) ==
  LET Agree(n) == \A i \in 1 .. n : i <= Len(text) /\ text[i] = StatusPattern[i]
  IN  CHOOSE n \in 0 .. 9 : Agree(n) /\ (n < 9 => ~ Agree(n + 1))

\* _az_get_http_status_line, from the beginning of the text.  The digits are
\* read without a look at the length, those of the code as a span of three.
ReadStatusLine(text) ==
  LET n  == Matched(text)
      lf == FirstIn(text, 10, {"LF"})
      Outcome(result, at) == [result |-> result, at |-> at]
  IN  CASE n < 9 /\ n >= Len(text) -> Outcome(IF StatusPattern[n + 1] = "digit"
                                              THEN ReadBehind ELSE "ERROR_EOF",
                                              IF n \in 5 .. 7 THEN 6 ELSE n + 1)
        [] n < 9 /\ n < Len(text)  -> Outcome("ERROR_PARSER_UNEXPECTED_CHAR",
                                              IF n \in 5 .. 7 THEN 6 ELSE n + 1)
        [] n = 9 /\ lf = 0         -> Outcome("ERROR_ITEM_NOT_FOUND", 10)
        [] n = 9 /\ lf > 0         -> Outcome("OK", lf + 1)

\* A header is not found, or not all of it.
NoField(result, at) == [result |-> result, at |-> at, key |-> Nowhere,
                        value |-> Nowhere]

\* The last position of a value that starts at start and is ended by stop.
LastInk(text, start, stop) ==
  CHOOSE p \in start - 1 .. stop - 1 :
    /\ p >= start => text[p] \notin White
    /\ \A q \in p + 1 .. stop - 1 : text[q] \in White

\* What az_http_response_get_next_header finds at position at: the blank line
\* that ends the headers,
ReadBlankLine(text, at) ==
  IF at = Len(text)           THEN NoField("ERROR_EOF", at)
  ELSE IF text[at + 1] = "LF" THEN NoField("ERROR_ITEM_NOT_FOUND", at + 2)
  ELSE                             NoField("ERROR_PARSER_UNEXPECTED_CHAR", at)

\* or a name that goes up to the next colon, and a value up to the next CR, from
\* which white space is removed at both ends.  What has been passed when the
\* code gives up is not read again.
ReadField(text, at) ==
  LET colon == FirstIn(text, at, {":"})
      start == FirstIn(text, colon + 1, Unit \ White)
      stop  == FirstIn(text, start, {"CR"} \cup Control)
  IN  IF colon = 0                 THEN NoField("ERROR_ITEM_NOT_FOUND", at)
      ELSE IF start = 0            THEN NoField("ERROR_ITEM_NOT_FOUND", colon + 1)
      ELSE IF stop = 0             THEN NoField(ReadBehind, start)
      ELSE IF text[stop] # "CR"    THEN NoField("ERROR_PARSER_UNEXPECTED_CHAR", start)
      ELSE IF stop = Len(text)     THEN NoField("ERROR_EOF", stop + 1)
      ELSE IF text[stop + 1] # "LF" THEN NoField("ERROR_PARSER_UNEXPECTED_CHAR", stop + 1)
      ELSE [result |-> "OK", at |-> stop + 2,
            key    |-> [from |-> at, to |-> colon - 1],
            value  |-> [from |-> start, to |-> LastInk(text, start, stop)]]
------------------------------------------------------------------------------
(***************************************************************************)
(* What it means that the parts of a text are known.                       *)
(***************************************************************************)

\* Where the header behind the first i begins, or the blank line.
Behind(known, i) == IF i = 0 THEN known.start ELSE known.ends[i]

\* From begin and in front of end the text holds a header, a pair of name and
\* value: the name, a colon, the value with blanks around it, CR and LF.
HoldsHeader(t, begin, end, header) ==
  LET Blanks(from, to) == \A q \in from .. to : t[q] \in {" ", "TAB"}
  IN  \E colon, first, last \in begin .. end :
        /\ colon < first /\ first <= last + 1 /\ last + 2 < end
        /\ header = <<SubSeq(t, begin, colon - 1), SubSeq(t, first, last)>>
        /\ t[begin] # "CR" /\ t[colon] = ":" /\ t[end - 2] = "CR" /\ t[end - 1] = "LF"
        /\ \A q \in begin .. colon - 1 : t[q] # ":"
        /\ \A q \in first .. last : t[q] \notin {"CR", "LF", "NUL"}
        /\ Blanks(colon + 1, first - 1) /\ Blanks(last + 1, end - 3)
        /\ IF last < first THEN first = end - 2
           ELSE t[first] \notin {" ", "TAB"} /\ t[last] \notin {" ", "TAB"}

\* A status line, the headers from start up to their ends, a blank line, and the
\* body, to which the zero byte behind the response counts, if there is one.
Consists(t, known) ==
  LET n == Len(known.ends)
  IN  /\ known.ends \in Seq(Nat) /\ Len(known.headers) = n
      /\ \A i \in 1 .. 9 : t[i] = StatusPattern[i]
      /\ known.start \in 11 .. Len(t) /\ t[known.start - 1] = "LF"
      /\ \A q \in 10 .. known.start - 2 : t[q] # "LF"
      /\ \A i \in 1 .. n : /\ HoldsHeader(t, Behind(known, i - 1), Behind(known, i),
                                            known.headers[i])
                           /\ \A j \in 0 .. i - 1 : Behind(known, j) < Behind(known, i)
      /\ Behind(known, n) + 1 <= Len(t)
      /\ t[Behind(known, n)] = "CR" /\ t[Behind(known, n) + 1] = "LF"
      /\ known.body = SubSeq(t, Behind(known, n) + 2, Len(t))

ASSUME KnownParts ==
  \A r \in Responses : r.parts.known => Consists(r.text, r.parts)
------------------------------------------------------------------------------
VARIABLES
  text,    \* what the transport has written into the response
  parts,   \* history: the parts the service put it together from
  returned, \* history: what the exchange has returned
  at,      \* the parser: position of the first unit that remains
  kind,    \* the parser: what it reads next
  answer,  \* the last element read: what was asked for and what was found
  user,    \* who reads: nobody, the log's or get_body's loop over the headers
  lines    \* header lines in the log's message

vars == <<text, parts, returned, at, kind, answer, user, lines>>

ResponseKind == {"STATUS_LINE", "HEADER", "BODY", "EOF"}
User == {"none", "log", "skip", "take"}

Answer(of, result, key, value) ==
  [of |-> of, result |-> result, key |-> key, value |-> value]

NothingRead == Answer("nothing", "OK", Nowhere, Nowhere)

\* az_http_response_init and an exchange, which may have failed
Init ==
  /\ \E r \in Responses : text = r.text /\ parts = r.parts /\ returned = r.returned
  /\ at = Len(text) + 1
  /\ kind = "STATUS_LINE"
  /\ answer = NothingRead
  /\ user = "none"
  /\ lines = 0

\* The parser is free for another operation.
Free == user = "none" /\ answer.result # ReadBehind

\* az_http_response_get_status_line, whoever calls it: the parser starts over.
StatusLineRead ==
  LET read == ReadStatusLine(text)
  IN  /\ at' = read.at
      /\ kind' = IF read.result = "OK" THEN "HEADER" ELSE kind
      /\ answer' = Answer("status", read.result, Nowhere, Nowhere)

\* az_http_response_get_next_header, whoever calls it.
HeaderRead ==
  \/ /\ kind = "BODY"
     /\ answer' = Answer("header", "ERROR_ITEM_NOT_FOUND", Nowhere, Nowhere)
     /\ UNCHANGED <<at, kind>>
  \/ /\ kind \in {"STATUS_LINE", "EOF"}
     /\ answer' = Answer("header", "ERROR_HTTP_INVALID_STATE", Nowhere, Nowhere)
     /\ UNCHANGED <<at, kind>>
  \/ /\ kind = "HEADER" /\ at > Len(text)
     /\ answer' = Answer("header", ReadBehind, Nowhere, Nowhere)
     /\ UNCHANGED <<at, kind>>
  \/ /\ kind = "HEADER" /\ at <= Len(text)
     /\ LET read == IF text[at] = "CR" THEN ReadBlankLine(text, at)
                                        ELSE ReadField(text, at)
        IN  /\ at' = read.at
            /\ kind' = IF text[at] = "CR" /\ read.result = "ERROR_ITEM_NOT_FOUND"
                       THEN "BODY" ELSE kind
            /\ answer' = Answer("header", read.result, read.key, read.value)
------------------------------------------------------------------------------
\* The application reads the status line, or a header.
GetStatusLine == Free /\ StatusLineRead /\ UNCHANGED <<text, parts, returned, user, lines>>
GetNextHeader == Free /\ HeaderRead /\ UNCHANGED <<text, parts, returned, user, lines>>

\* It calls az_http_response_get_body, which reads what is in front of it.
GetBody ==
  /\ Free
  /\ CASE kind = "BODY"   -> user' = "take" /\ UNCHANGED <<at, kind, answer>>
       [] kind = "HEADER" -> user' = "skip" /\ UNCHANGED <<at, kind, answer>>
       [] OTHER           -> /\ StatusLineRead
                             /\ user' = IF answer'.result = "OK" THEN "skip" ELSE "none"
  /\ UNCHANGED <<text, parts, returned, lines>>

\* Its loop over the headers ends with any error.
SkipHeader ==
  /\ user = "skip" /\ HeaderRead
  /\ user' = IF answer'.result = "OK" THEN "skip"
             ELSE IF answer'.result = ReadBehind THEN "none" ELSE "take"
  /\ UNCHANGED <<text, parts, returned, lines>>

\* What remains is the body.
TakeBody ==
  /\ user = "take"
  /\ answer' = Answer("body", "OK", Nowhere, [from |-> at, to |-> Len(text)])
  /\ kind' = "EOF"
  /\ user' = "none"
  /\ UNCHANGED <<text, parts, returned, at, lines>>

\* _az_log_http_response_msg, when an exchange has ended, however it has ended
\* (az_http_policy.c:134).  An empty response is not read.  Whether the buffer has
\* room for what is appended is left open.
LogResponse ==
  /\ Free /\ answer = NothingRead /\ text # <<>>
  /\ StatusLineRead
  /\ user' \in IF answer'.result = "OK" THEN {"log", "none"} ELSE {"none"}
  /\ UNCHANGED <<text, parts, returned, lines>>

\* Variants of LogHeader.  It does not look whether a line was appended:
LogHeaderUnchecked ==
  /\ user = "log" /\ HeaderRead
  /\ user' = IF answer'.result \in {"ERROR_ITEM_NOT_FOUND", ReadBehind}
             THEN "none" ELSE "log"
  /\ lines' \in {lines, lines + 1} \cap 0 .. MaxLines
  /\ UNCHANGED <<text, parts, returned>>

\* It takes the room for one line more than it is:
LogHeaderOneMore ==
  /\ user = "log" /\ HeaderRead
  /\ IF answer'.result \in {"ERROR_ITEM_NOT_FOUND", ReadBehind}
     THEN user' = "none" /\ lines' = lines
     ELSE \/ lines <= MaxLines /\ lines' = lines + 1 /\ user' = "log"
          \/ lines' = lines /\ user' = "none"
  /\ UNCHANGED <<text, parts, returned>>

\* A header is read and appended.  The loop ends when there is no header, or
\* when the line does not fit; it does not end with other errors.
LogHeader ==
  /\ user = "log" /\ HeaderRead
  /\ IF answer'.result \in {"ERROR_ITEM_NOT_FOUND", ReadBehind}
     THEN user' = "none" /\ lines' = lines
     ELSE \/ lines < MaxLines /\ lines' = lines + 1 /\ user' = "log"
          \/ lines' = lines /\ user' = "none"
  /\ UNCHANGED <<text, parts, returned>>

Next == \/ GetStatusLine \/ GetNextHeader \/ GetBody \/ SkipHeader \/ TakeBody
        \/ LogResponse \/ LogHeader

Spec == Init /\ [][Next]_vars

\* A loop that has begun goes on; nothing makes an application read.
FairSpec == Spec /\ WF_vars(SkipHeader \/ TakeBody \/ LogHeader)
------------------------------------------------------------------------------
(***************************************************************************)
(* Properties.                                                             *)
(***************************************************************************)

Views == [from: Nat, to: Nat]

\* Every variable has its type.
TypeOK ==
  /\ text \in Seq(Unit) /\ returned \in AzResults
  /\ at \in 1 .. Len(text) + 1
  /\ kind \in ResponseKind
  /\ answer \in [of: {"nothing", "status", "header", "body"},
                 result: AzResults \cup {ReadBehind}, key: Views, value: Views]
  /\ user \in User
  /\ lines \in 0 .. MaxLines

\* Behind an exchange that has succeeded the parser looks at no unit behind the
\* end of the response, although it reads the digits of the status line, the first
\* unit of a header and its value without a look at the length
\* (az_http_response.c:39, 77, 140, 182): the zero byte that the transport appends
\* stops it, however damaged the text in front of it is.  So it does behind one
\* that has failed, if the service has sent such a byte at the end.
ReadsOnlyResponse ==
  returned = "OK" \/ Terminated(text) => answer.result # ReadBehind

\* When the log asks for a header it gets one, or is told that there is none
\* (az_http.h:323: "AZ_ERROR_ITEM_NOT_FOUND = No more headers").  It is not so
\* where an exchange has failed behind a whole line: the log reads the response of
\* any exchange, and asks for the header behind that line (README, section 3).
LogIsAnswered == [][user = "log" => answer'.result # ReadBehind]_vars

\* The loops over the headers end, whatever the text is: that of get_body at the
\* first error, that of the log, which goes on after an error even if the parser
\* has not moved (az_log.c:159), when its buffer is full.
LoopsEnd == user # "none" ~> user = "none"

\* The part of a response that the last answer gave.
Shown ==
  CASE answer.of = "nothing" -> <<"nothing">>
    [] answer.of = "status"  -> <<"status">>
    [] answer.of = "body"    -> <<"body", View(text, answer.value)>>
    [] answer.of = "header"  ->
         CASE answer.result = "OK" ->
                <<"header", <<View(text, answer.key), View(text, answer.value)>>>>
           [] answer.result = "ERROR_ITEM_NOT_FOUND" -> <<"no header">>
           [] OTHER -> <<"refused">>

\* How many of the headers the parser has passed.
Passed == Cardinality({i \in DOMAIN parts.ends : parts.ends[i] <= at})

Parsed == INSTANCE ReplyReading WITH
  headers <- parts.headers,
  body    <- parts.body,
  next    <- CASE kind = "STATUS_LINE" -> "status" [] kind = "HEADER" -> "header"
               [] kind = "BODY" -> "body" [] kind = "EOF" -> "end",
  given   <- IF kind \in {"HEADER", "BODY"} THEN Passed ELSE 0,
  shown   <- Shown

\* For well-formed responses the parser gives their parts in order, whoever asks
\* for them and from wherever they start.
GivesParts ==
  /\ parts.known => Parsed!ReadingInit
  /\ [][parts.known => [Parsed!ReadingNext]_(Parsed!readingVars)]_vars
==============================================================================
