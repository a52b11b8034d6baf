-------------------------- MODULE MCResponseReader --------------------------
(***************************************************************************)
(* Small instances of ResponseReader: well-formed responses, put together  *)
(* from their parts, damaged ones, of which the parts are not known, and   *)
(* what is there of both when an exchange fails.                           *)
(***************************************************************************)
EXTENDS ResponseReader, SequencesExt

MCUnit == {"HTTP/", "digit", ".", " ", "TAB", ":", "CR", "LF", "NUL", "x"}
CRLF   == <<"CR", "LF">>
Status == StatusPattern \o <<"x">> \o CRLF
Upto(n, S) == UNION {[1 .. m -> S] : m \in 0 .. n}

\* A header as it is written: name, white space, value, white space.
Fields == {<< <<"x">>, <<" ">>, <<"x">>, <<>> >>,
           << <<"x", "digit">>, <<>>, <<"x", " ", "x">>, <<" ", "TAB">> >>,
           << <<"x">>, <<>>, <<>>, <<>> >>,
           << <<"x">>, <<" ", " ">>, <<>>, <<>> >>,
           << <<>>, <<>>, <<"x", ":", "x">>, <<>> >>}
FieldText(f) == f[1] \o <<":">> \o f[2] \o f[3] \o f[4] \o CRLF

Replies == [reason: {<<>>, <<"x", "TAB", ":">>},
            fields: Upto(2, Fields),
            body: {<<>>, <<"x">>, CRLF \o <<"x", ":", "x">> \o CRLF, <<"NUL">>}]

FrontText(r, n) == StatusPattern \o r.reason \o CRLF
                \o FlattenSeq([i \in 1 .. n |-> FieldText(r.fields[i])])
TextOf(r) == FrontText(r, Len(r.fields)) \o CRLF \o r.body

\* The zero byte is there when the exchange has succeeded.
Zero(result) == IF result = "OK" THEN <<"NUL">> ELSE <<>>

PartsOf(r, result) ==
  [known   |-> TRUE,
   headers |-> [i \in DOMAIN r.fields |-> <<r.fields[i][1], r.fields[i][3]>>],
   start   |-> Len(FrontText(r, 0)) + 1,
   ends    |-> [i \in DOMAIN r.fields |-> Len(FrontText(r, i)) + 1],
   body    |-> r.body \o Zero(result)]

\* A whole reply, with its zero byte or without, because that did not fit.
Results == {"OK", "ERROR_BUFFER_OVERFLOW"}
WellFormed == {[text |-> TextOf(r) \o Zero(result), parts |-> PartsOf(r, result),
                returned |-> result] : r \in Replies, result \in Results}

\* Lines that no header has: without a colon, without a CR or an LF, with a
\* control character, a CR in front; and two that are headers.
Lines == {<<"x", ":", "x">> \o CRLF, <<":", " ">> \o CRLF, <<"x">> \o CRLF,
          <<"x", ":", "x", "LF">>, <<"x", ":", "NUL", "x">> \o CRLF,
          <<"x", ":", " ", "CR", "x">>, <<"CR", "x">>, <<"x", ":", "TAB">>}
BadStatus == {StatusPattern \o <<"LF">>, StatusPattern \o <<"CR">>,
              <<"HTTP/", "digit", ".", "x">> \o CRLF, <<"x">> \o CRLF,
              <<"HTTP/", "digit", ".", "digit", " ", "digit", " ", " ", " ">>}

BadTexts == {s \o FlattenSeq(l) \o e : s \in {Status} \cup BadStatus,
                                        l \in Upto(2, Lines),
                                        e \in {CRLF \o <<"x">>, <<"CR">>}}

\* Every text that comes of these by losing its end, up to a part of a line.
Damaged ==
  {[text |-> t, parts |-> [known |-> FALSE], returned |-> "OK"] :
     t \in UNION {{SubSeq(t, 1, n) \o <<"NUL">> : n \in 0 .. Len(t)} : t \in BadTexts}}

\* libcurl hands a header on line by line and a body in any parts.  What is there of
\* a text when a part of it does not fit, or the connection is lost, is nothing, or
\* it ends behind a line or in the body.
Beginnings(t) ==
  LET whole == {n \in 1 .. Len(t) : t[n] = "LF"}
      blank == {n \in whole : n > 2 /\ t[n - 1] = "CR" /\ n - 2 \in whole}
  IN  {SubSeq(t, 1, n) : n \in {0} \cup whole
                             \cup {m \in 1 .. Len(t) : \E b \in blank : m > b}}

CutOff ==
  {[text |-> t, parts |-> [known |-> FALSE], returned |-> "ERROR_HTTP_RESPONSE_OVERFLOW"] :
     t \in UNION {Beginnings(t) : t \in BadTexts \cup {TextOf(r) : r \in Replies}}}

AnyResponse == WellFormed \cup Damaged \cup CutOff
=============================================================================
