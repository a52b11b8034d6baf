---------------------------- MODULE RequestProofs ----------------------------
(***************************************************************************)
(* Theorems about RequestBuilder and Clients, for every order of calls,    *)
(* every path, parameter and option and every size of the buffers.         *)
(*                                                                         *)
(* RequestBuilder: the URL is the paths and then the query, if the client  *)
(* starts from a URL without a query, and removing the retry headers       *)
(* brings back the marked ones.  The invariant of the first, Built, needs  *)
(* to know where query_start points: behind the '?', wherever the paths    *)
(* that were inserted since have moved it.  The one of the second, Kept,   *)
(* is that the marked headers are the first retryStart of those there are. *)
(*                                                                         *)
(* Clients: a request has the URL that was meant, and a call is only       *)
(* refused when its URL or its body is too long.  An operation is followed *)
(* step by step: Serves says what the request is worth after a path or a   *)
(* header, Measured how long the body is after an append, and that a       *)
(* failure means that it is longer than its buffer.                        *)
(***************************************************************************)
EXTENDS RequestBuilder, Clients, SpanProofs

\* No URL that a request is started from has a query.
StartsWithoutQuery ==
  \A url \in InitialUrls : "?" \notin {url[i] : i \in DOMAIN url}

Typed ==
  /\ request \in Request
  /\ result \in AzResults
  /\ path \in Seq(UrlUnit) /\ query \in Seq(UrlUnit)

\* Where query_start points in a URL of these parts.
StartOf(front, rear) == IF rear = <<>> THEN 0 ELSE Len(front) + 1

\* The URL of a request r is these two parts, and query_start knows it.
HasParts(r, front, rear) ==
  /\ r.url.items = front \o rear
  /\ r.queryStart = StartOf(front, rear)

Built == ~ Failed(result) => HasParts(request, path, query)

Kept ==
  /\ request.retryStart <= Len(request.headers.items)
  /\ marked = SubSeq(request.headers.items, 1, request.retryStart)
------------------------------------------------------------------------------
(***************************************************************************)
(* Sequences.                                                              *)
(***************************************************************************)

\* What was put together is cut apart again.
LEMMA SplitConcat ==
  ASSUME NEW S, NEW s \in Seq(S), NEW t \in Seq(S)
  PROVE  /\ SubSeq(s \o t, 1, Len(s)) = s
         /\ SubSeq(s \o t, Len(s) + 1, Len(s \o t)) = t
<1> DEFINE whole == s \o t
           first == SubSeq(whole, 1, Len(s))
           last  == SubSeq(whole, Len(s) + 1, Len(whole))
<1>1. /\ whole \in Seq(S)
      /\ Len(s) \in Nat /\ Len(t) \in Nat
      /\ Len(whole) = Len(s) + Len(t)
      /\ \A i \in 1 .. Len(s) + Len(t) :
           whole[i] = IF i <= Len(s) THEN s[i] ELSE t[i - Len(s)]
  BY ConcatProperties
<1>2. \A i \in 1 .. Len(whole) : whole[i] \in S
  BY <1>1
<1> HIDE DEF whole
<1>3. first = s
  <2>1. /\ first \in Seq(S) /\ Len(first) = Len(s)
        /\ \A i \in 1 .. Len(s) : first[i] = whole[i]
    <3>1. \A i \in 1 .. Len(s) : whole[i] \in S
      BY <1>1, <1>2
    <3>2. /\ first \in Seq(S)
          /\ Len(first) = IF 1 <= Len(s) THEN Len(s) - 1 + 1 ELSE 0
          /\ \A i \in 1 .. Len(s) - 1 + 1 : first[i] = whole[1 + i - 1]
      BY <1>1, <3>1, SubSeqProperties
    <3> QED
      BY <1>1, <3>2
  <2>2. \A i \in 1 .. Len(s) : first[i] = s[i]
    BY <1>1, <2>1
  <2> HIDE DEF first
  <2> QED
    BY <2>1, <2>2, SeqEqual
<1>4. last = t
  <2>1. /\ last \in Seq(S) /\ Len(last) = Len(t)
        /\ \A i \in 1 .. Len(t) : last[i] = whole[Len(s) + i]
    <3>1. \A i \in Len(s) + 1 .. Len(whole) : whole[i] \in S
      BY <1>1, <1>2
    <3>2. /\ last \in Seq(S)
          /\ Len(last) = IF Len(s) + 1 <= Len(whole)
                         THEN Len(whole) - (Len(s) + 1) + 1 ELSE 0
          /\ \A i \in 1 .. Len(whole) - (Len(s) + 1) + 1 :
               last[i] = whole[(Len(s) + 1) + i - 1]
      BY <1>1, <3>1, SubSeqProperties
    <3> HIDE DEF last
    <3>3. Len(last) = Len(t) /\ Len(whole) - (Len(s) + 1) + 1 = Len(t)
      BY <1>1, <3>2
    <3>4. \A i \in 1 .. Len(t) : (Len(s) + 1) + i - 1 = Len(s) + i
      BY <1>1
    <3> QED
      BY <3>2, <3>3, <3>4
  <2>2. \A i \in 1 .. Len(t) : last[i] = t[i]
    <3> SUFFICES ASSUME NEW i \in 1 .. Len(t)
                 PROVE  last[i] = t[i]
      OBVIOUS
    <3>1. /\ Len(s) + i \in 1 .. Len(s) + Len(t)
          /\ ~ Len(s) + i <= Len(s)
          /\ (Len(s) + i) - Len(s) = i
      BY <1>1
    <3>2. whole[Len(s) + i] = t[(Len(s) + i) - Len(s)]
      BY <1>1, <3>1, Zenon
    <3> HIDE DEF last
    <3> QED
      BY <2>1, <3>1, <3>2, Zenon
  <2> HIDE DEF last
  <2> QED
    BY <2>1, <2>2, SeqEqual
<1> QED
  BY <1>3, <1>4 DEF whole

\* A prefix is the same of a sequence and of what goes on behind it.
LEMMA PrefixOfConcat ==
  ASSUME NEW S, NEW s \in Seq(S), NEW t \in Seq(S), NEW n \in 0 .. Len(s)
  PROVE  SubSeq(s \o t, 1, n) = SubSeq(s, 1, n)
<1>1. CASE n = 0
  BY <1>1, SubSeqEmpty
<1>2. CASE n # 0
  <2>1. 1 \in 1 .. Len(s) /\ n \in 1 .. Len(s)
    BY <1>2
  <2> QED
    BY <2>1, SubSeqOfConcat1
<1> QED
  BY <1>1, <1>2

\* A replacement of nothing inserts the items between the two parts.
LEMMA InsertFacts ==
  ASSUME NEW Item, NEW span \in SpanOf(Item), NEW items \in Seq(Item),
         NEW front \in Seq(Item), NEW back \in Seq(Item),
         span.items = front \o back
  PROVE  LET inserted == SpanReplace(span, Len(front), Len(front), items)
         IN  /\ inserted.object \in SpanOf(Item)
             /\ inserted.result \in {"OK", "ERROR_ARG"}
             /\ inserted.result = "OK" =>
                  inserted.object.items = (front \o items) \o back
<1> DEFINE inserted == SpanReplace(span, Len(front), Len(front), items)
<1>1. Len(front) \in Nat
  BY LenProperties
<1>2. /\ inserted.object \in SpanOf(Item)
      /\ inserted.result \in {"OK", "ERROR_ARG"}
  BY <1>1, SpanReplaceFacts
<1>3. CASE ReplaceContracts(span, Len(front), Len(front), items)
  <2>1. inserted.object.items
          = SubSeq(span.items, 1, Len(front)) \o items
              \o SubSeq(span.items, Len(front) + 1, Len(span.items))
    BY <1>3 DEF SpanReplace, Success, SpanOf
  <2>2. /\ SubSeq(span.items, 1, Len(front)) = front
        /\ SubSeq(span.items, Len(front) + 1, Len(span.items)) = back
    BY SplitConcat
  <2> QED
    BY <1>2, <2>1, <2>2
<1>4. CASE ~ ReplaceContracts(span, Len(front), Len(front), items)
  BY <1>2, <1>4 DEF SpanReplace, Failure
<1> QED
  BY <1>2, <1>3, <1>4
------------------------------------------------------------------------------
(***************************************************************************)
(* The operations on a request.                                            *)
(***************************************************************************)

\* What every operation on the URL does: the headers and their mark stay.
UrlOnly(r, outcome) ==
  /\ outcome.object \in Request
  /\ outcome.result \in AzResults
  /\ outcome.object.headers = r.headers
  /\ outcome.object.retryStart = r.retryStart

\* A step of such an operation, behind another.
LEMMA UrlAppendParts ==
  ASSUME NEW r \in Request, NEW outcome, UrlOnly(r, outcome),
         NEW items \in Seq(UrlUnit)
  PROVE  LET longer == UrlAppend(outcome, items)
         IN  /\ UrlOnly(r, longer)
             /\ longer.object.queryStart = outcome.object.queryStart
             /\ ~ Failed(longer.result) =>
                  /\ ~ Failed(outcome.result)
                  /\ longer.object.url.items = outcome.object.url.items \o items
<1> DEFINE appended == SpanAppend(outcome.object.url, items)
           longer   == [outcome.object EXCEPT !.url = appended.object]
<1>1. CASE Failed(outcome.result)
  BY <1>1 DEF UrlAppend, UrlOnly
<1>2. CASE ~ Failed(outcome.result)
  <2>1. outcome.object.url \in SpanOf(UrlUnit) /\ outcome.object \in Request
    BY DEF UrlOnly, Request
  <2>2. /\ appended.object \in SpanOf(UrlUnit)
        /\ appended.result \in {"OK", "ERROR_BUFFER_OVERFLOW"}
        /\ appended.result = "OK"
             => appended.object.items = outcome.object.url.items \o items
    BY <2>1, SpanAppendFacts
  <2>3. UrlAppend(outcome, items) = [result |-> appended.result, object |-> longer]
    BY <1>2 DEF UrlAppend
  <2> HIDE DEF appended
  <2>4. /\ longer \in Request /\ longer.url = appended.object
        /\ longer.queryStart = outcome.object.queryStart
        /\ longer.headers = outcome.object.headers
        /\ longer.retryStart = outcome.object.retryStart
    BY <2>1, <2>2 DEF Request
  <2> HIDE DEF longer
  <2>5. /\ UrlAppend(outcome, items).result = appended.result
        /\ UrlAppend(outcome, items).object = longer
    BY <2>3
  <2>6. /\ appended.result \in AzResults
        /\ ~ Failed(appended.result) => appended.result = "OK"
    BY <2>2 DEF AzResults, AzError, Failed
  <2> QED
    BY <1>2, <2>2, <2>4, <2>5, <2>6 DEF UrlOnly
<1> QED
  BY <1>1, <1>2

\* The delimiter: '?' begins the query, and query_start points behind it.
LEMMA AppendDelimiterParts ==
  ASSUME NEW r \in Request, NEW front \in Seq(UrlUnit), NEW rear \in Seq(UrlUnit)
  PROVE  LET outcome   == AppendDelimiter(r)
             delimited == rear \o (IF rear = <<>> THEN <<"?">> ELSE <<"&">>)
         IN  /\ UrlOnly(r, outcome)
             /\ HasParts(r, front, rear) /\ ~ Failed(outcome.result) =>
                  /\ outcome.object.url.items = front \o delimited
                  /\ outcome.object.queryStart = Len(front) + 1
<1> DEFINE started == Success(r)
           marked1 == UrlAppend(started, <<"?">>)
           moved   == [marked1.object EXCEPT
                         !.queryStart = SpanLength(marked1.object.url)]
           further == UrlAppend(started, <<"&">>)
<1>1. /\ UrlOnly(r, started) /\ started.object = r
      /\ <<"&">> \in Seq(UrlUnit) /\ <<"?">> \in Seq(UrlUnit)
      /\ Len(front) \in Nat /\ r.queryStart \in Nat
  BY HttpRequestAssumption DEF Success, AzResults, UrlOnly, Request
<1> HIDE DEF started
<1>2. CASE r.queryStart # 0
  <2>1. AppendDelimiter(r) = further
    BY <1>2 DEF AppendDelimiter, started
  <2>2. /\ UrlOnly(r, further)
        /\ further.object.queryStart = r.queryStart
        /\ ~ Failed(further.result) => further.object.url.items = r.url.items \o <<"&">>
    BY <1>1, UrlAppendParts
  <2> HIDE DEF further
  <2>3. ASSUME HasParts(r, front, rear), ~ Failed(further.result)
        PROVE  /\ further.object.url.items
                    = front \o (rear \o (IF rear = <<>> THEN <<"?">> ELSE <<"&">>))
               /\ further.object.queryStart = Len(front) + 1
    <3>1. rear # <<>> /\ r.queryStart = Len(front) + 1 /\ r.url.items = front \o rear
      BY <1>2, <2>3 DEF HasParts, StartOf
    <3>2. (front \o rear) \o <<"&">> = front \o (rear \o <<"&">>)
      BY <1>1, ConcatAssociative
    <3> QED
      BY <2>2, <2>3, <3>1, <3>2
  <2> QED
    BY <2>1, <2>2, <2>3
<1>3. CASE r.queryStart = 0
  <2>1. AppendDelimiter(r) = IF Failed(marked1.result) THEN marked1 ELSE Success(moved)
    BY <1>3 DEF AppendDelimiter, started
  <2>2. /\ UrlOnly(r, marked1)
        /\ ~ Failed(marked1.result) => marked1.object.url.items = r.url.items \o <<"?">>
    BY <1>1, UrlAppendParts
  <2> HIDE DEF marked1
  <2>3. /\ moved \in Request /\ moved.url = marked1.object.url
        /\ moved.headers = r.headers /\ moved.retryStart = r.retryStart
        /\ moved.queryStart = Len(marked1.object.url.items)
    <3>1. /\ marked1.object \in Request
          /\ marked1.object.headers = r.headers
          /\ marked1.object.retryStart = r.retryStart
      BY <2>2 DEF UrlOnly
    <3>2. SpanLength(marked1.object.url) \in Nat
            /\ SpanLength(marked1.object.url) = Len(marked1.object.url.items)
      BY <3>1 DEF Request, SpanOf, SpanLength
    <3> QED
      BY <3>1, <3>2 DEF Request
  <2> HIDE DEF moved
  <2>4. UrlOnly(r, Success(moved)) /\ Success(moved).object = moved
    BY <2>3 DEF UrlOnly, Success, AzResults
  <2>5. ASSUME HasParts(r, front, rear), ~ Failed(marked1.result)
        PROVE  /\ moved.url.items
                    = front \o (rear \o (IF rear = <<>> THEN <<"?">> ELSE <<"&">>))
               /\ moved.queryStart = Len(front) + 1
    <3>1. rear = <<>> /\ r.url.items = front \o rear
      BY <1>1, <1>3, <2>5 DEF HasParts, StartOf
    <3>2. front \o <<>> = front /\ <<>> \o <<"?">> = <<"?">>
      BY <1>1, ConcatEmptySeq
    <3>3. Len(front \o <<"?">>) = Len(front) + 1
      BY <1>1, ConcatProperties
    <3> QED
      BY <2>2, <2>3, <2>5, <3>1, <3>2, <3>3
  <2> QED
    BY <2>1, <2>2, <2>4, <2>5
<1> QED
  BY <1>2, <1>3

\* What is put in front of several parts is put in front of the first.
Regroups(a, b, c, d, e) ==
  (((a \o b) \o c) \o d) \o e = a \o (((b \o c) \o d) \o e)

LEMMA ConcatParts ==
  ASSUME NEW S
  PROVE  \A a, b, c, d, e \in Seq(S) : Regroups(a, b, c, d, e)
<1> DEFINE Join(s, t) == s \o t
<1>1. \A s, t, u \in Seq(S) : Join(s, t) \in Seq(S)
                                /\ Join(Join(s, t), u) = Join(s, Join(t, u))
  BY ConcatProperties, ConcatAssociative
<1> HIDE DEF Join
<1>2. \A a, b, c, d, e \in Seq(S) :
        Join(Join(Join(Join(a, b), c), d), e) = Join(a, Join(Join(Join(b, c), d), e))
  BY <1>1
<1> QED
  BY <1>2 DEF Join, Regroups

\* A query parameter goes behind the query.
LEMMA SetQueryParameterParts ==
  ASSUME NEW r \in Request, NEW front \in Seq(UrlUnit), NEW rear \in Seq(UrlUnit),
         NEW name \in Seq(UrlUnit), NEW value \in Seq(UrlUnit)
  PROVE  LET outcome == SetQueryParameter(r, name, value)
         IN  /\ UrlOnly(r, outcome)
             /\ HasParts(r, front, rear) /\ ~ Failed(outcome.result) =>
                  HasParts(outcome.object, front,
                           rear \o (IF rear = <<>> THEN <<"?">> ELSE <<"&">>)
                             \o name \o <<"=">> \o value)
<1> DEFINE delimited == rear \o (IF rear = <<>> THEN <<"?">> ELSE <<"&">>)
           d == AppendDelimiter(r)
           n == UrlAppend(d, name)
           e == UrlAppend(n, <<"=">>)
           v == UrlAppend(e, value)
<1>1. /\ UrlOnly(r, d)
      /\ HasParts(r, front, rear) /\ ~ Failed(d.result) =>
           d.object.url.items = front \o delimited /\ d.object.queryStart = Len(front) + 1
  BY AppendDelimiterParts
<1>2. delimited \in Seq(UrlUnit) /\ delimited # <<>> /\ <<"=">> \in Seq(UrlUnit)
  <2>1. <<"&">> \in Seq(UrlUnit) /\ <<"?">> \in Seq(UrlUnit) /\ <<"=">> \in Seq(UrlUnit)
    BY HttpRequestAssumption
  <2>2. \A unit \in UrlUnit : rear \o <<unit>> \in Seq(UrlUnit)
                                /\ Len(rear \o <<unit>>) = Len(rear) + 1
    OBVIOUS
  <2>3. Len(rear) \in Nat /\ Len(<<>>) = 0
    OBVIOUS
  <2> QED
    BY <2>1, <2>2, <2>3, HttpRequestAssumption
<1>3. CASE ~ (Len(name) > 0 /\ Len(value) > 0)
  BY <1>3 DEF SetQueryParameter, Failure, Failed, UrlOnly, AzResults, AzError
<1>4. CASE Len(name) > 0 /\ Len(value) > 0
  <2>1. SetQueryParameter(r, name, value) = v
    BY <1>4 DEF SetQueryParameter
  <2> HIDE DEF d, delimited
  <2>2. /\ UrlOnly(r, n) /\ n.object.queryStart = d.object.queryStart
        /\ ~ Failed(n.result) => /\ ~ Failed(d.result)
                                 /\ n.object.url.items = d.object.url.items \o name
    BY <1>1, UrlAppendParts
  <2> HIDE DEF n
  <2>3. /\ UrlOnly(r, e) /\ e.object.queryStart = n.object.queryStart
        /\ ~ Failed(e.result) => /\ ~ Failed(n.result)
                                 /\ e.object.url.items = n.object.url.items \o <<"=">>
    BY <1>2, <2>2, UrlAppendParts
  <2> HIDE DEF e
  <2>4. /\ UrlOnly(r, v) /\ v.object.queryStart = e.object.queryStart
        /\ ~ Failed(v.result) => /\ ~ Failed(e.result)
                                 /\ v.object.url.items = e.object.url.items \o value
    BY <2>3, UrlAppendParts
  <2> HIDE DEF v
  <2>5. ASSUME HasParts(r, front, rear), ~ Failed(v.result)
        PROVE  HasParts(v.object, front, delimited \o name \o <<"=">> \o value)
    <3>1. v.object.url.items = ((front \o delimited) \o name) \o <<"=">> \o value
      BY <1>1, <2>2, <2>3, <2>4, <2>5
    <3>2. v.object.queryStart = Len(front) + 1
      BY <1>1, <2>2, <2>3, <2>4, <2>5
    <3>3. ((front \o delimited) \o name) \o <<"=">> \o value
            = front \o (delimited \o name \o <<"=">> \o value)
      <4>1. Regroups(front, delimited, name, <<"=">>, value)
        BY <1>2, ConcatParts
      <4> QED
        BY <4>1 DEF Regroups
    <3>4. delimited \o name \o <<"=">> \o value # <<>>
      <4> DEFINE dn  == delimited \o name
                 dne == dn \o <<"=">>
      <4>1. dn \in Seq(UrlUnit) /\ dn # <<>>
        BY <1>2, ConcatProperties, ConcatEqualIffEmpty
      <4> HIDE DEF dn
      <4>2. dne \in Seq(UrlUnit) /\ dne # <<>>
        BY <1>2, <4>1, ConcatProperties, ConcatEqualIffEmpty
      <4> HIDE DEF dne
      <4>3. dne \o value # <<>>
        BY <4>2, ConcatEqualIffEmpty
      <4> QED
        BY <4>3 DEF dne, dn
    <3> QED
      BY <3>1, <3>2, <3>3, <3>4 DEF HasParts, StartOf
  <2> QED
    BY <2>1, <2>4, <2>5 DEF delimited
<1> QED
  BY <1>3, <1>4

\* A path goes behind the paths, in front of the query.
LEMMA AppendPathParts ==
  ASSUME NEW r \in Request, NEW front \in Seq(UrlUnit), NEW rear \in Seq(UrlUnit),
         NEW segment \in Seq(UrlUnit)
  PROVE  LET outcome == AppendPath(r, segment)
         IN  /\ UrlOnly(r, outcome)
             /\ HasParts(r, front, rear) /\ ~ Failed(outcome.result) =>
                  HasParts(outcome.object, front \o <<"/">> \o segment, rear)
<1> DEFINE hasQuery == r.queryStart > 0
           place == IF hasQuery THEN r.queryStart - 1 ELSE SpanLength(r.url)
           slash == SpanReplace(r.url, place, place, <<"/">>)
           whole == SpanReplace(slash.object, place + 1, place + 1, segment)
           moved == IF hasQuery /\ ~ Failed(whole.result)
                    THEN place + 1 + Len(segment) + 1 ELSE r.queryStart
           built == [r EXCEPT !.url = whole.object, !.queryStart = moved]
<1>1. /\ place \in Nat /\ place + 1 \in Nat /\ r.queryStart \in Nat
      /\ r.url \in SpanOf(UrlUnit) /\ <<"/">> \in Seq(UrlUnit)
      /\ Len(segment) \in Nat /\ Len(front) \in Nat /\ Len(rear) \in Nat
  BY HttpRequestAssumption DEF Request, SpanOf, SpanLength
<1>2. AppendPath(r, segment)
        = IF Failed(slash.result) THEN Failure(slash.result, r)
          ELSE [result |-> whole.result, object |-> built]
  BY DEF AppendPath
<1>3. HasParts(r, front, rear)
        => r.url.items = front \o rear /\ place = Len(front) /\ (hasQuery <=> rear # <<>>)
  <2> SUFFICES ASSUME HasParts(r, front, rear)
               PROVE  r.url.items = front \o rear /\ place = Len(front)
                        /\ (hasQuery <=> rear # <<>>)
    OBVIOUS
  <2>1. r.url.items = front \o rear /\ r.queryStart = StartOf(front, rear)
    BY DEF HasParts
  <2>2. CASE rear = <<>>
    <3>1. front \o <<>> = front
      BY ConcatEmptySeq
    <3> QED
      BY <1>1, <2>1, <2>2, <3>1 DEF StartOf, SpanLength
  <2>3. CASE rear # <<>>
    BY <1>1, <2>1, <2>3 DEF StartOf
  <2> QED
    BY <2>2, <2>3
<1> HIDE DEF hasQuery, place
<1>4. /\ slash.object \in SpanOf(UrlUnit) /\ slash.result \in {"OK", "ERROR_ARG"}
  BY <1>1, SpanReplaceFacts
<1>5. HasParts(r, front, rear) /\ slash.result = "OK"
        => slash.object.items = (front \o <<"/">>) \o rear
  <2> SUFFICES ASSUME HasParts(r, front, rear), slash.result = "OK"
               PROVE  slash.object.items = (front \o <<"/">>) \o rear
    OBVIOUS
  <2>1. slash = SpanReplace(r.url, Len(front), Len(front), <<"/">>)
    BY <1>3
  <2>2. r.url.items = front \o rear
    BY <1>3
  <2> HIDE DEF slash
  <2> QED
    BY <1>1, <2>1, <2>2, InsertFacts
<1> HIDE DEF slash
<1>6. front \o <<"/">> \in Seq(UrlUnit) /\ Len(front \o <<"/">>) = Len(front) + 1
  BY <1>1, ConcatProperties
<1>7. /\ whole.object \in SpanOf(UrlUnit) /\ whole.result \in {"OK", "ERROR_ARG"}
  BY <1>1, <1>4, SpanReplaceFacts
<1>8. HasParts(r, front, rear) /\ slash.result = "OK" /\ whole.result = "OK"
        => whole.object.items = ((front \o <<"/">>) \o segment) \o rear
  <2> SUFFICES ASSUME HasParts(r, front, rear), slash.result = "OK", whole.result = "OK"
               PROVE  whole.object.items = ((front \o <<"/">>) \o segment) \o rear
    OBVIOUS
  <2> DEFINE base == front \o <<"/">>
  <2>1. whole = SpanReplace(slash.object, Len(base), Len(base), segment)
    BY <1>3, <1>6
  <2>2. slash.object.items = base \o rear /\ base \in Seq(UrlUnit)
    BY <1>5, <1>6
  <2> HIDE DEF whole, base
  <2>3. whole.object.items = (base \o segment) \o rear
    BY <1>4, <2>1, <2>2, InsertFacts
  <2> QED
    BY <2>3 DEF base
<1> HIDE DEF whole
<1>9. moved \in Nat
  BY <1>1 DEF moved
<1> HIDE DEF moved
<1>10. /\ built \in Request /\ built.url = whole.object /\ built.queryStart = moved
       /\ built.headers = r.headers /\ built.retryStart = r.retryStart
  BY <1>7, <1>9 DEF Request
<1> HIDE DEF built
<1>11. \A code \in {"OK", "ERROR_ARG"} :
        code \in AzResults /\ (Failed(code) <=> code # "OK")
  BY DEF AzResults, AzError, Failed
<1>12. CASE Failed(slash.result)
  BY <1>2, <1>4, <1>11, <1>12 DEF Failure, UrlOnly
<1>13. CASE ~ Failed(slash.result)
  <2>1. /\ AppendPath(r, segment).result = whole.result
        /\ AppendPath(r, segment).object = built
    BY <1>2, <1>13
  <2>2. ASSUME HasParts(r, front, rear), ~ Failed(whole.result)
        PROVE  HasParts(built, front \o <<"/">> \o segment, rear)
    <3>1. built.url.items = ((front \o <<"/">>) \o segment) \o rear
      BY <1>4, <1>7, <1>8, <1>10, <1>11, <1>13, <2>2
    <3>2. Len(front \o <<"/">> \o segment) = Len(front) + 1 + Len(segment)
      BY <1>6, ConcatProperties
    <3>3. rear # <<>> => moved = Len(front) + 1 + Len(segment) + 1
      BY <1>3, <2>2 DEF moved
    <3>4. rear = <<>> => moved = 0
      BY <1>3, <2>2 DEF moved, HasParts, StartOf
    <3> QED
      BY <1>10, <3>1, <3>2, <3>3, <3>4 DEF HasParts, StartOf
  <2> QED
    BY <1>7, <1>10, <1>11, <2>1, <2>2 DEF UrlOnly
<1> QED
  BY <1>12, <1>13

\* A header goes behind the headers, or nothing is changed.
LEMMA AppendHeaderBehind ==
  ASSUME NEW r \in Request, NEW name \in HeaderName, NEW length \in Nat
  PROVE  LET outcome == AppendHeader(r, name, length)
         IN  /\ outcome.object \in Request
             /\ outcome.result \in AzResults
             /\ outcome.object.url = r.url
             /\ outcome.object.queryStart = r.queryStart
             /\ outcome.object.retryStart = r.retryStart
             /\ \E more \in Seq(Header) :
                  outcome.object.headers.items = r.headers.items \o more
<1> DEFINE header   == [name |-> name, length |-> length]
           appended == SpanAppend(r.headers, <<header>>)
           longer   == [r EXCEPT !.headers = appended.object]
<1>1. r.headers \in SpanOf(Header) /\ <<header>> \in Seq(Header) /\ <<>> \in Seq(Header)
  BY DEF Request, Header
<1>2. r.headers.items = r.headers.items \o <<>>
  BY <1>1, ConcatEmptySeq DEF SpanOf
<1>3. CASE ~ (name # "" \/ length > 0)
  <2>1. AppendHeader(r, name, length) = [result |-> "ERROR_ARG", object |-> r]
    BY <1>3 DEF AppendHeader, Failure
  <2>2. /\ AppendHeader(r, name, length).result = "ERROR_ARG"
        /\ AppendHeader(r, name, length).object = r
    BY <2>1
  <2>3. "ERROR_ARG" \in AzResults
    BY DEF AzResults, AzError
  <2>4. \E more \in Seq(Header) : r.headers.items = r.headers.items \o more
    BY <1>1, <1>2, Zenon
  <2> QED
    BY <2>2, <2>3, <2>4, Zenon
<1>4. CASE name # "" \/ length > 0
  <2>1. /\ appended.object \in SpanOf(Header)
        /\ appended.result \in {"OK", "ERROR_BUFFER_OVERFLOW"}
        /\ appended.result = "OK" =>
             appended.object.items = r.headers.items \o <<header>>
        /\ appended.result # "OK" => appended.object = r.headers
    BY <1>1, SpanAppendFacts
  <2>2. AppendHeader(r, name, length)
          = [result |-> appended.result, object |-> longer]
    BY <1>4 DEF AppendHeader
  <2> HIDE DEF appended, header
  <2>3. /\ longer \in Request /\ longer.headers = appended.object
        /\ longer.url = r.url /\ longer.queryStart = r.queryStart
        /\ longer.retryStart = r.retryStart
    BY <2>1 DEF Request
  <2> HIDE DEF longer
  <2>4. \E more \in Seq(Header) : longer.headers.items = r.headers.items \o more
    BY <1>1, <1>2, <2>1, <2>3
  <2>5. appended.result \in AzResults
    BY <2>1 DEF AzResults, AzError
  <2>6. /\ AppendHeader(r, name, length).result = appended.result
        /\ AppendHeader(r, name, length).object = longer
    BY <2>2
  <2> QED
    BY <2>3, <2>4, <2>5, <2>6, Zenon
<1> QED
  BY <1>3, <1>4
------------------------------------------------------------------------------
(***************************************************************************)
(* The calls.                                                              *)
(***************************************************************************)

LEMMA InitHolds == Init => Typed /\ Kept /\ (StartsWithoutQuery => Built)
<1> SUFFICES ASSUME Init
             PROVE  Typed /\ Kept /\ (StartsWithoutQuery => Built)
  OBVIOUS
<1>1. PICK url \in InitialUrls :
        /\ request = RequestInit([items |-> url, capacity |-> MaxUrl], MaxHeaders)
        /\ path = PathPart(url) /\ query = QueryPart(url)
  BY DEF Init
<1>2. /\ url \in Seq(UrlUnit) /\ Len(url) <= MaxUrl /\ MaxUrl \in Nat /\ MaxHeaders \in Nat
      /\ Len(url) \in Nat /\ DOMAIN url = 1 .. Len(url)
  BY BuilderAssumption
<1>3. QuestionMark(url) \in Nat /\ QuestionMark(url) <= Len(url)
  <2> DEFINE Marks == {i \in DOMAIN url : url[i] = "?"}
  <2>1. CASE Marks = {}
    BY <1>2, <2>1 DEF QuestionMark
  <2>2. CASE Marks # {}
    <3>1. PICK i \in Marks : \A j \in Marks : i <= j
      <4>1. Marks \in SUBSET Nat
        BY <1>2
      <4> QED
        BY <2>2, <4>1, LeastNatural
    <3>2. i \in DOMAIN url /\ url[i] = "?" /\ \A j \in 1 .. i - 1 : url[j] # "?"
      BY <1>2, <3>1
    <3> DEFINE first == CHOOSE k \in DOMAIN url :
                          url[k] = "?" /\ \A j \in 1 .. k - 1 : url[j] # "?"
    <3>3. first \in DOMAIN url
      BY <3>2
    <3>4. QuestionMark(url) = first - 1
      BY <3>2 DEF QuestionMark
    <3> HIDE DEF first
    <3> QED
      BY <1>2, <3>3, <3>4
  <2> QED
    BY <2>1, <2>2
<1>4. path \in Seq(UrlUnit) /\ query \in Seq(UrlUnit)
  <2>1. \A n \in 0 .. Len(url) : SubSeq(url, 1, n) \in Seq(UrlUnit)
    BY <1>2, SubSeqProperties
  <2>2. path \in Seq(UrlUnit)
    BY <1>1, <1>2, <1>3, <2>1 DEF PathPart
  <2>3. Len(path) + 1 \in Int /\ \A i \in Len(path) + 1 .. Len(url) : url[i] \in UrlUnit
    BY <1>2, <2>2
  <2>4. SubSeq(url, Len(path) + 1, Len(url)) \in Seq(UrlUnit)
    BY <1>2, <2>3, SubSeqProperties
  <2> QED
    BY <1>1, <2>2, <2>4 DEF QueryPart
<1>5. /\ request.url = [items |-> url, capacity |-> MaxUrl]
      /\ request.queryStart = QuestionMark(url)
      /\ request.headers = [items |-> <<>>, capacity |-> MaxHeaders]
      /\ request.retryStart = 0
      /\ request = [url |-> request.url, queryStart |-> request.queryStart,
                    headers |-> request.headers, retryStart |-> request.retryStart]
  BY <1>1 DEF RequestInit, EmptySpan
<1>6. Typed
  <2>1. request.url \in SpanOf(UrlUnit)
    BY <1>2, <1>5 DEF SpanOf
  <2>2. request.headers \in SpanOf(Header)
    BY <1>2, <1>5 DEF SpanOf
  <2>3. request \in Request
    BY <1>3, <1>5, <2>1, <2>2 DEF Request
  <2> QED
    BY <1>4, <2>3 DEF Typed, Init, AzResults
<1>7. Kept
  <2>1. SubSeq(<<>>, 1, 0) = <<>>
    BY SubSeqEmpty
  <2> QED
    BY <1>5, <2>1 DEF Kept, Init
<1>8. ASSUME StartsWithoutQuery
      PROVE  Built
  <2>1. "?" \notin {url[i] : i \in DOMAIN url}
    BY <1>8 DEF StartsWithoutQuery
  <2>2. path = url
    BY <1>1, <2>1 DEF PathPart
  <2>3. query = <<>>
    BY <1>1, <1>2, <2>2, SubSeqEmpty DEF QueryPart
  <2>4. QuestionMark(url) = 0
    BY <2>1 DEF QuestionMark
  <2>5. url \o <<>> = url
    BY <1>2, ConcatEmptySeq
  <2> QED
    BY <1>5, <2>2, <2>3, <2>4, <2>5 DEF Built, HasParts, StartOf
<1> QED
  BY <1>6, <1>7, <1>8

LEMMA AddPathStep ==
  ASSUME Typed, Kept, NEW segment \in Paths, AddPath(segment)
  PROVE  Typed' /\ Kept' /\ (Built => Built')
<1> DEFINE outcome == AppendPath(request, segment)
<1>1. /\ ~ Failed(result) /\ request' = outcome.object /\ result' = outcome.result
      /\ path' = path \o <<"/">> \o segment /\ query' = query /\ marked' = marked
  BY DEF AddPath, Perform
<1>2. segment \in Seq(UrlUnit) /\ <<"/">> \in Seq(UrlUnit)
  BY BuilderAssumption, HttpRequestAssumption
<1>3. /\ UrlOnly(request, outcome)
      /\ HasParts(request, path, query) /\ ~ Failed(outcome.result) =>
           HasParts(outcome.object, path \o <<"/">> \o segment, query)
  BY <1>2, AppendPathParts DEF Typed
<1> HIDE DEF outcome
<1>4. path' \in Seq(UrlUnit)
  <2>1. path \o <<"/">> \in Seq(UrlUnit)
    BY <1>2, ConcatProperties DEF Typed
  <2> QED
    BY <1>1, <1>2, <2>1, ConcatProperties
<1> QED
  BY <1>1, <1>3, <1>4 DEF Typed, Kept, Built, UrlOnly

LEMMA AddParameterStep ==
  ASSUME Typed, Kept, NEW parameter \in Parameters,
         AddParameter(parameter[1], parameter[2])
  PROVE  Typed' /\ Kept' /\ (Built => Built')
<1> DEFINE name      == parameter[1]
           value     == parameter[2]
           outcome   == SetQueryParameter(request, name, value)
           delimited == query \o (IF query = <<>> THEN <<"?">> ELSE <<"&">>)
           longer    == delimited \o name \o <<"=">> \o value
<1>1. /\ ~ Failed(result) /\ request' = outcome.object /\ result' = outcome.result
      /\ query' = longer /\ path' = path /\ marked' = marked
  BY DEF AddParameter, Perform
<1>2. name \in Seq(UrlUnit) /\ value \in Seq(UrlUnit)
  BY BuilderAssumption
<1> HIDE DEF name, value
<1>3. /\ UrlOnly(request, outcome)
      /\ HasParts(request, path, query) /\ ~ Failed(outcome.result) =>
           HasParts(outcome.object, path, longer)
  BY <1>2, SetQueryParameterParts DEF Typed
<1> HIDE DEF outcome
<1>4. longer \in Seq(UrlUnit)
  <2>1. <<"&">> \in Seq(UrlUnit) /\ <<"?">> \in Seq(UrlUnit) /\ <<"=">> \in Seq(UrlUnit)
    BY HttpRequestAssumption
  <2>2. delimited \in Seq(UrlUnit)
    BY <2>1, ConcatProperties DEF Typed
  <2> HIDE DEF delimited
  <2>3. delimited \o name \in Seq(UrlUnit)
    BY <1>2, <2>2, ConcatProperties
  <2>4. (delimited \o name) \o <<"=">> \in Seq(UrlUnit)
    BY <2>1, <2>3, ConcatProperties
  <2> QED
    BY <1>2, <2>4, ConcatProperties
<1> HIDE DEF longer
<1> QED
  BY <1>1, <1>3, <1>4 DEF Typed, Kept, Built, UrlOnly

LEMMA AddHeaderStep ==
  ASSUME Typed, Kept, NEW name \in HeaderName, NEW length \in HeaderValues,
         AddHeader(name, length)
  PROVE  Typed' /\ Kept' /\ (Built => Built')
<1> DEFINE outcome == AppendHeader(request, name, length)
<1>1. /\ ~ Failed(result) /\ request' = outcome.object /\ result' = outcome.result
      /\ path' = path /\ query' = query /\ marked' = marked
  BY DEF AddHeader, Perform
<1>2. length \in Nat
  BY BuilderAssumption
<1>3. /\ outcome.object \in Request
      /\ outcome.result \in AzResults
      /\ outcome.object.url = request.url
      /\ outcome.object.queryStart = request.queryStart
      /\ outcome.object.retryStart = request.retryStart
      /\ \E more \in Seq(Header) :
           outcome.object.headers.items = request.headers.items \o more
  BY <1>2, AppendHeaderBehind DEF Typed
<1> HIDE DEF outcome
<1>4. Kept'
  <2>1. PICK more \in Seq(Header) : request'.headers.items = request.headers.items \o more
    BY <1>1, <1>3
  <2>2. /\ request.headers.items \in Seq(Header) /\ request.retryStart \in Nat
        /\ Len(request.headers.items) \in Nat /\ Len(more) \in Nat
    BY DEF Typed, Request, SpanOf
  <2>3. request.retryStart \in 0 .. Len(request.headers.items)
    BY <2>2 DEF Kept
  <2>4. SubSeq(request'.headers.items, 1, request.retryStart)
          = SubSeq(request.headers.items, 1, request.retryStart)
    BY <2>1, <2>2, <2>3, PrefixOfConcat
  <2>5. Len(request'.headers.items) = Len(request.headers.items) + Len(more)
    BY <2>1, <2>2, ConcatProperties
  <2> QED
    BY <1>1, <1>3, <2>2, <2>3, <2>4, <2>5 DEF Kept
<1> QED
  BY <1>1, <1>3, <1>4 DEF Typed, Built, HasParts

LEMMA MarkStep ==
  ASSUME Typed, Kept, Mark
  PROVE  Typed' /\ Kept' /\ (Built => Built')
<1> DEFINE items == request.headers.items
<1>1. /\ ~ Failed(result) /\ request' = [request EXCEPT !.retryStart = Len(items)]
      /\ result' = "OK" /\ path' = path /\ query' = query /\ marked' = items
  BY DEF Mark, Perform, Success, MarkRetryHeaders, SpanLength
<1>2. items \in Seq(Header) /\ Len(items) \in Nat /\ request \in Request
  BY DEF Typed, Request, SpanOf
<1>3. /\ request' \in Request /\ request'.url = request.url
      /\ request'.queryStart = request.queryStart
      /\ request'.headers = request.headers /\ request'.retryStart = Len(items)
  BY <1>1, <1>2 DEF Request
<1>4. SubSeq(items, 1, Len(items)) = items
  BY <1>2, SubSeqFull
<1>5. Kept'
  BY <1>1, <1>2, <1>3, <1>4 DEF Kept
<1> QED
  BY <1>1, <1>3, <1>5 DEF Typed, Built, HasParts, AzResults

LEMMA RemoveStep ==
  ASSUME Typed, Kept, Remove
  PROVE  Typed' /\ Kept' /\ (Built => Built') /\ request'.headers.items = marked
<1> DEFINE kept == SubSeq(request.headers.items, 1, request.retryStart)
<1>1. /\ ~ Failed(result) /\ request' = [request EXCEPT !.headers.items = kept]
      /\ result' = "OK" /\ path' = path /\ query' = query /\ marked' = marked
  BY DEF Remove, Perform, Success, RemoveRetryHeaders
<1>2. /\ request.headers.items \in Seq(Header) /\ request.retryStart \in Nat
      /\ request.headers \in SpanOf(Header) /\ request \in Request
      /\ request.retryStart <= Len(request.headers.items)
      /\ Len(request.headers.items) \in Nat /\ request.headers.capacity \in Nat
      /\ Len(request.headers.items) <= request.headers.capacity
  BY DEF Typed, Kept, Request, SpanOf
<1>3. kept \in Seq(Header) /\ Len(kept) = request.retryStart /\ kept = marked
  BY <1>2, SubSeqProperties DEF Kept
<1> HIDE DEF kept
<1>4. /\ request'.url = request.url /\ request'.queryStart = request.queryStart
      /\ request'.retryStart = request.retryStart
      /\ request'.headers = [request.headers EXCEPT !.items = kept]
      /\ request' = [url |-> request'.url, queryStart |-> request'.queryStart,
                     headers |-> request'.headers, retryStart |-> request'.retryStart]
  BY <1>1, <1>2 DEF Request
<1>5. /\ request'.headers.items = kept
      /\ request'.headers \in SpanOf(Header)
  BY <1>2, <1>3, <1>4 DEF SpanOf
<1>6. request' \in Request
  BY <1>2, <1>4, <1>5 DEF Request
<1>7. SubSeq(kept, 1, Len(kept)) = kept
  BY <1>3, SubSeqFull
<1>8. Kept'
  <2>1. request'.retryStart <= Len(request'.headers.items)
    BY <1>2, <1>3, <1>4, <1>5
  <2>2. SubSeq(request'.headers.items, 1, request'.retryStart) = marked'
    BY <1>1, <1>3, <1>4, <1>5, <1>7
  <2> QED
    BY <2>1, <2>2 DEF Kept
<1> QED
  BY <1>1, <1>3, <1>4, <1>5, <1>6, <1>8 DEF Typed, Built, HasParts, AzResults

LEMMA NextHolds ==
  Typed /\ Kept /\ [Next]_vars
    => /\ Typed' /\ Kept' /\ (Built => Built')
       /\ [Remove => request'.headers.items = marked]_vars
<1> SUFFICES ASSUME Typed, Kept, [Next]_vars
             PROVE  /\ Typed' /\ Kept' /\ (Built => Built')
                    /\ (Remove => request'.headers.items = marked) \/ UNCHANGED vars
  OBVIOUS
<1>1. Remove => request'.headers.items = marked
  BY RemoveStep
<1>2. CASE \E segment \in Paths : AddPath(segment)
  BY <1>1, <1>2, AddPathStep
<1>3. CASE \E parameter \in Parameters : AddParameter(parameter[1], parameter[2])
  BY <1>1, <1>3, AddParameterStep
<1>4. CASE \E name \in HeaderName, length \in HeaderValues : AddHeader(name, length)
  BY <1>1, <1>4, AddHeaderStep
<1>5. CASE Mark
  BY <1>1, <1>5, MarkStep
<1>6. CASE Remove
  BY <1>1, <1>6, RemoveStep
<1>7. CASE UNCHANGED vars
  BY <1>7 DEF vars, Typed, Kept, Built
<1> QED
  BY <1>2, <1>3, <1>4, <1>5, <1>6, <1>7 DEF Next

\* Whatever paths and parameters are added and in whatever order, the URL is
\* the paths and then the query, as az_http_internal.h:119 says, if the URL of
\* the service has no query.
THEOREM PathsThenQuery == StartsWithoutQuery => (Spec => []UrlIsPathThenQuery)
<1> SUFFICES ASSUME StartsWithoutQuery
             PROVE  Spec => []UrlIsPathThenQuery
  OBVIOUS
<1>1. Init => Typed /\ Kept /\ Built
  BY InitHolds
<1>2. Typed /\ Kept /\ Built /\ [Next]_vars => Typed' /\ Kept' /\ Built'
  BY NextHolds
<1>3. Built => UrlIsPathThenQuery
  BY DEF Built, HasParts, UrlIsPathThenQuery
<1> QED
  BY <1>1, <1>2, <1>3, PTL DEF Spec

\* Whatever headers were added since they were marked, removing the retry
\* headers (az_http_private.h:31) brings back the marked ones.
THEOREM RemovingRestores == Spec => RemoveRestoresMarked
<1>1. Init => Typed /\ Kept
  BY InitHolds
<1> QED
  BY <1>1, NextHolds, PTL DEF Spec, RemoveRestoresMarked
------------------------------------------------------------------------------
(***************************************************************************)
(* The clients: the URL and the headers of a request.                      *)
(***************************************************************************)

\* What an operation has built so far, if it has a request: one with this URL,
\* no query and this many headers; and if it has not, the URL did not fit.
Serves(built, url, count) ==
  /\ built.result \in AzResults /\ url \in Seq(UrlUnit)
  /\ IF Failed(built.result) THEN Len(url) > UrlCapacity
     ELSE /\ built.object \in Request /\ HasParts(built.object, url, <<>>)
          /\ built.object.url.capacity = UrlCapacity
          /\ built.object.headers.capacity = HeaderCount
          /\ Len(built.object.headers.items) = count

\* A replacement leaves the room as it is.
LEMMA ReplaceCapacity ==
  ASSUME NEW Item, NEW span \in SpanOf(Item), NEW items, NEW start, NEW end
  PROVE  SpanReplace(span, start, end, items).object.capacity = span.capacity
BY DEF SpanReplace, SpanOf, Success, Failure

\* A path is only refused when it does not fit.
LEMMA AppendPathFits ==
  ASSUME NEW r \in Request, NEW front \in Seq(UrlUnit), HasParts(r, front, <<>>),
         NEW segment \in Seq(UrlUnit)
  PROVE  LET outcome == AppendPath(r, segment)
         IN  /\ Failed(outcome.result) =>
                  Len(front) + 1 + Len(segment) > r.url.capacity
             /\ ~ Failed(outcome.result) =>
                  outcome.object.url.capacity = r.url.capacity
<1> DEFINE n == Len(front)
           slash == SpanReplace(r.url, n, n, <<"/">>)
           whole == SpanReplace(slash.object, n + 1, n + 1, segment)
<1>1. /\ r.queryStart = 0 /\ r.url.items = front
      /\ r.url \in SpanOf(UrlUnit) /\ <<"/">> \in Seq(UrlUnit) /\ n \in Nat
      /\ r.url.capacity \in Nat /\ Len(segment) \in Nat
  BY HttpRequestAssumption, ConcatEmptySeq, LenProperties
     DEF HasParts, StartOf, Request, SpanOf
<1>2. AppendPath(r, segment)
        = IF Failed(slash.result) THEN Failure(slash.result, r)
          ELSE [result |-> whole.result,
                object |-> [r EXCEPT !.url = whole.object, !.queryStart = r.queryStart]]
  BY <1>1 DEF AppendPath, SpanLength
<1>3. /\ slash.object \in SpanOf(UrlUnit) /\ slash.object.capacity = r.url.capacity
      /\ slash.result \in {"OK", "ERROR_ARG"}
      /\ slash.result = "OK" => Len(slash.object.items) = (n + 1) + (n - n)
      /\ n + 1 <= r.url.capacity => slash.result = "OK"
  <2>1. Len(<<"/">>) = 1
    OBVIOUS
  <2>2. n + 1 <= r.url.capacity => ReplaceContracts(r.url, n, n, <<"/">>)
    BY <1>1, <2>1 DEF ReplaceContracts, SpanLength
  <2>3. n + 1 <= r.url.capacity => slash.result = "OK"
    BY <2>2 DEF SpanReplace, Success
  <2> HIDE DEF slash
  <2> QED
    BY <1>1, <2>1, <2>3, SpanReplaceFacts DEF slash
<1> HIDE DEF slash
<1>4. /\ whole.object.capacity = r.url.capacity
      /\ slash.result = "OK" /\ n + 1 + Len(segment) <= r.url.capacity
           => whole.result = "OK"
  <2>1. whole.object.capacity = slash.object.capacity
    BY <1>3, ReplaceCapacity
  <2>2. ASSUME slash.result = "OK", n + 1 + Len(segment) <= r.url.capacity
        PROVE  whole.result = "OK"
    <3>1. ReplaceContracts(slash.object, n + 1, n + 1, segment)
      BY <1>1, <1>3, <2>2 DEF ReplaceContracts, SpanLength
    <3> QED
      BY <3>1 DEF SpanReplace, Success
  <2> QED
    BY <1>3, <2>1, <2>2
<1> HIDE DEF whole
<1> DEFINE longer == [r EXCEPT !.url = whole.object, !.queryStart = r.queryStart]
<1>5. longer.url = whole.object
  BY DEF Request
<1> HIDE DEF longer, n
<1>6. CASE Failed(slash.result)
  <2>1. AppendPath(r, segment).result = slash.result
    BY <1>2, <1>6 DEF Failure
  <2> QED
    BY <1>1, <1>3, <1>6, <2>1 DEF Failed, n
<1>7. CASE ~ Failed(slash.result)
  <2>1. /\ AppendPath(r, segment).result = whole.result
        /\ AppendPath(r, segment).object = longer
    BY <1>2, <1>7 DEF longer
  <2> QED
    BY <1>1, <1>4, <1>5, <1>7, <2>1 DEF Failed, n
<1> QED
  BY <1>6, <1>7

\* A path goes behind the URL.
LEMMA ThenPathServes ==
  ASSUME NEW built, NEW url, NEW count, Serves(built, url, count),
         NEW segment \in Seq(UrlUnit)
  PROVE  Serves(ThenPath(built, segment), Under(url, segment), count)
<1> DEFINE r == built.object
           longer == AppendPath(r, segment)
           front == url \o <<"/">>
<1>1. /\ url \in Seq(UrlUnit) /\ <<"/">> \in Seq(UrlUnit) /\ Len(<<"/">>) = 1
      /\ UrlCapacity \in Nat /\ Len(segment) \in Nat /\ Len(url) \in Nat
  BY HttpRequestAssumption, ClientsAssumption, LenProperties DEF Serves
<1>2. front \in Seq(UrlUnit) /\ Len(front) = Len(url) + 1
  BY <1>1, ConcatProperties
<1>3. /\ front \o segment \in Seq(UrlUnit)
      /\ Len(front \o segment) = Len(url) + 1 + Len(segment)
  <2> HIDE DEF front
  <2>1. /\ front \o segment \in Seq(UrlUnit)
        /\ Len(front \o segment) = Len(front) + Len(segment)
    BY <1>2, ConcatProperties
  <2> QED
    BY <1>1, <1>2, <2>1
<1>4. Under(url, segment) = front \o segment
  BY DEF Under
<1> HIDE DEF front
<1>5. CASE Failed(built.result)
  <2>1. ThenPath(built, segment) = built
    BY <1>5 DEF ThenPath
  <2> QED
    BY <1>1, <1>3, <1>4, <1>5, <2>1 DEF Serves
<1>6. CASE ~ Failed(built.result)
  <2>1. ThenPath(built, segment) = longer
    BY <1>6 DEF ThenPath
  <2>2. /\ r \in Request /\ HasParts(r, url, <<>>) /\ r.url.capacity = UrlCapacity
        /\ r.headers.capacity = HeaderCount /\ Len(r.headers.items) = count
    BY <1>6 DEF Serves
  <2>3. <<>> \in Seq(UrlUnit)
    OBVIOUS
  <2> HIDE DEF r
  <2>4. /\ UrlOnly(r, longer)
        /\ ~ Failed(longer.result) => HasParts(longer.object, front \o segment, <<>>)
    BY <1>1, <2>2, <2>3, AppendPathParts DEF front
  <2>5. /\ Failed(longer.result) => Len(url) + 1 + Len(segment) > r.url.capacity
        /\ ~ Failed(longer.result) => longer.object.url.capacity = r.url.capacity
    BY <1>1, <2>2, AppendPathFits
  <2> HIDE DEF longer
  <2> QED
    BY <1>3, <1>4, <2>1, <2>2, <2>4, <2>5 DEF Serves, UrlOnly
<1> QED
  BY <1>5, <1>6

\* A header has a name.
Named(name) == name # ""

\* A header, of which there is room for three.
LEMMA ThenHeaderServes ==
  ASSUME NEW built, NEW url, NEW count \in Nat, count < HeaderCount,
         Serves(built, url, count),
         NEW name \in HeaderName, Named(name), NEW length \in Nat
  PROVE  Serves(ThenHeader(built, name, length), url, count + 1)
<1> DEFINE r == built.object
           header == [name |-> name, length |-> length]
           appended == SpanAppend(r.headers, <<header>>)
           longer == [r EXCEPT !.headers = appended.object]
<1>1. CASE Failed(built.result)
  BY <1>1 DEF ThenHeader, Serves
<1>2. CASE ~ Failed(built.result)
  <2>1. /\ r \in Request /\ HasParts(r, url, <<>>) /\ r.url.capacity = UrlCapacity
        /\ r.headers.capacity = HeaderCount /\ Len(r.headers.items) = count
        /\ url \in Seq(UrlUnit) /\ r.headers \in SpanOf(Header)
        /\ r.headers.items \in Seq(Header)
    BY <1>2 DEF Serves, Request, SpanOf
  <2>2. header \in Header
    BY DEF Header
  <2>3. ThenHeader(built, name, length) = [result |-> appended.result, object |-> longer]
    BY <1>2, Zenon DEF ThenHeader, AppendHeader, Named
  <2> HIDE DEF longer, appended
  <2> HIDE DEF r, header
  <2> DEFINE headers == <<header>>
  <2>4. headers \in Seq(Header) /\ Len(headers) = 1
    BY <2>2 DEF headers
  <2> HIDE DEF headers
  <2>5. appended = SpanAppend(r.headers, headers)
    BY DEF headers, appended
  <2>6. /\ appended.object \in SpanOf(Header)
        /\ appended.object.capacity = HeaderCount
        /\ appended.result = "OK" =>
             appended.object.items = r.headers.items \o headers
    BY <2>1, <2>4, <2>5, SpanAppendFacts
  <2>7. appended.result = "OK"
    <3>1. HeaderCount \in Nat
      BY ClientsAssumption
    <3>2. count + 1 <= HeaderCount
      BY <3>1
    <3>3. SpanLength(r.headers) + Len(headers) <= r.headers.capacity
      BY <2>1, <2>4, <3>2 DEF SpanLength
    <3> QED
      BY <2>5, <3>3 DEF SpanAppend, Success
  <2>8. Len(appended.object.items) = count + 1
    <3>1. Len(r.headers.items \o headers) = Len(r.headers.items) + Len(headers)
      BY <2>1, <2>4, ConcatProperties
    <3> QED
      BY <2>1, <2>4, <2>6, <2>7, <3>1
  <2>9. /\ longer \in Request /\ longer.headers = appended.object
        /\ longer.url = r.url /\ longer.queryStart = r.queryStart
    BY <2>1, <2>6 DEF Request, longer
  <2>10. HasParts(longer, url, <<>>)
    BY <2>1, <2>9 DEF HasParts
  <2>11. "OK" \in AzResults /\ ~ Failed("OK")
    BY DEF AzResults, Failed
  <2>12. /\ ThenHeader(built, name, length).result = "OK"
         /\ ThenHeader(built, name, length).object = longer
    BY <2>3, <2>7
  <2> QED
    BY <2>1, <2>6, <2>8, <2>9, <2>10, <2>11, <2>12 DEF Serves
<1> QED
  BY <1>1, <1>2

\* The URI of a client, initialised or not.
KeepsUri ==
  /\ uri \in SpanOf(UrlUnit) /\ uri.capacity = UrlCapacity
  /\ \A i \in DOMAIN uri.items : uri.items[i] # "?"

\* What every operation begins with: the URI fits, as it did before.
LEMMA CopyServes ==
  ASSUME KeepsUri
  PROVE  Serves(OnCopyOf(uri), uri.items, 0)
<1> DEFINE copied == SpanAppend(EmptySpan(UrlCapacity), uri.items)
           r == RequestInit(uri, HeaderCount)
<1>1. /\ uri.items \in Seq(UrlUnit) /\ uri.capacity = UrlCapacity
      /\ Len(uri.items) <= UrlCapacity /\ UrlCapacity \in Nat /\ HeaderCount \in Nat
      /\ uri \in [items: Seq(UrlUnit), capacity: Nat] /\ Len(uri.items) \in Nat
  BY ClientsAssumption, LenProperties DEF KeepsUri, SpanOf
<1>2. copied = Success(uri)
  <2>1. <<>> \o uri.items = uri.items
    BY <1>1, ConcatEmptySeq
  <2>2. [EmptySpan(UrlCapacity) EXCEPT !.items = @ \o uri.items]
          = [items |-> uri.items, capacity |-> UrlCapacity]
    BY <2>1 DEF EmptySpan
  <2>3. uri = [items |-> uri.items, capacity |-> UrlCapacity]
    BY <1>1
  <2>4. SpanLength(EmptySpan(UrlCapacity)) + Len(uri.items)
          <= EmptySpan(UrlCapacity).capacity
    BY <1>1 DEF SpanLength, EmptySpan
  <2> QED
    BY <2>2, <2>3, <2>4, Zenon DEF SpanAppend
<1>3. OnCopyOf(uri) = Success(r)
  BY <1>2 DEF OnCopyOf, Success, Failed
<1>4. QuestionMark(uri.items) = 0
  BY DEF QuestionMark, KeepsUri
<1>5. r = [url |-> uri, queryStart |-> 0,
           headers |-> [items |-> <<>>, capacity |-> HeaderCount], retryStart |-> 0]
  BY <1>4 DEF RequestInit, EmptySpan
<1>6. r \in Request
  <2>1. [items |-> <<>>, capacity |-> HeaderCount] \in SpanOf(Header)
    BY <1>1 DEF SpanOf
  <2>2. uri \in SpanOf(UrlUnit)
    BY DEF KeepsUri
  <2> HIDE DEF r
  <2> QED
    BY <1>5, <2>1, <2>2 DEF Request
<1>7. HasParts(r, uri.items, <<>>)
  BY <1>1, <1>5, ConcatEmptySeq DEF HasParts, StartOf
<1>8. Len(r.headers.items) = 0 /\ r.headers.capacity = HeaderCount
        /\ r.url.capacity = UrlCapacity
  BY <1>1, <1>5
<1> HIDE DEF r
<1> QED
  BY <1>1, <1>3, <1>6, <1>7, <1>8 DEF Serves, Success, Failed, AzResults

------------------------------------------------------------------------------
(***************************************************************************)
(* The clients: what the JSON builder's calls write, by length.            *)
(***************************************************************************)

\* The types of a builder on the buffer for a body.
Builders == {b \in [json: SpanOf(Unit), needComma: BOOLEAN, result: AzResults] :
               b.json.capacity = BodyCapacity}

\* A text of length n has been asked for, with or without a comma in front of
\* what is next: it is there, or it does not fit.
Measured(b, n, comma) ==
  /\ b \in Builders /\ n \in Nat /\ comma \in BOOLEAN
  /\ IF b.result = "OK" THEN Len(b.json.items) = n /\ b.needComma = comma
     ELSE n > BodyCapacity

CommaLength(comma) == IF comma THEN 1 ELSE 0

\* What there is in a builder.
LEMMA BuilderTypes ==
  ASSUME NEW b \in Builders
  PROVE  /\ b.json \in SpanOf(Unit) /\ b.json.items \in Seq(Unit)
         /\ b.json.capacity = BodyCapacity /\ BodyCapacity \in Nat
         /\ Len(b.json.items) \in Nat
BY ClientsAssumption, LenProperties DEF Builders, SpanOf

\* A write measures what it writes.
LEMMA WriteMeasured ==
  ASSUME NEW b, NEW n, NEW comma, Measured(b, n, comma), NEW units \in Seq(Unit)
  PROVE  Measured(Write(b, units), n + Len(units), comma)
<1> DEFINE appended == SpanAppend(b.json, units)
           c == [b EXCEPT !.json = appended.object, !.result = appended.result]
<1>1. /\ b \in Builders /\ n \in Nat /\ comma \in BOOLEAN
      /\ b.json \in SpanOf(Unit) /\ b.json.capacity = BodyCapacity /\ BodyCapacity \in Nat
      /\ b.json.items \in Seq(Unit) /\ Len(b.json.items) \in Nat
      /\ Len(units) \in Nat /\ n + Len(units) \in Nat
  BY BuilderTypes, LenProperties DEF Measured
<1>2. CASE b.result # "OK"
  <2>1. Write(b, units) = b
    BY <1>2 DEF Write
  <2>2. n > BodyCapacity
    BY <1>2 DEF Measured
  <2> QED
    BY <1>1, <1>2, <2>1, <2>2 DEF Measured
<1>3. CASE b.result = "OK"
  <2>1. Write(b, units) = c
    BY <1>3 DEF Write
  <2>2. /\ appended.object \in SpanOf(Unit)
        /\ appended.result \in {"OK", "ERROR_BUFFER_OVERFLOW"}
        /\ appended.result = "OK" => appended.object.items = b.json.items \o units
    BY <1>1, SpanAppendFacts
  <2>3. /\ appended.object.capacity = BodyCapacity
        /\ appended.result # "OK" => n + Len(units) > BodyCapacity
    <3>1. Len(b.json.items) = n
      BY <1>3 DEF Measured
    <3>2. CASE SpanLength(b.json) + Len(units) <= b.json.capacity
      BY <1>1, <3>2 DEF SpanAppend, Success, SpanOf
    <3>3. CASE ~ (SpanLength(b.json) + Len(units) <= b.json.capacity)
      BY <1>1, <3>1, <3>3 DEF SpanAppend, Failure, SpanLength
    <3> QED
      BY <3>2, <3>3
  <2>4. appended.result \in AzResults
    BY <2>2 DEF AzResults, AzError
  <2> HIDE DEF appended
  <2>5. /\ c \in Builders /\ c.json = appended.object /\ c.result = appended.result
        /\ c.needComma = b.needComma
    BY <1>1, <2>2, <2>3, <2>4 DEF Builders
  <2> HIDE DEF c
  <2>6. appended.result = "OK" => Len(c.json.items) = n + Len(units)
    <3>1. Len(b.json.items) = n
      BY <1>3 DEF Measured
    <3>2. Len(b.json.items \o units) = Len(b.json.items) + Len(units)
      BY <1>1, ConcatProperties
    <3> QED
      BY <2>2, <2>5, <3>1, <3>2
  <2>7. b.needComma = comma
    BY <1>3 DEF Measured
  <2> QED
    BY <1>1, <2>1, <2>3, <2>5, <2>6, <2>7 DEF Measured
<1> QED
  BY <1>2, <1>3

\* The units that the builder writes.
LEMMA BuilderUnits ==
  \A unit \in {"{", "}", "[", "]", ",", ":", "quote", "scalar"} :
    <<unit>> \in Seq(Unit) /\ Len(<<unit>>) = 1
<1>1. {"{", "}", "[", "]", ",", ":", "quote", "scalar"} \subseteq Unit
  BY JsonTextAssumption, Zenon
<1> DEFINE Written == {"{", "}", "[", "]", ",", ":", "quote", "scalar"}
<1> HIDE DEF Written
<1>2. \A unit \in Written : <<unit>> \in Seq(Unit) /\ Len(<<unit>>) = 1
  <2>1. Written \subseteq Unit
    BY <1>1 DEF Written
  <2> QED
    BY <2>1
<1> QED
  BY <1>2, Zenon DEF Written

\* One unit more.
LEMMA UnitMeasured ==
  ASSUME NEW b, NEW n, NEW comma, Measured(b, n, comma),
         NEW unit \in {"{", "}", "[", "]", ",", ":", "quote", "scalar"}
  PROVE  Measured(Write(b, <<unit>>), n + 1, comma)
<1> DEFINE units == <<unit>>
<1>1. units \in Seq(Unit) /\ Len(units) = 1
  BY BuilderUnits, Zenon DEF units
<1> HIDE DEF units
<1>2. Measured(Write(b, units), n + Len(units), comma)
  BY <1>1, WriteMeasured, Zenon
<1> QED
  BY <1>1, <1>2, Zenon DEF units

\* A comma, where one is due.
LEMMA CommaMeasured ==
  ASSUME NEW b, NEW n, NEW comma, Measured(b, n, comma)
  PROVE  Measured(WriteComma(b), n + CommaLength(comma), comma)
<1>1. PICK c : /\ WriteComma(b) = IF b.needComma THEN c ELSE b
               /\ Measured(c, n + 1, comma)
               /\ b.result # "OK" => c = b
  <2>1. Measured(Write(b, <<",">>), n + 1, comma)
    BY UnitMeasured, Zenon
  <2>2. WriteComma(b) = IF b.needComma THEN Write(b, <<",">>) ELSE b
    BY Zenon DEF WriteComma
  <2>3. b.result # "OK" => Write(b, <<",">>) = b
    BY Zenon DEF Write
  <2> QED
    BY <2>1, <2>2, <2>3, Zenon
<1>2. n \in Nat /\ comma \in BOOLEAN /\ BodyCapacity \in Nat
  BY ClientsAssumption DEF Measured
<1>3. CASE b.result = "OK"
  <2>1. b.needComma = comma
    BY <1>3 DEF Measured
  <2>2. CASE comma
    BY <1>1, <1>2, <2>1, <2>2 DEF CommaLength
  <2>3. CASE ~ comma
    <3>1. n + CommaLength(comma) = n
      BY <1>2, <2>3 DEF CommaLength
    <3>2. WriteComma(b) = b
      BY <1>1, <2>1, <2>3
    <3> QED
      BY <3>1, <3>2
  <2> QED
    BY <2>2, <2>3
<1>4. CASE b.result # "OK"
  <2>1. WriteComma(b) = b
    BY <1>1, <1>4
  <2>2. n + CommaLength(comma) \in Nat /\ n + CommaLength(comma) >= n
    BY <1>2 DEF CommaLength
  <2>3. b \in Builders /\ n > BodyCapacity
    BY <1>4 DEF Measured
  <2> QED
    BY <1>2, <1>4, <2>1, <2>2, <2>3 DEF Measured
<1> QED
  BY <1>3, <1>4

\* A string.
LEMMA StringMeasured ==
  ASSUME NEW b, NEW n, NEW comma, Measured(b, n, comma), NEW text \in Seq(Unit)
  PROVE  Measured(AppendStr(b, text), n + StringLength(text), comma)
<1> DEFINE one == Write(b, <<"quote">>)
           two == Write(one, text)
           three == Write(two, <<"quote">>)
<1>1. Measured(one, n + 1, comma)
  BY UnitMeasured
<1> HIDE DEF one
<1>2. Measured(two, (n + 1) + Len(text), comma)
  BY <1>1, WriteMeasured
<1> HIDE DEF two
<1>3. Measured(three, ((n + 1) + Len(text)) + 1, comma)
  BY <1>2, UnitMeasured
<1> HIDE DEF three
<1>4. AppendStr(b, text) = three
  BY DEF AppendStr, three, two, one
<1>5. n \in Nat /\ Len(text) \in Nat
  BY LenProperties DEF Measured
<1>6. ((n + 1) + Len(text)) + 1 = n + StringLength(text)
  BY <1>5 DEF StringLength
<1> QED
  BY <1>3, <1>4, <1>6

\* What a client appends: constants, strings and brackets.
IsAppended(x) ==
  \/ x \in {Bare("scalar"), Bare("object"), Bare("array")}
  \/ \E text \in Seq(Unit) : x = Text("string", text)

TokenLength(x) == IF x.kind = "string" THEN StringLength(x.value) ELSE 1

\* A token: the flag is set first, then it is written.
LEMMA TokenMeasured ==
  ASSUME NEW b, NEW n, NEW comma, Measured(b, n, comma), NEW x, IsAppended(x)
  PROVE  Measured(AppendToken(b, x), n + TokenLength(x), x.kind \notin Containers)
<1> DEFINE flagged == Marked(b, x)
           after  == x.kind \notin Containers
<1>1. Measured(flagged, n, after)
  <2>1. b \in Builders /\ n \in Nat
    BY DEF Measured
  <2>2. CASE b.result # "OK"
    BY <2>1, <2>2 DEF Marked, Measured
  <2>3. CASE b.result = "OK"
    <3>1. flagged = [b EXCEPT !.needComma = after]
      BY <2>3 DEF Marked
    <3>2. Len(b.json.items) = n
      BY <2>3 DEF Measured
    <3> HIDE DEF after
    <3>3. after \in BOOLEAN
      BY DEF after
    <3>4. /\ flagged \in Builders /\ flagged.json = b.json /\ flagged.result = b.result
          /\ flagged.needComma = after
      BY <2>1, <3>1, <3>3 DEF Builders
    <3> QED
      BY <2>1, <2>3, <3>2, <3>3, <3>4 DEF Measured
  <2> QED
    BY <2>2, <2>3
<1> HIDE DEF flagged
<1>2. CASE x \in {Bare("scalar"), Bare("object"), Bare("array")}
  <2>1. x.kind \in {"scalar", "object", "array"}
    BY <1>2 DEF Bare
  <2>2. TokenLength(x) = 1
    BY <2>1 DEF TokenLength
  <2>3. \E unit \in {"{", "}", "[", "]", ",", ":", "quote", "scalar"} :
          AppendToken(b, x) = Write(flagged, <<unit>>)
    <3>1. CASE x.kind = "scalar"
      BY <3>1, Zenon DEF AppendToken, flagged
    <3>2. CASE x.kind = "object"
      <4>1. x.kind # "scalar" /\ x.kind # "fraction" /\ x.kind # "string" /\ x.kind # "span"
        BY <3>2
      <4>2. AppendToken(b, x) = Write(flagged, <<"{">>)
        BY <3>2, <4>1, Zenon DEF AppendToken, flagged
      <4> QED
        BY <4>2, Zenon
    <3>3. CASE x.kind = "array"
      <4>1. /\ x.kind # "scalar" /\ x.kind # "fraction" /\ x.kind # "string"
            /\ x.kind # "span" /\ x.kind # "object"
        BY <3>3
      <4>2. AppendToken(b, x) = Write(flagged, <<"[">>)
        BY <3>3, <4>1, Zenon DEF AppendToken, flagged
      <4> QED
        BY <4>2, Zenon
    <3> QED
      BY <2>1, <3>1, <3>2, <3>3, Zenon
  <2>4. Measured(AppendToken(b, x), n + 1, after)
    <3> HIDE DEF after
    <3> QED
      BY <1>1, <2>3, UnitMeasured, Zenon
  <2> QED
    BY <2>2, <2>4
<1>3. CASE \E text \in Seq(Unit) : x = Text("string", text)
  <2>1. PICK text \in Seq(Unit) : x = Text("string", text)
    BY <1>3
  <2>2. x.kind = "string" /\ x.value = text
    BY <2>1 DEF Text
  <2>3. x.kind # "scalar" /\ x.kind # "fraction"
    BY <2>2
  <2>4. AppendToken(b, x) = AppendStr(flagged, text)
    BY <2>2, <2>3, Zenon DEF AppendToken, flagged
  <2>5. TokenLength(x) = StringLength(text)
    BY <2>2 DEF TokenLength
  <2>6. Measured(AppendStr(flagged, text), n + StringLength(text), after)
    <3> HIDE DEF after
    <3> QED
      BY <1>1, StringMeasured
  <2> QED
    BY <2>4, <2>5, <2>6
<1> QED
  BY <1>2, <1>3 DEF IsAppended

\* A member, with the comma in front of it.
LEMMA MemberMeasured ==
  ASSUME NEW b, NEW n, NEW comma, Measured(b, n, comma),
         NEW name \in Seq(Unit), NEW x, IsAppended(x)
  PROVE  Measured(AppendObject(b, name, x),
                  n + CommaLength(comma) + MemberLength(name, TokenLength(x)),
                  x.kind \notin Containers)
<1> DEFINE one == WriteComma(b)
           two == AppendStr(one, name)
           k == n + CommaLength(comma)
           m == k + StringLength(name)
<1>1. PICK three : AppendObject(b, name, x) = AppendToken(three, x)
                     /\ (Measured(two, m, comma) => Measured(three, m + 1, comma))
  <2>1. Measured(two, m, comma) => Measured(Write(two, <<":">>), m + 1, comma)
    <3> HIDE DEF two, m
    <3> QED
      BY UnitMeasured, Zenon
  <2>2. AppendObject(b, name, x) = AppendToken(Write(two, <<":">>), x)
    BY Zenon DEF AppendObject
  <2> HIDE DEF two, m
  <2> QED
    BY <2>1, <2>2, Zenon
<1>2. Measured(one, k, comma)
  BY CommaMeasured
<1> HIDE DEF one, k
<1>3. Measured(two, m, comma)
  BY <1>2, StringMeasured
<1> HIDE DEF two, m
<1>4. Measured(three, m + 1, comma)
  BY <1>1, <1>3
<1>5. Measured(AppendToken(three, x), (m + 1) + TokenLength(x), x.kind \notin Containers)
  BY <1>4, TokenMeasured
<1>6. n \in Nat /\ CommaLength(comma) \in Nat /\ Len(name) \in Nat
  BY LenProperties DEF Measured, CommaLength
<1>7. TokenLength(x) \in Nat
  <2>1. \A text \in Seq(Unit) : Len(text) \in Nat
    BY LenProperties
  <2> QED
    BY <2>1 DEF TokenLength, IsAppended, StringLength, Bare, Text
<1>8. (m + 1) + TokenLength(x)
        = n + CommaLength(comma) + MemberLength(name, TokenLength(x))
  BY <1>6, <1>7 DEF m, k, MemberLength, StringLength
<1> QED
  BY <1>1, <1>5, <1>8

\* An item, with the comma in front of it.
LEMMA ItemMeasured ==
  ASSUME NEW b, NEW n, NEW comma, Measured(b, n, comma), NEW x, IsAppended(x)
  PROVE  Measured(AppendArrayItem(b, x), n + CommaLength(comma) + TokenLength(x),
                  x.kind \notin Containers)
<1> DEFINE one == WriteComma(b)
<1>1. Measured(one, n + CommaLength(comma), comma)
  BY CommaMeasured
<1> HIDE DEF one
<1>2. Measured(AppendToken(one, x), (n + CommaLength(comma)) + TokenLength(x),
               x.kind \notin Containers)
  BY <1>1, TokenMeasured
<1> QED
  BY <1>2 DEF AppendArrayItem, one

\* A closing bracket.
LEMMA CloseMeasured ==
  ASSUME NEW b, NEW n, NEW comma, Measured(b, n, comma), NEW bracket \in {"}", "]"}
  PROVE  Measured(WriteClose(b, bracket), n + 1, TRUE)
<1> DEFINE closed == Write(b, <<bracket>>)
<1>1. Measured(closed, n + 1, comma)
  <2>1. bracket \in {"{", "}", "[", "]", ",", ":", "quote", "scalar"}
    BY Zenon
  <2> QED
    BY <2>1, UnitMeasured, Zenon
<1>2. WriteClose(b, bracket)
        = IF closed.result = "OK" THEN [closed EXCEPT !.needComma = TRUE] ELSE closed
  BY Zenon DEF WriteClose
<1> HIDE DEF closed
<1>3. PICK c : c = WriteClose(b, bracket)
  OBVIOUS
<1>4. c = IF closed.result = "OK" THEN [closed EXCEPT !.needComma = TRUE] ELSE closed
  BY <1>2, <1>3, Zenon
<1>5. ASSUME NEW d, d = IF closed.result = "OK" THEN [closed EXCEPT !.needComma = TRUE]
                        ELSE closed
      PROVE  Measured(d, n + 1, TRUE)
  <2> SUFFICES Measured(d, n + 1, TRUE)
    OBVIOUS
  <2>1. CASE closed.result = "OK"
    BY <1>1, <1>5, <2>1 DEF Measured, Builders
  <2>2. CASE closed.result # "OK"
    BY <1>1, <1>5, <2>2 DEF Measured
  <2> QED
    BY <2>1, <2>2
<1> QED
  BY <1>3, <1>4, <1>5, Zenon

\* The functions that ContainerLength is defined by.
IsTotal(f, lengths) ==
  /\ f \in [0 .. Len(lengths) -> Nat] /\ f[0] = 2
  /\ \A i \in 1 .. Len(lengths) :
       f[i] = f[i - 1] + lengths[i] + (IF i = 1 THEN 0 ELSE 1)

\* ContainerLength is the last value of such a function.
LEMMA ContainerLengthUnfolds ==
  ASSUME NEW lengths \in Seq(Nat)
  PROVE  \E f : IsTotal(f, lengths) /\ ContainerLength(lengths) = f[Len(lengths)]
<1> DEFINE n == Len(lengths)
           first == 2
           Comma(i) == IF i = 1 THEN 0 ELSE 1
           upTo[i \in 0 .. Len(lengths)] ==
             IF i = 0 THEN 2 ELSE upTo[i - 1] + lengths[i] + (IF i = 1 THEN 0 ELSE 1)
           grow == [i \in 1 .. n |-> [k \in Nat |-> k + lengths[i] + Comma(i)]]
<1>1. ContainerLength(lengths) = upTo[n]
  BY DEF ContainerLength
<1>2. n \in Nat /\ first \in Nat /\ \A i \in 1 .. n : lengths[i] \in Nat
  BY LenProperties, ElementOfSeq
<1> HIDE DEF n, first
<1>3. grow \in [1 .. n -> [Nat -> Nat]]
  <2>1. \A i \in 1 .. n : Comma(i) \in Nat
    OBVIOUS
  <2> HIDE DEF Comma
  <2> QED
    BY <1>2, <2>1
<1>4. PICK f \in Recursive(n, Nat, first, grow) : TRUE
  <2> HIDE DEF grow
  <2> QED
    BY <1>2, <1>3, NatRecursion
<1>5. /\ f \in [0 .. n -> Nat] /\ f[0] = first
      /\ \A i \in 1 .. n : f[i] = f[i - 1] + lengths[i] + Comma(i)
  <2>1. /\ f \in [0 .. n -> Nat] /\ f[0] = first
        /\ \A i \in 1 .. n : f[i] = grow[i][f[i - 1]]
    <3> HIDE DEF grow
    <3> QED
      BY <1>4 DEF Recursive
  <2>2. \A i \in 1 .. n : f[i - 1] \in Nat
    BY <1>2, <2>1
  <2> HIDE DEF Comma
  <2> QED
    BY <2>1, <2>2
<1>6. f = [i \in 0 .. n |-> IF i = 0 THEN first ELSE f[i - 1] + lengths[i] + Comma(i)]
  <2>1. \A i \in 0 .. n : i # 0 => i \in 1 .. n
    BY <1>2
  <2> HIDE DEF Comma
  <2>2. \A i \in 0 .. n : f[i] = IF i = 0 THEN first
                                 ELSE f[i - 1] + lengths[i] + Comma(i)
    BY <1>5, <2>1, Zenon
  <2> QED
    BY <1>5, <2>2
<1>7. \E g : g = [i \in 0 .. n |-> IF i = 0 THEN first
                                   ELSE g[i - 1] + lengths[i] + Comma(i)]
  <2> HIDE DEF Comma
  <2> QED
    BY <1>6
<1>8. upTo = [i \in 0 .. n |-> IF i = 0 THEN first
                               ELSE upTo[i - 1] + lengths[i] + Comma(i)]
  BY <1>7 DEF n, first
<1> HIDE DEF upTo
<1>9. /\ upTo[0] = 2
      /\ \A i \in 1 .. n : upTo[i] = upTo[i - 1] + lengths[i] + Comma(i)
  <2>1. 0 \in 0 .. n /\ \A i \in 1 .. n : i \in 0 .. n /\ i # 0
    BY <1>2
  <2> HIDE DEF Comma
  <2> QED
    BY <1>8, <2>1, Zenon DEF first
<1>10. \A i \in 1 .. n : Comma(i) \in Nat
  OBVIOUS
<1>11. \A i \in 0 .. n : upTo[i] \in Nat
  <2> DEFINE Good == {i \in 0 .. n : upTo[i] \in Nat}
  <2>1. 0 \in Good
    BY <1>2, <1>9
  <2>2. ASSUME NEW i \in 0 .. n - 1, i \in Good
        PROVE  i + 1 \in Good
    <3>1. i + 1 \in 1 .. n /\ i + 1 \in 0 .. n /\ (i + 1) - 1 = i
      BY <1>2
    <3> HIDE DEF Comma
    <3>2. upTo[i + 1] = upTo[i] + lengths[i + 1] + Comma(i + 1)
      BY <1>9, <3>1
    <3>3. upTo[i] \in Nat /\ lengths[i + 1] \in Nat /\ Comma(i + 1) \in Nat
      BY <1>2, <1>10, <2>2, <3>1
    <3>4. upTo[i + 1] \in Nat
      BY <3>2, <3>3
    <3> QED
      BY <3>1, <3>4
  <2> HIDE DEF Good
  <2>3. 0 .. n \subseteq Good
    BY <1>2, <2>1, <2>2, UpTo
  <2> QED
    BY <2>3 DEF Good
<1>12. IsTotal(upTo, lengths)
  <2>1. upTo \in [0 .. n -> Nat]
    <3> HIDE DEF Comma
    <3> QED
      BY <1>8, <1>11
  <2> QED
    BY <1>9, <2>1 DEF IsTotal, n
<1> QED
  BY <1>1, <1>12 DEF n

\* Every builder has been asked for some text.
LEMMA BuilderMeasured ==
  ASSUME NEW b \in Builders
  PROVE  \E n \in Nat, comma \in BOOLEAN : Measured(b, n, comma)
<1>1. b.needComma \in BOOLEAN /\ Len(b.json.items) \in Nat /\ BodyCapacity \in Nat
  BY BuilderTypes DEF Builders
<1>2. CASE b.result = "OK"
  <2>1. Measured(b, Len(b.json.items), b.needComma)
    BY <1>1, <1>2 DEF Measured
  <2> QED
    BY <1>1, <2>1
<1>3. CASE b.result # "OK"
  <2>1. BodyCapacity + 1 \in Nat /\ BodyCapacity + 1 > BodyCapacity /\ FALSE \in BOOLEAN
    BY <1>1
  <2>2. Measured(b, BodyCapacity + 1, FALSE)
    BY <1>3, <2>1 DEF Measured
  <2> QED
    BY <2>1, <2>2
<1> QED
  BY <1>2, <1>3

\* What is appended to a builder gives one.
LEMMA AppendsBuild ==
  ASSUME NEW b \in Builders, NEW name \in Seq(Unit), NEW x, IsAppended(x)
  PROVE  AppendArrayItem(b, x) \in Builders /\ AppendObject(b, name, x) \in Builders
<1>1. PICK n \in Nat, comma \in BOOLEAN : Measured(b, n, comma)
  BY BuilderMeasured
<1>2. \E m, c : Measured(AppendArrayItem(b, x), m, c)
  BY <1>1, ItemMeasured
<1>3. \E m, c : Measured(AppendObject(b, name, x), m, c)
  BY <1>1, MemberMeasured
<1> QED
  BY <1>2, <1>3 DEF Measured

\* A function that is defined by recursion is what its definition says.
Grows(f, n, S, first, step) ==
  /\ f \in [0 .. n -> S]
  /\ f = [i \in 0 .. n |-> IF i = 0 THEN first ELSE step[i][f[i - 1]]]

LEMMA GrowsBySteps ==
  ASSUME NEW n \in Nat, NEW S, NEW first \in S, NEW step \in [1 .. n -> [S -> S]]
  PROVE  \E f : Grows(f, n, S, first, step)
<1>1. PICK f \in Recursive(n, S, first, step) : TRUE
  BY NatRecursion
<1>2. /\ f \in [0 .. n -> S] /\ f[0] = first
      /\ \A i \in 1 .. n : f[i] = step[i][f[i - 1]]
  BY <1>1 DEF Recursive
<1>3. \A i \in 0 .. n : i # 0 => i \in 1 .. n
  OBVIOUS
<1>4. \A i \in 0 .. n : f[i] = IF i = 0 THEN first ELSE step[i][f[i - 1]]
  BY <1>2, <1>3, Zenon
<1>5. f = [i \in 0 .. n |-> IF i = 0 THEN first ELSE step[i][f[i - 1]]]
  BY <1>2, <1>4
<1> QED
  BY <1>2, <1>5 DEF Grows

\* Containers, item by item: what is appended to one that has just been opened has
\* the length of the items and of the commas between them.
LEMMA RunMeasured ==
  ASSUME NEW lengths \in Seq(Nat), NEW w, NEW p \in Nat,
         Measured(w[0], p, FALSE),
         \A i \in 1 .. Len(lengths) : \A m \in Nat, comma \in BOOLEAN :
           Measured(w[i - 1], m, comma)
             => Measured(w[i], m + CommaLength(comma) + lengths[i], TRUE)
  PROVE  /\ ContainerLength(lengths) \in Nat /\ ContainerLength(lengths) >= 2
         /\ Measured(w[Len(lengths)], p + (ContainerLength(lengths) - 2),
                     Len(lengths) > 0)
<1> DEFINE n == Len(lengths)
<1>1. PICK f : IsTotal(f, lengths) /\ ContainerLength(lengths) = f[n]
  BY ContainerLengthUnfolds
<1>2. n \in Nat /\ \A i \in 1 .. n : lengths[i] \in Nat
  BY LenProperties, ElementOfSeq
<1>3. /\ f \in [0 .. n -> Nat] /\ f[0] = 2
      /\ \A i \in 1 .. n : f[i] = f[i - 1] + lengths[i] + (IF i = 1 THEN 0 ELSE 1)
  BY <1>1 DEF IsTotal
<1> HIDE DEF n
<1> DEFINE Good == {k \in 0 .. n : f[k] >= 2 /\ Measured(w[k], p + (f[k] - 2), k > 0)}
<1>4. 0 \in Good
  <2>1. 0 \in 0 .. n /\ f[0] >= 2 /\ p + (f[0] - 2) = p /\ (0 > 0) = FALSE
    BY <1>2, <1>3
  <2>2. Measured(w[0], p + (f[0] - 2), 0 > 0)
    BY <2>1
  <2> QED
    BY <2>1, <2>2
<1>5. ASSUME NEW k \in 0 .. n - 1, k \in Good
      PROVE  k + 1 \in Good
  <2>1. /\ k + 1 \in 1 .. n /\ k + 1 \in 0 .. n /\ (k + 1) - 1 = k /\ k \in 0 .. n
        /\ (k + 1 > 0) = TRUE /\ (k > 0) \in BOOLEAN /\ (k > 0 <=> k + 1 # 1)
    BY <1>2
  <2>2. f[k] \in Nat /\ f[k] >= 2 /\ lengths[k + 1] \in Nat
    BY <1>2, <1>3, <1>5, <2>1
  <2>3. f[k + 1] = f[k] + lengths[k + 1] + CommaLength(k > 0)
    BY <1>3, <2>1 DEF CommaLength
  <2>4. Measured(w[k], p + (f[k] - 2), k > 0)
    BY <1>5
  <2> DEFINE m == p + (f[k] - 2)
  <2>5. m \in Nat
    BY <2>2
  <2>6. Measured(w[k + 1], m + CommaLength(k > 0) + lengths[k + 1], TRUE)
    <3> HIDE DEF m
    <3>1. Measured(w[(k + 1) - 1], m, k > 0)
      BY <2>1, <2>4 DEF m
    <3> QED
      BY <2>1, <2>5, <3>1 DEF n
  <2>7. CommaLength(k > 0) \in Nat
    BY DEF CommaLength
  <2>8. /\ f[k + 1] >= 2
        /\ m + CommaLength(k > 0) + lengths[k + 1] = p + (f[k + 1] - 2)
    <3> DEFINE c == CommaLength(k > 0)
               l == lengths[k + 1]
               here == f[k]
               next == f[k + 1]
    <3> HIDE DEF c, l, here, next
    <3>1. /\ c \in Nat /\ l \in Nat /\ here \in Nat /\ here >= 2
          /\ next = here + l + c
      BY <2>2, <2>3, <2>7 DEF c, l, here, next
    <3>2. next >= 2 /\ (p + (here - 2)) + c + l = p + (next - 2)
      BY <3>1
    <3> QED
      BY <3>2 DEF c, l, here, next
  <2> HIDE DEF m
  <2>9. Measured(w[k + 1], p + (f[k + 1] - 2), k + 1 > 0)
    BY <2>1, <2>6, <2>8
  <2> QED
    BY <2>1, <2>8, <2>9
<1>6. 0 .. n \subseteq Good
  <2> HIDE DEF Good
  <2> QED
    BY <1>2, <1>4, <1>5, UpTo
<1>7. n \in Good /\ f[n] \in Nat
  BY <1>2, <1>3, <1>6
<1> QED
  BY <1>1, <1>7 DEF n

\* The names of members are one unit each.
LEMMA NameTypes ==
  \A name \in BodyNames : <<name>> \in Seq(Unit) /\ Len(<<name>>) = 1
<1>1. BodyNames \subseteq Unit
  BY ClientsAssumption
<1> QED
  BY <1>1

\* What is appended has a length, and is a container or is not.
LEMMA AppendedTypes ==
  /\ IsAppended(Bare("scalar")) /\ IsAppended(Bare("object")) /\ IsAppended(Bare("array"))
  /\ \A text \in Seq(Unit) :
       /\ IsAppended(Text("string", text))
       /\ TokenLength(Text("string", text)) = StringLength(text)
       /\ Text("string", text).kind \notin Containers
       /\ StringLength(text) \in Nat
  /\ TokenLength(Bare("scalar")) = 1 /\ Bare("scalar").kind \notin Containers
  /\ TokenLength(Bare("object")) = 1 /\ Bare("object").kind \in Containers
  /\ TokenLength(Bare("array")) = 1 /\ Bare("array").kind \in Containers
<1>1. \A text \in Seq(Unit) : Len(text) \in Nat
  BY LenProperties
<1>2. ASSUME NEW text \in Seq(Unit)
      PROVE  /\ IsAppended(Text("string", text))
             /\ TokenLength(Text("string", text)) = StringLength(text)
             /\ Text("string", text).kind \notin Containers
             /\ StringLength(text) \in Nat
  <2>1. Text("string", text).kind = "string" /\ Text("string", text).value = text
    BY DEF Text
  <2>2. IsAppended(Text("string", text))
    BY Zenon DEF IsAppended
  <2> QED
    BY <1>1, <2>1, <2>2 DEF TokenLength, Containers, StringLength
<1>3. IsAppended(Bare("scalar")) /\ IsAppended(Bare("object")) /\ IsAppended(Bare("array"))
  BY Zenon DEF IsAppended
<1>4. /\ Bare("scalar").kind = "scalar" /\ Bare("object").kind = "object"
      /\ Bare("array").kind = "array"
  BY DEF Bare
<1> QED
  BY <1>2, <1>3, <1>4 DEF TokenLength, Containers

\* A closing bracket, of either container.
LEMMA EndMeasured ==
  ASSUME NEW b, NEW n, NEW comma, Measured(b, n, comma)
  PROVE  /\ Measured(AppendObjectClose(b), n + 1, TRUE)
         /\ Measured(AppendArrayClose(b), n + 1, TRUE)
<1>1. Close(Object) \in {"}", "]"} /\ Close(Array) \in {"}", "]"}
  BY Zenon DEF Close
<1>2. Measured(WriteClose(b, Close(Object)), n + 1, TRUE)
  <2> DEFINE bracket == Close(Object)
  <2> HIDE DEF bracket
  <2>1. bracket \in {"}", "]"}
    BY <1>1, Zenon DEF bracket
  <2> QED
    BY <2>1, CloseMeasured, Zenon DEF bracket
<1>3. Measured(WriteClose(b, Close(Array)), n + 1, TRUE)
  <2> DEFINE bracket == Close(Array)
  <2> HIDE DEF bracket
  <2>1. bracket \in {"}", "]"}
    BY <1>1, Zenon DEF bracket
  <2> QED
    BY <2>1, CloseMeasured, Zenon DEF bracket
<1> QED
  BY <1>2, <1>3, Zenon DEF AppendObjectClose, AppendArrayClose

\* The arrays among the options end at their only empty span.
LEMMA OptionTypes ==
  ASSUME NEW o \in Options \ {NoOptions}
  PROVE  /\ o.enabled \in {"absent", "present"}
         /\ o.operations \in Seq(Seq(Unit))
         /\ o.tags \in Seq([name: Seq(Unit), value: Seq(Unit)])
         /\ o.operations # Null =>
              /\ Len(o.operations) - 1 \in Nat
              /\ Operations(o) = SubSeq(o.operations, 1, Len(o.operations) - 1)
         /\ o.tags # Null =>
              /\ Len(o.tags) - 1 \in Nat
              /\ Tags(o) = SubSeq(o.tags, 1, Len(o.tags) - 1)
<1>1. /\ o.enabled \in {"absent", "present"}
      /\ o.operations \in Seq(Seq(Unit))
      /\ o.operations # Null => NoOperation(o) = {Len(o.operations)}
      /\ o.tags \in Seq([name: Seq(Unit), value: Seq(Unit)])
      /\ o.tags # Null => NoTag(o) = {Len(o.tags)}
  BY ClientsAssumption
<1>2. ASSUME NEW n \in Nat
      PROVE  Min({n}) = n
  <2>1. \E x \in {n} : \A y \in {n} : x =< y
    OBVIOUS
  <2> QED
    BY <2>1 DEF Min
<1>3. ASSUME o.operations # Null
      PROVE  /\ Len(o.operations) - 1 \in Nat
             /\ Operations(o) = SubSeq(o.operations, 1, Len(o.operations) - 1)
  <2>1. Len(o.operations) \in Nat /\ Len(o.operations) # 0
    BY <1>1, <1>3, LenProperties, EmptySeq DEF Null
  <2>2. Min(NoOperation(o)) = Len(o.operations)
    BY <1>1, <1>2, <1>3, <2>1
  <2> QED
    BY <2>1, <2>2 DEF Operations, UpToNull
<1>4. ASSUME o.tags # Null
      PROVE  /\ Len(o.tags) - 1 \in Nat
             /\ Tags(o) = SubSeq(o.tags, 1, Len(o.tags) - 1)
  <2>1. Len(o.tags) \in Nat /\ Len(o.tags) # 0
    BY <1>1, <1>4, LenProperties, EmptySeq DEF Null
  <2>2. Min(NoTag(o)) = Len(o.tags)
    BY <1>1, <1>2, <1>4, <2>1
  <2> QED
    BY <2>1, <2>2 DEF Tags, UpToNull
<1> QED
  BY <1>1, <1>3, <1>4

\* The beginning of an array: all but its end.
LEMMA Beginning ==
  ASSUME NEW S, NEW s \in Seq(S), Len(s) - 1 \in Nat
  PROVE  LET front == SubSeq(s, 1, Len(s) - 1)
         IN  /\ front \in Seq(S) /\ Len(front) = Len(s) - 1
             /\ \A i \in 1 .. Len(front) : front[i] = s[i] /\ s[i] \in S
<1>1. Len(s) \in Nat
  BY LenProperties
<1>2. /\ SubSeq(s, 1, Len(s) - 1) \in Seq(S)
      /\ Len(SubSeq(s, 1, Len(s) - 1)) = Len(s) - 1
      /\ \A i \in 1 .. Len(s) - 1 : SubSeq(s, 1, Len(s) - 1)[i] = s[i]
  <2> DEFINE k == Len(s) - 1
  <2>1. k \in Int /\ k >= 0 /\ \A i \in 1 .. k : s[i] \in S
    BY <1>1, ElementOfSeq
  <2> HIDE DEF k
  <2>2. /\ SubSeq(s, 1, k) \in Seq(S)
        /\ Len(SubSeq(s, 1, k)) = IF 1 <= k THEN k - 1 + 1 ELSE 0
        /\ \A i \in 1 .. k - 1 + 1 : SubSeq(s, 1, k)[i] = s[1 + i - 1]
    BY <2>1, SubSeqProperties
  <2>3. /\ Len(SubSeq(s, 1, k)) = k
        /\ \A i \in 1 .. k : SubSeq(s, 1, k)[i] = s[i]
    BY <2>1, <2>2
  <2> QED
    BY <2>2, <2>3 DEF k
<1>3. \A i \in 1 .. Len(s) - 1 : s[i] \in S
  BY <1>1, ElementOfSeq
<1> QED
  BY <1>2, <1>3

\* The first of the three members that options become: an object of one member.
LEMMA AttributesMeasured ==
  ASSUME NEW b, NEW n, Measured(b, n, TRUE), NEW o \in Options \ {NoOptions}
  PROVE  /\ AttributesLength(o) \in Nat
         /\ Measured(AppendAttributes(b, o), n + AttributesLength(o), TRUE)
<1>0. n \in Nat
  BY DEF Measured
<1>1. CASE o.enabled = "absent"
  <2>1. AppendAttributes(b, o) = b /\ AttributesLength(o) = 0
    BY <1>1, Zenon DEF AppendAttributes, AttributesLength
  <2>2. n + AttributesLength(o) = n /\ AttributesLength(o) \in Nat
    BY <1>0, <2>1
  <2> QED
    BY <2>1, <2>2, Zenon
<1>2. CASE o.enabled # "absent"
  <2> DEFINE attributes == <<"attributes">>
             enabled == <<"enabled">>
             object == Bare("object")
             scalar == Bare("scalar")
             inner == MemberLength(enabled, 1)
             opened == AppendObject(b, attributes, object)
             filled == AppendObject(opened, enabled, scalar)
  <2>1. AppendAttributes(b, o) = AppendObjectClose(filled)
    BY <1>2 DEF AppendAttributes
  <2>2. AttributesLength(o) = 1 + MemberLength(attributes, ContainerLength(<<inner>>))
    BY <1>2 DEF AttributesLength
  <2>3. /\ attributes \in Seq(Unit) /\ Len(attributes) = 1
        /\ enabled \in Seq(Unit) /\ Len(enabled) = 1
    BY NameTypes DEF BodyNames
  <2>4. /\ IsAppended(object) /\ TokenLength(object) = 1 /\ object.kind \in Containers
        /\ IsAppended(scalar) /\ TokenLength(scalar) = 1 /\ scalar.kind \notin Containers
    BY AppendedTypes
  <2> HIDE DEF attributes, enabled, object, scalar
  <2>5. inner \in Nat
    BY <2>3 DEF MemberLength, StringLength
  <2>6. ContainerLength(<<inner>>) = 2 + inner
    <3> DEFINE lengths == <<inner>>
    <3>1. lengths \in Seq(Nat) /\ Len(lengths) = 1 /\ lengths[1] = inner
      BY <2>5
    <3> HIDE DEF lengths, inner
    <3>2. PICK f : IsTotal(f, lengths) /\ ContainerLength(lengths) = f[Len(lengths)]
      BY <3>1, ContainerLengthUnfolds
    <3>3. f[0] = 2 /\ f[1] = f[1 - 1] + lengths[1] + 0
      <4>1. 1 \in 1 .. Len(lengths)
        BY <3>1
      <4>2. /\ f[0] = 2
            /\ \A i \in 1 .. Len(lengths) :
                 f[i] = f[i - 1] + lengths[i] + (IF i = 1 THEN 0 ELSE 1)
        BY <3>2 DEF IsTotal
      <4> QED
        BY <4>1, <4>2
    <3>4. f[1] = 2 + inner
      BY <2>5, <3>1, <3>3
    <3> QED
      BY <3>1, <3>2, <3>4 DEF lengths
  <2>7. Measured(opened, n + CommaLength(TRUE) + MemberLength(attributes, 1), FALSE)
    <3>1. Measured(opened, n + CommaLength(TRUE)
                             + MemberLength(attributes, TokenLength(object)),
                   object.kind \notin Containers)
      BY <2>3, <2>4, MemberMeasured
    <3> HIDE DEF opened
    <3> QED
      BY <2>4, <3>1
  <2> DEFINE m == n + CommaLength(TRUE) + MemberLength(attributes, 1)
  <2>8. Measured(filled, m + CommaLength(FALSE) + inner, TRUE)
    <3> HIDE DEF opened, m
    <3>1. Measured(filled, m + CommaLength(FALSE)
                             + MemberLength(enabled, TokenLength(scalar)),
                   scalar.kind \notin Containers)
      BY <2>3, <2>4, <2>7, MemberMeasured DEF m
    <3> HIDE DEF filled
    <3> QED
      BY <2>4, <3>1
  <2> HIDE DEF filled
  <2>9. Measured(AppendObjectClose(filled), (m + CommaLength(FALSE) + inner) + 1, TRUE)
    <3> HIDE DEF m, inner
    <3> QED
      BY <2>8, EndMeasured
  <2>10. AttributesLength(o) = 4 + 1 + (2 + inner)
    <3> HIDE DEF inner
    <3>1. StringLength(attributes) = 3
      BY <2>3 DEF StringLength
    <3> QED
      BY <2>2, <2>5, <2>6, <3>1 DEF MemberLength
  <2>11. (m + CommaLength(FALSE) + inner) + 1 = n + AttributesLength(o)
    <3> HIDE DEF inner
    <3>1. m = n + 1 + (3 + 1 + 1)
      BY <1>0, <2>3 DEF CommaLength, MemberLength, StringLength
    <3> HIDE DEF m
    <3> QED
      BY <1>0, <2>5, <2>10, <3>1 DEF CommaLength
  <2> HIDE DEF inner, m, opened
  <2>12. AttributesLength(o) \in Nat
    BY <2>5, <2>10
  <2> QED
    BY <2>1, <2>9, <2>11, <2>12
<1> QED
  BY <1>1, <1>2

\* A member that is a container, from its comma to its closing bracket.
LEMMA FilledMeasured ==
  ASSUME NEW n \in Nat, NEW name \in Seq(Unit), NEW w, NEW lengths \in Seq(Nat),
         Measured(w[0], n + CommaLength(TRUE) + MemberLength(name, 1), FALSE),
         \A i \in 1 .. Len(lengths) : \A m \in Nat, comma \in BOOLEAN :
           Measured(w[i - 1], m, comma)
             => Measured(w[i], m + CommaLength(comma) + lengths[i], TRUE)
  PROVE  LET length == 1 + MemberLength(name, ContainerLength(lengths))
         IN  /\ length \in Nat
             /\ Measured(AppendArrayClose(w[Len(lengths)]), n + length, TRUE)
             /\ Measured(AppendObjectClose(w[Len(lengths)]), n + length, TRUE)
<1> DEFINE p == n + CommaLength(TRUE) + MemberLength(name, 1)
           length == ContainerLength(lengths)
           last == w[Len(lengths)]
<1>1. p \in Nat /\ p = n + 1 + (Len(name) + 2 + 1 + 1) /\ Len(name) \in Nat
  BY LenProperties DEF CommaLength, MemberLength, StringLength
<1>2. /\ length \in Nat /\ length >= 2
      /\ Measured(last, p + (length - 2), Len(lengths) > 0)
  <2> HIDE DEF p
  <2> QED
    BY <1>1, RunMeasured DEF p
<1> HIDE DEF last, length, p
<1> DEFINE m == p + (length - 2)
<1>3. m + 1 = n + (1 + MemberLength(name, length)) /\ 1 + MemberLength(name, length) \in Nat
  BY <1>1, <1>2 DEF MemberLength, StringLength
<1> HIDE DEF m
<1>4. Measured(AppendArrayClose(last), m + 1, TRUE)
      /\ Measured(AppendObjectClose(last), m + 1, TRUE)
  BY <1>2, EndMeasured DEF m
<1> QED
  BY <1>3, <1>4 DEF last, length

\* The second, an array, item by item.
LEMMA OperationsMeasured ==
  ASSUME NEW b, NEW n, Measured(b, n, TRUE), NEW o \in Options \ {NoOptions}
  PROVE  /\ OperationsLength(o) \in Nat
         /\ Measured(AppendOperations(b, o), n + OperationsLength(o), TRUE)
<1>0. n \in Nat /\ b \in Builders
  BY DEF Measured
<1>1. CASE o.operations = Null
  <2>1. AppendOperations(b, o) = b /\ OperationsLength(o) = 0
    BY <1>1, Zenon DEF AppendOperations, OperationsLength
  <2>2. n + OperationsLength(o) = n /\ OperationsLength(o) \in Nat
    BY <1>0, <2>1
  <2> QED
    BY <2>1, <2>2, Zenon
<1>2. CASE o.operations # Null
  <2> DEFINE items == Operations(o)
             k == Len(items)
             name == <<"key_ops">>
             array == Bare("array")
             first == AppendObject(b, name, array)
             write[i \in 0 .. Len(items)] ==
               IF i = 0 THEN AppendObject(b, <<"key_ops">>, Bare("array"))
               ELSE AppendArrayItem(write[i - 1], Text("string", items[i]))
             grow == [i \in 1 .. k |->
                        [c \in Builders |-> AppendArrayItem(c, Text("string", items[i]))]]
             lengths == [i \in 1 .. Len(o.operations) - 1 |->
                           StringLength(o.operations[i])]
  <2>1. AppendOperations(b, o) = AppendArrayClose(write[k])
    BY <1>2 DEF AppendOperations
  <2>2. OperationsLength(o) = 1 + MemberLength(name, ContainerLength(lengths))
    BY <1>2 DEF OperationsLength
  <2>3. /\ o.operations \in Seq(Seq(Unit)) /\ k = Len(o.operations) - 1 /\ k \in Nat
        /\ \A i \in 1 .. k : items[i] = o.operations[i] /\ items[i] \in Seq(Unit)
    BY <1>2, OptionTypes, Beginning
  <2>4. name \in Seq(Unit)
    BY NameTypes DEF BodyNames
  <2>5. IsAppended(array) /\ TokenLength(array) = 1 /\ array.kind \in Containers
    BY AppendedTypes
  <2> HIDE DEF items, k, name, array
  <2>6. first \in Builders
    BY <1>0, <2>4, <2>5, AppendsBuild
  <2> HIDE DEF first
  <2>7. grow \in [1 .. k -> [Builders -> Builders]]
    <3>1. \A i \in 1 .. k : IsAppended(Text("string", items[i]))
      BY <2>3, AppendedTypes
    <3>2. \A i \in 1 .. k : \A c \in Builders :
            AppendArrayItem(c, Text("string", items[i])) \in Builders
      BY <2>4, <3>1, AppendsBuild
    <3> QED
      BY <3>2
  <2>8. PICK f : Grows(f, k, Builders, first, grow)
    <3> HIDE DEF grow, write, lengths
    <3> QED
      BY <2>3, <2>6, <2>7, GrowsBySteps
  <2>9. \A i \in 0 .. k : i # 0 => i \in 1 .. k /\ i - 1 \in 0 .. k
    BY <2>3
  <2>10. f = [i \in 0 .. k |-> IF i = 0 THEN first
                               ELSE AppendArrayItem(f[i - 1], Text("string", items[i]))]
    <3>1. /\ f \in [0 .. k -> Builders]
          /\ f = [i \in 0 .. k |-> IF i = 0 THEN first ELSE grow[i][f[i - 1]]]
      <4> HIDE DEF grow, write, lengths
      <4> QED
        BY <2>8 DEF Grows
    <3>2. \A i \in 0 .. k : i # 0 =>
            grow[i][f[i - 1]] = AppendArrayItem(f[i - 1], Text("string", items[i]))
      BY <2>9, <3>1
    <3> HIDE DEF grow, write, lengths
    <3> QED
      BY <3>1, <3>2
  <2>11. \E g : g = [i \in 0 .. k |-> IF i = 0 THEN first
                                 ELSE AppendArrayItem(g[i - 1], Text("string", items[i]))]
    BY <2>10
  <2>12. write = [i \in 0 .. k |-> IF i = 0 THEN first
                            ELSE AppendArrayItem(write[i - 1], Text("string", items[i]))]
    BY <2>11 DEF k, first, name, array
  <2> HIDE DEF write, grow
  <2>13. /\ write[0] = first
         /\ \A i \in 1 .. k :
              write[i] = AppendArrayItem(write[i - 1], Text("string", items[i]))
    <3>1. 0 \in 0 .. k /\ \A i \in 1 .. k : i \in 0 .. k /\ i # 0
      BY <2>3
    <3> QED
      BY <2>12, <3>1, Zenon
  <2>14. /\ lengths \in Seq(Nat) /\ Len(lengths) = k
         /\ \A i \in 1 .. k : lengths[i] = StringLength(items[i])
    <3>1. \A i \in 1 .. k : StringLength(o.operations[i]) \in Nat
      BY <2>3, AppendedTypes
    <3> QED
      BY <2>3, <3>1
  <2> HIDE DEF lengths
  <2>15. Measured(write[0], n + CommaLength(TRUE) + MemberLength(name, 1), FALSE)
    <3>1. Measured(first, n + CommaLength(TRUE) + MemberLength(name, TokenLength(array)),
                   array.kind \notin Containers)
      BY <2>4, <2>5, MemberMeasured DEF first
    <3> QED
      BY <2>5, <2>13, <3>1
  <2>16. ASSUME NEW i \in 1 .. Len(lengths), NEW m \in Nat, NEW comma \in BOOLEAN,
                Measured(write[i - 1], m, comma)
         PROVE  Measured(write[i], m + CommaLength(comma) + lengths[i], TRUE)
    <3> DEFINE item == Text("string", items[i])
               before == write[i - 1]
    <3>1. /\ IsAppended(item) /\ TokenLength(item) = lengths[i]
          /\ item.kind \notin Containers /\ write[i] = AppendArrayItem(before, item)
      BY <2>3, <2>13, <2>14, AppendedTypes
    <3> HIDE DEF item, before
    <3>2. Measured(AppendArrayItem(before, item),
                   m + CommaLength(comma) + TokenLength(item),
                   item.kind \notin Containers)
      BY <2>16, <3>1, ItemMeasured DEF before
    <3> QED
      BY <3>1, <3>2
  <2> QED
    BY <1>0, <2>1, <2>2, <2>4, <2>14, <2>15, <2>16, FilledMeasured
<1> QED
  BY <1>1, <1>2

\* The third, an object, member by member.
LEMMA TagsMeasured ==
  ASSUME NEW b, NEW n, Measured(b, n, TRUE), NEW o \in Options \ {NoOptions}
  PROVE  /\ TagsLength(o) \in Nat
         /\ Measured(AppendTags(b, o), n + TagsLength(o), TRUE)
<1>0. n \in Nat /\ b \in Builders
  BY DEF Measured
<1>1. CASE o.tags = Null
  <2>1. AppendTags(b, o) = b /\ TagsLength(o) = 0
    BY <1>1, Zenon DEF AppendTags, TagsLength
  <2>2. n + TagsLength(o) = n /\ TagsLength(o) \in Nat
    BY <1>0, <2>1
  <2> QED
    BY <2>1, <2>2, Zenon
<1>2. CASE o.tags # Null
  <2> DEFINE items == Tags(o)
             k == Len(items)
             name == <<"tags">>
             object == Bare("object")
             first == AppendObject(b, name, object)
             write[i \in 0 .. Len(items)] ==
               IF i = 0 THEN AppendObject(b, <<"tags">>, Bare("object"))
               ELSE AppendObject(write[i - 1], items[i].name,
                                                    Text("string", items[i].value))
             grow == [i \in 1 .. k |->
                        [c \in Builders |-> AppendObject(c, items[i].name,
                                                     Text("string", items[i].value))]]
             lengths == [i \in 1 .. Len(o.tags) - 1 |->
                           MemberLength(o.tags[i].name, StringLength(o.tags[i].value))]
  <2>1. AppendTags(b, o) = AppendObjectClose(write[k])
    BY <1>2 DEF AppendTags
  <2>2. TagsLength(o) = 1 + MemberLength(name, ContainerLength(lengths))
    BY <1>2 DEF TagsLength
  <2>3. /\ k = Len(o.tags) - 1 /\ k \in Nat
        /\ \A i \in 1 .. k :
             items[i] = o.tags[i] /\ items[i] \in [name: Seq(Unit), value: Seq(Unit)]
    <3> DEFINE Tag == [name: Seq(Unit), value: Seq(Unit)]
    <3> HIDE DEF write, grow, lengths, items
    <3>1. /\ o.tags \in Seq(Tag) /\ Len(o.tags) - 1 \in Nat
          /\ items = SubSeq(o.tags, 1, Len(o.tags) - 1)
      BY <1>2, OptionTypes DEF items
    <3> HIDE DEF Tag
    <3>2. /\ Len(items) = Len(o.tags) - 1
          /\ \A i \in 1 .. Len(items) : items[i] = o.tags[i] /\ o.tags[i] \in Tag
      BY <3>1, Beginning
    <3> QED
      BY <3>1, <3>2 DEF Tag
  <2>4. name \in Seq(Unit)
    BY NameTypes DEF BodyNames
  <2>5. IsAppended(object) /\ TokenLength(object) = 1 /\ object.kind \in Containers
    BY AppendedTypes
  <2> HIDE DEF items, k, name, object
  <2>6. first \in Builders
    BY <1>0, <2>4, <2>5, AppendsBuild
  <2> HIDE DEF first
  <2>7. grow \in [1 .. k -> [Builders -> Builders]]
    <3>1. \A i \in 1 .. k : IsAppended(Text("string", items[i].value))
      BY <2>3, AppendedTypes
    <3>2. \A i \in 1 .. k : \A c \in Builders :
            AppendObject(c, items[i].name, Text("string", items[i].value)) \in Builders
      BY <2>3, <2>4, <3>1, AppendsBuild
    <3> QED
      BY <3>2
  <2>8. PICK f : Grows(f, k, Builders, first, grow)
    <3> HIDE DEF grow, write, lengths
    <3> QED
      BY <2>3, <2>6, <2>7, GrowsBySteps
  <2>9. \A i \in 0 .. k : i # 0 => i \in 1 .. k /\ i - 1 \in 0 .. k
    BY <2>3
  <2>10. f = [i \in 0 .. k |-> IF i = 0 THEN first
                               ELSE AppendObject(f[i - 1], items[i].name,
                                            Text("string", items[i].value))]
    <3>1. /\ f \in [0 .. k -> Builders]
          /\ f = [i \in 0 .. k |-> IF i = 0 THEN first ELSE grow[i][f[i - 1]]]
      <4> HIDE DEF grow, write, lengths
      <4> QED
        BY <2>8 DEF Grows
    <3>2. \A i \in 0 .. k : i # 0 =>
            grow[i][f[i - 1]] = AppendObject(f[i - 1], items[i].name,
                                            Text("string", items[i].value))
      BY <2>9, <3>1
    <3> HIDE DEF grow, write, lengths
    <3> QED
      BY <3>1, <3>2
  <2>11. \E g : g = [i \in 0 .. k |-> IF i = 0 THEN first
                                 ELSE AppendObject(g[i - 1], items[i].name,
                                            Text("string", items[i].value))]
    BY <2>10
  <2>12. write = [i \in 0 .. k |-> IF i = 0 THEN first
                            ELSE AppendObject(write[i - 1], items[i].name,
                                                    Text("string", items[i].value))]
    BY <2>11 DEF k, first, name, object
  <2> HIDE DEF write, grow
  <2>13. /\ write[0] = first
         /\ \A i \in 1 .. k : write[i] = AppendObject(write[i - 1], items[i].name,
                                                    Text("string", items[i].value))
    <3>1. 0 \in 0 .. k /\ \A i \in 1 .. k : i \in 0 .. k /\ i # 0
      BY <2>3
    <3> QED
      BY <2>12, <3>1, Zenon
  <2>14. /\ lengths \in Seq(Nat) /\ Len(lengths) = k
         /\ \A i \in 1 .. k :
              lengths[i] = MemberLength(items[i].name, StringLength(items[i].value))
    <3>1. \A i \in 1 .. k :
            MemberLength(o.tags[i].name, StringLength(o.tags[i].value)) \in Nat
      <4>1. \A i \in 1 .. k : /\ StringLength(o.tags[i].name) \in Nat
                              /\ StringLength(o.tags[i].value) \in Nat
        BY <2>3, AppendedTypes
      <4> QED
        BY <4>1 DEF MemberLength
    <3> DEFINE Length(i) == MemberLength(o.tags[i].name, StringLength(o.tags[i].value))
    <3>2. lengths = [i \in 1 .. k |-> Length(i)] /\ \A i \in 1 .. k : Length(i) \in Nat
      BY <2>3, <3>1
    <3> HIDE DEF lengths
    <3>3. \A i \in 1 .. k :
            Length(i) = MemberLength(items[i].name, StringLength(items[i].value))
      BY <2>3
    <3> HIDE DEF Length
    <3>4. /\ lengths \in Seq(Nat) /\ Len(lengths) = k
          /\ \A i \in 1 .. k : lengths[i] = Length(i)
      BY <2>3, <3>2
    <3> QED
      BY <3>3, <3>4
  <2> HIDE DEF lengths
  <2>15. Measured(write[0], n + CommaLength(TRUE) + MemberLength(name, 1), FALSE)
    <3>1. Measured(first, n + CommaLength(TRUE) + MemberLength(name, TokenLength(object)),
                   object.kind \notin Containers)
      BY <2>4, <2>5, MemberMeasured DEF first
    <3> QED
      BY <2>5, <2>13, <3>1
  <2>16. ASSUME NEW i \in 1 .. Len(lengths), NEW m \in Nat, NEW comma \in BOOLEAN,
                Measured(write[i - 1], m, comma)
         PROVE  Measured(write[i], m + CommaLength(comma) + lengths[i], TRUE)
    <3> DEFINE item == Text("string", items[i].value)
               key == items[i].name
               before == write[i - 1]
    <3>1. /\ IsAppended(item) /\ MemberLength(key, TokenLength(item)) = lengths[i]
          /\ item.kind \notin Containers /\ write[i] = AppendObject(before, key, item)
          /\ key \in Seq(Unit)
      BY <2>3, <2>13, <2>14, AppendedTypes
    <3> HIDE DEF item, before, key
    <3>2. Measured(AppendObject(before, key, item),
                   m + CommaLength(comma) + MemberLength(key, TokenLength(item)),
                   item.kind \notin Containers)
      BY <2>16, <3>1, MemberMeasured DEF before
    <3> QED
      BY <3>1, <3>2
  <2> QED
    BY <1>0, <2>1, <2>2, <2>4, <2>14, <2>15, <2>16, FilledMeasured
<1> QED
  BY <1>1, <1>2

\* The body that a key is created with.
LEMMA BodyMeasured ==
  ASSUME NEW type \in KeyTypes, NEW options \in Options
  PROVE  /\ BodyLength(type, options) \in Nat
         /\ Measured(CreateBody(BodyCapacity, type, options),
                     BodyLength(type, options), TRUE)
<1> DEFINE new == NewBuilder(BodyCapacity)
           opened == AppendToken(new, Bare("object"))
           kty == <<"kty">>
           text == Text("string", type)
           begun == AppendObject(opened, kty, text)
           n == 1 + MemberLength(kty, StringLength(type))
<1>1. Measured(new, 0, FALSE)
  <2>1. BodyCapacity \in Nat /\ <<>> \in Seq(Unit) /\ Len(<<>>) = 0
    BY ClientsAssumption
  <2>2. EmptySpan(BodyCapacity) \in SpanOf(Unit)
    BY <2>1 DEF EmptySpan, SpanOf
  <2>3. /\ new.json = EmptySpan(BodyCapacity) /\ new.needComma = FALSE /\ new.result = "OK"
        /\ new.json.items = <<>> /\ new.json.capacity = BodyCapacity
    BY DEF NewBuilder, EmptySpan
  <2>4. new \in Builders
    BY <2>2, <2>3 DEF NewBuilder, Builders, AzResults
  <2> HIDE DEF new
  <2> QED
    BY <2>1, <2>3, <2>4 DEF Measured
<1>2. /\ type \in Seq(Unit) /\ kty \in Seq(Unit) /\ Len(kty) = 1 /\ Len(type) \in Nat
      /\ IsAppended(text) /\ TokenLength(text) = StringLength(type)
      /\ text.kind \notin Containers
  <2>1. type \in Seq(Unit)
    BY ClientsAssumption
  <2>2. kty \in Seq(Unit) /\ Len(kty) = 1
    BY NameTypes DEF BodyNames
  <2> QED
    BY <2>1, <2>2, AppendedTypes, LenProperties
<1> HIDE DEF new, kty, text
<1>3. Measured(opened, 1, FALSE)
  <2> DEFINE object == Bare("object")
  <2>1. IsAppended(object) /\ TokenLength(object) = 1 /\ object.kind \in Containers
    BY AppendedTypes
  <2> HIDE DEF object
  <2>2. Measured(AppendToken(new, object), 0 + TokenLength(object),
                 object.kind \notin Containers)
    BY <1>1, <2>1, TokenMeasured
  <2>3. 0 + TokenLength(object) = 1 /\ (object.kind \notin Containers) = FALSE
    BY <2>1
  <2> QED
    BY <2>2, <2>3 DEF object
<1> HIDE DEF opened
<1>4. n \in Nat /\ Measured(begun, n, TRUE)
  <2>1. Measured(begun, 1 + CommaLength(FALSE) + MemberLength(kty, TokenLength(text)),
                 text.kind \notin Containers)
    BY <1>2, <1>3, MemberMeasured
  <2>2. n \in Nat
    BY <1>2 DEF MemberLength, StringLength
  <2>3. 1 + CommaLength(FALSE) + MemberLength(kty, TokenLength(text)) = n
    BY <1>2 DEF CommaLength, MemberLength, StringLength
  <2> HIDE DEF begun, n
  <2> QED
    BY <1>2, <2>1, <2>2, <2>3
<1> DEFINE full == IF options = NoOptions THEN begun
                   ELSE AppendTags(AppendOperations(AppendAttributes(begun, options),
                                                    options), options)
           extra == IF options = NoOptions THEN 0
                    ELSE AttributesLength(options) + OperationsLength(options)
                           + TagsLength(options)
<1>5. CreateBody(BodyCapacity, type, options) = AppendObjectClose(full)
  BY DEF CreateBody, begun, opened, new, kty, text
<1>6. BodyLength(type, options) = 2 + MemberLength(kty, StringLength(type)) + extra
  BY DEF BodyLength, kty
<1> HIDE DEF begun
<1>7. extra \in Nat /\ Measured(full, n + extra, TRUE)
  <2>1. CASE options = NoOptions
    <3>1. full = begun /\ extra = 0
      BY <2>1, Zenon
    <3> HIDE DEF full, extra, n
    <3>2. n + extra = n /\ extra \in Nat
      BY <1>4, <3>1
    <3> QED
      BY <1>4, <3>1, <3>2, Zenon
  <2>2. CASE options # NoOptions
    <3> DEFINE one == AppendAttributes(begun, options)
               two == AppendOperations(one, options)
               three == AppendTags(two, options)
               a == AttributesLength(options)
               o == OperationsLength(options)
               t == TagsLength(options)
    <3>1. full = three /\ extra = a + o + t
      BY <2>2, Zenon
    <3>2. options \in Options \ {NoOptions}
      BY <2>2
    <3> HIDE DEF full, extra, n
    <3>3. a \in Nat /\ Measured(one, n + a, TRUE)
      BY <1>4, <3>2, AttributesMeasured
    <3> HIDE DEF one, a
    <3>4. o \in Nat /\ Measured(two, (n + a) + o, TRUE)
      BY <3>2, <3>3, OperationsMeasured
    <3> HIDE DEF two, o
    <3>5. t \in Nat /\ Measured(three, ((n + a) + o) + t, TRUE)
      BY <3>2, <3>4, TagsMeasured
    <3> HIDE DEF three, t
    <3>6. ((n + a) + o) + t = n + extra /\ extra \in Nat
      BY <1>4, <3>1, <3>3, <3>4, <3>5
    <3> QED
      BY <3>1, <3>5, <3>6
  <2> QED
    BY <2>1, <2>2
<1> HIDE DEF full, extra
<1>8. Measured(AppendObjectClose(full), (n + extra) + 1, TRUE)
  <2> HIDE DEF n
  <2> QED
    BY <1>7, EndMeasured
<1>9. (n + extra) + 1 = BodyLength(type, options) /\ BodyLength(type, options) \in Nat
  <2>1. MemberLength(kty, StringLength(type)) \in Nat
    BY <1>2 DEF MemberLength, StringLength
  <2> QED
    BY <1>6, <1>7, <2>1
<1> HIDE DEF n
<1> QED
  BY <1>5, <1>8, <1>9

------------------------------------------------------------------------------
(***************************************************************************)
(* The clients: the operations.                                            *)
(***************************************************************************)

\* The invariant of the clients.
ClientInv == KeepsUri /\ UrlIsMeant /\ RefusesOnlyTooLong

\* It holds before any call,
LEMMA ClientInitHolds ==
  ASSUME ClientInit
  PROVE  ClientInv
<1>1. UrlCapacity \in Nat /\ <<>> \in Seq(UrlUnit) /\ Len(<<>>) = 0 /\ DOMAIN <<>> = {}
  BY ClientsAssumption
<1>2. uri.items = <<>> /\ uri.capacity = UrlCapacity
  BY DEF ClientInit, EmptySpan
<1>3. uri \in SpanOf(UrlUnit)
  BY <1>1 DEF ClientInit, EmptySpan, SpanOf
<1>4. KeepsUri
  BY <1>1, <1>2, <1>3 DEF KeepsUri
<1>5. sent = NoRequest /\ ~ ready
  BY DEF ClientInit
<1> QED
  BY <1>4, <1>5 DEF ClientInv, UrlIsMeant, RefusesOnlyTooLong

\* when a client is initialised, whether or not its URI fits,
LEMMA InitClientHolds ==
  ASSUME NEW given \in Uris, InitClient(given)
  PROVE  ClientInv'
<1> DEFINE copied == SpanAppend(EmptySpan(UrlCapacity), given)
<1>1. /\ UrlCapacity \in Nat /\ given \in Seq(UrlUnit \ {"?"})
      /\ <<>> \in Seq(UrlUnit \ {"?"}) /\ Len(<<>>) = 0
  BY ClientsAssumption
<1>2. /\ uri' = copied.object /\ ready' = ~ Failed(copied.result)
      /\ returned' = copied.result /\ sent' = NoRequest
  BY DEF InitClient
<1>3. EmptySpan(UrlCapacity) \in SpanOf(UrlUnit \ {"?"})
  BY <1>1 DEF EmptySpan, SpanOf
<1>4. /\ copied.object \in SpanOf(UrlUnit \ {"?"})
      /\ copied.object.capacity = UrlCapacity
  BY <1>1, <1>3, SpanAppendFacts DEF EmptySpan
<1> HIDE DEF copied
<1>5. KeepsUri'
  <2> DEFINE items == copied.object.items
  <2>1. items \in Seq(UrlUnit \ {"?"}) /\ Len(items) <= copied.object.capacity
        /\ copied.object \in [items: Seq(UrlUnit \ {"?"}), capacity: Nat]
    BY <1>4 DEF SpanOf
  <2> HIDE DEF items
  <2>2. /\ items \in Seq(UrlUnit) /\ \A i \in DOMAIN items : items[i] # "?"
    BY <2>1, ElementOfSeq, LenProperties
  <2>3. copied.object \in SpanOf(UrlUnit)
    BY <2>1, <2>2 DEF SpanOf, items
  <2> QED
    BY <1>2, <1>4, <2>2, <2>3 DEF KeepsUri, items
<1>6. ready' => returned' = "OK"
  BY <1>2 DEF Failed
<1> QED
  BY <1>2, <1>5, <1>6 DEF ClientInv, UrlIsMeant, RefusesOnlyTooLong

\* An operation keeps the invariant if it only fails for want of room, if the
\* request has the URL that is meant, and a body of the length that is meant.
LEMMA StartsHolds ==
  ASSUME KeepsUri, NEW call, NEW method, method # "none", NEW body, NEW built,
         Starts(call, method, body, built),
         Failed(built.result) =>
           \/ Len(UrlMeant(call)) > UrlCapacity
           \/ call.op = "create" /\ BodyLength(call.type, call.options) > BodyCapacity,
         ~ Failed(built.result) =>
           /\ built.object.url.items = UrlMeant(call)
           /\ call.op = "create" => Len(body) = BodyLength(call.type, call.options)
  PROVE  ClientInv'
<1> DEFINE request1 == [method |-> method, url |-> built.object.url.items,
                        headers |-> built.object.headers.items, body |-> body]
<1>1. /\ asked' = call /\ returned' = built.result /\ uri' = uri
      /\ sent' = IF Failed(built.result) THEN NoRequest ELSE request1
  BY DEF Starts
<1>2. UrlMeant(asked)' = UrlMeant(call)
  BY <1>1, Zenon DEF UrlMeant
<1>3. KeepsUri'
  BY <1>1 DEF KeepsUri
<1>4. request1.url = built.object.url.items /\ request1.body = body
  OBVIOUS
<1> HIDE DEF request1
<1>5. UrlIsMeant'
  BY <1>1, <1>2, <1>4 DEF UrlIsMeant
<1>6. RefusesOnlyTooLong'
  BY <1>1, <1>2, <1>4 DEF RefusesOnlyTooLong, Failed
<1> QED
  BY <1>3, <1>5, <1>6 DEF ClientInv

\* The URL of a request that serves.
LEMMA ServedUrl ==
  ASSUME NEW built, NEW url, NEW count, Serves(built, url, count)
  PROVE  /\ Failed(built.result) => Len(url) > UrlCapacity
         /\ ~ Failed(built.result) => built.object.url.items = url
<1>1. url \in Seq(UrlUnit)
  BY DEF Serves
<1> QED
  BY <1>1, ConcatEmptySeq DEF Serves, HasParts

\* The URL of a key.
LEMMA OnKeyServes ==
  ASSUME KeepsUri, NEW name \in KeyNames
  PROVE  Serves(OnKey(name), Under(Under(uri.items, <<"keys">>), name), 0)
<1> DEFINE keys == <<"keys">>
<1>1. keys \in Seq(UrlUnit) /\ name \in Seq(UrlUnit)
  BY ClientsAssumption
<1> HIDE DEF keys
<1>2. Serves(OnCopyOf(uri), uri.items, 0)
  BY CopyServes
<1>3. Serves(ThenPath(OnCopyOf(uri), keys), Under(uri.items, keys), 0)
  BY <1>1, <1>2, ThenPathServes
<1>4. Serves(ThenPath(ThenPath(OnCopyOf(uri), keys), name),
             Under(Under(uri.items, keys), name), 0)
  BY <1>1, <1>3, ThenPathServes
<1> QED
  BY <1>4 DEF OnKey, keys

\* and after each of the four operations.
LEMMA KeyGetHolds ==
  ASSUME KeepsUri, NEW name \in KeyNames, NEW version \in KeyNames, KeyGet(name, version)
  PROVE  ClientInv'
<1> DEFINE call == [op |-> "get", name |-> name, version |-> version]
           key == Under(Under(uri.items, <<"keys">>), name)
           built == IF Len(version) > 0 THEN ThenPath(OnKey(name), version)
                    ELSE OnKey(name)
<1>1. Starts(call, "GET", <<>>, built)
  BY DEF KeyGet
<1>2. version \in Seq(UrlUnit)
  BY ClientsAssumption
<1>3. Serves(OnKey(name), key, 0)
  BY OnKeyServes
<1>4. /\ call.op = "get" /\ call.op # "create" /\ call.name = name
      /\ call.version = version
  OBVIOUS
<1>5. UrlMeant(call) = IF version = <<>> THEN key ELSE Under(key, version)
  <2>1. /\ call.op = "get" /\ call.name = name /\ call.version = version
        /\ ~ call.op = "create"
    BY <1>4
  <2> HIDE DEF call
  <2> QED
    BY <2>1, Zenon DEF UrlMeant
<1> HIDE DEF key, call
<1>6. Serves(built, UrlMeant(call), 0)
  <2>1. CASE version = <<>>
    <3>1. ~ Len(version) > 0
      BY <2>1
    <3> QED
      BY <1>3, <1>5, <2>1, <3>1
  <2>2. CASE version # <<>>
    <3>1. Len(version) > 0
      BY <1>2, <2>2, LenProperties, EmptySeq
    <3>2. Serves(ThenPath(OnKey(name), version), Under(key, version), 0)
      BY <1>2, <1>3, ThenPathServes
    <3> QED
      BY <1>5, <2>2, <3>1, <3>2
  <2> QED
    BY <2>1, <2>2
<1> HIDE DEF built
<1> QED
  BY <1>1, <1>4, <1>6, ServedUrl, StartsHolds

LEMMA KeyDeleteHolds ==
  ASSUME KeepsUri, NEW name \in KeyNames, KeyDelete(name)
  PROVE  ClientInv'
<1> DEFINE call == [op |-> "delete", name |-> name]
           key == Under(Under(uri.items, <<"keys">>), name)
           built == OnKey(name)
<1>1. Starts(call, "DELETE", <<>>, built)
  BY DEF KeyDelete
<1>2. call.op = "delete" /\ call.op # "create" /\ call.op # "get" /\ call.name = name
  OBVIOUS
<1> HIDE DEF call
<1>3. UrlMeant(call) = key
  BY <1>2, Zenon DEF UrlMeant
<1>4. Serves(built, UrlMeant(call), 0)
  BY <1>3, OnKeyServes
<1> HIDE DEF built
<1> QED
  BY <1>1, <1>2, <1>4, ServedUrl, StartsHolds

\* The headers that the clients add.
LEMMA HeaderNames ==
  \A name \in {"Content-Type", "x-ms-blob-type", "Content-Length"} :
    name \in HeaderName /\ Named(name)
<1>1. \A name \in {"Content-Type", "x-ms-blob-type", "Content-Length"} : name # ""
  BY Zenon
<1>2. {"Content-Type", "x-ms-blob-type", "Content-Length"} \subseteq HeaderName
  BY ClientsAssumption
<1> QED
  BY <1>1, <1>2, Zenon DEF Named

LEMMA BlobUploadHolds ==
  ASSUME KeepsUri, NEW size \in Sizes, BlobUpload(size)
  PROVE  ClientInv'
<1> DEFINE call == [op |-> "upload", size |-> size]
           one == ThenHeader(OnCopyOf(uri), "x-ms-blob-type", 9)
           two == ThenHeader(one, "Content-Length", Digits(size))
           built == ThenHeader(two, "Content-Type", 10)
<1>1. Starts(call, "PUT", size, built)
  BY DEF BlobUpload
<1>2. /\ call.op = "upload" /\ call.op # "create" /\ call.op # "get"
      /\ call.op # "delete"
  OBVIOUS
<1> HIDE DEF call
<1>3. UrlMeant(call) = uri.items
  BY <1>2, Zenon DEF UrlMeant
<1>4. 0 < HeaderCount /\ 1 < HeaderCount /\ 2 < HeaderCount
  BY ClientsAssumption
<1>5. Digits(size) \in Nat
  <2>1. \E d \in 1 .. 10 : HasDigits(size, d)
    BY ClientsAssumption
  <2>2. Digits(size) \in 1 .. 10
    BY <2>1 DEF Digits
  <2> QED
    BY <2>2
<1>6. Serves(OnCopyOf(uri), uri.items, 0)
  BY CopyServes
<1>7. Serves(one, uri.items, 0 + 1)
  BY <1>4, <1>6, HeaderNames, ThenHeaderServes
<1> HIDE DEF one
<1>8. Serves(two, uri.items, 1 + 1)
  BY <1>4, <1>5, <1>7, HeaderNames, ThenHeaderServes
<1> HIDE DEF two
<1>9. Serves(built, uri.items, 2 + 1)
  BY <1>4, <1>8, HeaderNames, ThenHeaderServes
<1> HIDE DEF built
<1> QED
  BY <1>1, <1>2, <1>3, <1>9, ServedUrl, StartsHolds

LEMMA KeyCreateHolds ==
  ASSUME KeepsUri, NEW name \in KeyNames, NEW type \in KeyTypes, NEW options \in Options,
         KeyCreate(name, type, options)
  PROVE  ClientInv'
<1> DEFINE call == [op |-> "create", name |-> name, type |-> type, options |-> options]
           body == CreateBody(BodyCapacity, type, options)
           length == BodyLength(type, options)
           create == <<"create">>
           key == Under(Under(uri.items, <<"keys">>), name)
           whole == ThenPath(OnKey(name), create)
           served == ThenHeader(whole, "Content-Type", 16)
           built == IF Failed(body.result) THEN Failure(body.result, NoRequest) ELSE served
<1>1. Starts(call, "POST", body.json.items, built)
  BY DEF KeyCreate
<1>2. /\ call.op = "create" /\ call.name = name /\ call.type = type
      /\ call.options = options
  OBVIOUS
<1>3. Measured(body, length, TRUE)
  BY BodyMeasured
<1> HIDE DEF call, body, length
<1>4. UrlMeant(call) = Under(key, create)
  BY <1>2, Zenon DEF UrlMeant
<1>5. Serves(whole, Under(key, create), 0)
  <2>1. Serves(OnKey(name), key, 0)
    BY OnKeyServes
  <2>2. create \in Seq(UrlUnit)
    BY ClientsAssumption
  <2> HIDE DEF key, create
  <2> QED
    BY <2>1, <2>2, ThenPathServes
<1> HIDE DEF whole, key, create
<1>6. Serves(served, Under(key, create), 0 + 1)
  <2>1. 0 < HeaderCount /\ 16 \in Nat /\ 0 \in Nat
    BY ClientsAssumption
  <2> QED
    BY <1>5, <2>1, HeaderNames, ThenHeaderServes
<1> HIDE DEF served
<1>7. BodyLength(call.type, call.options) = length
  BY <1>2 DEF length
<1>8. CASE Failed(body.result)
  <2>1. built = Failure(body.result, NoRequest) /\ Failed(built.result)
    BY <1>8 DEF Failure
  <2>2. length > BodyCapacity
    BY <1>3, <1>8 DEF Measured, Failed
  <2> HIDE DEF built
  <2> QED
    BY <1>1, <1>2, <1>7, <2>1, <2>2, StartsHolds
<1>9. CASE ~ Failed(body.result)
  <2>1. built = served
    BY <1>9
  <2>2. Len(body.json.items) = length
    BY <1>3, <1>9 DEF Measured, Failed
  <2> HIDE DEF built
  <2> QED
    BY <1>1, <1>2, <1>4, <1>6, <1>7, <2>1, <2>2, ServedUrl, StartsHolds
<1> QED
  BY <1>8, <1>9

LEMMA ClientNextHolds ==
  ClientInv /\ [ClientNext]_clientVars => ClientInv'
<1> SUFFICES ASSUME ClientInv, [ClientNext]_clientVars
             PROVE  ClientInv'
  OBVIOUS
<1>0. KeepsUri
  BY DEF ClientInv
<1>1. CASE \E given \in Uris : InitClient(given)
  BY <1>1, InitClientHolds
<1>2. CASE \E name \in KeyNames, type \in KeyTypes, options \in Options :
             KeyCreate(name, type, options)
  BY <1>0, <1>2, KeyCreateHolds
<1>3. CASE \E name \in KeyNames, version \in KeyNames : KeyGet(name, version)
  BY <1>0, <1>3, KeyGetHolds
<1>4. CASE \E name \in KeyNames : KeyDelete(name)
  BY <1>0, <1>4, KeyDeleteHolds
<1>5. CASE \E size \in Sizes : BlobUpload(size)
  BY <1>0, <1>5, BlobUploadHolds
<1>6. CASE UNCHANGED clientVars
  <2>1. uri' = uri /\ ready' = ready /\ asked' = asked /\ returned' = returned
        /\ sent' = sent
    BY <1>6 DEF clientVars
  <2>2. UrlMeant(asked)' = UrlMeant(asked)
    BY <2>1, Zenon DEF UrlMeant
  <2> QED
    BY <2>1, <2>2 DEF ClientInv, KeepsUri, UrlIsMeant, RefusesOnlyTooLong
<1> QED
  BY <1>1, <1>2, <1>3, <1>4, <1>5, <1>6, Zenon DEF ClientNext

\* A request that a client sends asks for the client's URL, with the key, its
\* version and the operation behind it, each once and in this order, whatever the
\* names are and however little room there is: the code appends path after path and
\* stops at the first that fails (az_keyvault_client.c:251-255, 297-304, 331-332).
THEOREM RequestedUrlIsMeant == ClientSpec => []UrlIsMeant
<1>1. ClientInit => ClientInv
  BY ClientInitHolds
<1>2. ClientInv => UrlIsMeant
  BY DEF ClientInv
<1> QED
  BY <1>1, <1>2, ClientNextHolds, PTL DEF ClientSpec

\* A call of a client that is ready is refused only when its URL or its body is
\* longer than the buffer for it, so no step of one fails for another reason: not
\* the copy of the URI, not a header, and no call of the JSON builder; and a body
\* that is sent has the length of the whole JSON text (az_keyvault_client.c:159-217,
\* 228-258, az_storage_blobs_blob_client.c).
THEOREM OnlyTooLongRefused == ClientSpec => []RefusesOnlyTooLong
<1>1. ClientInit => ClientInv
  BY ClientInitHolds
<1>2. ClientInv => RefusesOnlyTooLong
  BY DEF ClientInv
<1> QED
  BY <1>1, <1>2, ClientNextHolds, PTL DEF ClientSpec
==============================================================================
