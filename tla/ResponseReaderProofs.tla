------------------------ MODULE ResponseReaderProofs ------------------------
(***************************************************************************)
(* Theorems about ResponseReader.  Whatever an exchange leaves behind,     *)
(* every variable has its type, and where the response ends with a zero    *)
(* byte, as that of every exchange which has succeeded, the parser never   *)
(* looks behind its end.  For every well-formed response, with that byte   *)
(* or without, it implements ReplyReading.                                 *)
(*                                                                         *)
(* The invariant behind the first two is that the parser never passes a    *)
(* zero byte at the end while it expects a header: a value cannot contain  *)
(* it, a name or white space only ends in front of something else, and a   *)
(* status line ends in front of it.  That behind the third is that the     *)
(* parser stands between two of the parts whenever nobody is reading one.  *)
(***************************************************************************)
EXTENDS ResponseReader, SpanProofs, FiniteSetTheorems

\* The end of a value is a position, from the one in front of its start to the
\* one in front of what ends it.
LEMMA LastInkFacts ==
  ASSUME NEW t \in Seq(Unit), NEW start \in Nat \ {0}, NEW stop \in Nat, start <= stop
  PROVE  LastInk(t, start, stop) \in start - 1 .. stop - 1
<1> DEFINE Ink   == {p \in start .. stop - 1 : t[p] \notin White}
           Below == {stop - p : p \in Ink}
           Good(p) == /\ p >= start => t[p] \notin White
                      /\ \A q \in p + 1 .. stop - 1 : t[q] \in White
<1>1. CASE Ink = {}
  <2>1. start - 1 \in start - 1 .. stop - 1 /\ Good(start - 1)
    BY <1>1
  <2> QED
    BY <2>1 DEF LastInk
<1>2. CASE Ink # {}
  <2>1. Below \in SUBSET Nat /\ Below # {}
    BY <1>2
  <2>2. PICK n \in Below : \A m \in Below : n <= m
    BY <2>1, LeastNatural
  <2>3. PICK p \in Ink : n = stop - p
    BY <2>2
  <2>4. ASSUME NEW q \in p + 1 .. stop - 1, t[q] \notin White
        PROVE  FALSE
    <3>1. q \in Ink
      BY <2>4
    <3>2. stop - q \in Below
      BY <3>1
    <3>3. n <= stop - q
      BY <2>2, <3>2
    <3> QED
      BY <2>3, <3>3
  <2>5. p \in start - 1 .. stop - 1 /\ Good(p)
    BY <2>4
  <2> QED
    BY <2>5 DEF LastInk
<1> QED
  BY <1>1, <1>2

\* A part of the pattern that the text starts with, and no more of it.
LEMMA MatchedFacts ==
  ASSUME NEW t \in Seq(Unit)
  PROVE  LET n == Matched(t)
         IN  /\ n \in 0 .. 9
             /\ \A i \in 1 .. n : i <= Len(t) /\ t[i] = StatusPattern[i]
             /\ n < 9 => \/ n + 1 > Len(t)
                         \/ t[n + 1] # StatusPattern[n + 1]
<1> DEFINE Agree(n) == \A i \in 1 .. n : i <= Len(t) /\ t[i] = StatusPattern[i]
           Longest(n) == Agree(n) /\ (n < 9 => ~ Agree(n + 1))
<1>1. \E n \in 0 .. 9 : Longest(n)
  <2> SUFFICES ASSUME \A n \in 0 .. 9 : ~ Longest(n)
               PROVE  FALSE
    OBVIOUS
  <2>1. \A n \in 0 .. 8 : Agree(n) => Agree(n + 1)
    OBVIOUS
  <2>2. Agree(0)
    OBVIOUS
  <2> HIDE DEF Agree
  <2>3. Agree(1) /\ Agree(2) /\ Agree(3)
    BY <2>1, <2>2
  <2>4. Agree(4) /\ Agree(5) /\ Agree(6)
    BY <2>1, <2>3
  <2>5. Agree(7) /\ Agree(8) /\ Agree(9)
    BY <2>1, <2>4
  <2> QED
    BY <2>5
<1>2. Matched(t) \in 0 .. 9 /\ Longest(Matched(t))
  BY <1>1 DEF Matched
<1> QED
  BY <1>2
------------------------------------------------------------------------------
(***************************************************************************)
(* What the operations do on any text, and on one that ends with a zero    *)
(* byte.                                                                   *)
(***************************************************************************)
Read == AzResults \cup {ReadBehind}

LEMMA ReadStatusLineFacts ==
  ASSUME NEW t \in Seq(Unit)
  PROVE  LET read == ReadStatusLine(t)
         IN  /\ read.result \in Read
             /\ read.at \in 1 .. Len(t) + 1
             /\ Terminated(t) => /\ read.result \in AzResults
                                 /\ read.at \in 1 .. Len(t)
<1> DEFINE n  == Matched(t)
           lf == FirstIn(t, 10, {"LF"})
<1>1. Len(t) \in Nat
  OBVIOUS
<1>2. /\ n \in 0 .. 9
      /\ \A i \in 1 .. n : i <= Len(t) /\ t[i] = StatusPattern[i]
  BY MatchedFacts
<1>3. /\ lf \in Nat
      /\ lf # 0 => lf \in 10 .. Len(t) /\ t[lf] = "LF"
  <2>1. /\ lf \in Nat
        /\ lf # 0 => lf \in 10 .. Len(t) /\ t[lf] \in {"LF"}
    BY <1>1, FirstInFacts, 10 \in Nat \ {0}
  <2> QED
    BY <2>1
<1> HIDE DEF n, lf
<1>4. n <= Len(t)
  BY <1>1, <1>2
<1>5. Terminated(t) => n < Len(t)
  <2> SUFFICES ASSUME Terminated(t), n >= Len(t)
               PROVE  FALSE
    BY <1>1, <1>2
  <2> DEFINE l == Len(t)
  <2>1. l \in Nat /\ l # 0 /\ n \in 0 .. 9 /\ n >= l /\ t[l] = "NUL"
    BY <1>1, <1>2 DEF Terminated
  <2> HIDE DEF l
  <2>2. l \in 1 .. n /\ l \in 1 .. 9
    BY <2>1
  <2>3. StatusPattern[l] = "NUL"
    BY <1>2, <2>1, <2>2 DEF l
  <2>4. /\ StatusPattern[1] # "NUL" /\ StatusPattern[2] # "NUL"
        /\ StatusPattern[3] # "NUL" /\ StatusPattern[4] # "NUL"
        /\ StatusPattern[5] # "NUL" /\ StatusPattern[6] # "NUL"
        /\ StatusPattern[7] # "NUL" /\ StatusPattern[8] # "NUL"
        /\ StatusPattern[9] # "NUL"
    BY DEF StatusPattern
  <2>5. l \in {1, 2, 3, 4, 5, 6, 7, 8, 9}
    BY <2>2
  <2> QED
    BY <2>3, <2>4, <2>5
<1>6. CASE n < 9 /\ n >= Len(t)
  <2>1. /\ ReadStatusLine(t).result \in {ReadBehind, "ERROR_EOF"}
        /\ ReadStatusLine(t).at = IF n \in 5 .. 7 THEN 6 ELSE n + 1
    BY <1>2, <1>6 DEF ReadStatusLine, n
  <2>2. ReadStatusLine(t).at \in 1 .. Len(t) + 1
    BY <1>1, <1>2, <1>4, <2>1
  <2>3. ~ Terminated(t)
    BY <1>1, <1>2, <1>5, <1>6
  <2> QED
    BY <2>1, <2>2, <2>3 DEF Read, AzResults, AzError
<1>7. CASE n < 9 /\ n < Len(t)
  <2>1. /\ ReadStatusLine(t).result = "ERROR_PARSER_UNEXPECTED_CHAR"
        /\ ReadStatusLine(t).at = IF n \in 5 .. 7 THEN 6 ELSE n + 1
    BY <1>1, <1>2, <1>7 DEF ReadStatusLine, n
  <2>2. ReadStatusLine(t).at \in 1 .. Len(t)
    BY <1>1, <1>2, <1>7, <2>1
  <2> QED
    BY <1>1, <2>1, <2>2 DEF Read, AzResults, AzError
<1>8. CASE n = 9 /\ lf = 0
  <2>1. /\ ReadStatusLine(t).result = "ERROR_ITEM_NOT_FOUND"
        /\ ReadStatusLine(t).at = 10
    BY <1>8 DEF ReadStatusLine, n, lf
  <2> QED
    BY <1>1, <1>4, <1>5, <1>8, <2>1 DEF Read, AzResults, AzError
<1>9. CASE n = 9 /\ lf # 0
  <2>1. /\ ReadStatusLine(t).result = "OK"
        /\ ReadStatusLine(t).at = lf + 1
    BY <1>3, <1>9 DEF ReadStatusLine, n, lf
  <2>2. Terminated(t) => lf # Len(t)
    BY <1>3, <1>9 DEF Terminated
  <2> QED
    BY <1>1, <1>3, <1>9, <2>1, <2>2 DEF Read, AzResults
<1> QED
  BY <1>1, <1>2, <1>6, <1>7, <1>8, <1>9

LEMMA ReadBlankLineFacts ==
  ASSUME NEW t \in Seq(Unit), NEW p \in 1 .. Len(t), t[p] = "CR"
  PROVE  LET read == ReadBlankLine(t, p)
         IN  /\ read.result \in AzResults
             /\ read.at \in 1 .. Len(t) + 1
             /\ Terminated(t) => read.at \in 1 .. Len(t)
             /\ read.key \in Views /\ read.value \in Views
<1>1. Len(t) \in Nat
  OBVIOUS
<1>2. Terminated(t) => p # Len(t) /\ (t[p + 1] = "LF" => p + 1 # Len(t))
  BY DEF Terminated
<1> QED
  BY <1>1, <1>2 DEF ReadBlankLine, NoField, Nowhere, Views, AzResults, AzError

LEMMA ReadFieldFacts ==
  ASSUME NEW t \in Seq(Unit), NEW p \in 1 .. Len(t), "NUL" \in Unit
  PROVE  LET read == ReadField(t, p)
         IN  /\ read.result \in Read
             /\ read.at \in 1 .. Len(t) + 1
             /\ Terminated(t) => /\ read.result \in AzResults
                                 /\ read.at \in 1 .. Len(t)
             /\ read.key \in Views /\ read.value \in Views
<1> DEFINE colon == FirstIn(t, p, {":"})
           start == FirstIn(t, colon + 1, Unit \ White)
           stop  == FirstIn(t, start, {"CR"} \cup Control)
           read  == ReadField(t, p)
           Zero  == Terminated(t)
<1>1. /\ Len(t) \in Nat \ {0} /\ p \in Nat \ {0} /\ p <= Len(t)
      /\ Zero => t[Len(t)] = "NUL"
  BY DEF Terminated
<1> HIDE DEF Zero
<1>2. /\ colon \in Nat
      /\ colon # 0 => colon \in p .. Len(t) /\ t[colon] = ":"
  <2>1. /\ colon \in Nat
        /\ colon # 0 => colon \in p .. Len(t) /\ t[colon] \in {":"}
    BY <1>1, FirstInFacts
  <2> QED
    BY <2>1
<1> HIDE DEF colon
<1>3. CASE colon = 0
  BY <1>1, <1>3 DEF ReadField, NoField, Nowhere, Views, Read, AzResults, AzError, colon
<1>4. CASE colon # 0
  <2>1. colon + 1 \in 1 .. Len(t) + 1 /\ (Zero => colon + 1 \in 1 .. Len(t))
    BY <1>1, <1>2, <1>4
  <2>2. /\ start # 0 => start \in colon + 1 .. Len(t)
        /\ Zero => start # 0
        /\ start \in Nat
    <3>1. colon + 1 \in Nat \ {0}
      BY <1>2
    <3>2. /\ start \in Nat
          /\ start # 0 => start \in colon + 1 .. Len(t)
          /\ \A q \in colon + 1 .. Len(t) : t[q] \in Unit \ White => start # 0
      BY <3>1, FirstInFacts
    <3>3. Zero => Len(t) \in colon + 1 .. Len(t)
      BY <1>1, <1>2, <2>1
    <3>4. Zero => t[Len(t)] \in Unit \ White
      BY <1>1, "NUL" \in Unit DEF White
    <3> HIDE DEF start
    <3> QED
      BY <3>2, <3>3, <3>4
  <2> HIDE DEF start
  <2>3. CASE start = 0
    <3>1. read = NoField("ERROR_ITEM_NOT_FOUND", colon + 1)
      BY <1>4, <2>3 DEF ReadField, colon, start
    <3> QED
      BY <1>1, <2>1, <2>2, <2>3, <3>1
      DEF NoField, Nowhere, Views, Read, AzResults, AzError, Zero
  <2>4. CASE start # 0
    <3>1. start \in colon + 1 .. Len(t) /\ start \in Nat \ {0}
      BY <2>2, <2>4
    <3>2. /\ stop \in Nat
          /\ stop # 0 => stop \in start .. Len(t) /\ t[stop] \in {"CR"} \cup Control
          /\ Zero => stop # 0
      <4>1. /\ stop \in Nat
            /\ stop # 0 => stop \in start .. Len(t) /\ t[stop] \in {"CR"} \cup Control
            /\ \A q \in start .. Len(t) : t[q] \in {"CR"} \cup Control => stop # 0
        BY <3>1, FirstInFacts
      <4>2. Zero => Len(t) \in start .. Len(t) /\ t[Len(t)] \in {"CR"} \cup Control
        BY <1>1, <1>2, <3>1 DEF Control
      <4> HIDE DEF stop
      <4> QED
        BY <4>1, <4>2
    <3> HIDE DEF stop
    <3>3. CASE stop = 0
      <4>1. read = NoField(ReadBehind, start)
        BY <1>4, <2>4, <3>3 DEF ReadField, colon, start, stop
      <4> QED
        BY <1>1, <1>2, <3>1, <3>2, <3>3, <4>1 DEF NoField, Nowhere, Views, Read, Zero
    <3>4. CASE stop # 0 /\ t[stop] # "CR"
      <4>1. read = NoField("ERROR_PARSER_UNEXPECTED_CHAR", start)
        BY <1>4, <2>4, <3>4 DEF ReadField, colon, start, stop
      <4> QED
        BY <1>1, <1>2, <3>1, <4>1 DEF NoField, Nowhere, Views, Read, AzResults, AzError
    <3>5. CASE stop # 0 /\ t[stop] = "CR" /\ stop = Len(t)
      <4>1. read = NoField("ERROR_EOF", stop + 1)
        BY <1>4, <2>4, <3>5 DEF ReadField, colon, start, stop
      <4>2. ~ Zero
        BY <1>1, <3>5
      <4> QED
        BY <1>1, <3>5, <4>1, <4>2 DEF NoField, Nowhere, Views, Read, AzResults, AzError, Zero
    <3>6. CASE stop # 0 /\ t[stop] = "CR" /\ stop # Len(t) /\ t[stop + 1] # "LF"
      <4>1. read = NoField("ERROR_PARSER_UNEXPECTED_CHAR", stop + 1)
        BY <1>4, <2>4, <3>6 DEF ReadField, colon, start, stop
      <4> QED
        BY <1>1, <1>2, <3>1, <3>2, <3>6, <4>1
        DEF NoField, Nowhere, Views, Read, AzResults, AzError
    <3>7. CASE stop # 0 /\ t[stop] = "CR" /\ stop # Len(t) /\ t[stop + 1] = "LF"
      <4>1. read = [result |-> "OK", at |-> stop + 2,
                    key    |-> [from |-> p, to |-> colon - 1],
                    value  |-> [from |-> start, to |-> LastInk(t, start, stop)]]
        BY <1>4, <2>4, <3>7 DEF ReadField, colon, start, stop
      <4>2. stop \in start .. Len(t) - 1 /\ (Zero => stop + 1 # Len(t))
        BY <1>1, <1>2, <3>1, <3>2, <3>7
      <4>3. LastInk(t, start, stop) \in Nat
        <5>1. LastInk(t, start, stop) \in start - 1 .. stop - 1
          BY <3>1, <3>2, <4>2, LastInkFacts
        <5> QED
          BY <3>1, <4>2, <5>1
      <4>4. stop + 2 \in 1 .. Len(t) + 1 /\ (Zero => stop + 2 \in 1 .. Len(t))
        BY <1>1, <3>1, <4>2
      <4>5. colon - 1 \in Nat /\ start \in Nat /\ p \in Nat
        BY <1>1, <1>2, <1>4, <3>1
      <4> QED
        BY <4>1, <4>3, <4>4, <4>5 DEF Views, Read, AzResults, Zero
    <3> QED
      BY <3>3, <3>4, <3>5, <3>6, <3>7
  <2> QED
    BY <2>3, <2>4
<1> QED
  BY <1>3, <1>4
------------------------------------------------------------------------------
(***************************************************************************)
(* The invariant and its proof.                                            *)
(***************************************************************************)

\* A response of a successful exchange ends with a zero byte; and while a header is
\* expected in one that does, that byte is still ahead.
IInv == /\ TypeOK
        /\ returned = "OK" => Terminated(text)
        /\ Terminated(text) => /\ kind = "HEADER" => at <= Len(text)
                               /\ answer.result # ReadBehind

LEMMA InitEstablishes == Init => IInv
<1> SUFFICES ASSUME Init PROVE IInv
  OBVIOUS
<1>1. PICK r \in Responses : text = r.text /\ returned = r.returned
  BY DEF Init
<1>2. /\ text \in Seq(Unit) /\ returned \in AzResults
      /\ returned = "OK" => Terminated(text)
  BY <1>1, ReaderAssumption, SuccessTerminates
<1>3. /\ at \in 1 .. Len(text) + 1 /\ kind = "STATUS_LINE" /\ user = "none"
      /\ lines \in 0 .. MaxLines
  <2>1. Len(text) \in Nat
    BY <1>2
  <2>2. MaxLines \in Nat
    BY ReaderAssumption
  <2>3. at = Len(text) + 1 /\ kind = "STATUS_LINE" /\ user = "none" /\ lines = 0
    BY DEF Init
  <2> QED
    BY <2>1, <2>2, <2>3
<1>4. /\ answer \in [of: {"nothing", "status", "header", "body"},
                     result: AzResults \cup {ReadBehind}, key: Views, value: Views]
      /\ answer.result # ReadBehind
  BY DEF Init, NothingRead, Answer, Nowhere, Views, AzResults, ReadBehind
<1> QED
  BY <1>2, <1>3, <1>4 DEF IInv, TypeOK, ResponseKind, User

\* What reading the status line, or a header, leaves of the invariant.
ReaderFine == /\ at' \in 1 .. Len(text) + 1
              /\ kind' \in ResponseKind
              /\ answer' \in [of: {"nothing", "status", "header", "body"},
                              result: Read, key: Views, value: Views]
              /\ Terminated(text) => /\ kind' = "HEADER" => at' <= Len(text)
                                     /\ answer'.result \in AzResults

LEMMA StatusLineReadStep ==
  ASSUME IInv, StatusLineRead
  PROVE  ReaderFine
<1> DEFINE read == ReadStatusLine(text)
<1>1. /\ read.result \in Read /\ read.at \in 1 .. Len(text) + 1 /\ Len(text) \in Nat
      /\ Terminated(text) => read.result \in AzResults /\ read.at \in 1 .. Len(text)
  BY ReadStatusLineFacts DEF IInv, TypeOK
<1>2. /\ at' = read.at
      /\ kind' = IF read.result = "OK" THEN "HEADER" ELSE kind
      /\ answer' = Answer("status", read.result, Nowhere, Nowhere)
  BY DEF StatusLineRead
<1>3. kind \in ResponseKind /\ Nowhere \in Views
  BY DEF IInv, TypeOK, Nowhere, Views
<1> HIDE DEF read
<1> QED
  BY <1>1, <1>2, <1>3 DEF ReaderFine, ResponseKind, Answer

LEMMA HeaderReadStep ==
  ASSUME IInv, HeaderRead
  PROVE  ReaderFine
<1> USE DEF ReaderFine, ResponseKind, Answer
<1>1. /\ at \in 1 .. Len(text) + 1 /\ Len(text) \in Nat /\ text \in Seq(Unit)
      /\ kind \in ResponseKind
      /\ Terminated(text) => (kind = "HEADER" => at <= Len(text))
  BY DEF IInv, TypeOK
<1>2. Nowhere \in Views
  BY DEF Nowhere, Views
<1>3. CASE kind # "HEADER"
  BY <1>1, <1>2, <1>3 DEF HeaderRead, Read, AzResults, AzError
<1>4. CASE kind = "HEADER" /\ at > Len(text)
  BY <1>1, <1>2, <1>4 DEF HeaderRead, Read
<1>5. CASE kind = "HEADER" /\ at <= Len(text)
  <2> DEFINE read == IF text[at] = "CR" THEN ReadBlankLine(text, at)
                                        ELSE ReadField(text, at)
  <2>1. at \in 1 .. Len(text)
    BY <1>1, <1>5
  <2>2. /\ read.result \in Read /\ read.at \in 1 .. Len(text) + 1
        /\ Terminated(text) => read.result \in AzResults /\ read.at \in 1 .. Len(text)
        /\ read.key \in Views /\ read.value \in Views
    BY <1>1, <2>1, ReadBlankLineFacts, ReadFieldFacts, ReaderAssumption DEF Read
  <2>3. /\ at' = read.at
        /\ kind' \in {"BODY", kind}
        /\ answer' = Answer("header", read.result, read.key, read.value)
    BY <1>1, <1>5 DEF HeaderRead
  <2> HIDE DEF read
  <2> QED
    BY <1>1, <1>5, <2>2, <2>3
<1> QED
  BY <1>1, <1>3, <1>4, <1>5

\* A step that leaves the reader fine keeps the invariant, if it keeps the text
\* and the types of what is left.
LEMMA FineKeepsInvariant ==
  ASSUME IInv, ReaderFine, UNCHANGED <<text, returned>>, user' \in User,
         lines' \in 0 .. MaxLines
  PROVE  IInv'
<1>1. ReadBehind \notin AzResults
  BY DEF AzResults, AzError, ReadBehind
<1> QED
  BY <1>1 DEF IInv, ReaderFine, TypeOK, Read, Terminated

THEOREM Invariance == Spec => []IInv
<1>1. IInv /\ [Next]_vars => IInv'
  <2> SUFFICES ASSUME IInv, [Next]_vars
               PROVE  IInv'
    OBVIOUS
  <2> USE DEF User
  <2>1. user \in User /\ lines \in 0 .. MaxLines /\ MaxLines \in Nat
    BY ReaderAssumption DEF IInv, TypeOK
  <2>2. CASE UNCHANGED vars
    BY <2>2 DEF vars, IInv, TypeOK, Terminated
  <2>3. CASE GetStatusLine
    BY <2>1, <2>3, StatusLineReadStep, FineKeepsInvariant DEF GetStatusLine
  <2>4. CASE GetNextHeader
    BY <2>1, <2>4, HeaderReadStep, FineKeepsInvariant DEF GetNextHeader
  <2>5. CASE GetBody
    <3>1. CASE kind \in {"BODY", "HEADER"}
      BY <2>1, <2>5, <3>1 DEF GetBody, IInv, TypeOK, Terminated
    <3>2. CASE kind \notin {"BODY", "HEADER"}
      <4>1. StatusLineRead /\ user' \in User /\ UNCHANGED <<text, returned, lines>>
        BY <2>5, <3>2 DEF GetBody
      <4> QED
        BY <2>1, <4>1, StatusLineReadStep, FineKeepsInvariant
    <3> QED
      BY <3>1, <3>2
  <2>6. CASE SkipHeader
    BY <2>1, <2>6, HeaderReadStep, FineKeepsInvariant DEF SkipHeader
  <2>7. CASE TakeBody
    <3>1. [from |-> at, to |-> Len(text)] \in Views
      BY DEF IInv, TypeOK, Views
    <3>2. ReaderFine
      BY <2>7, <3>1 DEF TakeBody, ReaderFine, ResponseKind, Answer, Read,
                        AzResults, Nowhere, Views, IInv, TypeOK
    <3> QED
      BY <2>1, <2>7, <3>2, FineKeepsInvariant DEF TakeBody
  <2>8. CASE LogResponse
    BY <2>1, <2>8, StatusLineReadStep, FineKeepsInvariant DEF LogResponse
  <2>9. CASE LogHeader
    <3>1. HeaderRead /\ user' \in User /\ lines' \in 0 .. MaxLines
          /\ UNCHANGED <<text, returned>>
      BY <2>1, <2>9 DEF LogHeader
    <3> QED
      BY <3>1, HeaderReadStep, FineKeepsInvariant
  <2> QED
    BY <2>2, <2>3, <2>4, <2>5, <2>6, <2>7, <2>8, <2>9 DEF Next
<1> QED
  BY InitEstablishes, <1>1, PTL DEF Spec

\* Behind an exchange that has succeeded, and wherever else the response ends with
\* a zero byte, the parser never looks behind its end, whatever the service sent and
\* in whatever order the log and the application read (az_http_response.c,
\* az_curl.c:489-493).
THEOREM NeverReadsBehind == Spec => []ReadsOnlyResponse
<1>1. IInv => ReadsOnlyResponse
  BY DEF IInv, ReadsOnlyResponse
<1> QED
  BY Invariance, <1>1, PTL

\* Every variable has its type in every state, whatever the exchange has left of a
\* reply.
THEOREM ReaderTypeCorrect == Spec => []TypeOK
<1>1. IInv => TypeOK
  BY DEF IInv
<1> QED
  BY Invariance, <1>1, PTL
------------------------------------------------------------------------------
(***************************************************************************)
(* Well-formed responses.  What the operations read in a text whose parts  *)
(* are known.                                                              *)
(***************************************************************************)

\* The parts lie in the text in their order.
LEMMA PlacesOfParts ==
  ASSUME NEW t \in Seq(Unit), NEW p, Consists(t, p)
  PROVE  /\ Len(p.ends) \in Nat
         /\ \A i \in 0 .. Len(p.ends) : Behind(p, i) \in 11 .. Len(t) - 1
<1> DEFINE n == Len(p.ends)
<1>1. /\ p.ends \in Seq(Nat) /\ p.start \in 11 .. Len(t)
      /\ \A i \in 1 .. n : \A j \in 0 .. i - 1 : Behind(p, j) < Behind(p, i)
      /\ Behind(p, n) + 1 <= Len(t)
  BY DEF Consists
<1>2. n \in Nat /\ DOMAIN p.ends = 1 .. n /\ Len(t) \in Nat
  BY <1>1, LenProperties
<1>3. \A i \in 1 .. n : p.ends[i] \in Nat
  BY <1>1, <1>2
<1> HIDE DEF n
<1>4. \A i \in 0 .. n : Behind(p, i) \in Nat
  BY <1>1, <1>2, <1>3 DEF Behind
<1>5. Behind(p, 0) = p.start
  BY DEF Behind
<1>6. ASSUME NEW i \in 0 .. n
      PROVE  Behind(p, i) \in 11 .. Len(t) - 1
  <2>1. i # 0 => Behind(p, 0) < Behind(p, i)
    BY <1>1, <1>2
  <2>2. i # n => Behind(p, i) < Behind(p, n)
    BY <1>1, <1>2
  <2>3. Behind(p, 0) \in Nat /\ Behind(p, i) \in Nat /\ Behind(p, n) \in Nat
    BY <1>2, <1>4
  <2>4. Behind(p, 0) >= 11
    BY <1>1, <1>5
  <2>5. Behind(p, i) >= 11
    BY <2>1, <2>3, <2>4
  <2>6. Behind(p, i) + 1 <= Len(t)
    BY <1>1, <2>2, <2>3, <1>2
  <2> QED
    BY <1>2, <2>3, <2>5, <2>6
<1> QED
  BY <1>2, <1>6 DEF n

\* A parser from the end of header i on that is in front of the end of the next
\* has passed i headers.
LEMMA HeadersPassed ==
  ASSUME NEW t \in Seq(Unit), NEW p, Consists(t, p),
         NEW i \in 0 .. Len(p.ends), NEW a \in Nat, Behind(p, i) <= a,
         i < Len(p.ends) => a < Behind(p, i + 1)
  PROVE  Cardinality({j \in DOMAIN p.ends : p.ends[j] <= a}) = i
<1> DEFINE n == Len(p.ends)
           S == {j \in DOMAIN p.ends : p.ends[j] <= a}
<1>1. /\ p.ends \in Seq(Nat)
      /\ \A k \in 1 .. n : \A j \in 0 .. k - 1 : Behind(p, j) < Behind(p, k)
  BY DEF Consists
<1>2. n \in Nat /\ DOMAIN p.ends = 1 .. n
  BY <1>1, LenProperties
<1>3. \A k \in 1 .. n : p.ends[k] = Behind(p, k) /\ Behind(p, k) \in Nat
  BY <1>1, <1>2 DEF Behind
<1>4. Behind(p, i) \in Nat
  BY PlacesOfParts, <1>2
<1> HIDE DEF n
<1>5. \A j \in 1 .. n : j <= i => Behind(p, j) <= a
  <2> SUFFICES ASSUME NEW j \in 1 .. n, j <= i
               PROVE  Behind(p, j) <= a
    OBVIOUS
  <2>1. j < i => Behind(p, j) < Behind(p, i)
    <3>1. j < i => i \in 1 .. n /\ j \in 0 .. i - 1
      BY <1>2 DEF n
    <3> QED
      BY <3>1, <1>1
  <2>2. Behind(p, j) \in Nat /\ (j = i \/ j < i)
    BY <1>2, <1>3 DEF n
  <2> QED
    BY <1>4, <2>1, <2>2
<1>6. \A j \in 1 .. n : j > i => a < Behind(p, j)
  <2> SUFFICES ASSUME NEW j \in 1 .. n, j > i
               PROVE  a < Behind(p, j)
    OBVIOUS
  <2>1. i \in Nat /\ i < n /\ i + 1 \in 1 .. n /\ a < Behind(p, i + 1)
    BY <1>2 DEF n
  <2>2. i + 1 < j => Behind(p, i + 1) < Behind(p, j)
    BY <1>1, <2>1
  <2>3. Behind(p, j) \in Nat /\ Behind(p, i + 1) \in Nat /\ (i + 1 = j \/ i + 1 < j)
    BY <1>3, <2>1
  <2> QED
    BY <2>1, <2>2, <2>3
<1>7. S = 1 .. i
  BY <1>2, <1>3, <1>5, <1>6 DEF n
<1>8. Cardinality(1 .. i) = i
  BY FS_Interval, <1>2 DEF n
<1> QED
  BY <1>7, <1>8

\* A status line is read up to the headers.
LEMMA StatusLineIsRead ==
  ASSUME NEW t \in Seq(Unit), NEW p, Consists(t, p)
  PROVE  ReadStatusLine(t) = [result |-> "OK", at |-> p.start]
<1> DEFINE n  == Matched(t)
           lf == FirstIn(t, 10, {"LF"})
<1>1. Len(t) \in Nat
  OBVIOUS
<1>2. /\ \A i \in 1 .. 9 : t[i] = StatusPattern[i]
      /\ p.start \in 11 .. Len(t) /\ t[p.start - 1] = "LF"
      /\ \A q \in 10 .. p.start - 2 : t[q] # "LF"
  BY DEF Consists
<1> DEFINE s == p.start
<1>s. /\ s \in Nat /\ s - 1 \in 10 .. Len(t) /\ s \in 11 .. Len(t)
      /\ t[s - 1] = "LF" /\ \A q \in 10 .. s - 2 : t[q] # "LF"
  <2>1. s \in 11 .. Len(t)
    BY <1>2
  <2> HIDE DEF s
  <2>2. s \in Nat /\ s - 1 \in 10 .. Len(t)
    BY <1>1, <2>1
  <2> QED
    BY <1>2, <2>1, <2>2 DEF s
<1>3. n = 9
  <2>1. /\ n \in 0 .. 9
        /\ n < 9 => \/ n + 1 > Len(t)
                    \/ t[n + 1] # StatusPattern[n + 1]
    BY <1>1, MatchedFacts
  <2> HIDE DEF n, s
  <2>2. 11 <= Len(t)
    <3>1. s \in 11 .. Len(t)
      BY <1>s
    <3> QED
      BY <1>1, <3>1
  <2>3. n < 9 => n + 1 \in 1 .. 9 /\ ~ (n + 1 > Len(t))
    <3>1. n \in 0 .. 9 /\ Len(t) \in Nat
      BY <1>1, <2>1
    <3> QED
      BY <2>2, <3>1
  <2>4. ~ (n < 9)
    BY <1>2, <2>1, <2>3
  <2> QED
    BY <2>1, <2>4
<1>4. lf = s - 1
  <2>1. /\ lf \in Nat
        /\ lf # 0 => lf \in 10 .. Len(t) /\ t[lf] \in {"LF"}
        /\ \A q \in 10 .. Len(t) : t[q] \in {"LF"} => lf # 0
        /\ lf # 0 => \A q \in 10 .. lf - 1 : t[q] \notin {"LF"}
    BY <1>1, FirstInFacts, 10 \in Nat \ {0}
  <2> HIDE DEF lf, s
  <2>3. lf # 0 /\ lf \in 10 .. Len(t) /\ t[lf] = "LF"
    BY <1>s, <2>1
  <2>4. lf \notin 10 .. s - 2
    BY <1>s, <2>3
  <2>5. s - 1 \notin 10 .. lf - 1
    BY <1>s, <2>1, <2>3
  <2> QED
    BY <1>1, <1>s, <2>3, <2>4, <2>5
<1> HIDE DEF n, lf, s
<1>5. ReadStatusLine(t) = [result |-> "OK", at |-> lf + 1]
  <2>1. ~ (n < 9) /\ lf # 0 /\ lf > 0
    BY <1>s, <1>3, <1>4
  <2> QED
    BY <1>3, <2>1 DEF ReadStatusLine, n, lf
<1>6. lf + 1 = s
  BY <1>1, <1>s, <1>4
<1> QED
  BY <1>5, <1>6 DEF s

\* A header is read up to its end and gives its name and its value.
LEMMA HeaderIsRead ==
  ASSUME NEW t \in Seq(Unit), NEW begin \in Nat \ {0}, NEW end \in 1 .. Len(t), NEW header,
         HoldsHeader(t, begin, end, header)
  PROVE  LET read == ReadField(t, begin)
         IN  /\ begin <= Len(t) /\ t[begin] # "CR"
             /\ read.result = "OK" /\ read.at = end
             /\ <<View(t, read.key), View(t, read.value)>> = header
<1>1. Len(t) \in Nat /\ \A q \in 1 .. Len(t) : t[q] \in Unit
  OBVIOUS
<1>2. PICK c \in begin .. end, f \in begin .. end, l \in begin .. end :
        /\ c < f /\ f <= l + 1 /\ l + 2 < end
        /\ header = <<SubSeq(t, begin, c - 1), SubSeq(t, f, l)>>
        /\ t[begin] # "CR" /\ t[c] = ":" /\ t[end - 2] = "CR" /\ t[end - 1] = "LF"
        /\ \A q \in begin .. c - 1 : t[q] # ":"
        /\ \A q \in f .. l : t[q] \notin {"CR", "LF", "NUL"}
        /\ \A q \in c + 1 .. f - 1 : t[q] \in {" ", "TAB"}
        /\ \A q \in l + 1 .. end - 3 : t[q] \in {" ", "TAB"}
        /\ IF l < f THEN f = end - 2
           ELSE t[f] \notin {" ", "TAB"} /\ t[l] \notin {" ", "TAB"}
  BY Zenon DEF HoldsHeader
<1>3. /\ begin <= Len(t) /\ c \in begin .. Len(t) /\ c + 1 \in 1 .. Len(t)
      /\ f \in c + 1 .. end - 2 /\ l \in f - 1 .. end - 3
      /\ end - 2 \in f .. Len(t) /\ end - 2 < Len(t) /\ end - 2 + 1 = end - 1
      /\ begin \in Int /\ c \in Nat \ {0} /\ f \in Nat \ {0} /\ l \in Nat
      /\ end \in Nat /\ f <= end - 2
  <2>1. c < f /\ f <= l + 1 /\ l + 2 < end
    BY Zenon, <1>2
  <2> QED
    BY <1>1, <2>1
<1>4. \A q \in f .. end - 3 : t[q] \notin {"CR"} \cup Control
  <2>1. \A q \in f .. end - 3 : q \in (f .. l) \cup (l + 1 .. end - 3)
    BY <1>3
  <2> QED
    BY <1>2, <2>1 DEF Control
<1>5. FirstIn(t, begin, {":"}) = c
  <2> DEFINE colon == FirstIn(t, begin, {":"})
  <2>1. /\ colon \in Nat
        /\ colon # 0 => colon \in begin .. Len(t) /\ t[colon] \in {":"}
        /\ \A q \in begin .. Len(t) : t[q] \in {":"} => colon # 0
        /\ colon # 0 => \A q \in begin .. colon - 1 : t[q] \notin {":"}
    BY <1>1, FirstInFacts
  <2> HIDE DEF colon
  <2>2. c \in begin .. Len(t) /\ t[c] = ":"
    BY <1>2, <1>3
  <2>3. colon \in begin .. Len(t) /\ t[colon] = ":"
    BY <2>1, <2>2
  <2>4. colon \notin begin .. c - 1
    BY <1>2, <2>3
  <2>5. c \notin begin .. colon - 1
    BY <2>1, <2>2
  <2> QED
    BY <1>1, <1>3, <2>2, <2>3, <2>4, <2>5 DEF colon
<1>6. FirstIn(t, c + 1, Unit \ White) = f
  <2> DEFINE start == FirstIn(t, c + 1, Unit \ White)
  <2>1. /\ start \in Nat
        /\ start # 0 => start \in c + 1 .. Len(t) /\ t[start] \in Unit \ White
        /\ \A q \in c + 1 .. Len(t) : t[q] \in Unit \ White => start # 0
        /\ start # 0 => \A q \in c + 1 .. start - 1 : t[q] \notin Unit \ White
    BY <1>1, <1>3, FirstInFacts, c + 1 \in Nat \ {0}
  <2> HIDE DEF start
  <2>2. f \in c + 1 .. Len(t) /\ t[f] \in Unit \ White
    <3>1. f \in 1 .. Len(t) /\ f \in c + 1 .. Len(t)
      BY <1>1, <1>3
    <3>2. t[f] \notin White
      BY <1>2 DEF White
    <3> QED
      BY <1>1, <3>1, <3>2
  <2>3. start \in c + 1 .. Len(t) /\ t[start] \notin White
    BY <2>1, <2>2
  <2>4. start \notin c + 1 .. f - 1
    BY <1>2, <2>3 DEF White
  <2>5. f \notin c + 1 .. start - 1
    BY <2>1, <2>2, <2>3
  <2> QED
    BY <1>1, <1>3, <2>1, <2>3, <2>4, <2>5 DEF start
<1>7. FirstIn(t, f, {"CR"} \cup Control) = end - 2
  <2> DEFINE stop == FirstIn(t, f, {"CR"} \cup Control)
  <2>1. /\ stop \in Nat
        /\ stop # 0 => stop \in f .. Len(t) /\ t[stop] \in {"CR"} \cup Control
        /\ \A q \in f .. Len(t) : t[q] \in {"CR"} \cup Control => stop # 0
        /\ stop # 0 => \A q \in f .. stop - 1 : t[q] \notin {"CR"} \cup Control
    BY <1>1, <1>3, FirstInFacts
  <2> HIDE DEF stop
  <2>2. t[end - 2] \in {"CR"} \cup Control
    BY <1>2
  <2>3. stop # 0
    <3>1. end - 2 \in f .. Len(t)
      BY <1>3
    <3> QED
      BY <2>1, <2>2, <3>1
  <2>4. stop \in f .. Len(t) /\ stop \notin f .. end - 3
    BY <1>4, <2>1, <2>3
  <2>5. end - 2 \notin f .. stop - 1
    BY <2>1, <2>2, <2>3
  <2> QED
    <3>1. stop \in Nat /\ f \in Nat /\ end \in Nat /\ Len(t) \in Nat /\ f <= end - 2
      BY <1>1, <1>3, <2>1
    <3>2. stop = end - 2
      BY <2>4, <2>5, <3>1
    <3> QED
      BY <3>2 DEF stop
<1>8. LastInk(t, f, end - 2) = l
  <2> DEFINE Good(p) == /\ p >= f => t[p] \notin White
                        /\ \A q \in p + 1 .. end - 2 - 1 : t[q] \in White
  <2>1. l \in f - 1 .. end - 2 - 1 /\ Good(l)
    <3>1. l \in f - 1 .. end - 2 - 1 /\ end - 2 - 1 = end - 3
      BY <1>3
    <3>2. l >= f => t[l] \notin White
      <4>1. l >= f => ~ (l < f)
        BY <1>3
      <4> QED
        BY Zenon, <1>2, <4>1 DEF White
    <3>3. \A q \in l + 1 .. end - 3 : t[q] \in White
      BY <1>2 DEF White
    <3> QED
      BY <3>1, <3>2, <3>3
  <2>2. ASSUME NEW p \in f - 1 .. end - 2 - 1, Good(p)
        PROVE  p = l
    <3>1. ~ (p < l)
      <4> SUFFICES ASSUME p < l PROVE FALSE
        OBVIOUS
      <4>1. l >= f /\ l \in p + 1 .. end - 2 - 1
        BY <1>3
      <4> QED
        BY <2>1, <2>2, <4>1
    <3>2. ~ (l < p)
      <4> SUFFICES ASSUME l < p PROVE FALSE
        OBVIOUS
      <4>1. p >= f /\ p \in l + 1 .. end - 2 - 1
        BY <1>3
      <4> QED
        BY <2>1, <2>2, <4>1
    <3> QED
      BY <1>3, <3>1, <3>2
  <2> HIDE DEF Good
  <2>3. LastInk(t, f, end - 2) = CHOOSE p \in f - 1 .. end - 2 - 1 : Good(p)
    BY DEF LastInk, Good
  <2> QED
    BY <2>1, <2>2, <2>3
<1>9. ReadField(t, begin) = [result |-> "OK", at |-> end - 2 + 2,
                             key    |-> [from |-> begin, to |-> c - 1],
                             value  |-> [from |-> f, to |-> l]]
  <2>1. /\ c # 0 /\ f # 0 /\ end - 2 # 0 /\ end - 2 # Len(t)
        /\ t[end - 2] = "CR" /\ t[end - 2 + 1] = "LF"
    <3>1. c # 0 /\ f # 0 /\ end - 2 # 0 /\ end - 2 # Len(t)
      BY <1>1, <1>3
    <3>2. t[end - 2] = "CR" /\ t[end - 1] = "LF"
      BY Zenon, <1>2
    <3> QED
      BY <1>3, <3>1, <3>2
  <2> QED
    BY <1>5, <1>6, <1>7, <1>8, <2>1 DEF ReadField
<1>10. header = <<SubSeq(t, begin, c - 1), SubSeq(t, f, l)>> /\ t[begin] # "CR"
  BY <1>2
<1> QED
  <2>1. end - 2 + 2 = end /\ begin <= Len(t)
    BY <1>3
  <2> DEFINE read == ReadField(t, begin)
  <2>2. /\ read.result = "OK" /\ read.at = end
        /\ read.key.from = begin /\ read.key.to = c - 1
        /\ read.value.from = f /\ read.value.to = l
    BY <1>9, <2>1
  <2> HIDE DEF read
  <2>3. View(t, read.key) = SubSeq(t, begin, c - 1) /\ View(t, read.value) = SubSeq(t, f, l)
    BY <2>2 DEF View
  <2>4. <<View(t, read.key), View(t, read.value)>> = header
    BY <1>10, <2>3
  <2> QED
    BY <1>10, <2>1, <2>2, <2>4 DEF read
------------------------------------------------------------------------------
(***************************************************************************)
(* The parser implements ReplyReading.                                     *)
(***************************************************************************)

\* Where the parser is in a well-formed text: while it expects a header, at the
\* beginning of one or at the blank line, and when it expects the body, at its
\* beginning.  get_body skips headers while headers are expected, and takes what
\* remains when the body is what comes next.
PlaceInv ==
  parts.known =>
    /\ Consists(text, parts)
    /\ kind = "HEADER" => \E i \in 0 .. Len(parts.ends) : at = Behind(parts, i)
    /\ kind = "BODY" => at = Behind(parts, Len(parts.ends)) + 2
    /\ user = "skip" => kind = "HEADER"
    /\ user = "take" => kind = "BODY"

\* What reading the status line, or a header, leaves of it.
PlaceFine ==
  /\ kind' = "HEADER" => \E i \in 0 .. Len(parts.ends) : at' = Behind(parts, i)
  /\ kind' = "BODY" => at' = Behind(parts, Len(parts.ends)) + 2

\* The headers passed are those in front of the parser.
LEMMA PassedInPlace ==
  ASSUME NEW t \in Seq(Unit), NEW p, Consists(t, p)
  PROVE  /\ \A i \in 0 .. Len(p.ends) :
              Cardinality({j \in DOMAIN p.ends : p.ends[j] <= Behind(p, i)}) = i
         /\ Cardinality({j \in DOMAIN p.ends : p.ends[j] <= Behind(p, Len(p.ends)) + 2})
              = Len(p.ends)
<1> DEFINE n == Len(p.ends)
<1>1. n \in Nat /\ \A i \in 0 .. n : Behind(p, i) \in 11 .. Len(t) - 1
  BY PlacesOfParts
<1>2. \A i \in 0 .. n : Behind(p, i) \in Nat
  BY <1>1
<1>3. \A i \in 1 .. n : \A j \in 0 .. i - 1 : Behind(p, j) < Behind(p, i)
  BY DEF Consists
<1> HIDE DEF n
<1>4. ASSUME NEW i \in 0 .. n
      PROVE  Cardinality({j \in DOMAIN p.ends : p.ends[j] <= Behind(p, i)}) = i
  <2>1. Behind(p, i) \in Nat /\ Behind(p, i) <= Behind(p, i)
    BY <1>2
  <2>2. i < n => Behind(p, i) < Behind(p, i + 1)
    BY <1>1, <1>3
  <2>3. i \in 0 .. Len(p.ends) /\ (i < Len(p.ends) => Behind(p, i) < Behind(p, i + 1))
    BY <2>2 DEF n
  <2> QED
    BY <2>1, <2>3, HeadersPassed
<1>5. Cardinality({j \in DOMAIN p.ends : p.ends[j] <= Behind(p, n) + 2}) = n
  <2>1. n \in 0 .. n /\ ~ (n < n)
    BY <1>1
  <2>2. Behind(p, n) + 2 \in Nat /\ Behind(p, n) <= Behind(p, n) + 2
    BY <1>2, <2>1
  <2>3. n \in 0 .. Len(p.ends) /\ ~ (n < Len(p.ends))
    BY <2>1 DEF n
  <2> QED
    BY <2>2, <2>3, HeadersPassed
<1> QED
  BY <1>4, <1>5 DEF n

\* The status line of a well-formed response is found, whatever was read before.
LEMMA StatusIsGiven ==
  ASSUME IInv, PlaceInv, parts.known, StatusLineRead, UNCHANGED <<text, parts>>
  PROVE  /\ Parsed!ReadStatus /\ PlaceFine
         /\ kind' = "HEADER" /\ answer'.result = "OK"
<1>1. text \in Seq(Unit) /\ Consists(text, parts)
  BY DEF IInv, TypeOK, PlaceInv
<1>2. ReadStatusLine(text) = [result |-> "OK", at |-> parts.start]
  BY <1>1, StatusLineIsRead
<1>3. at' = parts.start /\ kind' = "HEADER"
      /\ answer' = Answer("status", "OK", Nowhere, Nowhere)
  BY <1>2 DEF StatusLineRead
<1>4. answer'.of = "status" /\ answer'.result = "OK"
  BY <1>3 DEF Answer
<1>5. 0 \in 0 .. Len(parts.ends) /\ Behind(parts, 0) = parts.start
  BY <1>1, PlacesOfParts DEF Behind
<1>6. Cardinality({j \in DOMAIN parts.ends : parts.ends[j] <= parts.start}) = 0
  BY <1>1, <1>5, PassedInPlace
<1>7. Passed' = 0
  BY <1>3, <1>6 DEF Passed
<1>8. Shown' = <<"status">>
  BY <1>4 DEF Shown
<1>9. PlaceFine
  BY <1>3, <1>5 DEF PlaceFine
<1> QED
  BY <1>3, <1>4, <1>7, <1>8, <1>9 DEF Parsed!ReadStatus

\* A header of a well-formed response is found in its place, and no header where
\* there is none.
LEMMA HeaderIsGiven ==
  ASSUME IInv, PlaceInv, parts.known, HeaderRead, UNCHANGED <<text, parts>>
  PROVE  /\ Parsed!ReadHeader \/ Parsed!NoMoreHeaders \/ Parsed!RefuseHeader
         /\ PlaceFine
         /\ kind # "HEADER" => kind' = kind
         /\ kind = "HEADER" => \/ kind' = "HEADER" /\ answer'.result = "OK"
                               \/ kind' = "BODY" /\ answer'.result = "ERROR_ITEM_NOT_FOUND"
<1> DEFINE n == Len(parts.ends)
<1>1. /\ text \in Seq(Unit) /\ Consists(text, parts)
      /\ kind \in ResponseKind /\ at \in 1 .. Len(text) + 1
      /\ parts' = parts /\ text' = text
  BY DEF IInv, TypeOK, PlaceInv
<1>2. /\ n \in Nat /\ Len(parts.headers) = n
      /\ \A i \in 0 .. n : Behind(parts, i) \in 11 .. Len(text) - 1
  <2>1. Len(parts.headers) = n
    BY <1>1 DEF Consists
  <2> QED
    BY <1>1, <2>1, PlacesOfParts
<1>3. /\ \A i \in 0 .. n :
           Cardinality({j \in DOMAIN parts.ends : parts.ends[j] <= Behind(parts, i)}) = i
      /\ Cardinality({j \in DOMAIN parts.ends : parts.ends[j] <= Behind(parts, n) + 2}) = n
  BY <1>1, PassedInPlace
<1>4. CASE kind \in {"STATUS_LINE", "EOF"}
  <2>1. /\ answer' = Answer("header", "ERROR_HTTP_INVALID_STATE", Nowhere, Nowhere)
        /\ at' = at /\ kind' = kind
    BY <1>4 DEF HeaderRead
  <2>2. answer'.of = "header" /\ answer'.result = "ERROR_HTTP_INVALID_STATE"
    BY <2>1 DEF Answer
  <2>3. Shown' = <<"refused">>
    BY <2>2 DEF Shown
  <2>4. Parsed!RefuseHeader
    BY <1>4, <2>1, <2>3 DEF Parsed!RefuseHeader
  <2> QED
    BY <1>4, <2>1, <2>4 DEF PlaceFine
<1>5. CASE kind = "BODY"
  <2>1. /\ answer' = Answer("header", "ERROR_ITEM_NOT_FOUND", Nowhere, Nowhere)
        /\ at' = at /\ kind' = kind
    BY <1>5 DEF HeaderRead
  <2>2. answer'.of = "header" /\ answer'.result = "ERROR_ITEM_NOT_FOUND"
    BY <2>1 DEF Answer
  <2>3. Shown' = <<"no header">>
    BY <2>2 DEF Shown
  <2>4. Passed' = Passed
    BY <1>1, <2>1 DEF Passed
  <2>5. Parsed!NoMoreHeaders
    BY <1>5, <2>1, <2>3, <2>4 DEF Parsed!NoMoreHeaders
  <2>6. at = Behind(parts, n) + 2
    BY <1>5 DEF PlaceInv
  <2> QED
    BY <1>5, <2>1, <2>5, <2>6 DEF PlaceFine
<1>6. CASE kind = "HEADER"
  <2>1. PICK i \in 0 .. n : at = Behind(parts, i)
    BY <1>6 DEF PlaceInv
  <2>2. Passed = i
    BY <1>3, <2>1 DEF Passed
  <2>3. at \in 11 .. Len(text) - 1 /\ at <= Len(text) /\ Len(text) \in Nat
    BY <1>1, <1>2, <2>1
  <2>4. CASE i < n
    <3> DEFINE read == ReadField(text, at)
               header == parts.headers[i + 1]
    <3>1. i + 1 \in 1 .. n /\ i + 1 - 1 = i /\ i + 1 \in 0 .. n
      BY <1>2, <2>4
    <3>2. HoldsHeader(text, at, Behind(parts, i + 1), header)
      <4>1. \A k \in 1 .. n : HoldsHeader(text, Behind(parts, k - 1), Behind(parts, k),
                                        parts.headers[k])
        BY Zenon, <1>1 DEF Consists
      <4> HIDE DEF n
      <4> QED
        BY <2>1, <3>1, <4>1
    <3>3. Behind(parts, i + 1) \in 1 .. Len(text) /\ at \in Nat \ {0}
      BY <1>2, <2>3, <3>1
    <3>4. /\ text[at] # "CR"
          /\ read.result = "OK" /\ read.at = Behind(parts, i + 1)
          /\ <<View(text, read.key), View(text, read.value)>> = header
      BY <1>1, <3>2, <3>3, HeaderIsRead
    <3>5. /\ at' = read.at /\ kind' = kind
          /\ answer' = Answer("header", read.result, read.key, read.value)
      BY <1>6, <2>3, <3>4 DEF HeaderRead
    <3> HIDE DEF read, header
    <3>6. /\ answer'.of = "header" /\ answer'.result = "OK"
          /\ answer'.key = read.key /\ answer'.value = read.value
      BY <3>4, <3>5 DEF Answer
    <3>7. Shown' = <<"header", header>>
      BY <1>1, <3>4, <3>6 DEF Shown
    <3>8. Passed' = i + 1
      BY <1>1, <1>3, <3>1, <3>4, <3>5 DEF Passed
    <3>9. Parsed!ReadHeader
      BY <1>2, <1>6, <2>2, <2>4, <3>5, <3>7, <3>8 DEF Parsed!ReadHeader, header
    <3>10. PlaceFine
      BY <1>6, <3>1, <3>4, <3>5 DEF PlaceFine
    <3> QED
      BY <1>6, <3>5, <3>6, <3>9, <3>10
  <2>5. CASE i = n
    <3>1. text[at] = "CR" /\ text[at + 1] = "LF" /\ at # Len(text)
      BY <1>1, <2>1, <2>3, <2>5 DEF Consists
    <3>2. ReadBlankLine(text, at) = NoField("ERROR_ITEM_NOT_FOUND", at + 2)
      BY <3>1 DEF ReadBlankLine
    <3>3. /\ at' = at + 2 /\ kind' = "BODY"
          /\ answer' = Answer("header", "ERROR_ITEM_NOT_FOUND", Nowhere, Nowhere)
      BY <1>6, <2>3, <3>1, <3>2 DEF HeaderRead, NoField
    <3>4. answer'.of = "header" /\ answer'.result = "ERROR_ITEM_NOT_FOUND"
      BY <3>3 DEF Answer
    <3>5. Shown' = <<"no header">>
      BY <3>4 DEF Shown
    <3>6. Passed' = n
      BY <1>1, <1>3, <2>1, <2>5, <3>3 DEF Passed
    <3>7. Parsed!NoMoreHeaders
      BY <1>2, <1>6, <2>2, <2>5, <3>3, <3>5, <3>6 DEF Parsed!NoMoreHeaders
    <3>8. PlaceFine
      BY <2>1, <2>5, <3>3 DEF PlaceFine
    <3> QED
      BY <1>6, <3>3, <3>4, <3>7, <3>8
  <2> QED
    BY <1>2, <2>4, <2>5
<1> QED
  BY <1>1, <1>4, <1>5, <1>6 DEF ResponseKind

\* What remains behind the headers is the body.
LEMMA BodyIsGiven ==
  ASSUME IInv, PlaceInv, parts.known, TakeBody
  PROVE  Parsed!ReadBody /\ PlaceFine /\ kind' = "EOF"
<1>1. kind = "BODY" /\ Consists(text, parts) /\ at = Behind(parts, Len(parts.ends)) + 2
  BY DEF PlaceInv, TakeBody
<1>2. SubSeq(text, at, Len(text)) = parts.body
  BY <1>1 DEF Consists
<1>3. /\ answer' = Answer("body", "OK", Nowhere, [from |-> at, to |-> Len(text)])
      /\ kind' = "EOF" /\ text' = text
  BY DEF TakeBody
<1>4. answer'.of = "body" /\ answer'.value.from = at /\ answer'.value.to = Len(text)
  BY <1>3 DEF Answer
<1>5. Shown' = <<"body", parts.body>>
  BY <1>2, <1>3, <1>4 DEF Shown, View
<1> QED
  BY <1>1, <1>3, <1>5 DEF Parsed!ReadBody, PlaceFine

\* Every step of the parser is one of ReplyReading, or none.
LEMMA NextGivesParts ==
  ASSUME IInv, PlaceInv, [Next]_vars
  PROVE  /\ PlaceInv'
         /\ parts.known => [Parsed!ReadingNext]_(Parsed!readingVars)
<1> SUFFICES ASSUME parts.known \/ parts'.known
             PROVE  PlaceInv' /\ [Parsed!ReadingNext]_(Parsed!readingVars)
  BY DEF PlaceInv
<1>1. /\ text' = text /\ parts' = parts /\ parts.known /\ Consists(text, parts)
  BY DEF PlaceInv, vars, Next, GetStatusLine, GetNextHeader, GetBody, SkipHeader, TakeBody,
         LogResponse, LogHeader
<1>2. /\ user = "skip" => kind = "HEADER"
      /\ user = "take" => kind = "BODY"
  BY <1>1 DEF PlaceInv
<1>3. ASSUME PlaceFine, user' = "skip" => kind' = "HEADER", user' = "take" => kind' = "BODY"
      PROVE  PlaceInv'
  BY <1>1, <1>3 DEF PlaceInv, PlaceFine
<1>4. ASSUME UNCHANGED <<at, kind, answer>>
      PROVE  PlaceFine /\ UNCHANGED Parsed!readingVars
  <2>1. PlaceFine
    BY <1>1, <1>4 DEF PlaceInv, PlaceFine
  <2>2. Passed' = Passed /\ Shown' = Shown
    BY <1>1, <1>4 DEF Passed, Shown
  <2> QED
    BY <1>1, <1>4, <2>1, <2>2 DEF Parsed!readingVars
<1>5. ASSUME StatusLineRead, user' = "take" => kind' = "BODY"
      PROVE  PlaceInv' /\ Parsed!ReadingNext
  <2>1. Parsed!ReadStatus /\ PlaceFine /\ kind' = "HEADER"
    BY <1>1, <1>5, StatusIsGiven
  <2> QED
    BY <1>1, <1>3, <1>5, <2>1 DEF Parsed!ReadingNext
<1>6. ASSUME HeaderRead
      PROVE  /\ Parsed!ReadingNext
             /\ PlaceFine
             /\ kind # "HEADER" => kind' = kind
             /\ kind = "HEADER" => \/ kind' = "HEADER" /\ answer'.result = "OK"
                                   \/ kind' = "BODY" /\ answer'.result = "ERROR_ITEM_NOT_FOUND"
  BY <1>1, <1>6, HeaderIsGiven DEF Parsed!ReadingNext
<1>7. CASE UNCHANGED vars
  BY <1>2, <1>3, <1>4, <1>7 DEF vars
<1>8. CASE GetStatusLine
  <2>1. StatusLineRead /\ user' = "none"
    BY <1>8 DEF GetStatusLine, Free
  <2> QED
    BY <1>5, <2>1
<1>9. CASE GetNextHeader
  <2>1. HeaderRead /\ user' = "none"
    BY <1>9 DEF GetNextHeader, Free
  <2> QED
    BY <1>3, <1>6, <2>1
<1>10. CASE GetBody
  <2>1. CASE kind = "BODY"
    <3>1. user' = "take" /\ UNCHANGED <<at, kind, answer>>
      BY <1>10, <2>1 DEF GetBody
    <3> QED
      BY <1>3, <1>4, <2>1, <3>1
  <2>2. CASE kind = "HEADER"
    <3>1. user' = "skip" /\ UNCHANGED <<at, kind, answer>>
      BY <1>10, <2>2 DEF GetBody
    <3> QED
      BY <1>3, <1>4, <2>2, <3>1
  <2>3. CASE kind \notin {"BODY", "HEADER"}
    <3>1. StatusLineRead /\ user' # "take"
      BY <1>10, <2>3 DEF GetBody
    <3> QED
      BY <1>5, <3>1
  <2> QED
    BY <2>1, <2>2, <2>3
<1>11. CASE SkipHeader
  <2>1. /\ HeaderRead /\ kind = "HEADER"
        /\ user' = IF answer'.result = "OK" THEN "skip"
                   ELSE IF answer'.result = ReadBehind THEN "none" ELSE "take"
    BY <1>2, <1>11 DEF SkipHeader
  <2>2. "ERROR_ITEM_NOT_FOUND" # "OK"
    OBVIOUS
  <2> QED
    BY <1>3, <1>6, <2>1, <2>2
<1>12. CASE TakeBody
  <2>1. Parsed!ReadBody /\ PlaceFine /\ user' = "none"
    BY <1>1, <1>12, BodyIsGiven DEF TakeBody
  <2> QED
    BY <1>1, <1>3, <2>1 DEF Parsed!ReadingNext
<1>13. CASE LogResponse
  <2>1. StatusLineRead /\ user' # "take"
    BY <1>13 DEF LogResponse
  <2>2. user' # "skip"
    BY <1>13 DEF LogResponse
  <2> QED
    BY <1>5, <2>1, <2>2
<1>14. CASE LogHeader
  <2>1. HeaderRead /\ user' \in {"log", "none"}
    BY <1>14 DEF LogHeader
  <2> QED
    BY <1>3, <1>6, <2>1
<1> QED
  BY <1>7, <1>8, <1>9, <1>10, <1>11, <1>12, <1>13, <1>14 DEF Next

\* The parser implements ReplyReading: of every response put together from known
\* parts it gives these parts in order, whether the log has read it before, from
\* whatever part the application starts, and however often it asks.
THEOREM ImplementsReplyReading == Spec => GivesParts
<1>1. Init => PlaceInv /\ (parts.known => Parsed!ReadingInit)
  <2> SUFFICES ASSUME Init, parts.known
               PROVE  PlaceInv /\ Parsed!ReadingInit
    BY DEF PlaceInv
  <2>1. Consists(text, parts)
    BY KnownParts DEF Init
  <2>2. kind = "STATUS_LINE" /\ user = "none" /\ answer = NothingRead
    BY DEF Init
  <2>3. answer.of = "nothing"
    BY <2>2 DEF NothingRead, Answer
  <2>4. Shown = <<"nothing">>
    BY <2>3 DEF Shown
  <2> QED
    BY <2>1, <2>2, <2>4 DEF PlaceInv, Parsed!ReadingInit
<1>2. /\ IInv /\ PlaceInv /\ [Next]_vars => PlaceInv'
      /\ IInv /\ PlaceInv /\ [Next]_vars =>
           [parts.known => [Parsed!ReadingNext]_(Parsed!readingVars)]_vars
  BY NextGivesParts
<1> QED
  BY <1>1, <1>2, Invariance, PTL DEF Spec, GivesParts
=============================================================================
