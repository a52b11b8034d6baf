------------------------ MODULE CurlTransportProofs ------------------------
(***************************************************************************)
(* Theorems about CurlTransport, for every set of requests, every room for *)
(* the reply and every size of what libcurl hands to the callbacks.        *)
(*                                                                         *)
(* The properties speak of the exchange and of the end of a call.  The     *)
(* inductive invariant says what each step of the call can rely on: what   *)
(* the handle has been told so far (Prepared), what it points to and who   *)
(* owns that (Kept), where the body is (Uploading), and what there is of   *)
(* the reply (Replying).                                                   *)
(***************************************************************************)
EXTENDS CurlTransport, SpanProofs

Handle == [headers: BOOLEAN, url: BOOLEAN, redirected: BOOLEAN,
           method: Methods, points: SUBSET Memory]

Types ==
  /\ at \in Places /\ request \in Requests /\ list \in Nat /\ handle \in Handle
  /\ owned \subseteq Memory
  /\ toSend \in Seq(Nat) /\ received \in Seq(Nat)
  /\ said \in Nat /\ response \in SpanOf(Nat) /\ result \in AzResults

\* The steps in front of the exchange, and the exchange.
SettingUp == {"headers", "url", "redirect", "method"}
Exchange  == {"transfer"}

\* What the handle knows once a step is reached.
Prepared ==
  /\ at \in SettingUp => handle.method = "GET" /\ list <= request.headers
  /\ at \in {"url", "redirect", "method", "transfer"} =>
       list = request.headers /\ handle.headers = (request.headers > 0)
  /\ at \in {"redirect", "method", "transfer"} => handle.url
  /\ at \in {"method", "transfer"} => handle.redirected
  /\ at = "transfer" => handle.method = request.method

\* What the handle points to is owned, and the body of a POST is on no way to
\* the end of a call that does not give it back.
Kept ==
  /\ at \in SettingUp \cup Exchange => handle.points \subseteq owned
  /\ at \in SettingUp => "body" \notin handle.points
  /\ at = "headers" /\ list # 0 => "list" \in owned
  /\ at = "transfer" /\ handle.method = "POST" => "body" \in handle.points
  /\ "body" \in owned => \/ at = "body sent"
                         \/ at = "transfer" /\ handle.method = "POST"
  /\ at = "idle" => owned = {}
  /\ lost \subseteq {"list"}

\* The body of an upload is with the service or still to be sent.
Uploading ==
  /\ at \in SettingUp => received = <<>>
  /\ at = "transfer" /\ handle.method = "PUT" =>
       received \o toSend = Bytes(request.size)

\* The reply so far: all of it as long as nothing failed, and then no step is
\* left out; the zero byte is only there at the end of a call that succeeds.
Beginning == \E n \in 0 .. said : response.items = Bytes(n)

Replying ==
  /\ at \in SettingUp => said = 0 /\ response.items = <<>>
  /\ at \in SettingUp \cup Exchange => result = "OK"
  /\ at \in Exchange \cup {"body sent", "reply read"} /\ result = "OK" =>
       response.items = Bytes(said)
  /\ at \in {"body sent", "reply read", "cleanup"} /\ result = "OK" => said > 0
  /\ at = "reply read" => result = "OK"
  /\ IF at \in {"cleanup", "idle"} /\ result = "OK" /\ said > 0
     THEN response.items = Bytes(said) \o <<0>>
     ELSE Beginning

IInv == Types /\ Prepared /\ Kept /\ Uploading /\ Replying
------------------------------------------------------------------------------
(***************************************************************************)
(* The bytes of bodies and replies.                                        *)
(***************************************************************************)
LEMMA InOneRow ==
  ASSUME NEW a \in Seq(Nat), NEW b \in Seq(Nat), NEW c \in Seq(Nat)
  PROVE  (a \o b) \o c = a \o (b \o c)
BY ConcatAssociative

LEMMA BytesOfNone ==
  Bytes(0) = <<>>
BY DEF Bytes

LEMMA BytesFacts ==
  ASSUME NEW n \in Nat
  PROVE  Bytes(n) \in Seq(Nat) /\ Len(Bytes(n)) = n /\ \A i \in 1 .. n : Bytes(n)[i] = i
BY DEF Bytes

\* A part that goes on where the bytes end makes them the bytes that far.
LEMMA BytesGoOn ==
  ASSUME NEW n \in Nat, NEW size \in Nat
  PROVE  /\ [i \in 1 .. size |-> n + i] \in Seq(Nat)
         /\ Bytes(n) \o [i \in 1 .. size |-> n + i] = Bytes(n + size)
<1> DEFINE part == [i \in 1 .. size |-> n + i]
<1>1. part \in Seq(Nat) /\ Len(part) = size /\ \A i \in 1 .. size : part[i] = n + i
  OBVIOUS
<1> HIDE DEF part
<1>2. Bytes(n) \in Seq(Nat) /\ Len(Bytes(n)) = n /\ \A i \in 1 .. n : Bytes(n)[i] = i
  BY BytesFacts
<1>3. /\ Bytes(n) \o part \in Seq(Nat)
      /\ Len(Bytes(n) \o part) = Len(Bytes(n)) + Len(part)
      /\ \A i \in 1 .. Len(Bytes(n)) + Len(part) :
           (Bytes(n) \o part)[i]
             = IF i <= Len(Bytes(n)) THEN Bytes(n)[i] ELSE part[i - Len(Bytes(n))]
  BY <1>1, <1>2, ConcatProperties, Zenon
<1>4. /\ Bytes(n + size) \in Seq(Nat) /\ Len(Bytes(n + size)) = n + size
      /\ \A i \in 1 .. n + size : Bytes(n + size)[i] = i
  <2>1. n + size \in Nat
    OBVIOUS
  <2> QED
    BY <2>1, BytesFacts
<1>5. Bytes(n) \o part = Bytes(n + size)
  <2> DEFINE joined == Bytes(n) \o part
             whole  == Bytes(n + size)
  <2>1. /\ joined \in Seq(Nat) /\ Len(joined) = n + size
        /\ \A i \in 1 .. n + size : joined[i] = IF i <= n THEN Bytes(n)[i] ELSE part[i - n]
    BY <1>1, <1>2, <1>3
  <2> HIDE DEF joined, whole
  <2>2. ASSUME NEW i \in 1 .. n + size
        PROVE  joined[i] = i
    <3>1. CASE i <= n
      <4>1. i \in 1 .. n
        BY <3>1
      <4> QED
        BY <1>2, <2>1, <3>1, <4>1, Zenon
    <3>2. CASE ~ (i <= n)
      <4>1. i - n \in 1 .. size
        BY <3>2
      <4>2. joined[i] = part[i - n]
        BY <2>1, <3>2, Zenon
      <4>3. part[i - n] = n + (i - n)
        BY <1>1, <4>1, Zenon
      <4> QED
        BY <4>2, <4>3
    <3> QED
      BY <3>1, <3>2
  <2>3. whole \in Seq(Nat) /\ Len(whole) = n + size /\ \A i \in 1 .. n + size : whole[i] = i
    BY <1>4 DEF whole
  <2>4. joined = whole
    BY <2>1, <2>2, <2>3, SeqEqual
  <2> QED
    BY <2>4 DEF joined, whole
<1> QED
  BY <1>1, <1>5 DEF part

\* What the read callback copies and what it leaves are what there was, also
\* where the rest begins behind the end.
LEMMA RestIsSplit ==
  ASSUME NEW rest \in Seq(Nat), NEW room \in Nat \ {0}
  PROVE  LET size == IF Len(rest) < room THEN Len(rest) ELSE room
             now  == SubSeq(rest, 1, size)
             left == SubSeq(rest, room + 1, Len(rest))
         IN  now \in Seq(Nat) /\ left \in Seq(Nat) /\ now \o left = rest
<1>0. Len(rest) \in Nat
  BY LenProperties
<1>1. CASE Len(rest) < room
  <2>1. SubSeq(rest, 1, Len(rest)) = rest
    BY SubSeqFull
  <2>2. SubSeq(rest, room + 1, Len(rest)) = <<>>
    BY <1>0, <1>1, SubSeqEmpty
  <2>3. rest \o <<>> = rest /\ <<>> \in Seq(Nat)
    BY ConcatEmptySeq
  <2> QED
    BY <1>1, <2>1, <2>2, <2>3
<1>2. CASE ~ (Len(rest) < room)
  <2>1. SubSeq(rest, 1, room) \o SubSeq(rest, room + 1, Len(rest))
          = SubSeq(rest, 1, Len(rest))
    <3>1. 1 \in 1 .. Len(rest) + 1 /\ room \in 1 - 1 .. Len(rest)
          /\ Len(rest) \in room .. Len(rest)
      BY <1>0, <1>2
    <3> QED
      BY <3>1, ConcatAdjacentSubSeq, Zenon
  <2>2. SubSeq(rest, 1, Len(rest)) = rest
    BY SubSeqFull
  <2>3. SubSeq(rest, 1, room) \in Seq(Nat)
    BY <1>0, <1>2, SubSeqProperties
  <2>4. SubSeq(rest, room + 1, Len(rest)) \in Seq(Nat)
    BY <1>0, <1>2, SubSeqProperties
  <2> QED
    BY <1>2, <2>1, <2>2, <2>3, <2>4
<1> QED
  BY <1>1, <1>2
------------------------------------------------------------------------------
(***************************************************************************)
(* The initial states.                                                     *)
(***************************************************************************)
LEMMA InitInvariant ==
  Init => IInv
<1> SUFFICES ASSUME Init
             PROVE  IInv
  OBVIOUS
<1>1. EmptySpan(Capacity) \in SpanOf(Nat) /\ EmptySpan(Capacity).items = <<>>
  BY CurlTransportAssumption DEF EmptySpan, SpanOf
<1>2. NewHandle \in Handle /\ NewHandle.points = {}
  BY DEF NewHandle, Handle, Methods
<1>3. Bytes(0) = <<>>
  BY BytesOfNone
<1>4. Types
  BY <1>1, <1>2 DEF Init, Types, Places, AzResults
<1>5. Prepared /\ Kept /\ Uploading
  BY DEF Init, Prepared, Kept, Uploading, SettingUp, Exchange
<1>6. Replying
  <2>1. Beginning
    BY <1>1, <1>3 DEF Init, Beginning
  <2> QED
    BY <2>1 DEF Init, Replying, SettingUp, Exchange
<1> QED
  BY <1>4, <1>5, <1>6 DEF IInv
------------------------------------------------------------------------------
(***************************************************************************)
(* Types.  Every action of the setting up and of the way back changes at   *)
(* most the step, the result, the handle, the list and what is owned.      *)
(***************************************************************************)
LEMMA TypesKept ==
  ASSUME Types, Next
  PROVE  Types'
<1> USE DEF Types
<1>a. {"OK", "ERROR_ARG"} \cup SetupErrors \cup
      {"ERROR_HTTP_PAL", "ERROR_OUT_OF_MEMORY", "ERROR_HTTP_INVALID_METHOD_VERB",
       "ERROR_HTTP_RESPONSE_OVERFLOW", "ERROR_BUFFER_OVERFLOW",
       "ERROR_HTTP_RESPONSE_COULDNT_RESOLVE_HOST"} \subseteq AzResults
  BY DEF SetupErrors, AzResults, AzError
<1>b. /\ EmptySpan(Capacity) \in SpanOf(Nat) /\ NewHandle \in Handle
      /\ <<>> \in Seq(Nat)
      /\ \A r \in Requests : r.size \in Nat /\ r.headers \in Nat /\ r.method \in Methods
  BY CurlTransportAssumption DEF EmptySpan, SpanOf, NewHandle, Handle, Methods
<1>c. {"handle"} \subseteq Memory /\ {"list"} \subseteq Memory /\ {"body"} \subseteq Memory
  BY DEF Memory
<1>d. Performed \in Places
  BY DEF Performed, Places
<1>1. CASE Begin
  BY <1>1, <1>a, <1>b, <1>c DEF Begin, Places
<1>2. CASE AddHeader
  <2>1. list' \in Nat /\ owned' \subseteq Memory
    BY <1>2, <1>c DEF AddHeader
  <2> QED
    BY <1>2, <1>a, <2>1 DEF AddHeader, Goes, Fails, callVars, Places
<1>3. CASE SetHeaders
  <2>1. handle' \in Handle
    <3>1. (list > 0) \in BOOLEAN /\ (IF list > 0 THEN {"list"} ELSE {}) \in SUBSET Memory
      BY <1>c
    <3> HIDE DEF Types
    <3>2. \A b \in BOOLEAN, P \in SUBSET Memory :
            [handle EXCEPT !.headers = b, !.points = P] \in Handle
      BY DEF Types, Handle
    <3>3. CASE UNCHANGED handle
      BY <3>3 DEF Types
    <3>4. CASE handle' = [handle EXCEPT !.headers = list > 0,
                                        !.points = IF list > 0 THEN {"list"} ELSE {}]
      <4> DEFINE b == list > 0
                 P == IF list > 0 THEN {"list"} ELSE {}
      <4>1. b \in BOOLEAN /\ P \in SUBSET Memory
        BY <3>1
      <4>2. handle' = [handle EXCEPT !.headers = b, !.points = P]
        BY <3>4
      <4> HIDE DEF b, P
      <4> QED
        BY <3>2, <4>1, <4>2
    <3> QED
      BY <1>3, <3>3, <3>4 DEF SetHeaders
  <2> QED
    BY <1>3, <1>a, <2>1 DEF SetHeaders, Goes, Fails, callVars, Places
<1>4. CASE SetUrl
  <2>1. handle' \in Handle
    BY <1>4 DEF SetUrl, Handle
  <2> QED
    BY <1>4, <1>a, <2>1 DEF SetUrl, Goes, Fails, callVars, Places
<1>5. CASE Redirect
  <2>1. handle' \in Handle
    BY <1>5 DEF Redirect, Handle
  <2> QED
    BY <1>5, <1>a, <2>1 DEF Redirect, Goes, Fails, callVars, Places
<1>6. CASE SendGet
  BY <1>6 DEF SendGet, Goes, callVars, Places
<1>7. CASE SendDelete
  <2>1. handle' \in Handle
    BY <1>7 DEF SendDelete, Methods, Handle
  <2> QED
    BY <1>7, <1>a, <2>1 DEF SendDelete, Goes, Fails, callVars, Places
<1>8. CASE SendPost
  <2>1. handle' \in Handle
    <3>1. handle \in Handle
      BY DEF Types
    <3>2. handle.points \cup {"body"} \in SUBSET Memory
      BY <1>c, <3>1 DEF Handle
    <3>3. \A P \in SUBSET Memory :
            [handle EXCEPT !.method = "POST", !.points = P] \in Handle
      BY <3>1 DEF Handle, Methods
    <3>4. CASE UNCHANGED handle
      BY <3>1, <3>4
    <3>5. CASE handle' = [handle EXCEPT !.method = "POST",
                                        !.points = handle.points \cup {"body"}]
      BY <3>2, <3>3, <3>5, Zenon
    <3> QED
      BY <1>8, <3>4, <3>5 DEF SendPost
  <2> QED
    BY <1>8, <1>a, <1>c, <2>1 DEF SendPost, Goes, Fails, callVars, Places
<1>9. CASE SendUpload
  <2>1. handle' \in Handle
    BY <1>9 DEF SendUpload, Methods, Handle
  <2>2. Bytes(request.size) \in Seq(Nat)
    BY <1>b, BytesFacts
  <2> QED
    BY <1>9, <1>a, <2>1, <2>2 DEF SendUpload, Goes, Fails, Places
<1>10. CASE SendOther
  BY <1>10, <1>a DEF SendOther, Fails, callVars, Places
<1>11. CASE UploadBody
  <2>1. PICK room \in 1 .. MaxRoom :
          LET size == IF Len(toSend) < room THEN Len(toSend) ELSE room
          IN  /\ received' = received \o SubSeq(toSend, 1, size)
              /\ toSend' = SubSeq(toSend, room + 1, Len(toSend))
    BY <1>11 DEF UploadBody
  <2>2. room \in Nat \ {0}
    OBVIOUS
  <2>3. received' \in Seq(Nat) /\ toSend' \in Seq(Nat)
    BY <2>1, <2>2, RestIsSplit, ConcatProperties
  <2> QED
    BY <1>11, <2>3 DEF UploadBody
<1>12. CASE PostBody
  <2>1. Bytes(request.size) \in Seq(Nat)
    BY <1>b, BytesFacts
  <2> QED
    BY <1>12, <2>1 DEF PostBody
<1>13. CASE Receive
  <2>1. PICK size \in 1 .. MaxPart :
          LET appended == SpanAppend(response, [i \in 1 .. size |-> said + i])
          IN  /\ said' = said + size
              /\ response' = appended.object
              /\ IF Failed(appended.result)
                 THEN result' = "ERROR_HTTP_RESPONSE_OVERFLOW" /\ at' = Performed
                 ELSE UNCHANGED <<at, result>>
    BY <1>13 DEF Receive
  <2>2. [i \in 1 .. size |-> said + i] \in Seq(Nat)
    BY BytesGoOn
  <2>3. SpanAppend(response, [i \in 1 .. size |-> said + i]).object \in SpanOf(Nat)
    BY <2>2, SpanAppendFacts
  <2>4. response' \in SpanOf(Nat) /\ said' \in Nat
    BY <2>1, <2>3
  <2>5. at' \in Places /\ result' \in AzResults
    BY <2>1, <1>a, <1>d
  <2> QED
    BY <1>13, <2>4, <2>5 DEF Receive
<1>14. CASE ConnectionLost
  BY <1>14, <1>a, <1>d DEF ConnectionLost, callVars
<1>15. CASE ReplyComplete
  BY <1>15, <1>d DEF ReplyComplete, callVars
<1>16. CASE FreeBody
  BY <1>16 DEF FreeBody, callVars, Places
<1>17. CASE EndReply
  <2>1. /\ SpanAppend(response, <<0>>).object \in SpanOf(Nat)
        /\ SpanAppend(response, <<0>>).result \in {"OK", "ERROR_BUFFER_OVERFLOW"}
    <3>1. <<0>> \in Seq(Nat)
      OBVIOUS
    <3> QED
      BY <3>1, SpanAppendFacts
  <2> QED
    BY <1>17, <1>a, <2>1 DEF EndReply, Goes, Fails, Places
<1>18. CASE Cleanup
  BY <1>18 DEF Cleanup, callVars, Places
<1> QED
  BY <1>1, <1>2, <1>3, <1>4, <1>5, <1>6, <1>7, <1>8, <1>9, <1>10, <1>11, <1>12,
     <1>13, <1>14, <1>15, <1>16, <1>17, <1>18 DEF Next
------------------------------------------------------------------------------
\* Each step of the setting up is only left for the next one when it has told
\* the handle what it is there for.
LEMMA PreparedKept ==
  ASSUME Types, Prepared, Next
  PROVE  Prepared'
<1> USE DEF Prepared, SettingUp, Handle, Types
<1>a. \A r \in Requests : r.headers \in Nat
  BY CurlTransportAssumption
<1>b. request.headers \in Nat
  BY <1>a
<1>1. CASE Begin
  <2>1. request'.headers \in Nat /\ list' = 0
    BY <1>1, <1>a DEF Begin
  <2>2. handle'.method = "GET" /\ at' \in {"headers", "idle"}
    BY <1>1 DEF Begin, NewHandle
  <2> QED
    BY <2>1, <2>2
<1>2. CASE AddHeader
  <2>1. CASE at' = "headers"
    BY <1>2, <1>b, <2>1 DEF AddHeader, Goes, Fails, callVars
  <2>2. CASE at' = "cleanup"
    BY <1>2, <2>2 DEF AddHeader, Goes, Fails, callVars
  <2> QED
    BY <1>2, <2>1, <2>2 DEF AddHeader, Goes, Fails
<1>3. CASE SetHeaders
  BY <1>3 DEF SetHeaders, Goes, Fails, callVars
<1>4. CASE SetUrl
  BY <1>4 DEF SetUrl, Goes, Fails, callVars
<1>5. CASE Redirect
  BY <1>5 DEF Redirect, Goes, Fails, callVars
<1>6. CASE SendGet
  BY <1>6 DEF SendGet, Goes, callVars
<1>7. CASE SendDelete
  BY <1>7 DEF SendDelete, Goes, Fails, callVars
<1>8. CASE SendPost
  BY <1>8 DEF SendPost, Fails, Goes, callVars
<1>9. CASE SendUpload
  BY <1>9 DEF SendUpload, Goes, Fails
<1>10. CASE SendOther
  BY <1>10 DEF SendOther, Fails, callVars
<1>11. CASE UploadBody
  BY <1>11 DEF UploadBody
<1>12. CASE PostBody
  BY <1>12 DEF PostBody
<1>13. CASE Receive
  BY <1>13 DEF Receive, Performed
<1>14. CASE ConnectionLost
  BY <1>14 DEF ConnectionLost, Performed, callVars
<1>15. CASE ReplyComplete
  BY <1>15 DEF ReplyComplete, Performed, callVars
<1>16. CASE FreeBody
  BY <1>16 DEF FreeBody, callVars
<1>17. CASE EndReply
  BY <1>17 DEF EndReply, Goes, Fails
<1>18. CASE Cleanup
  BY <1>18 DEF Cleanup, callVars
<1> QED
  BY <1>1, <1>2, <1>3, <1>4, <1>5, <1>6, <1>7, <1>8, <1>9, <1>10, <1>11, <1>12,
     <1>13, <1>14, <1>15, <1>16, <1>17, <1>18 DEF Next

\* The list lives as long as the handle points to it, and the body of a POST is
\* given back on each way there is from the point where it is taken.
LEMMA KeptKept ==
  ASSUME Types, Prepared, Kept, Next
  PROVE  Kept'
<1> USE DEF Kept, SettingUp, Exchange, Handle, Types
<1>1. CASE Begin
  <2>1. handle'.points = {} /\ handle'.method = "GET" /\ list' = 0 /\ lost' = lost
    BY <1>1 DEF Begin, NewHandle
  <2>2. CASE at' = "headers" /\ owned' = {"handle"}
    BY <2>1, <2>2
  <2>3. CASE at' = "idle" /\ owned' = {}
    BY <2>1, <2>3
  <2> QED
    BY <1>1, <2>2, <2>3 DEF Begin
<1>2. CASE AddHeader
  BY <1>2 DEF AddHeader, Goes, Fails, callVars
<1>3. CASE SetHeaders
  <2>1. at = "headers" /\ owned' = owned /\ lost' = lost
    BY <1>3 DEF SetHeaders
  <2>2. CASE at' = "url"
    <3>1. /\ handle'.points = IF list > 0 THEN {"list"} ELSE {}
          /\ handle'.method = handle.method
      BY <1>3, <2>2 DEF SetHeaders, Goes, Fails
    <3> QED
      BY <2>1, <2>2, <3>1
  <2>3. CASE at' = "cleanup"
    BY <2>1, <2>3
  <2> QED
    BY <1>3, <2>2, <2>3 DEF SetHeaders, Goes, Fails
<1>4. CASE SetUrl
  BY <1>4 DEF SetUrl, Goes, Fails, callVars
<1>5. CASE Redirect
  BY <1>5 DEF Redirect, Goes, Fails, callVars
<1>6. CASE SendGet
  BY <1>6 DEF SendGet, Goes, callVars, Prepared
<1>7. CASE SendDelete
  BY <1>7 DEF SendDelete, Goes, Fails, callVars
<1>8. CASE SendPost
  <2>1. at = "method" /\ lost' = lost
    BY <1>8 DEF SendPost
  <2>2. CASE at' = "transfer"
    <3>1. /\ handle'.points = handle.points \cup {"body"}
          /\ handle'.method = "POST" /\ owned' = owned \cup {"body"}
      BY <1>8, <2>2 DEF SendPost, Goes, Fails
    <3> QED
      BY <2>1, <2>2, <3>1
  <2>3. CASE at' \in {"cleanup", "body sent"}
    BY <1>8, <2>1, <2>3 DEF SendPost, Goes, Fails
  <2> QED
    BY <1>8, <2>2, <2>3 DEF SendPost, Goes, Fails
<1>9. CASE SendUpload
  BY <1>9 DEF SendUpload, Goes, Fails
<1>10. CASE SendOther
  BY <1>10 DEF SendOther, Fails, callVars
<1>11. CASE UploadBody
  BY <1>11 DEF UploadBody
<1>12. CASE PostBody
  BY <1>12 DEF PostBody
<1>13. CASE Receive
  BY <1>13 DEF Receive, Performed
<1>14. CASE ConnectionLost
  BY <1>14 DEF ConnectionLost, Performed, callVars
<1>15. CASE ReplyComplete
  BY <1>15 DEF ReplyComplete, Performed, callVars
<1>16. CASE FreeBody
  BY <1>16 DEF FreeBody, callVars
<1>17. CASE EndReply
  BY <1>17 DEF EndReply, Goes, Fails
<1>18. CASE Cleanup
  <2>1. at = "cleanup" /\ at' = "idle" /\ owned' = {}
        /\ lost' = lost \cup (owned \ {"handle"})
    BY <1>18 DEF Cleanup
  <2>2. owned \subseteq {"handle", "list", "body"} /\ "body" \notin owned
    BY <2>1 DEF Memory
  <2>3. lost' \subseteq {"list"}
    BY <2>1, <2>2
  <2> QED
    BY <2>1, <2>3
<1> QED
  BY <1>1, <1>2, <1>3, <1>4, <1>5, <1>6, <1>7, <1>8, <1>9, <1>10, <1>11, <1>12,
     <1>13, <1>14, <1>15, <1>16, <1>17, <1>18 DEF Next
------------------------------------------------------------------------------
(***************************************************************************)
(* The body of an upload.                                                  *)
(***************************************************************************)
LEMMA UploadingKept ==
  ASSUME Types, Prepared, Uploading, Next
  PROVE  Uploading'
<1> USE DEF Uploading, SettingUp
<1>1. CASE Begin
  BY <1>1 DEF Begin
<1>2. CASE AddHeader \/ SetHeaders \/ SetUrl \/ Redirect
  BY <1>2 DEF AddHeader, SetHeaders, SetUrl, Redirect, Goes, Fails, callVars
<1>3. CASE SendGet
  BY <1>3 DEF SendGet, Goes, callVars, Prepared
<1>4. CASE SendDelete
  BY <1>4 DEF SendDelete, Goes, Fails, callVars, Types, Handle
<1>5. CASE SendPost
  BY <1>5 DEF SendPost, Goes, Fails, callVars, Types, Handle
<1>6. CASE SendUpload
  <2>1. CASE at' = "cleanup"
    BY <2>1
  <2>2. CASE toSend' = Bytes(request.size) /\ at' = "transfer"
    <3>1. received' = <<>> /\ request' = request
      BY <1>6 DEF SendUpload
    <3>2. Bytes(request.size) \in Seq(Nat)
      <4>1. request.size \in Nat
        BY CurlTransportAssumption DEF Types
      <4> QED
        BY <4>1, BytesFacts
    <3>3. received' \o toSend' = Bytes(request.size)
      BY <2>2, <3>1, <3>2, ConcatEmptySeq
    <3> QED
      BY <2>2, <3>1, <3>3
  <2> QED
    BY <1>6, <2>1, <2>2 DEF SendUpload, Goes, Fails
<1>7. CASE SendOther
  BY <1>7 DEF SendOther, Fails
<1>8. CASE UploadBody
  <2>1. /\ at' = "transfer" /\ handle' = handle /\ request' = request
        /\ received \o toSend = Bytes(request.size)
    BY <1>8 DEF UploadBody
  <2>2. PICK room \in 1 .. MaxRoom :
          LET size == IF Len(toSend) < room THEN Len(toSend) ELSE room
          IN  /\ received' = received \o SubSeq(toSend, 1, size)
              /\ toSend' = SubSeq(toSend, room + 1, Len(toSend))
    BY <1>8 DEF UploadBody
  <2> DEFINE now  == SubSeq(toSend, 1, IF Len(toSend) < room THEN Len(toSend) ELSE room)
             left == SubSeq(toSend, room + 1, Len(toSend))
  <2>3. toSend \in Seq(Nat) /\ received \in Seq(Nat) /\ room \in Nat \ {0}
    BY DEF Types
  <2>4. now \in Seq(Nat) /\ left \in Seq(Nat) /\ now \o left = toSend
    BY <2>3, RestIsSplit
  <2>5. received' = received \o now /\ toSend' = left
    BY <2>2
  <2> HIDE DEF now, left
  <2>6. (received \o now) \o left = received \o (now \o left)
    BY <2>3, <2>4, InOneRow, Zenon
  <2>7. received' \o toSend' = Bytes(request.size)
    BY <2>1, <2>4, <2>5, <2>6
  <2> QED
    BY <2>1, <2>7
<1>9. CASE PostBody
  BY <1>9 DEF PostBody
<1>10. CASE Receive
  BY <1>10 DEF Receive, Performed
<1>11. CASE ConnectionLost \/ ReplyComplete
  BY <1>11 DEF ConnectionLost, ReplyComplete, Performed, callVars
<1>12. CASE FreeBody
  BY <1>12 DEF FreeBody
<1>13. CASE EndReply
  BY <1>13 DEF EndReply, Goes, Fails
<1>14. CASE Cleanup
  BY <1>14 DEF Cleanup
<1> QED
  BY <1>1, <1>2, <1>3, <1>4, <1>5, <1>6, <1>7, <1>8, <1>9, <1>10, <1>11, <1>12,
     <1>13, <1>14 DEF Next
------------------------------------------------------------------------------
(***************************************************************************)
(* The reply.                                                              *)
(***************************************************************************)
\* A step that leaves the reply alone and fails, or goes on without a failure
\* to a place from which the zero byte is still to be written.
LEMMA ReplyStands ==
  ASSUME Types, Replying, at \in SettingUp \cup Exchange \cup {"body sent"},
         UNCHANGED <<said, response>>,
         \/ Failed(result') /\ at' \in {"cleanup", "body sent"}
         \/ at \in SettingUp /\ UNCHANGED result /\ at' \in SettingUp \cup Exchange
         \/ at = "transfer" /\ UNCHANGED <<at, result>>
         \/ said > 0 /\ result = "OK" /\ UNCHANGED result
              /\ at' \in {"body sent", "reply read"}
  PROVE  Replying'
<1>1. Beginning
  BY DEF Replying, SettingUp, Exchange
<1>2. Beginning'
  BY <1>1 DEF Beginning
<1>3. Bytes(0) = <<>>
  BY BytesOfNone
<1>4. CASE Failed(result') /\ at' \in {"cleanup", "body sent"}
  BY <1>2, <1>4 DEF Replying, SettingUp, Exchange, Failed
<1>5. CASE at \in SettingUp /\ UNCHANGED result /\ at' \in SettingUp \cup Exchange
  BY <1>2, <1>3, <1>5 DEF Replying, SettingUp, Exchange
<1>6. CASE at = "transfer" /\ UNCHANGED <<at, result>>
  BY <1>2, <1>6 DEF Replying, SettingUp, Exchange
<1>7. CASE said > 0 /\ result = "OK" /\ UNCHANGED result
             /\ at' \in {"body sent", "reply read"}
  <2>1. response.items = Bytes(said)
    BY <1>3, <1>7 DEF Replying, SettingUp, Exchange, Types
  <2> QED
    BY <1>2, <1>7, <2>1 DEF Replying, SettingUp, Exchange
<1> QED
  BY <1>4, <1>5, <1>6, <1>7

LEMMA ReplyingKept ==
  ASSUME Types, Replying, Next
  PROVE  Replying'
<1> USE DEF SettingUp, Exchange
<1>1. CASE Begin
  <2>1. said' = 0 /\ response'.items = <<>> /\ Bytes(0) = <<>>
    BY <1>1, BytesOfNone DEF Begin, EmptySpan
  <2>2. Beginning'
    BY <2>1 DEF Beginning
  <2>3. \/ at' = "headers" /\ result' = "OK"
        \/ at' = "idle" /\ result' = "ERROR_ARG"
    BY <1>1 DEF Begin
  <2> QED
    BY <2>1, <2>2, <2>3 DEF Replying
<1>2. CASE AddHeader \/ SetHeaders \/ SetUrl \/ Redirect
  BY <1>2, ReplyStands DEF AddHeader, SetHeaders, SetUrl, Redirect, Goes, Fails,
     callVars, SetupErrors, Failed
<1>3. CASE SendGet \/ SendDelete \/ SendPost \/ SendUpload \/ SendOther
  BY <1>3, ReplyStands DEF SendGet, SendDelete, SendPost, SendUpload, SendOther, Goes,
     Fails, callVars, Failed
<1>4. CASE UploadBody \/ PostBody
  BY <1>4, ReplyStands DEF UploadBody, PostBody
<1>5. CASE Receive
  <2>1. PICK size \in 1 .. MaxPart :
          LET appended == SpanAppend(response, [i \in 1 .. size |-> said + i])
          IN  /\ said' = said + size
              /\ response' = appended.object
              /\ IF Failed(appended.result)
                 THEN result' = "ERROR_HTTP_RESPONSE_OVERFLOW" /\ at' = Performed
                 ELSE UNCHANGED <<at, result>>
    BY <1>5 DEF Receive
  <2> DEFINE part     == [i \in 1 .. size |-> said + i]
             appended == SpanAppend(response, part)
  <2>2. /\ at = "transfer" /\ result = "OK" /\ response.items = Bytes(said)
        /\ said \in Nat /\ response \in SpanOf(Nat)
    BY <1>5 DEF Receive, Replying, Types
  <2>3. part \in Seq(Nat) /\ Bytes(said) \o part = Bytes(said + size)
    <3>1. size \in Nat
      OBVIOUS
    <3> HIDE DEF part
    <3> QED
      BY <2>2, <3>1, BytesGoOn DEF part
  <2>4. /\ appended.result \in {"OK", "ERROR_BUFFER_OVERFLOW"}
        /\ appended.result = "OK" => appended.object.items = response.items \o part
        /\ appended.result # "OK" => appended.object = response
    BY <2>2, <2>3, SpanAppendFacts
  <2>5. /\ said' = said + size /\ response' = appended.object
        /\ IF Failed(appended.result)
           THEN result' = "ERROR_HTTP_RESPONSE_OVERFLOW" /\ at' = Performed
           ELSE UNCHANGED <<at, result>>
    BY <2>1
  <2> HIDE DEF appended, part
  <2>6. CASE appended.result = "OK"
    <3>1. at' = "transfer" /\ result' = "OK" /\ response'.items = Bytes(said')
      BY <2>2, <2>3, <2>4, <2>5, <2>6 DEF Failed
    <3>2. said' \in 0 .. said'
      BY <2>2, <2>5
    <3>3. Beginning'
      BY <3>1, <3>2 DEF Beginning
    <3> QED
      BY <3>1, <3>3 DEF Replying
  <2>7. CASE appended.result # "OK"
    <3>1. /\ result' = "ERROR_HTTP_RESPONSE_OVERFLOW"
          /\ at' \in {"body sent", "cleanup"} /\ response'.items = Bytes(said)
      BY <2>2, <2>4, <2>5, <2>7 DEF Failed, Performed
    <3>2. said \in 0 .. said'
      BY <2>2, <2>5
    <3>3. Beginning'
      BY <3>1, <3>2 DEF Beginning
    <3> QED
      BY <3>1, <3>3 DEF Replying
  <2> QED
    BY <2>6, <2>7
<1>6. CASE ConnectionLost
  <2>1. /\ at = "transfer" /\ Failed(result') /\ UNCHANGED <<said, response>>
        /\ at' \in {"cleanup", "body sent"}
    BY <1>6 DEF ConnectionLost, Performed, Failed, callVars
  <2> QED
    BY <2>1, ReplyStands
<1>7. CASE ReplyComplete
  <2>1. /\ at = "transfer" /\ said > 0 /\ UNCHANGED <<said, response, result>>
        /\ result = "OK" /\ at' \in {"body sent", "reply read"}
    BY <1>7 DEF ReplyComplete, Performed, Failed, callVars, Replying
  <2> QED
    BY <2>1, ReplyStands
<1>8. CASE FreeBody
  <2>1. /\ at = "body sent" /\ UNCHANGED <<said, response, result>>
        /\ at' = IF Failed(result) THEN "cleanup" ELSE "reply read"
    BY <1>8 DEF FreeBody, callVars
  <2> QED
    BY <2>1, ReplyStands DEF Failed, Replying
<1>9. CASE EndReply
  <2> DEFINE ended == SpanAppend(response, <<0>>)
  <2>1. /\ at = "reply read" /\ said' = said /\ response' = ended.object
        /\ IF Failed(ended.result) THEN Fails(ended.result) ELSE Goes("cleanup")
    BY <1>9 DEF EndReply
  <2>2. /\ result = "OK" /\ said > 0 /\ response.items = Bytes(said)
        /\ response \in SpanOf(Nat) /\ said \in Nat
    BY <2>1 DEF Replying, Types
  <2>3. <<0>> \in Seq(Nat)
    OBVIOUS
  <2>4. /\ ended.result \in {"OK", "ERROR_BUFFER_OVERFLOW"}
        /\ ended.result = "OK" => ended.object.items = response.items \o <<0>>
        /\ ended.result # "OK" => ended.object = response
    BY <2>2, <2>3, SpanAppendFacts
  <2> HIDE DEF ended
  <2>5. CASE ended.result = "OK"
    <3>1. at' = "cleanup" /\ result' = "OK" /\ response'.items = Bytes(said') \o <<0>>
      BY <2>1, <2>2, <2>4, <2>5 DEF Failed, Goes
    <3> QED
      BY <2>1, <2>2, <3>1 DEF Replying
  <2>6. CASE ended.result # "OK"
    <3>1. at' = "cleanup" /\ Failed(result') /\ response'.items = Bytes(said)
      BY <2>1, <2>2, <2>4, <2>6 DEF Failed, Fails
    <3>2. said \in 0 .. said'
      <4>1. said' = said
        BY <1>9 DEF EndReply
      <4> QED
        BY <2>2, <4>1
    <3>3. Beginning'
      BY <3>1, <3>2 DEF Beginning
    <3> QED
      BY <3>1, <3>3 DEF Replying, Failed
  <2> QED
    BY <2>5, <2>6
<1>10. CASE Cleanup
  <2>1. /\ at = "cleanup" /\ at' = "idle" /\ UNCHANGED <<said, response, result>>
    BY <1>10 DEF Cleanup, callVars
  <2>2. Beginning => Beginning'
    BY <2>1 DEF Beginning
  <2> QED
    BY <2>1, <2>2 DEF Replying
<1> QED
  BY <1>1, <1>2, <1>3, <1>4, <1>5, <1>6, <1>7, <1>8, <1>9, <1>10 DEF Next
------------------------------------------------------------------------------
(***************************************************************************)
(* The theorems.                                                           *)
(***************************************************************************)
LEMMA StepInvariant ==
  ASSUME IInv, [Next]_vars
  PROVE  IInv'
<1>1. CASE Next
  BY <1>1, TypesKept, PreparedKept, KeptKept, UploadingKept, ReplyingKept DEF IInv
<1>2. CASE UNCHANGED vars
  BY <1>2 DEF vars, IInv, Types, Prepared, Kept, Uploading, Replying, Beginning
<1> QED
  BY <1>1, <1>2

LEMMA Invariance ==
  Spec => []IInv
<1>1. Init => IInv
  BY InitInvariant
<1>2. IInv /\ [Next]_vars => IInv'
  BY StepInvariant
<1> QED
  BY <1>1, <1>2, PTL DEF Spec

\* During an exchange the list of headers and the body of a POST, which libcurl
\* does not copy, are still there, whichever steps of the setting up failed in
\* earlier calls.
THEOREM HandlePointsToLive ==
  Spec => []PointsToLive
<1>1. IInv => PointsToLive
  BY DEF IInv, Kept, Exchange, PointsToLive
<1> QED
  BY <1>1, Invariance, PTL

\* No exchange begins unless the handle has been told all of the request.
THEOREM OnlyWholeRequestsSent ==
  Spec => []SendsWhole
<1>1. IInv => SendsWhole
  BY DEF IInv, Prepared, Kept, SendsWhole
<1> QED
  BY <1>1, Invariance, PTL

\* Whatever rooms libcurl offers to the read callback, the service gets the
\* bytes of the body, in their order.
THEOREM UploadInOrder ==
  Spec => []UploadsInOrder
<1>1. IInv => UploadsInOrder
  BY DEF IInv, Uploading, UploadsInOrder
<1> QED
  BY <1>1, Invariance, PTL

\* Whatever the parts a reply comes in, a call that succeeds gives the whole of
\* it and the zero byte that the parser of the response relies on.
THEOREM ReplyIsWhole ==
  Spec => []GivesWholeReply
<1>1. IInv => GivesWholeReply
  BY DEF IInv, Replying, Beginning, GivesWholeReply
<1> QED
  BY <1>1, Invariance, PTL

\* On every path to the end of a call, the handle and the body of a POST are
\* given back.
THEOREM HandleAndBodyFreed ==
  Spec => []FreesHandleAndBody
<1>1. IInv => FreesHandleAndBody
  BY DEF IInv, Kept, FreesHandleAndBody
<1> QED
  BY <1>1, Invariance, PTL
=============================================================================
