------------------------- MODULE HttpPipelineProofs -------------------------
(***************************************************************************)
(* Theorems about HttpPipeline, for every number of threads, clients and   *)
(* credentials and every size of the buffers: every variable has its type, *)
(* a request only goes out authorised, a call that succeeds hands over the *)
(* whole of its reply, a request carries a token of its client's scope, a  *)
(* cached token found good is still alive when it is sent, and the         *)
(* pipeline implements AuthenticatedCall.                                  *)
(*                                                                         *)
(* The first two follow from one inductive invariant, IInv.  Authorized    *)
(* speaks of the moment a request is on the wire; the invariant says what  *)
(* keeps it true on the way there: which frames a thread can have          *)
(* (Stacked), that the requests carry no authorization header up to the    *)
(* credential policy and exactly one behind it, and that the credential    *)
(* still holds the token that header is a view of (Attached), and that a   *)
(* cached token that is taken for good was granted (GrantedIfFresh).       *)
(*                                                                         *)
(* The others stand on IInv, each with an invariant of its own: how much   *)
(* of its reply a call has (Whole), which scope the credentials and their  *)
(* tokens have (Scoped), and when tokens were found good and expire        *)
(* (Dated).  The refinement needs IInv alone: every step passes a call to  *)
(* a phase the abstract specification allows (StepPasses), and only the    *)
(* end of a token request touches the token that is kept.                  *)
(***************************************************************************)
EXTENDS HttpPipeline, SpanProofs, FiniteSetTheorems
------------------------------------------------------------------------------
(***************************************************************************)
(* What the operations of HttpRequest do to a request, for every request   *)
(* and every argument of the right type.                                   *)
(***************************************************************************)

\* az_http_request_append_header yields a request whose headers are those there
\* were and the new one behind them, or fails and changes nothing.
THEOREM AppendHeaderFacts ==
  ASSUME NEW r \in Request, NEW name \in HeaderName, NEW length \in Nat
  PROVE  LET outcome == AppendHeader(r, name, length)
         IN  /\ outcome.object \in Request
             /\ outcome.result \in AzResults
             /\ ~ Failed(outcome.result) =>
                  outcome.object.headers.items
                    = r.headers.items \o <<[name |-> name, length |-> length]>>
             /\ Failed(outcome.result) => outcome.object = r
<1> DEFINE header   == [name |-> name, length |-> length]
           appended == SpanAppend(r.headers, <<header>>)
           longer   == [r EXCEPT !.headers = appended.object]
<1>1. CASE ~ (name # "" \/ length > 0)
  BY <1>1 DEF AppendHeader, Failure, Failed, AzResults, AzError
<1>2. CASE name # "" \/ length > 0
  <2>1. r.headers \in SpanOf(Header) /\ <<header>> \in Seq(Header)
    BY DEF Request, Header
  <2>2. /\ appended.object \in SpanOf(Header)
        /\ appended.result \in {"OK", "ERROR_BUFFER_OVERFLOW"}
        /\ appended.result = "OK" =>
             appended.object.items = r.headers.items \o <<header>>
        /\ appended.result # "OK" => appended.object = r.headers
    BY <2>1, SpanAppendFacts
  <2>3. AppendHeader(r, name, length)
          = [result |-> appended.result, object |-> longer]
    BY <1>2 DEF AppendHeader
  <2> HIDE DEF appended, header
  <2>4. longer \in Request /\ longer.headers = appended.object
    BY <2>2 DEF Request
  <2>5. appended.object = r.headers => longer = r
    BY <2>2 DEF Request
  <2> HIDE DEF longer
  <2>6. appended.result \in AzResults
    BY <2>2 DEF AzResults, AzError
  <2>7. appended.result = "OK" =>
          longer.headers.items = r.headers.items \o <<header>>
    BY <2>2, <2>4
  <2>8. appended.result # "OK" => longer = r
    BY <2>2, <2>5
  <2>9. /\ AppendHeader(r, name, length).result = appended.result
        /\ AppendHeader(r, name, length).object = longer
    BY <2>3
  <2> QED
    BY <2>4, <2>6, <2>7, <2>8, <2>9, Zenon DEF Failed, header
<1> QED
  BY <1>1, <1>2

\* The steps of a URL operation keep a request one, and none touches the
\* headers.
LEMMA UrlAppendFacts ==
  ASSUME NEW outcome, outcome.object \in Request, outcome.result \in AzResults,
         NEW items \in Seq(UrlUnit)
  PROVE  LET next == UrlAppend(outcome, items)
         IN  /\ next.object \in Request
             /\ next.object.headers = outcome.object.headers
             /\ next.result \in AzResults
<1> DEFINE appended == SpanAppend(outcome.object.url, items)
           longer   == [outcome.object EXCEPT !.url = appended.object]
<1>1. CASE Failed(outcome.result)
  BY <1>1 DEF UrlAppend
<1>2. CASE ~ Failed(outcome.result)
  <2>1. /\ appended.object \in SpanOf(UrlUnit)
        /\ appended.result \in {"OK", "ERROR_BUFFER_OVERFLOW"}
    <3>1. outcome.object.url \in SpanOf(UrlUnit)
      BY DEF Request
    <3> QED
      BY <3>1, SpanAppendFacts
  <2>2. UrlAppend(outcome, items) = [result |-> appended.result, object |-> longer]
    BY <1>2 DEF UrlAppend
  <2> HIDE DEF appended
  <2>3. longer \in Request /\ longer.headers = outcome.object.headers
    BY <2>1 DEF Request
  <2> HIDE DEF longer
  <2> QED
    BY <2>1, <2>2, <2>3 DEF AzResults, AzError
<1> QED
  BY <1>1, <1>2

\* The delimiter and the move of query_start keep a request one.
LEMMA AppendDelimiterFacts ==
  ASSUME NEW r \in Request
  PROVE  /\ AppendDelimiter(r).object \in Request
         /\ AppendDelimiter(r).object.headers = r.headers
         /\ AppendDelimiter(r).result \in AzResults
<1> DEFINE started == Success(r)
           marked  == UrlAppend(started, <<"?">>)
           moved   == [marked.object EXCEPT
                         !.queryStart = SpanLength(marked.object.url)]
<1>1. started.object = r /\ started.object \in Request
      /\ started.result \in AzResults
  BY DEF Success, AzResults
<1>2. <<"&">> \in Seq(UrlUnit) /\ <<"?">> \in Seq(UrlUnit)
  BY HttpRequestAssumption
<1> HIDE DEF started
<1>3. CASE r.queryStart # 0
  <2>1. AppendDelimiter(r) = UrlAppend(started, <<"&">>)
    BY <1>3 DEF AppendDelimiter, started
  <2> QED
    BY <1>1, <1>2, <2>1, UrlAppendFacts
<1>4. CASE r.queryStart = 0
  <2>1. /\ marked.object \in Request
        /\ marked.object.headers = r.headers
        /\ marked.result \in AzResults
    BY <1>1, <1>2, UrlAppendFacts
  <2>2. AppendDelimiter(r)
          = IF Failed(marked.result) THEN marked ELSE Success(moved)
    BY <1>4 DEF AppendDelimiter, started
  <2> HIDE DEF marked
  <2>3. moved \in Request /\ moved.headers = marked.object.headers
    <3>1. SpanLength(marked.object.url) \in Nat
      BY <2>1, LenProperties DEF Request, SpanOf, SpanLength
    <3> QED
      BY <2>1, <3>1 DEF Request
  <2> HIDE DEF moved
  <2> QED
    BY <2>1, <2>2, <2>3 DEF Success, AzResults
<1> QED
  BY <1>3, <1>4

\* az_http_request_set_query_parameter keeps a request one, also where it fails
\* half-way, and leaves the headers alone.
THEOREM SetQueryParameterFacts ==
  ASSUME NEW r \in Request,
         NEW name \in Seq(UrlUnit), NEW value \in Seq(UrlUnit)
  PROVE  LET outcome == SetQueryParameter(r, name, value)
         IN  /\ outcome.object \in Request
             /\ outcome.object.headers = r.headers
             /\ outcome.result \in AzResults
<1> DEFINE first  == AppendDelimiter(r)
           second == UrlAppend(first, name)
           third  == UrlAppend(second, <<"=">>)
           fourth == UrlAppend(third, value)
<1>1. CASE ~ (Len(name) > 0 /\ Len(value) > 0)
  BY <1>1 DEF SetQueryParameter, Failure, AzResults, AzError
<1>2. CASE Len(name) > 0 /\ Len(value) > 0
  <2>1. SetQueryParameter(r, name, value) = fourth
    BY <1>2 DEF SetQueryParameter
  <2>2. /\ first.object \in Request /\ first.object.headers = r.headers
        /\ first.result \in AzResults
    BY AppendDelimiterFacts
  <2> HIDE DEF first
  <2>3. /\ second.object \in Request /\ second.object.headers = r.headers
        /\ second.result \in AzResults
    BY <2>2, UrlAppendFacts
  <2> HIDE DEF second
  <2>4. /\ third.object \in Request /\ third.object.headers = r.headers
        /\ third.result \in AzResults
    <3>1. <<"=">> \in Seq(UrlUnit)
      BY HttpRequestAssumption
    <3> QED
      BY <2>3, <3>1, UrlAppendFacts
  <2> HIDE DEF third
  <2>5. /\ fourth.object \in Request /\ fourth.object.headers = r.headers
        /\ fourth.result \in AzResults
    BY <2>4, UrlAppendFacts
  <2> QED
    BY <2>1, <2>5
<1> QED
  BY <1>1, <1>2
------------------------------------------------------------------------------
(***************************************************************************)
(* The invariant.                                                          *)
(***************************************************************************)

\* The frames of a thread: only the credential policy, fifth in the client's
\* pipeline, is below a token request, and the transport is the last policy.
Stacked(t) ==
  /\ stage[t] = "idle" <=> pos[t]["client"] = 0
  /\ stage[t] # "idle" => client[t] \in Clients /\ OwnerOf[client[t]] = t
  /\ pos[t]["aad"] > 0 => /\ pos[t]["client"] = 5
                          /\ stage[t] \in {"policy", "wire", "unwind"}
  /\ stage[t] = "attach" => pos[t]["client"] = 5 /\ pos[t]["aad"] = 0
  /\ stage[t] = "wire" => \/ pos[t]["aad"] = 3
                          \/ pos[t]["aad"] = 0 /\ pos[t]["client"] = 9

\* Request r carries no authorization header, or exactly one, of the length of
\* the token, which is a granted one.
Bare(r) ==
  \A i \in DOMAIN r.headers.items : ~ IsAuthorization(r.headers.items[i])

AuthorizedBy(r, token) ==
  /\ \E i \in DOMAIN r.headers.items :
       /\ IsAuthorization(r.headers.items[i])
       /\ r.headers.items[i].length = token.length
       /\ \A j \in DOMAIN r.headers.items :
            IsAuthorization(r.headers.items[j]) => j = i
  /\ token.length > 0

\* The authorization of thread t on its way.
Attached(t) ==
  /\ Bare(request[t]["aad"])
  /\ pos[t]["client"] <= 5 => Bare(request[t]["client"])
  /\ stage[t] = "attach" => TokenOf(Cred(t)).length > 0
  /\ pos[t]["client"] > 5 => AuthorizedBy(request[t]["client"], TokenOf(Cred(t)))

\* A credential that has no token is expired.
GrantedIfFresh ==
 \A k \in Credentials :
             TokenOf(k).length = 0 => TokenOf(k).expiresAt <= 0

IInv == /\ TypeOK
        /\ \A t \in Threads : Stacked(t) /\ Attached(t)
        /\ GrantedIfFresh
------------------------------------------------------------------------------
(***************************************************************************)
(* Which policy is where, and how the two moves along a pipeline change    *)
(* the stack of a thread.                                                  *)
(***************************************************************************)

\* Where each policy is in the two pipelines.
LEMMA PipelineFacts ==
  /\ Len(Pipeline["client"]) = 9 /\ Len(Pipeline["aad"]) = 3
  /\ \A i \in 1 .. 9 :
       /\ Pipeline["client"][i] \in {"apiversion", "uniquerequestid", "telemetry"}
            => i <= 3
       /\ Pipeline["client"][i] = "retry"      => i = 4
       /\ Pipeline["client"][i] = "credential" => i = 5
       /\ Pipeline["client"][i] = "logging"    => i = 6
       /\ Pipeline["client"][i] \in {"bufferresponse", "distributedtracing"}
            => i \in {7, 8}
       /\ Pipeline["client"][i] = "transport"  => i = 9
  /\ \A i \in 1 .. 3 :
       /\ Pipeline["aad"][i] \in {"retry", "logging", "transport"}
       /\ Pipeline["aad"][i] = "retry"     => i = 1
       /\ Pipeline["aad"][i] = "logging"   => i = 2
       /\ Pipeline["aad"][i] = "transport" => i = 3
<1>1. /\ Pipeline["client"] = <<"apiversion", "uniquerequestid", "telemetry", "retry",
                                "credential", "logging", "bufferresponse",
                                "distributedtracing", "transport">>
      /\ Pipeline["aad"] = <<"retry", "logging", "transport">>
  BY DEF Pipeline
<1> QED
  BY <1>1

\* What a move of thread t leaves alone.
OthersStay(t) ==
  \A u \in Threads \ {t} : stage'[u] = stage[u] /\ pos'[u] = pos[u]

\* The types of what a move changes.
MovesTyped ==
  /\ stage  \in [Threads -> Stage]
  /\ pos    \in [Threads -> [Frame -> 0 .. 9]]
  /\ \A t \in Threads : pos[t]["aad"] \in 0 .. 3
  /\ result \in [Threads -> AzResults]

\* The top frame is the token request's when there is one.
LEMMA TopIsFrame ==
  ASSUME MovesTyped, NEW t \in Threads
  PROVE  /\ Top(t) \in Frame
         /\ Top(t) = "aad" <=> pos[t]["aad"] > 0
         /\ Top(t) = "client" <=> pos[t]["aad"] = 0
BY DEF MovesTyped, Top, Frame

\* A policy that returns leaves the stack as it is.
LEMMA UnwindMoves ==
  ASSUME MovesTyped, \A u \in Threads : Stacked(u),
         NEW t \in Threads, NEW r \in AzResults,
         stage[t] \in {"policy", "attach", "wire"},
         Unwind(t, r), UNCHANGED client
  PROVE  /\ MovesTyped'
         /\ OthersStay(t) /\ pos' = pos /\ stage'[t] = "unwind"
         /\ \A u \in Threads : Stacked(u)'
<1>1. MovesTyped'
  BY DEF MovesTyped, Unwind, Stage
<1>2. OthersStay(t) /\ pos' = pos /\ stage'[t] = "unwind"
  BY DEF MovesTyped, Unwind, OthersStay
<1>3. ASSUME NEW u \in Threads
      PROVE  Stacked(u)'
  <2>1. CASE u = t
    BY <1>2, <2>1 DEF Stacked
  <2>2. CASE u # t
    BY <1>2, <2>2 DEF Stacked, OthersStay
  <2> QED
    BY <2>1, <2>2
<1> QED
  BY <1>1, <1>2, <1>3

\* A policy that calls the next one moves the top frame by one, or fails behind
\* the last policy.
LEMMA NextPolicyMoves ==
  ASSUME MovesTyped, \A u \in Threads : Stacked(u),
         NEW t \in Threads, stage[t] \in {"policy", "attach"},
         NextPolicy(t), UNCHANGED client
  PROVE  /\ MovesTyped'
         /\ OthersStay(t)
         /\ stage'[t] \in {"policy", "unwind"}
         /\ pos'[t]["client"] = pos[t]["client"]
              \/ /\ pos[t]["aad"] = 0 /\ stage'[t] = "policy"
                 /\ pos'[t]["client"] = pos[t]["client"] + 1
         /\ \A u \in Threads : Stacked(u)'
<1> DEFINE f == Top(t)
<1>1. f \in Frame /\ (f = "aad" <=> pos[t]["aad"] > 0)
  BY TopIsFrame
<1>2. CASE pos[t][f] = Len(Pipeline[f])
  <2>1. Unwind(t, "ERROR_HTTP_PIPELINE_INVALID_POLICY")
    BY <1>2 DEF NextPolicy
  <2>2. "ERROR_HTTP_PIPELINE_INVALID_POLICY" \in AzResults
    BY DEF AzResults, AzError
  <2> QED
    BY <2>1, <2>2, UnwindMoves
<1>3. CASE pos[t][f] # Len(Pipeline[f])
  <2>1. /\ stage' = [stage EXCEPT ![t] = "policy"]
        /\ pos' = [pos EXCEPT ![t][f] = @ + 1]
        /\ result' = result
    BY <1>3 DEF NextPolicy
  <2> HIDE DEF f
  <2>2. pos[t][f] + 1 \in 1 .. 9 /\ (f = "aad" => pos[t][f] + 1 \in 1 .. 3)
    <3>1. CASE f = "aad"
      <4>1. pos[t]["aad"] \in 0 .. 3 /\ pos[t]["aad"] # 3
        BY <1>3, <3>1, PipelineFacts DEF MovesTyped
      <4> QED
        BY <3>1, <4>1
    <3>2. CASE f = "client"
      <4>1. pos[t]["client"] \in 0 .. 9 /\ pos[t]["client"] # 9
        BY <1>3, <3>2, PipelineFacts DEF MovesTyped, Frame
      <4> QED
        BY <3>2, <4>1
    <3> QED
      BY <1>1, <3>1, <3>2 DEF Frame
  <2>3. /\ stage'[t] = "policy"
        /\ pos'[t][f] = pos[t][f] + 1
        /\ \A g \in Frame \ {f} : pos'[t][g] = pos[t][g]
        /\ OthersStay(t)
    BY <2>1, <1>1 DEF MovesTyped, OthersStay
  <2>4. MovesTyped'
    <3>1. pos' \in [Threads -> [Frame -> 0 .. 9]]
      BY <1>1, <2>1, <2>2 DEF MovesTyped
    <3>2. ASSUME NEW u \in Threads PROVE pos'[u]["aad"] \in 0 .. 3
      BY <1>1, <2>2, <2>3 DEF MovesTyped, OthersStay, Frame
    <3>3. stage' \in [Threads -> Stage] /\ result' \in [Threads -> AzResults]
      BY <2>1 DEF MovesTyped, Stage
    <3> QED
      BY <3>1, <3>2, <3>3 DEF MovesTyped
  <2>5. ASSUME NEW u \in Threads PROVE Stacked(u)'
    <3>1. CASE u # t
      BY <2>3, <3>1 DEF Stacked, OthersStay
    <3>2. CASE u = t /\ f = "aad"
      BY <1>1, <2>2, <2>3, <3>2 DEF Stacked, MovesTyped, Frame
    <3>3. CASE u = t /\ f = "client"
      BY <1>1, <2>2, <2>3, <3>3 DEF Stacked, MovesTyped, Frame
    <3> QED
      BY <1>1, <3>1, <3>2, <3>3 DEF Frame
  <2>6. \/ pos'[t]["client"] = pos[t]["client"]
        \/ pos[t]["aad"] = 0 /\ pos'[t]["client"] = pos[t]["client"] + 1
    BY <1>1, <2>3 DEF MovesTyped, Frame
  <2> QED
    BY <2>3, <2>4, <2>5, <2>6
<1> QED
  BY <1>2, <1>3
------------------------------------------------------------------------------
(***************************************************************************)
(* Authorization headers.                                                  *)
(***************************************************************************)

\* A request without an authorization header has none after a header of another
\* name was appended.
LEMMA AppendHeaderKeepsBare ==
  ASSUME NEW r \in Request, Bare(r), NEW name \in HeaderName, NEW length \in Nat,
         name # "authorization"
  PROVE  Bare(AppendHeader(r, name, length).object)
<1> DEFINE header == [name |-> name, length |-> length]
           after  == AppendHeader(r, name, length)
<1>1. CASE Failed(after.result)
  BY <1>1, AppendHeaderFacts
<1>2. CASE ~ Failed(after.result)
  <2>1. after.object.headers.items = r.headers.items \o <<header>>
    BY <1>2, AppendHeaderFacts
  <2>2. r.headers.items \in Seq(Header)
    BY DEF Request, SpanOf
  <2>3. header.name # "authorization"
    OBVIOUS
  <2> HIDE DEF after, header
  <2>4. \A i \in DOMAIN (r.headers.items \o <<header>>) :
          (r.headers.items \o <<header>>)[i].name # "authorization"
    BY <2>2, <2>3 DEF Bare, IsAuthorization
  <2> QED
    BY <2>1, <2>4 DEF Bare, IsAuthorization, after
<1> QED
  BY <1>1, <1>2

\* Appending the authorization header of a token to a request that has none
\* authorises it by that token.
LEMMA AppendHeaderAuthorizes ==
  ASSUME NEW r \in Request, Bare(r), NEW token, token.length \in Nat \ {0},
         ~ Failed(AppendHeader(r, "authorization", token.length).result)
  PROVE  AuthorizedBy(AppendHeader(r, "authorization", token.length).object, token)
<1> DEFINE header == [name |-> "authorization", length |-> token.length]
           items  == AppendHeader(r, "authorization", token.length).object.headers.items
           last   == Len(r.headers.items) + 1
<1>1. items = r.headers.items \o <<header>>
  BY AppendHeaderFacts, HttpRequestAssumption
<1>2. r.headers.items \in Seq(Header)
  BY DEF Request, SpanOf
<1>3. header.name = "authorization" /\ header.length = token.length
  OBVIOUS
<1> HIDE DEF items, header
<1>4. /\ last \in DOMAIN items
      /\ items[last] = header
      /\ \A j \in DOMAIN items : items[j].name = "authorization" => j = last
  BY <1>1, <1>2 DEF Bare, IsAuthorization
<1> HIDE DEF last
<1> QED
  BY <1>3, <1>4 DEF AuthorizedBy, IsAuthorization, items
------------------------------------------------------------------------------
(***************************************************************************)
(* The steps of a call.                                                    *)
(***************************************************************************)

\* The types of what moves leave alone.
RestTyped ==
  /\ client   \in [Threads -> Clients \cup {NoClient}]
  /\ request  \in [Threads -> [Frame -> Request]]
  /\ response \in [Threads -> [Frame -> Response]]
  /\ logging  \in [Threads -> [Frame -> BOOLEAN]]
  /\ reply    \in [Threads -> [left: Nat, size: Nat, content: AadReply,
                               issuedAt: Nat]]
  /\ cachedAt \in [Threads -> Int]
  /\ credential \in [Credentials -> [scope: Scopes \cup {NoScope}, token: Token]]
  /\ ready \subseteq Clients
  /\ listener \in BOOLEAN /\ whitelist \in SUBSET LogClass
  /\ wall \in Nat /\ cpu \in Nat

\* The type invariant is its two halves.
LEMMA TypeOKParts == TypeOK <=> MovesTyped /\ RestTyped
BY DEF TypeOK, MovesTyped, RestTyped

\* The same of the next state.
LEMMA TypeOKPartsPrimed == TypeOK' <=> MovesTyped' /\ RestTyped'
BY DEF TypeOK, MovesTyped, RestTyped

\* Where thread t is when the policy at pos is called.
LEMMA AtFacts ==
  ASSUME MovesTyped, NEW t \in Threads, Stacked(t), NEW policy, At(t, policy)
  PROVE  /\ stage[t] = "policy"
         /\ \/ /\ pos[t]["aad"] = 0 /\ Top(t) = "client"
               /\ pos[t]["client"] \in 1 .. 9
               /\ Pipeline["client"][pos[t]["client"]] = policy
            \/ /\ pos[t]["aad"] \in 1 .. 3 /\ Top(t) = "aad"
               /\ pos[t]["client"] = 5
               /\ Pipeline["aad"][pos[t]["aad"]] = policy
BY DEF MovesTyped, Stacked, At, Top, Frame

\* A move that attaches no header and leaves the requests and the credentials
\* alone keeps what was attached, unless it leaves the credential policy.
LEMMA MoveKeepsAttached ==
  ASSUME IInv, NEW t \in Threads, OthersStay(t),
         stage'[t] # "attach", pos' \in [Threads -> [Frame -> 0 .. 9]],
         \/ pos'[t]["client"] = pos[t]["client"]
         \/ pos[t]["client"] # 5 /\ pos'[t]["client"] = pos[t]["client"] + 1,
         UNCHANGED <<client, request, credential>>
  PROVE  /\ \A u \in Threads : Attached(u)'
         /\ GrantedIfFresh'
<1>1. GrantedIfFresh'
  BY DEF IInv, GrantedIfFresh, TokenOf
<1>2. ASSUME NEW u \in Threads, u # t PROVE Attached(u)'
  BY <1>2 DEF IInv, Attached, OthersStay, Cred, TokenOf
<1>3. Attached(t)'
  <2>1. pos[t]["client"] \in 0 .. 9
    BY DEF IInv, TypeOK, Frame
  <2>2. /\ pos'[t]["client"] <= 5 => pos[t]["client"] <= 5
        /\ pos'[t]["client"] > 5 => pos[t]["client"] > 5
    BY <2>1
  <2> QED
    BY <2>2 DEF IInv, Attached, Cred, TokenOf
<1> QED
  BY <1>1, <1>2, <1>3

\* The policies that edit the request before it is authorised.
LEMMA EditStep ==
  ASSUME IInv, NEW t \in Threads, stage[t] = "policy",
         pos[t]["client"] \in 1 .. 4,
         NEW outcome, outcome.object \in Request, outcome.result \in AzResults,
         Bare(outcome.object), EditRequest(t, outcome),
         UNCHANGED <<client, response, logging, reply, cachedAt, credential, ready,
                     logVars, clocks>>
  PROVE  IInv'
<1>1. MovesTyped /\ RestTyped /\ (\A u \in Threads : Stacked(u))
  BY TypeOKParts DEF IInv
<1>2. /\ MovesTyped' /\ OthersStay(t) /\ stage'[t] \in {"policy", "unwind"}
      /\ pos'[t]["client"] \in {pos[t]["client"], pos[t]["client"] + 1}
      /\ \A u \in Threads : Stacked(u)'
  <2>1. CASE Failed(outcome.result)
    BY <1>1, <2>1, UnwindMoves DEF EditRequest
  <2>2. CASE ~ Failed(outcome.result)
    BY <1>1, <2>2, NextPolicyMoves DEF EditRequest
  <2> QED
    BY <2>1, <2>2
<1>3. request' = [request EXCEPT ![t]["client"] = outcome.object]
  BY DEF EditRequest
<1>4. /\ request' \in [Threads -> [Frame -> Request]]
      /\ request'[t]["client"] = outcome.object
      /\ request'[t]["aad"] = request[t]["aad"]
      /\ \A u \in Threads \ {t} : request'[u] = request[u]
  BY <1>1, <1>3 DEF RestTyped, Frame
<1>5. TypeOK'
  BY <1>1, <1>2, <1>4, TypeOKPartsPrimed DEF RestTyped, logVars, clocks
<1>6. ASSUME NEW u \in Threads PROVE Attached(u)'
  <2>1. CASE u # t
    BY <1>2, <1>4, <2>1 DEF IInv, Attached, OthersStay, Cred, TokenOf
  <2>2. CASE u = t
    <3>1. pos'[t]["client"] <= 5 /\ ~ pos'[t]["client"] > 5
      BY <1>2
    <3> QED
      BY <1>2, <1>4, <2>2, <3>1 DEF IInv, Attached
  <2> QED
    BY <2>1, <2>2
<1>7. GrantedIfFresh'
  BY DEF IInv, GrantedIfFresh, TokenOf
<1> QED
  BY <1>2, <1>5, <1>6, <1>7 DEF IInv

\* Each policy in front of the credential preserves the invariant: it appends a
\* header that is not the authorization, or a query parameter.
LEMMA ApiVersionStep ==
  ASSUME IInv, NEW t \in Threads, ApiVersion(t)
  PROVE  IInv'
<1> DEFINE r == request[t]["client"]
           outcome == CASE ApiVersionIn[client[t]] = "header" ->
                             AppendHeader(r, "x-ms-version", 1)
                        [] ApiVersionIn[client[t]] = "queryparameter" ->
                             SetQueryParameter(r, <<"api-version">>, <<"version">>)
                        [] OTHER -> Failure("ERROR_ARG", r)
<1>1. /\ stage[t] = "policy" /\ pos[t]["client"] \in 1 .. 4
      /\ client[t] \in Clients
  BY AtFacts, PipelineFacts, TypeOKParts DEF IInv, ApiVersion, Stacked
<1>2. r \in Request /\ Bare(r)
  BY <1>1 DEF IInv, TypeOK, Attached, Frame
<1>3. /\ outcome.object \in Request /\ outcome.result \in AzResults
      /\ Bare(outcome.object)
  <2> HIDE DEF r
  <2>1. CASE ApiVersionIn[client[t]] = "header"
    <3>1. "x-ms-version" \in HeaderName /\ "x-ms-version" # "authorization"
      BY PipelineAssumption
    <3>2. outcome = AppendHeader(r, "x-ms-version", 1)
      BY <2>1
    <3> QED
      BY <1>2, <3>1, <3>2, AppendHeaderFacts, AppendHeaderKeepsBare
  <2>2. CASE ApiVersionIn[client[t]] = "queryparameter"
    <3>1. /\ <<"api-version">> \in Seq(UrlUnit)
          /\ <<"version">> \in Seq(UrlUnit)
      BY PipelineAssumption
    <3>2. outcome = SetQueryParameter(r, <<"api-version">>, <<"version">>)
      BY <2>2
    <3>3. /\ outcome.object \in Request /\ outcome.result \in AzResults
          /\ outcome.object.headers = r.headers
      <4> HIDE DEF outcome
      <4> QED
        BY <1>2, <3>1, <3>2, SetQueryParameterFacts
    <3> QED
      BY <1>2, <3>3 DEF Bare
  <2>3. CASE ApiVersionIn[client[t]] \notin {"header", "queryparameter"}
    BY <1>2, <2>3 DEF Failure, AzResults, AzError
  <2> QED
    BY <2>1, <2>2, <2>3
<1>4. EditRequest(t, outcome)
  BY DEF ApiVersion
<1> HIDE DEF outcome
<1> QED
  BY <1>1, <1>3, <1>4, EditStep DEF ApiVersion

\* az_http_pipeline_policy_uniquerequestid preserves the invariant.
LEMMA UniqueRequestIdStep ==
  ASSUME IInv, NEW t \in Threads, UniqueRequestId(t)
  PROVE  IInv'
<1> DEFINE outcome == AppendHeader(request[t]["client"],
                                   "x-ms-client-request-id", 1)
<1>1. stage[t] = "policy" /\ pos[t]["client"] \in 1 .. 4
  BY AtFacts, PipelineFacts, TypeOKParts DEF IInv, UniqueRequestId
<1>2. request[t]["client"] \in Request /\ Bare(request[t]["client"])
  BY <1>1 DEF IInv, TypeOK, Attached, Frame
<1>3. /\ outcome.object \in Request /\ outcome.result \in AzResults
      /\ Bare(outcome.object)
  BY <1>2, AppendHeaderFacts, AppendHeaderKeepsBare, PipelineAssumption
<1>4. EditRequest(t, outcome)
  BY DEF UniqueRequestId
<1> HIDE DEF outcome
<1> QED
  BY <1>1, <1>3, <1>4, EditStep DEF UniqueRequestId

\* az_http_pipeline_policy_telemetry preserves the invariant.
LEMMA TelemetryStep ==
  ASSUME IInv, NEW t \in Threads, Telemetry(t)
  PROVE  IInv'
<1> DEFINE agent   == UserAgent[client[t]]
           outcome == AppendHeader(request[t]["client"], "User-Agent", agent)
<1>1. stage[t] = "policy" /\ pos[t]["client"] \in 1 .. 4 /\ client[t] \in Clients
  BY AtFacts, PipelineFacts, TypeOKParts DEF IInv, Telemetry, Stacked
<1>2. request[t]["client"] \in Request /\ Bare(request[t]["client"])
  BY <1>1 DEF IInv, TypeOK, Attached, Frame
<1>3. agent \in Nat
  BY <1>1, PipelineAssumption
<1>4. EditRequest(t, outcome)
  BY DEF Telemetry
<1> HIDE DEF agent
<1>5. /\ outcome.object \in Request /\ outcome.result \in AzResults
      /\ Bare(outcome.object)
  BY <1>2, <1>3, AppendHeaderFacts, AppendHeaderKeepsBare, PipelineAssumption
<1> HIDE DEF outcome
<1> QED
  BY <1>1, <1>4, <1>5, EditStep DEF Telemetry

\* The policies that only pass the request on.
LEMMA PassOnStep ==
  ASSUME IInv, NEW t \in Threads, stage[t] = "policy",
         pos[t]["aad"] > 0 \/ pos[t]["client"] # 5,
         NextPolicy(t), UNCHANGED <<client, request, credential>>, RestTyped'
  PROVE  IInv'
<1>1. MovesTyped /\ (\A u \in Threads : Stacked(u))
  BY TypeOKParts DEF IInv
<1>2. /\ MovesTyped' /\ OthersStay(t) /\ stage'[t] \in {"policy", "unwind"}
      /\ \/ pos'[t]["client"] = pos[t]["client"]
         \/ /\ pos[t]["aad"] = 0
            /\ pos'[t]["client"] = pos[t]["client"] + 1
      /\ \A u \in Threads : Stacked(u)'
  BY <1>1, NextPolicyMoves
<1>3. (\A u \in Threads : Attached(u)') /\ GrantedIfFresh'
  <2>1. pos[t]["aad"] = 0 => pos[t]["client"] # 5
    BY <1>1 DEF MovesTyped
  <2>2. /\ pos' \in [Threads -> [Frame -> 0 .. 9]]
        /\ stage'[t] # "attach"
    BY <1>2 DEF MovesTyped
  <2> QED
    BY <1>2, <2>1, <2>2, MoveKeepsAttached
<1> QED
  BY <1>2, <1>3, TypeOKPartsPrimed DEF IInv

\* az_http_pipeline_policy_retry preserves the invariant.
LEMMA RetryStep ==
  ASSUME IInv, NEW t \in Threads, Retry(t)
  PROVE  IInv'
<1>1. MovesTyped /\ RestTyped /\ Stacked(t)
  BY TypeOKParts DEF IInv
<1>2. /\ stage[t] = "policy" /\ Top(t) \in Frame
      /\ pos[t]["aad"] > 0 \/ pos[t]["client"] # 5
  BY <1>1, AtFacts, PipelineFacts DEF Retry, Frame
<1>3. response' \in [Threads -> [Frame -> Response]]
  <2> DEFINE f == Top(t)
             started == [response[t][f] EXCEPT !.kind = "STATUS_LINE"]
  <2>1. response[t][f] \in Response
    BY <1>1, <1>2 DEF RestTyped
  <2>2. started \in Response
    BY <2>1 DEF Response, ResponseKind
  <2>3. response' = [response EXCEPT ![t] = [@ EXCEPT ![f] = started]]
    BY DEF Retry
  <2> HIDE DEF f, started
  <2> QED
    BY <1>1, <2>2, <2>3 DEF RestTyped
<1>4. RestTyped'
  BY <1>1, <1>3 DEF RestTyped, Retry, logVars, clocks
<1> QED
  BY <1>2, <1>4, PassOnStep DEF Retry

\* The policies that do nothing preserve the invariant.
LEMMA PassThroughStep ==
  ASSUME IInv, NEW t \in Threads, PassThrough(t)
  PROVE  IInv'
<1>1. MovesTyped /\ RestTyped /\ Stacked(t)
  BY TypeOKParts DEF IInv
<1>2. /\ stage[t] = "policy"
      /\ pos[t]["aad"] > 0 \/ pos[t]["client"] # 5
  BY <1>1, AtFacts, PipelineFacts DEF PassThrough
<1>3. RestTyped'
  BY <1>1 DEF RestTyped, PassThrough, logVars, clocks
<1> QED
  BY <1>2, <1>3, PassOnStep DEF PassThrough

\* The logging policy on the way to the transport preserves the invariant.
LEMMA LoggingStep ==
  ASSUME IInv, NEW t \in Threads, Logging(t)
  PROVE  IInv'
<1>1. MovesTyped /\ RestTyped /\ Stacked(t)
  BY TypeOKParts DEF IInv
<1>2. /\ stage[t] = "policy" /\ Top(t) \in Frame
      /\ pos[t]["aad"] > 0 \/ pos[t]["client"] # 5
  BY <1>1, AtFacts, PipelineFacts DEF Logging, Frame
<1>3. ShouldWrite("HTTP_RESPONSE") \in BOOLEAN
  BY <1>1 DEF ShouldWrite, RestTyped
<1>4. logging' \in [Threads -> [Frame -> BOOLEAN]]
  BY <1>1, <1>2, <1>3 DEF Logging, RestTyped
<1>5. RestTyped'
  BY <1>1, <1>4 DEF RestTyped, Logging, logVars, clocks
<1> QED
  BY <1>2, <1>5, PassOnStep DEF Logging

\* The request of a token request is one, and has no headers at all.
LEMMA NoRequestFacts == NoRequest \in Request /\ Bare(NoRequest)
<1>1. QuestionMark(<<>>) = 0
  BY DEF QuestionMark
<1>2. EmptySpan(MaxUrl) \in SpanOf(UrlUnit) /\ EmptySpan(MaxHeaders) \in SpanOf(Header)
  BY PipelineAssumption, EmptySeq DEF EmptySpan, SpanOf
<1>3. NoRequest = [url |-> EmptySpan(MaxUrl), queryStart |-> 0,
                   headers |-> EmptySpan(MaxHeaders), retryStart |-> 0]
  BY <1>1 DEF NoRequest, RequestInit, EmptySpan
<1>4. NoRequest \in Request
  BY <1>2, <1>3 DEF Request
<1>5. NoRequest.headers.items = <<>>
  BY <1>3 DEF EmptySpan
<1> QED
  BY <1>4, <1>5 DEF Bare

\* A policy that returns, whatever it does to the response, the log or the reply.
LEMMA UnwindStep ==
  ASSUME IInv, NEW t \in Threads, NEW r \in AzResults,
         stage[t] \in {"policy", "attach", "wire"},
         Unwind(t, r), UNCHANGED <<client, request, credential>>, RestTyped'
  PROVE  IInv'
<1>1. MovesTyped /\ (\A u \in Threads : Stacked(u))
  BY TypeOKParts DEF IInv
<1>2. /\ MovesTyped' /\ OthersStay(t) /\ pos' = pos /\ stage'[t] = "unwind"
      /\ \A u \in Threads : Stacked(u)'
  BY <1>1, UnwindMoves
<1>3. (\A u \in Threads : Attached(u)') /\ GrantedIfFresh'
  BY <1>1, <1>2, MoveKeepsAttached DEF MovesTyped
<1> QED
  BY <1>2, <1>3, TypeOKPartsPrimed DEF IInv

\* Taking the cached token preserves the invariant: it is a granted one.
LEMMA UseCachedTokenStep ==
  ASSUME IInv, NEW t \in Threads, UseCachedToken(t)
  PROVE  IInv'
<1>1. MovesTyped /\ RestTyped /\ (\A u \in Threads : Stacked(u))
  BY TypeOKParts DEF IInv
<1>2. /\ stage[t] = "policy" /\ client[t] \in Clients
      /\ pos[t]["client"] = 5 /\ pos[t]["aad"] = 0
  BY <1>1, AtFacts, PipelineFacts DEF UseCachedToken, Stacked
<1>3. /\ stage' = [stage EXCEPT ![t] = "attach"] /\ pos' = pos
      /\ UNCHANGED <<client, request, credential>>
  BY DEF UseCachedToken
<1>4. TokenOf(Cred(t)).length > 0
  <2>1. Cred(t) \in Credentials
    BY <1>2, PipelineAssumption DEF Cred
  <2>2. TokenOf(Cred(t)).length \in Nat /\ TokenOf(Cred(t)).expiresAt \in Int
    BY <1>1, <2>1 DEF RestTyped, Token, TokenOf
  <2>3. ~ TokenOf(Cred(t)).expiresAt <= 0
    BY DEF UseCachedToken, Expired
  <2> QED
    BY <2>1, <2>2, <2>3 DEF IInv, GrantedIfFresh
<1>5. TypeOK'
  BY <1>1, TypeOKPartsPrimed
     DEF UseCachedToken, MovesTyped, RestTyped, Stage, logVars, clocks
<1>6. ASSUME NEW u \in Threads PROVE Stacked(u)'
  BY <1>1, <1>2, <1>3 DEF Stacked, MovesTyped
<1>7. ASSUME NEW u \in Threads PROVE Attached(u)'
  BY <1>1, <1>2, <1>3, <1>4 DEF IInv, Attached, Cred, TokenOf, MovesTyped
<1>8. GrantedIfFresh'
  BY <1>3 DEF IInv, GrantedIfFresh, TokenOf
<1> QED
  BY <1>5, <1>6, <1>7, <1>8 DEF IInv

\* Starting a token request preserves the invariant, in either outcome.
LEMMA RequestTokenStep ==
  ASSUME IInv, NEW t \in Threads, RequestToken(t)
  PROVE  IInv'
<1>1. MovesTyped /\ RestTyped /\ (\A u \in Threads : Stacked(u))
  BY TypeOKParts DEF IInv
<1>2. /\ stage[t] = "policy"
      /\ pos[t]["client"] = 5 /\ pos[t]["aad"] = 0
  BY <1>1, AtFacts, PipelineFacts DEF RequestToken
<1>3. CASE Cred(t) \in TooLong
  <2>1. "ERROR_BUFFER_OVERFLOW" \in AzResults
    BY DEF AzResults, AzError
  <2>2. RestTyped'
    BY <1>1, <1>3 DEF RequestToken, RestTyped, logVars, clocks
  <2> QED
    BY <1>2, <1>3, <2>1, <2>2, UnwindStep DEF RequestToken
<1>4. CASE Cred(t) \notin TooLong
  <2>1. /\ pos' = [pos EXCEPT ![t]["aad"] = 1]
        /\ request' = [request EXCEPT ![t]["aad"] = NoRequest]
        /\ response' = [response EXCEPT ![t]["aad"] = EmptyResponse]
        /\ UNCHANGED <<stage, result, client, credential>>
    BY <1>4 DEF RequestToken
  <2>2. /\ pos'[t]["aad"] = 1 /\ pos'[t]["client"] = 5
        /\ pos' \in [Threads -> [Frame -> 0 .. 9]]
        /\ \A u \in Threads \ {t} : pos'[u] = pos[u]
    BY <1>1, <1>2, <2>1 DEF MovesTyped, Frame
  <2>3. /\ request'[t]["aad"] = NoRequest
        /\ request'[t]["client"] = request[t]["client"]
        /\ request' \in [Threads -> [Frame -> Request]]
        /\ \A u \in Threads \ {t} : request'[u] = request[u]
    BY <1>1, <2>1, NoRequestFacts DEF RestTyped, Frame
  <2>4. response' \in [Threads -> [Frame -> Response]]
    <3>1. EmptyResponse \in Response
      BY EmptySeq DEF EmptyResponse, Response, ResponseKind
    <3> QED
      BY <1>1, <2>1, <3>1 DEF RestTyped, Frame
  <2>5. TypeOK'
    <3>1. MovesTyped'
      BY <1>1, <2>1, <2>2 DEF MovesTyped
    <3>2. RestTyped'
      BY <1>1, <2>3, <2>4 DEF RequestToken, RestTyped, logVars, clocks
    <3> QED
      BY <3>1, <3>2, TypeOKPartsPrimed
  <2>6. ASSUME NEW u \in Threads PROVE Stacked(u)'
    BY <1>1, <1>2, <2>1, <2>2 DEF Stacked
  <2>7. ASSUME NEW u \in Threads PROVE Attached(u)'
    <3>1. CASE u # t
      BY <2>1, <2>2, <2>3, <3>1 DEF IInv, Attached, Cred, TokenOf
    <3>2. CASE u = t
      BY <1>2, <2>1, <2>2, <2>3, <3>2, NoRequestFacts DEF IInv, Attached
    <3> QED
      BY <3>1, <3>2
  <2>8. GrantedIfFresh'
    BY <2>1 DEF IInv, GrantedIfFresh, TokenOf
  <2> QED
    BY <2>5, <2>6, <2>7, <2>8 DEF IInv
<1> QED
  BY <1>3, <1>4

\* What a refresh leaves in the credential is a token.
LEMMA NewTokenFacts ==
  ASSUME RestTyped, NEW t \in Threads, client[t] \in Clients
  PROVE  NewToken(t) \in Token /\ NewToken(t).length > 0
<1>1. /\ reply[t].content \in AadReply /\ reply[t].issuedAt \in Nat
      /\ Cred(t) \in Credentials
  BY PipelineAssumption DEF RestTyped, Cred
<1>2. /\ reply[t].content.length \in Nat /\ reply[t].content.lifetime \in Int
      /\ credential[Cred(t)].scope \in Scopes \cup {NoScope}
      /\ wall \in Nat /\ cpu \in Nat /\ Margin \in Nat
  BY <1>1, PipelineAssumption DEF RestTyped, AadReply
<1>3. /\ 1 + reply[t].content.length \in Nat /\ 1 + reply[t].content.length > 0
      /\ cpu + (reply[t].content.lifetime - Margin) \in Int
  BY <1>2
<1> QED
  BY <1>1, <1>2, <1>3 DEF NewToken, Token

\* What a token request comes to is a result.
LEMMA TokenOutcomeFacts ==
  ASSUME MovesTyped, NEW t \in Threads
  PROVE  TokenOutcome(t) \in AzResults
<1>1. ReadGrant(reply[t].content) \in AzResults
  BY DEF ReadGrant, AzResults, AzError
<1> QED
  BY <1>1 DEF TokenOutcome, MovesTyped

\* The only step that changes a token is that of a thread in its credential
\* policy; a thread further on has another credential.
LEMMA OtherCredentials ==
  ASSUME NEW t \in Threads, NEW u \in Threads \ {t},
         Stacked(t), Stacked(u), stage[t] # "idle", stage[u] # "idle"
  PROVE  Cred(u) # Cred(t)
BY CredentialsPerThread DEF Stacked, Cred

\* The end of a token request preserves the invariant: it stores a granted token
\* or none, and no thread further on uses that credential.
LEMMA TokenReplyStep ==
  ASSUME IInv, NEW t \in Threads, TokenReply(t)
  PROVE  IInv'
<1>1. MovesTyped /\ RestTyped /\ (\A u \in Threads : Stacked(u))
  BY TypeOKParts DEF IInv
<1>2. /\ stage[t] = "unwind" /\ pos[t]["aad"] > 0 /\ pos[t]["client"] = 5
      /\ client[t] \in Clients
  BY <1>1, TopIsFrame DEF TokenReply, EndTokenRequest, Stacked
<1>3. /\ pos' = [pos EXCEPT ![t]["aad"] = 0]
      /\ request' = [request EXCEPT ![t]["aad"] = NoRequest]
      /\ response' = [response EXCEPT ![t]["aad"] = EmptyResponse]
      /\ reply' = [reply EXCEPT ![t] = NothingToRead]
      /\ result' = [result EXCEPT ![t] = TokenOutcome(t)]
      /\ stage' = [stage EXCEPT ![t] = IF Failed(TokenOutcome(t)) THEN "unwind"
                                                                  ELSE "attach"]
      /\ UNCHANGED <<client, logging, cachedAt, ready, logVars, clocks>>
  BY DEF TokenReply, EndTokenRequest, Resume
<1>4. /\ Cred(t) \in Credentials
      /\ IF Failed(TokenOutcome(t)) THEN credential' = credential
         ELSE credential' = [credential EXCEPT ![Cred(t)].token = NewToken(t)]
  BY <1>2, PipelineAssumption DEF TokenReply, StoreToken, Cred
<1>5. NewToken(t) \in Token /\ NewToken(t).length > 0
  BY <1>1, <1>2, NewTokenFacts
<1>6. /\ pos'[t]["aad"] = 0 /\ pos'[t]["client"] = 5
      /\ pos' \in [Threads -> [Frame -> 0 .. 9]]
      /\ \A u \in Threads \ {t} : pos'[u] = pos[u] /\ stage'[u] = stage[u]
      /\ stage'[t] = IF Failed(TokenOutcome(t)) THEN "unwind" ELSE "attach"
  BY <1>1, <1>2, <1>3 DEF MovesTyped, Frame
<1>7. /\ request'[t]["aad"] = NoRequest
      /\ request'[t]["client"] = request[t]["client"]
      /\ request' \in [Threads -> [Frame -> Request]]
      /\ \A u \in Threads \ {t} : request'[u] = request[u]
  BY <1>1, <1>3, NoRequestFacts DEF RestTyped, Frame
<1>8. /\ credential' \in [Credentials -> [scope: Scopes \cup {NoScope}, token: Token]]
      /\ \A k \in Credentials \ {Cred(t)} : credential'[k] = credential[k]
      /\ \/ Failed(TokenOutcome(t)) /\ credential' = credential
         \/ ~ Failed(TokenOutcome(t)) /\ credential'[Cred(t)].token = NewToken(t)
  <2>1. CASE Failed(TokenOutcome(t))
    BY <1>1, <1>4, <2>1 DEF RestTyped
  <2>2. CASE ~ Failed(TokenOutcome(t))
    <3> DEFINE k   == Cred(t)
               new == NewToken(t)
    <3>1. credential' = [credential EXCEPT ![k].token = new]
      BY <1>4, <2>2
    <3>2. k \in Credentials /\ new \in Token
      BY <1>4, <1>5
    <3> HIDE DEF k, new
    <3>3. /\ credential' \in [Credentials -> [scope: Scopes \cup {NoScope},
                                              token: Token]]
          /\ \A c \in Credentials \ {k} : credential'[c] = credential[c]
          /\ credential'[k].token = new
      BY <1>1, <3>1, <3>2 DEF RestTyped
    <3> QED
      BY <2>2, <3>3 DEF k, new
  <2> QED
    BY <2>1, <2>2
<1> HIDE DEF NewToken, TokenOutcome
<1>9. TypeOK'
  <2>1. MovesTyped'
    <3>1. stage' \in [Threads -> Stage] /\ result' \in [Threads -> AzResults]
      BY <1>1, <1>3, TokenOutcomeFacts DEF MovesTyped, Stage
    <3>2. ASSUME NEW u \in Threads PROVE pos'[u]["aad"] \in 0 .. 3
      BY <1>1, <1>6 DEF MovesTyped
    <3> QED
      BY <1>6, <3>1, <3>2 DEF MovesTyped
  <2>2. response' \in [Threads -> [Frame -> Response]]
    <3>1. EmptyResponse \in Response
      BY EmptySeq DEF EmptyResponse, Response, ResponseKind
    <3> QED
      BY <1>1, <1>3, <3>1 DEF RestTyped, Frame
  <2>3. reply' \in [Threads -> [left: Nat, size: Nat, content: AadReply,
                               issuedAt: Nat]]
    <3>1. NothingToRead \in [left: Nat, size: Nat, content: AadReply, issuedAt: Nat]
      BY DEF NothingToRead, NoReply, AadReply
    <3> QED
      BY <1>1, <1>3, <3>1 DEF RestTyped
  <2>4. RestTyped'
    BY <1>1, <1>3, <1>7, <1>8, <2>2, <2>3 DEF RestTyped, logVars, clocks
  <2> QED
    BY <2>1, <2>4, TypeOKPartsPrimed
<1>10. ASSUME NEW u \in Threads PROVE Stacked(u)'
  BY <1>1, <1>2, <1>3, <1>6 DEF Stacked
<1>11. ASSUME NEW u \in Threads PROVE Attached(u)'
  <2>1. CASE u # t
    <3>1. pos'[u] = pos[u] /\ stage'[u] = stage[u] /\ request'[u] = request[u]
      BY <1>6, <1>7, <2>1
    <3>2. (stage[u] = "attach" \/ pos[u]["client"] > 5)
            => TokenOf(Cred(u))' = TokenOf(Cred(u))
      <4> SUFFICES ASSUME stage[u] = "attach" \/ pos[u]["client"] > 5
                   PROVE  TokenOf(Cred(u))' = TokenOf(Cred(u))
        OBVIOUS
      <4>1. stage[u] # "idle"
        BY <1>1 DEF Stacked
      <4>2. Cred(u) # Cred(t) /\ Cred(u) \in Credentials
        BY <1>1, <1>2, <2>1, <4>1, OtherCredentials, PipelineAssumption
           DEF Stacked, Cred
      <4>3. Cred(u)' = Cred(u)
        BY <1>3 DEF Cred
      <4> QED
        BY <1>8, <4>2, <4>3 DEF TokenOf
    <3> QED
      BY <3>1, <3>2 DEF IInv, Attached
  <2>2. CASE u = t
    <3>1. Cred(t)' = Cred(t)
      BY <1>3 DEF Cred
    <3>2. stage'[t] = "attach" => TokenOf(Cred(t))'.length > 0
      BY <1>5, <1>6, <1>8, <3>1 DEF TokenOf
    <3>3. Bare(request[t]["client"])
      BY <1>2 DEF IInv, Attached
    <3> QED
      BY <1>6, <1>7, <2>2, <3>2, <3>3, NoRequestFacts DEF Attached
  <2> QED
    BY <2>1, <2>2
<1>12. GrantedIfFresh'
  BY <1>4, <1>5, <1>8 DEF IInv, GrantedIfFresh, TokenOf
<1> QED
  BY <1>9, <1>10, <1>11, <1>12 DEF IInv

\* The header is appended to a request that has none, with the length of the
\* token; if it does not fit, the call is over and the request still has none.
LEMMA AttachTokenStep ==
  ASSUME IInv, NEW t \in Threads, AttachToken(t)
  PROVE  IInv'
<1> DEFINE token   == TokenOf(Cred(t))
           r       == request[t]["client"]
           outcome == AppendHeader(r, "authorization", token.length)
<1>1. MovesTyped /\ RestTyped /\ (\A u \in Threads : Stacked(u))
  BY TypeOKParts DEF IInv
<1>2. /\ stage[t] = "attach" /\ pos[t]["client"] = 5 /\ pos[t]["aad"] = 0
      /\ client[t] \in Clients
  BY <1>1 DEF AttachToken, Stacked
<1>3. r \in Request /\ Bare(r) /\ token.length \in Nat \ {0}
  <2>1. Cred(t) \in Credentials
    BY <1>2, PipelineAssumption DEF Cred
  <2>2. token.length \in Nat
    BY <1>1, <2>1 DEF RestTyped, Token, TokenOf
  <2> QED
    BY <1>1, <1>2, <2>2 DEF IInv, Attached, RestTyped, Frame
<1>4. EditRequest(t, outcome)
  BY DEF AttachToken
<1> HIDE DEF token, r
<1>5. /\ outcome.object \in Request /\ outcome.result \in AzResults
      /\ Failed(outcome.result) => outcome.object = r
      /\ ~ Failed(outcome.result) => AuthorizedBy(outcome.object, token)
  BY <1>3, AppendHeaderFacts, AppendHeaderAuthorizes, HttpRequestAssumption
<1> HIDE DEF outcome
<1>6. /\ MovesTyped' /\ OthersStay(t) /\ stage'[t] \in {"policy", "unwind"}
      /\ \/ pos'[t]["client"] = 5 /\ Bare(outcome.object)
         \/ pos'[t]["client"] > 5 /\ AuthorizedBy(outcome.object, token)
      /\ \A u \in Threads : Stacked(u)'
  <2>1. CASE Failed(outcome.result)
    BY <1>1, <1>2, <1>3, <1>4, <1>5, <2>1, UnwindMoves
       DEF EditRequest, AttachToken
  <2>2. CASE ~ Failed(outcome.result)
    <3>1. NextPolicy(t)
      BY <1>4, <2>2 DEF EditRequest
    <3>2. pos'[t]["client"] = 6
      BY <1>1, <1>2, <3>1, PipelineFacts DEF NextPolicy, Top, MovesTyped, Frame
    <3> QED
      BY <1>1, <1>2, <1>5, <2>2, <3>1, <3>2, NextPolicyMoves DEF AttachToken
  <2> QED
    BY <2>1, <2>2
<1>7. /\ request' \in [Threads -> [Frame -> Request]]
      /\ request'[t]["client"] = outcome.object
      /\ request'[t]["aad"] = request[t]["aad"]
      /\ \A u \in Threads \ {t} : request'[u] = request[u]
  BY <1>1, <1>4, <1>5 DEF EditRequest, RestTyped, Frame
<1>8. TypeOK'
  BY <1>1, <1>6, <1>7, TypeOKPartsPrimed DEF AttachToken, RestTyped, logVars, clocks
<1>9. ASSUME NEW u \in Threads PROVE Attached(u)'
  <2>1. CASE u # t
    BY <1>6, <1>7, <2>1 DEF IInv, Attached, OthersStay, Cred, TokenOf, AttachToken
  <2>2. CASE u = t
    <3>1. TokenOf(Cred(t))' = token
      BY DEF AttachToken, Cred, TokenOf, token
    <3>2. /\ pos'[t]["client"] <= 5 => Bare(outcome.object)
          /\ pos'[t]["client"] > 5  => AuthorizedBy(outcome.object, token)
      <4>1. pos'[t]["client"] \in 0 .. 9
        BY <1>6 DEF MovesTyped, Frame
      <4> QED
        BY <1>6, <4>1
    <3>3. Bare(request'[t]["aad"]) /\ stage'[t] # "attach"
      BY <1>6, <1>7 DEF IInv, Attached
    <3> QED
      BY <1>7, <2>2, <3>1, <3>2, <3>3 DEF Attached
  <2> QED
    BY <2>1, <2>2
<1>10. GrantedIfFresh'
  BY DEF IInv, GrantedIfFresh, TokenOf, AttachToken
<1> QED
  BY <1>6, <1>8, <1>9, <1>10 DEF IInv
------------------------------------------------------------------------------
(***************************************************************************)
(* The log and the transport on the way back.                              *)
(***************************************************************************)

\* A step that only touches the response, the log, the reply or the clocks, and
\* not the thread's place.
LEMMA StandStep ==
  ASSUME IInv, UNCHANGED <<stage, pos, result, client, request, credential>>,
         RestTyped'
  PROVE  IInv'
<1>1. TypeOK'
  BY TypeOKParts, TypeOKPartsPrimed DEF IInv, MovesTyped
<1>2. ASSUME NEW u \in Threads PROVE Stacked(u)' /\ Attached(u)'
  BY DEF IInv, Stacked, Attached, Cred, TokenOf
<1>3. GrantedIfFresh'
  BY DEF IInv, GrantedIfFresh, TokenOf
<1> QED
  BY <1>1, <1>2, <1>3 DEF IInv

\* A response whose data or parser changes is one.
LEMMA ResponseTyped ==
  ASSUME response \in [Threads -> [Frame -> Response]], NEW t \in Threads,
         NEW f \in Frame
  PROVE  /\ \A kind \in ResponseKind :
              [response EXCEPT ![t][f].kind = kind]
                \in [Threads -> [Frame -> Response]]
         /\ \A data \in Seq({"earlier", "now"}) :
              [response EXCEPT ![t][f].data = data]
                \in [Threads -> [Frame -> Response]]
<1>1. response[t][f] \in Response
  OBVIOUS
<1>2. ASSUME NEW kind \in ResponseKind
      PROVE  [response EXCEPT ![t][f].kind = kind] \in [Threads -> [Frame -> Response]]
  <2>1. [response[t][f] EXCEPT !.kind = kind] \in Response
    BY <1>1 DEF Response
  <2> QED
    BY <2>1
<1>3. ASSUME NEW data \in Seq({"earlier", "now"})
      PROVE  [response EXCEPT ![t][f].data = data] \in [Threads -> [Frame -> Response]]
  <2>1. [response[t][f] EXCEPT !.data = data] \in Response
    BY <1>1 DEF Response
  <2> QED
    BY <2>1
<1> QED
  BY <1>2, <1>3

\* Logging the response preserves the invariant.
LEMMA LogResponseStep ==
  ASSUME IInv, NEW t \in Threads, LogResponse(t)
  PROVE  IInv'
<1>1. MovesTyped /\ RestTyped /\ Top(t) \in Frame
  BY TypeOKParts, TopIsFrame DEF IInv
<1>2. logging' \in [Threads -> [Frame -> BOOLEAN]]
  BY <1>1 DEF LogResponse, RestTyped
<1>3. PICK kind \in {response[t][Top(t)].kind, "HEADER", "BODY"} :
        response' = [response EXCEPT ![t][Top(t)].kind = kind]
  BY DEF LogResponse
<1>4. kind \in ResponseKind
  <2>1. response[t][Top(t)] \in Response
    BY <1>1 DEF RestTyped
  <2> QED
    BY <1>3, <2>1 DEF Response, ResponseKind
<1>5. response' \in [Threads -> [Frame -> Response]]
  BY <1>1, <1>3, <1>4, ResponseTyped DEF RestTyped
<1>6. RestTyped'
  BY <1>1, <1>2, <1>5 DEF RestTyped, LogResponse, logVars, clocks
<1> QED
  BY <1>6, StandStep DEF LogResponse

\* Sending preserves the invariant.
LEMMA SendStep ==
  ASSUME IInv, NEW t \in Threads, Send(t)
  PROVE  IInv'
<1>1. MovesTyped /\ RestTyped /\ (\A u \in Threads : Stacked(u))
  BY TypeOKParts DEF IInv
<1>2. /\ stage[t] = "policy"
      /\ \/ pos[t]["aad"] = 3 /\ pos[t]["client"] = 5
         \/ pos[t]["aad"] = 0 /\ pos[t]["client"] = 9
  BY <1>1, AtFacts, PipelineFacts DEF Send
<1>3. /\ stage' = [stage EXCEPT ![t] = "wire"]
      /\ UNCHANGED <<pos, result, client, request, credential>>
  BY DEF Send
<1>4. reply' \in [Threads -> [left: Nat, size: Nat, content: AadReply, issuedAt: Nat]]
  <2>1. PICK size \in ReplySizes,
             content \in IF Top(t) = "aad" THEN AadReplies ELSE {NoReply} :
          reply' = [reply EXCEPT ![t] = [left |-> size, size |-> size,
                                         content |-> content, issuedAt |-> wall]]
    BY DEF Send
  <2>2. size \in Nat /\ content \in AadReply /\ wall \in Nat
    <3>1. NoReply \in AadReply
      BY DEF NoReply, AadReply
    <3> QED
      BY <1>1, <2>1, <3>1, PipelineAssumption DEF RestTyped
  <2> QED
    BY <1>1, <2>1, <2>2 DEF RestTyped
<1>5. TypeOK'
  <2>1. MovesTyped'
    BY <1>1, <1>3 DEF MovesTyped, Stage
  <2>2. RestTyped'
    BY <1>1, <1>4 DEF Send, RestTyped, logVars, clocks
  <2> QED
    BY <2>1, <2>2, TypeOKPartsPrimed
<1>6. ASSUME NEW u \in Threads PROVE Stacked(u)'
  BY <1>1, <1>2, <1>3 DEF Stacked, MovesTyped
<1>7. (\A u \in Threads : Attached(u)') /\ GrantedIfFresh'
  <2>1. OthersStay(t) /\ stage'[t] # "attach" /\ pos' = pos
    BY <1>1, <1>3 DEF OthersStay, MovesTyped
  <2> QED
    BY <1>1, <1>3, <2>1, MoveKeepsAttached DEF MovesTyped
<1> QED
  BY <1>5, <1>6, <1>7 DEF IInv

\* Failing to send preserves the invariant.
LEMMA SendFailsStep ==
  ASSUME IInv, NEW t \in Threads, SendFails(t)
  PROVE  IInv'
<1>1. MovesTyped /\ RestTyped
  BY TypeOKParts DEF IInv
<1>2. PICK error \in ConnectErrors : Unwind(t, error)
  BY DEF SendFails
<1>3. error \in AzResults /\ stage[t] = "policy"
  BY PipelineAssumption DEF AzResults, SendFails, At
<1>4. RestTyped'
  BY <1>1 DEF SendFails, RestTyped, logVars, clocks
<1> QED
  BY <1>2, <1>3, <1>4, UnwindStep DEF SendFails

\* A broken connection preserves the invariant.
LEMMA ConnectionLostStep ==
  ASSUME IInv, NEW t \in Threads, ConnectionLost(t)
  PROVE  IInv'
<1>1. RestTyped'
  BY TypeOKParts DEF IInv, ConnectionLost, RestTyped, logVars, clocks
<1>2. "ERROR_HTTP_PAL" \in AzResults
  BY DEF AzResults, AzError
<1> QED
  BY <1>1, <1>2, UnwindStep DEF ConnectionLost

\* What the transport appends to a response leaves it one.
LEMMA AppendedFacts ==
  ASSUME RestTyped, NEW t \in Threads, Top(t) \in Frame
  PROVE  LET appended == SpanAppend(ResponseSpan(t), <<"now">>)
         IN  /\ appended.result \in AzResults
             /\ [response EXCEPT ![t][Top(t)].data = appended.object.items]
                  \in [Threads -> [Frame -> Response]]
<1> DEFINE span     == ResponseSpan(t)
           appended == SpanAppend(span, <<"now">>)
<1>1. response[t][Top(t)] \in Response
  BY DEF RestTyped
<1>2. /\ span.items \in Seq({"earlier", "now"}) /\ span.capacity \in Nat
      /\ <<"now">> \in Seq({"earlier", "now"})
      /\ span = [items |-> span.items, capacity |-> span.capacity]
  BY <1>1, PipelineAssumption DEF ResponseSpan, Response
<1> HIDE DEF span
<1>3. /\ appended.object.items \in Seq({"earlier", "now"})
      /\ appended.result \in AzResults
  <2>1. span.items \o <<"now">> \in Seq({"earlier", "now"})
    BY <1>2, ConcatProperties
  <2>2. [span EXCEPT !.items = @ \o <<"now">>].items = span.items \o <<"now">>
    BY <1>2
  <2> QED
    BY <1>2, <2>1, <2>2 DEF SpanAppend, Success, Failure, AzResults, AzError
<1> HIDE DEF appended
<1>4. [response EXCEPT ![t][Top(t)].data = appended.object.items]
        \in [Threads -> [Frame -> Response]]
  BY <1>3, ResponseTyped DEF RestTyped
<1> QED
  BY <1>3, <1>4 DEF appended, span

\* Receiving a part of the reply preserves the invariant, also when it does not
\* fit.
LEMMA ReceiveStep ==
  ASSUME IInv, NEW t \in Threads, Receive(t)
  PROVE  IInv'
<1> DEFINE appended == SpanAppend(ResponseSpan(t), <<"now">>)
<1>1. MovesTyped /\ RestTyped /\ Top(t) \in Frame
  BY TypeOKParts, TopIsFrame DEF IInv
<1>2. reply' \in [Threads -> [left: Nat, size: Nat, content: AadReply, issuedAt: Nat]]
  <2>1. reply[t].left \in Nat /\ reply[t].left > 0
    BY <1>1 DEF Receive, RestTyped
  <2>2. reply[t].left - 1 \in Nat
    BY <2>1
  <2>3. reply' = [reply EXCEPT ![t] = [@ EXCEPT !.left = reply[t].left - 1]]
    BY DEF Receive
  <2> QED
    BY <1>1, <2>2, <2>3 DEF RestTyped
<1>3. response' \in [Threads -> [Frame -> Response]]
  BY <1>1, AppendedFacts DEF Receive
<1>4. RestTyped'
  BY <1>1, <1>2, <1>3 DEF Receive, RestTyped, logVars, clocks
<1>5. CASE Failed(appended.result)
  <2>1. "ERROR_HTTP_RESPONSE_OVERFLOW" \in AzResults
    BY DEF AzResults, AzError
  <2> QED
    BY <1>4, <1>5, <2>1, UnwindStep DEF Receive
<1>6. CASE ~ Failed(appended.result)
  BY <1>4, <1>6, StandStep DEF Receive
<1> QED
  BY <1>5, <1>6

\* The end of the reply preserves the invariant, also when the zero does not fit.
LEMMA EndOfReplyStep ==
  ASSUME IInv, NEW t \in Threads, EndOfReply(t)
  PROVE  IInv'
<1>1. MovesTyped /\ RestTyped /\ Top(t) \in Frame
  BY TypeOKParts, TopIsFrame DEF IInv
<1>2. /\ response' \in [Threads -> [Frame -> Response]]
      /\ SpanAppend(ResponseSpan(t), <<"now">>).result \in AzResults
  BY <1>1, AppendedFacts DEF EndOfReply
<1>3. RestTyped'
  BY <1>1, <1>2 DEF EndOfReply, RestTyped, logVars, clocks
<1> QED
  BY <1>2, <1>3, UnwindStep DEF EndOfReply
------------------------------------------------------------------------------
(***************************************************************************)
(* The application, the log settings and time.                             *)
(***************************************************************************)

\* The return of a call preserves the invariant.
LEMMA ReturnStep ==
  ASSUME IInv, NEW t \in Threads, Return(t)
  PROVE  IInv'
<1>1. MovesTyped /\ RestTyped /\ (\A u \in Threads : Stacked(u))
  BY TypeOKParts DEF IInv
<1>2. stage[t] = "unwind" /\ pos[t]["aad"] = 0
  BY <1>1, TopIsFrame DEF Return
<1>3. /\ stage'   = [stage EXCEPT ![t] = "idle"]
      /\ pos'     = [pos EXCEPT ![t]["client"] = 0]
      /\ result'  = [result EXCEPT ![t] = "OK"]
      /\ client'  = [client EXCEPT ![t] = NoClient]
      /\ request' = [request EXCEPT ![t]["client"] = NoRequest]
      /\ reply'   = [reply EXCEPT ![t] = NothingToRead]
      /\ UNCHANGED <<response, logging, cachedAt, credential, ready, logVars, clocks>>
  BY DEF Return
<1>4. /\ pos'[t]["aad"] = 0 /\ pos'[t]["client"] = 0
      /\ pos' \in [Threads -> [Frame -> 0 .. 9]]
      /\ stage'[t] = "idle"
      /\ \A u \in Threads \ {t} : /\ pos'[u] = pos[u] /\ stage'[u] = stage[u]
                                  /\ client'[u] = client[u]
  BY <1>1, <1>2, <1>3 DEF MovesTyped, RestTyped, Frame
<1>5. /\ request'[t]["client"] = NoRequest
      /\ request'[t]["aad"] = request[t]["aad"]
      /\ request' \in [Threads -> [Frame -> Request]]
      /\ \A u \in Threads \ {t} : request'[u] = request[u]
  BY <1>1, <1>3, NoRequestFacts DEF RestTyped, Frame
<1>6. TypeOK'
  <2>1. MovesTyped'
    <3>1. stage' \in [Threads -> Stage] /\ result' \in [Threads -> AzResults]
      BY <1>1, <1>3 DEF MovesTyped, Stage, AzResults
    <3>2. ASSUME NEW u \in Threads PROVE pos'[u]["aad"] \in 0 .. 3
      BY <1>1, <1>4 DEF MovesTyped
    <3> QED
      BY <1>4, <3>1, <3>2 DEF MovesTyped
  <2>2. NothingToRead \in [left: Nat, size: Nat, content: AadReply, issuedAt: Nat]
    BY DEF NothingToRead, NoReply, AadReply
  <2>3. RestTyped'
    BY <1>1, <1>3, <1>5, <2>2 DEF RestTyped, logVars, clocks
  <2> QED
    BY <2>1, <2>3, TypeOKPartsPrimed
<1>7. ASSUME NEW u \in Threads PROVE Stacked(u)'
  BY <1>1, <1>4 DEF Stacked
<1>8. ASSUME NEW u \in Threads PROVE Attached(u)'
  <2>1. CASE u # t
    BY <1>3, <1>4, <1>5, <2>1 DEF IInv, Attached, Cred, TokenOf
  <2>2. CASE u = t
    BY <1>4, <1>5, <2>2, NoRequestFacts DEF IInv, Attached
  <2> QED
    BY <2>1, <2>2
<1>9. GrantedIfFresh'
  BY <1>3 DEF IInv, GrantedIfFresh, TokenOf
<1> QED
  BY <1>6, <1>7, <1>8, <1>9 DEF IInv

\* The request of a client is one, and has no authorization header.
LEMMA ClientRequestFacts ==
  ASSUME NEW op \in Operations
  PROVE  LET r == [RequestInit([items |-> [i \in 1 .. op.url |-> "u"],
                                capacity |-> MaxUrl], MaxHeaders)
                     EXCEPT !.headers.items =
                       [i \in 1 .. op.headers |-> [name |-> "own", length |-> 1]]]
         IN  r \in Request /\ Bare(r)
<1> DEFINE units == [i \in 1 .. op.url |-> "u"]
           url   == [items |-> units, capacity |-> MaxUrl]
           own   == [i \in 1 .. op.headers |-> [name |-> "own", length |-> 1]]
           r     == [RequestInit(url, MaxHeaders) EXCEPT !.headers.items = own]
<1>1. /\ op.url \in Nat /\ op.headers \in Nat /\ MaxUrl \in Nat /\ MaxHeaders \in Nat
      /\ op.url <= MaxUrl /\ op.headers <= MaxHeaders
      /\ "u" \in UrlUnit /\ "own" \in HeaderName
  BY PipelineAssumption
<1>2. units \in Seq(UrlUnit) /\ Len(units) = op.url
  BY <1>1
<1>3. QuestionMark(units) = 0
  BY <1>1 DEF QuestionMark
<1>4. own \in Seq(Header) /\ Len(own) = op.headers
  <2> DEFINE header == [name |-> "own", length |-> 1]
  <2>1. header \in Header
    BY <1>1 DEF Header
  <2>2. own = [i \in 1 .. op.headers |-> header]
    OBVIOUS
  <2> HIDE DEF header, own
  <2> QED
    BY <1>1, <2>1, <2>2
<1>5. \A i \in DOMAIN own : own[i].name = "own"
  OBVIOUS
<1>6. r = [url |-> url, queryStart |-> 0,
           headers |-> [items |-> own, capacity |-> MaxHeaders], retryStart |-> 0]
  <2> HIDE DEF units, own
  <2>1. RequestInit(url, MaxHeaders)
          = [url |-> url, queryStart |-> 0,
             headers |-> [items |-> <<>>, capacity |-> MaxHeaders], retryStart |-> 0]
    BY <1>3 DEF RequestInit, EmptySpan
  <2> QED
    BY <2>1
<1> HIDE DEF units, own, r
<1>7. url \in SpanOf(UrlUnit)
  BY <1>1, <1>2 DEF SpanOf
<1>8. [items |-> own, capacity |-> MaxHeaders] \in SpanOf(Header)
  BY <1>1, <1>4 DEF SpanOf
<1> HIDE DEF url
<1>9. r \in Request
  BY <1>6, <1>7, <1>8 DEF Request
<1>10. Bare(r)
  BY <1>5, <1>6 DEF Bare, IsAuthorization
<1> QED
  BY <1>9, <1>10 DEF r, url, units, own

\* A call preserves the invariant.
LEMMA CallStep ==
  ASSUME IInv, NEW t \in Threads, NEW c \in Clients, NEW op \in Operations,
         Call(t, c, op)
  PROVE  IInv'
<1> DEFINE r == [RequestInit([items |-> [i \in 1 .. op.url |-> "u"],
                              capacity |-> MaxUrl], MaxHeaders)
                   EXCEPT !.headers.items =
                     [i \in 1 .. op.headers |-> [name |-> "own", length |-> 1]]]
<1>1. MovesTyped /\ RestTyped /\ (\A u \in Threads : Stacked(u))
  BY TypeOKParts DEF IInv
<1>2. /\ stage[t] = "idle" /\ pos[t]["client"] = 0 /\ pos[t]["aad"] = 0
      /\ OwnerOf[c] = t
  BY <1>1 DEF Call, Stacked, MovesTyped
<1>3. /\ stage'   = [stage EXCEPT ![t] = "policy"]
      /\ pos'     = [pos EXCEPT ![t]["client"] = 1]
      /\ client'  = [client EXCEPT ![t] = c]
      /\ request' = [request EXCEPT ![t]["client"] = r]
      /\ cachedAt' = [cachedAt EXCEPT ![t] = -1]
      /\ UNCHANGED <<result, logging, reply, credential, ready, logVars, clocks>>
  BY DEF Call
<1>4. r \in Request /\ Bare(r)
  BY ClientRequestFacts
<1> HIDE DEF r
<1>5. /\ pos'[t]["aad"] = 0 /\ pos'[t]["client"] = 1
      /\ pos' \in [Threads -> [Frame -> 0 .. 9]]
      /\ stage'[t] = "policy" /\ client'[t] = c
      /\ \A u \in Threads \ {t} : /\ pos'[u] = pos[u] /\ stage'[u] = stage[u]
                                  /\ client'[u] = client[u]
  BY <1>1, <1>2, <1>3 DEF MovesTyped, RestTyped, Frame
<1>6. /\ request'[t]["client"] = r
      /\ request'[t]["aad"] = request[t]["aad"]
      /\ request' \in [Threads -> [Frame -> Request]]
      /\ \A u \in Threads \ {t} : request'[u] = request[u]
  BY <1>1, <1>3, <1>4 DEF RestTyped, Frame
<1>7. response' \in [Threads -> [Frame -> Response]]
  <2> DEFINE old   == response[t]["client"]
             given == GivenResponse(old)
  <2>1. response' = [response EXCEPT ![t]["client"] = given]
    BY DEF Call
  <2>2. old \in Response
    BY <1>1 DEF RestTyped, Frame
  <2> HIDE DEF old
  <2>3. [i \in DOMAIN old.data |-> "earlier"] \in Seq({"earlier", "now"})
    <3>1. old.data \in Seq({"earlier", "now"})
      BY <2>2 DEF Response
    <3>2. Len(old.data) \in Nat /\ DOMAIN old.data = 1 .. Len(old.data)
      BY <3>1, LenProperties
    <3> QED
      BY <3>2
  <2>4. [old EXCEPT !.data = [i \in DOMAIN old.data |-> "earlier"]] \in Response
    BY <2>2, <2>3 DEF Response
  <2>5. EmptyResponse \in Response
    BY EmptySeq DEF EmptyResponse, Response, ResponseKind
  <2>6. given \in Response
    BY <2>4, <2>5 DEF GivenResponse
  <2> HIDE DEF given
  <2> QED
    BY <1>1, <2>1, <2>6 DEF RestTyped, Frame
<1>8. TypeOK'
  <2>1. MovesTyped'
    <3>1. stage' \in [Threads -> Stage] /\ result' \in [Threads -> AzResults]
      BY <1>1, <1>3 DEF MovesTyped, Stage
    <3>2. ASSUME NEW u \in Threads PROVE pos'[u]["aad"] \in 0 .. 3
      BY <1>1, <1>5 DEF MovesTyped
    <3> QED
      BY <1>5, <3>1, <3>2 DEF MovesTyped
  <2>2. RestTyped'
    BY <1>1, <1>3, <1>6, <1>7 DEF RestTyped, logVars, clocks
  <2> QED
    BY <2>1, <2>2, TypeOKPartsPrimed
<1>9. ASSUME NEW u \in Threads PROVE Stacked(u)'
  BY <1>1, <1>2, <1>5 DEF Stacked
<1>10. ASSUME NEW u \in Threads PROVE Attached(u)'
  <2>1. CASE u # t
    BY <1>3, <1>5, <1>6, <2>1 DEF IInv, Attached, Cred, TokenOf
  <2>2. CASE u = t
    BY <1>4, <1>5, <1>6, <2>2 DEF IInv, Attached
  <2> QED
    BY <2>1, <2>2
<1>11. GrantedIfFresh'
  BY <1>3 DEF IInv, GrantedIfFresh, TokenOf
<1> QED
  BY <1>8, <1>9, <1>10, <1>11 DEF IInv

\* Setting the scope of a credential leaves every token as it is.
LEMMA InitClientStep ==
  ASSUME IInv, NEW c \in Clients, InitClient(c)
  PROVE  IInv'
<1>1. MovesTyped /\ RestTyped /\ (\A u \in Threads : Stacked(u))
  BY TypeOKParts DEF IInv
<1>2. CredentialOf[c] \in Credentials /\ ScopeOf[c] \in Scopes
  BY PipelineAssumption DEF Scopes
<1>3. /\ credential' \in [Credentials -> [scope: Scopes \cup {NoScope}, token: Token]]
      /\ \A k \in Credentials : credential'[k].token = credential[k].token
  BY <1>1, <1>2 DEF InitClient, RestTyped
<1>4. TypeOK'
  <2>1. MovesTyped'
    BY <1>1 DEF InitClient, MovesTyped, callVars
  <2>2. RestTyped'
    BY <1>1, <1>3 DEF InitClient, RestTyped, callVars, logVars, clocks
  <2> QED
    BY <2>1, <2>2, TypeOKPartsPrimed
<1>5. ASSUME NEW u \in Threads PROVE Stacked(u)'
  BY <1>1 DEF InitClient, Stacked, callVars
<1>6. ASSUME NEW u \in Threads PROVE Attached(u)'
  <2>1. stage[u] # "idle" => Cred(u) \in Credentials
    BY <1>1, PipelineAssumption DEF Stacked, Cred
  <2>2. stage[u] # "idle" => TokenOf(Cred(u))' = TokenOf(Cred(u))
    BY <1>3, <2>1 DEF InitClient, callVars, Cred, TokenOf
  <2>3. pos[u]["client"] > 5 \/ stage[u] = "attach" => stage[u] # "idle"
    BY <1>1 DEF Stacked, MovesTyped
  <2>4. stage' = stage /\ pos' = pos /\ request' = request
    BY DEF InitClient, callVars
  <2> QED
    BY <2>2, <2>3, <2>4 DEF IInv, Attached
<1>7. GrantedIfFresh'
  BY <1>3 DEF IInv, GrantedIfFresh, TokenOf
<1> QED
  BY <1>4, <1>5, <1>6, <1>7 DEF IInv

\* The log settings and time preserve the invariant.
LEMMA SettingsStep ==
  ASSUME IInv,
         \/ \E registered \in Listeners : SetListener(registered)
         \/ \E classes \in Whitelists : SetClassifications(classes)
         \/ Tick
  PROVE  IInv'
<1>1. RestTyped
  BY TypeOKParts DEF IInv
<1>2. ASSUME NEW registered \in Listeners, SetListener(registered) PROVE IInv'
  BY <1>1, <1>2, StandStep, PipelineAssumption
     DEF SetListener, RestTyped, callVars, clocks
<1>3. ASSUME NEW classes \in Whitelists, SetClassifications(classes) PROVE IInv'
  BY <1>1, <1>3, StandStep, PipelineAssumption
     DEF SetClassifications, RestTyped, callVars, clocks
<1>4. CASE Tick
  BY <1>1, <1>4, StandStep DEF Tick, RestTyped, callVars, logVars
<1> QED
  BY <1>2, <1>3, <1>4
------------------------------------------------------------------------------
(***************************************************************************)
(* The theorems.                                                           *)
(***************************************************************************)

\* The invariant holds at first.
LEMMA InitIInv == Init => IInv
<1> SUFFICES ASSUME Init PROVE IInv
  OBVIOUS
<1>1. /\ EmptyResponse \in Response
      /\ NoToken \in Token
      /\ NothingToRead \in [left: Nat, size: Nat, content: AadReply, issuedAt: Nat]
  BY EmptySeq DEF EmptyResponse, Response, ResponseKind, NoToken, Token,
     NothingToRead, NoReply, AadReply
<1>2. MovesTyped
  BY DEF Init, MovesTyped, Stage, Frame, AzResults
<1>3. RestTyped
  <2>1. request \in [Threads -> [Frame -> Request]]
    BY NoRequestFacts DEF Init
  <2>2. response \in [Threads -> [Frame -> Response]]
    BY <1>1 DEF Init
  <2>3. reply \in [Threads -> [left: Nat, size: Nat, content: AadReply, issuedAt: Nat]]
    BY <1>1 DEF Init
  <2>4. credential \in [Credentials -> [scope: Scopes \cup {NoScope}, token: Token]]
    BY <1>1 DEF Init
  <2>5. /\ client \in [Threads -> Clients \cup {NoClient}]
        /\ logging \in [Threads -> [Frame -> BOOLEAN]]
        /\ cachedAt \in [Threads -> Int]
    BY DEF Init
  <2>6. /\ ready \subseteq Clients
        /\ listener \in BOOLEAN /\ whitelist \in SUBSET LogClass
        /\ wall \in Nat /\ cpu \in Nat
    BY DEF Init
  <2> QED
    BY <2>1, <2>2, <2>3, <2>4, <2>5, <2>6 DEF RestTyped
<1>4. ASSUME NEW t \in Threads PROVE Stacked(t)
  BY DEF Init, Stacked, Frame
<1>5. ASSUME NEW t \in Threads PROVE Attached(t)
  <2>1. /\ stage[t] = "idle" /\ pos[t]["client"] = 0
        /\ request[t]["client"] = NoRequest /\ request[t]["aad"] = NoRequest
    BY DEF Init, Frame
  <2> QED
    BY <2>1, NoRequestFacts DEF Attached
<1>6. GrantedIfFresh
  BY DEF Init, GrantedIfFresh, TokenOf, NoToken
<1> QED
  BY <1>2, <1>3, <1>4, <1>5, <1>6, TypeOKParts DEF IInv

\* It is preserved by every step of a call.
LEMMA StepIInv ==
  ASSUME IInv, NEW t \in Threads, Step(t)
  PROVE  IInv'
BY ApiVersionStep, UniqueRequestIdStep, TelemetryStep, RetryStep,
   UseCachedTokenStep, RequestTokenStep, TokenReplyStep, AttachTokenStep,
   LoggingStep, LogResponseStep, PassThroughStep, SendStep, SendFailsStep,
   ReceiveStep, ConnectionLostStep, EndOfReplyStep, ReturnStep
   DEF Step

\* It is preserved by every step.
LEMMA NextIInv == IInv /\ [Next]_vars => IInv'
<1> SUFFICES ASSUME IInv, [Next]_vars PROVE IInv'
  OBVIOUS
<1>1. ASSUME NEW t \in Threads, Step(t) PROVE IInv'
  BY <1>1, StepIInv
<1>2. ASSUME NEW t \in Threads, NEW c \in Clients, NEW op \in Operations,
             Call(t, c, op)
      PROVE  IInv'
  BY <1>2, CallStep
<1>3. ASSUME NEW c \in Clients, InitClient(c) PROVE IInv'
  BY <1>3, InitClientStep
<1>4. CASE \/ \E registered \in Listeners : SetListener(registered)
           \/ \E classes \in Whitelists : SetClassifications(classes)
           \/ Tick
  BY <1>4, SettingsStep
<1>5. CASE UNCHANGED vars
  <2>1. UNCHANGED <<stage, pos, result, client, request, credential>> /\ RestTyped'
    BY <1>5, TypeOKParts DEF IInv, RestTyped, vars, callVars, logVars, clocks
  <2> QED
    BY <2>1, StandStep
<1> QED
  BY <1>1, <1>2, <1>3, <1>4, <1>5 DEF Next

\* The inductive invariant holds in every reachable state.
THEOREM Invariance == Spec => []IInv
BY InitIInv, NextIInv, PTL DEF Spec

\* Every variable has its type, whatever the policies, the services, the log
\* settings and the clock do.
THEOREM TypeCorrect == Spec => []TypeOK
<1>1. IInv => TypeOK
  BY DEF IInv
<1> QED
  BY <1>1, Invariance, PTL

\* A request on the wire carries exactly one authorization header, the view of a
\* granted token its credential still holds, and a token request carries none.
THEOREM AlwaysAuthorized == Spec => []Authorized
<1>1. IInv => Authorized
  <2> SUFFICES ASSUME IInv, NEW t \in Threads
               PROVE  /\ OnWire(t, "client") =>
                           AuthorizedBy(request[t]["client"], TokenOf(Cred(t)))
                      /\ OnWire(t, "aad") => Bare(request[t]["aad"])
    BY DEF Authorized, AuthorizedBy, Bare
  <2>1. MovesTyped /\ Stacked(t) /\ Attached(t)
    BY TypeOKParts DEF IInv
  <2>2. OnWire(t, "client") => pos[t]["client"] > 5
    BY <2>1, TopIsFrame DEF OnWire, Stacked
  <2> QED
    BY <2>1, <2>2 DEF Attached
<1> QED
  BY <1>1, Invariance, PTL
------------------------------------------------------------------------------
(***************************************************************************)
(* What a step of one thread leaves alone, and how it goes on.             *)
(***************************************************************************)

\* What thread u alone reads and writes stays as it is.
Untouched(u) ==
  /\ stage'[u] = stage[u] /\ pos'[u] = pos[u] /\ result'[u] = result[u]
  /\ client'[u] = client[u] /\ response'[u] = response[u]
  /\ reply'[u] = reply[u] /\ cachedAt'[u] = cachedAt[u]

\* A step of a call leaves the variables of the other threads alone.
LEMMA StepLeavesOthers ==
  ASSUME IInv, NEW t \in Threads, Step(t), NEW u \in Threads \ {t}
  PROVE  Untouched(u)
<1>1. MovesTyped /\ RestTyped
  BY TypeOKParts DEF IInv
<1> USE DEF Untouched
<1>2. ASSUME NEW r, Unwind(t, r)
      PROVE  stage'[u] = stage[u] /\ pos'[u] = pos[u] /\ result'[u] = result[u]
  BY <1>1, <1>2 DEF Unwind, MovesTyped
<1>3. ASSUME NextPolicy(t)
      PROVE  stage'[u] = stage[u] /\ pos'[u] = pos[u] /\ result'[u] = result[u]
  BY <1>1, <1>2, <1>3 DEF NextPolicy, MovesTyped
<1>4. ASSUME NEW outcome, EditRequest(t, outcome)
      PROVE  stage'[u] = stage[u] /\ pos'[u] = pos[u] /\ result'[u] = result[u]
  BY <1>2, <1>3, <1>4 DEF EditRequest
<1>5. CASE ApiVersion(t) \/ UniqueRequestId(t) \/ Telemetry(t) \/ AttachToken(t)
  BY <1>4, <1>5 DEF ApiVersion, UniqueRequestId, Telemetry, AttachToken
<1>6. CASE Retry(t) \/ PassThrough(t) \/ Logging(t)
  BY <1>1, <1>3, <1>6 DEF Retry, PassThrough, Logging, RestTyped
<1>7. CASE UseCachedToken(t)
  BY <1>1, <1>7 DEF UseCachedToken, MovesTyped, RestTyped
<1>8. CASE RequestToken(t)
  <2>1. CASE Cred(t) \in TooLong
    BY <1>2, <1>8, <2>1 DEF RequestToken
  <2>2. CASE Cred(t) \notin TooLong
    BY <1>1, <1>8, <2>2 DEF RequestToken, MovesTyped, RestTyped
  <2> QED
    BY <2>1, <2>2
<1>9. CASE TokenReply(t)
  BY <1>1, <1>9 DEF TokenReply, EndTokenRequest, Resume, MovesTyped, RestTyped
<1>10. CASE LogResponse(t)
  BY <1>1, <1>10 DEF LogResponse, RestTyped
<1>11. CASE Send(t)
  BY <1>1, <1>11 DEF Send, MovesTyped, RestTyped
<1>12. CASE SendFails(t) \/ ConnectionLost(t)
  BY <1>2, <1>12 DEF SendFails, ConnectionLost
<1>13. CASE Receive(t) \/ EndOfReply(t)
  BY <1>1, <1>2, <1>13 DEF Receive, EndOfReply, RestTyped
<1>14. CASE Return(t)
  BY <1>1, <1>14 DEF Return, MovesTyped, RestTyped
<1> QED
  BY <1>5, <1>6, <1>7, <1>8, <1>9, <1>10, <1>11, <1>12, <1>13, <1>14 DEF Step

\* A thread that is called, a settings step and the passing of time leave them
\* alone as well.
LEMMA CallLeavesOthers ==
  ASSUME IInv, NEW t \in Threads, NEW c \in Clients, NEW op \in Operations,
         Call(t, c, op), NEW u \in Threads \ {t}
  PROVE  Untouched(u)
<1>1. MovesTyped /\ RestTyped
  BY TypeOKParts DEF IInv
<1> QED
  BY <1>1 DEF Call, Untouched, MovesTyped, RestTyped

\* The steps of the policies on the way to the transport: the thread goes on, or
\* returns an error, and what was received stays as it is.
Onward(t) ==
  /\ stage[t] \in {"policy", "attach"} \/ pos[t]["aad"] > 0
  /\ stage'[t] # "unwind" \/ Failed(result'[t])
  /\ stage'[t] \in {"policy", "attach", "unwind"}
  /\ response'[t]["client"].data = response[t]["client"].data

LEMMA MovesOnward ==
  ASSUME IInv, NEW t \in Threads,
         \/ ApiVersion(t) \/ UniqueRequestId(t) \/ Telemetry(t) \/ Retry(t)
         \/ UseCachedToken(t) \/ RequestToken(t) \/ TokenReply(t) \/ AttachToken(t)
         \/ Logging(t) \/ PassThrough(t) \/ SendFails(t)
  PROVE  Onward(t)
<1>1. MovesTyped /\ RestTyped
  BY TypeOKParts DEF IInv
<1> USE DEF Onward
<1>2. ASSUME NEW r, Unwind(t, r)
      PROVE  stage'[t] = "unwind" /\ result'[t] = r
  BY <1>1, <1>2 DEF Unwind, MovesTyped
<1>3. ASSUME NextPolicy(t)
      PROVE  \/ stage'[t] = "policy"
             \/ stage'[t] = "unwind" /\ Failed(result'[t])
  BY <1>1, <1>2, <1>3 DEF NextPolicy, MovesTyped, Failed
<1>4. ASSUME NEW outcome, EditRequest(t, outcome)
      PROVE  \/ stage'[t] = "policy"
             \/ stage'[t] = "unwind" /\ Failed(result'[t])
  BY <1>2, <1>3, <1>4 DEF EditRequest
<1>5. CASE ApiVersion(t) \/ UniqueRequestId(t) \/ Telemetry(t) \/ AttachToken(t)
  <2>1. stage[t] \in {"policy", "attach"} /\ response' = response
    BY <1>5 DEF ApiVersion, UniqueRequestId, Telemetry, AttachToken, At
  <2>2. \/ stage'[t] = "policy"
        \/ stage'[t] = "unwind" /\ Failed(result'[t])
    BY <1>4, <1>5 DEF ApiVersion, UniqueRequestId, Telemetry, AttachToken
  <2> QED
    BY <2>1, <2>2
<1>6. CASE Retry(t)
  <2>1. stage[t] = "policy" /\ NextPolicy(t)
        /\ response' = [response EXCEPT ![t][Top(t)].kind = "STATUS_LINE"]
    BY <1>6 DEF Retry, At
  <2>2. response'[t]["client"].data = response[t]["client"].data
    BY <1>1, <2>1, TopIsFrame DEF RestTyped, Response, Frame
  <2> QED
    BY <1>3, <2>1, <2>2
<1>7. CASE PassThrough(t) \/ Logging(t)
  <2>1. stage[t] = "policy" /\ NextPolicy(t) /\ response' = response
    BY <1>7 DEF PassThrough, Logging, At
  <2> QED
    BY <1>3, <2>1
<1>8. CASE UseCachedToken(t)
  <2>1. stage[t] = "policy" /\ stage'[t] = "attach" /\ response' = response
    BY <1>1, <1>8 DEF UseCachedToken, At, MovesTyped
  <2> QED
    BY <2>1
<1>9. CASE RequestToken(t)
  <2>1. stage[t] = "policy"
    BY <1>9 DEF RequestToken, At
  <2>2. CASE Cred(t) \in TooLong
    BY <1>2, <1>9, <2>1, <2>2 DEF RequestToken, Failed
  <2>3. CASE Cred(t) \notin TooLong
    <3>1. /\ response' = [response EXCEPT ![t]["aad"] = EmptyResponse]
          /\ stage' = stage
      BY <1>9, <2>3 DEF RequestToken
    <3>2. response'[t]["client"] = response[t]["client"]
      BY <1>1, <3>1 DEF RestTyped, Frame
    <3> QED
      BY <2>1, <3>1, <3>2
  <2> QED
    BY <2>2, <2>3
<1>10. CASE TokenReply(t)
  <2>1. pos[t]["aad"] > 0
    BY <1>1, <1>10, TopIsFrame DEF TokenReply, EndTokenRequest
  <2>2. /\ stage' = [stage EXCEPT ![t] = IF Failed(TokenOutcome(t)) THEN "unwind"
                                                                     ELSE "attach"]
        /\ result' = [result EXCEPT ![t] = TokenOutcome(t)]
        /\ response' = [response EXCEPT ![t]["aad"] = EmptyResponse]
    BY <1>10 DEF TokenReply, EndTokenRequest, Resume
  <2>3. response'[t]["client"] = response[t]["client"]
    BY <1>1, <2>2 DEF RestTyped, Frame
  <2> QED
    BY <1>1, <2>1, <2>2, <2>3 DEF MovesTyped
<1>11. CASE SendFails(t)
  <2>1. PICK error \in ConnectErrors : Unwind(t, error)
    BY <1>11 DEF SendFails
  <2>2. Failed(error)
    BY <2>1, PipelineAssumption DEF AzError, Failed
  <2> QED
    BY <1>2, <1>11, <2>1, <2>2 DEF SendFails, At
<1> QED
  BY <1>5, <1>6, <1>7, <1>8, <1>9, <1>10, <1>11
------------------------------------------------------------------------------
(***************************************************************************)
(* Success means the whole reply.                                          *)
(***************************************************************************)

\* The places in a response that this call has written.
Places(data) == {i \in DOMAIN data : data[i] = "now"}

\* How much of its reply the call of thread t has: nothing up to the exchange,
\* then what has been sent, in the end all of it and the zero byte.
Whole(t) ==
  LET data == response[t]["client"].data
  IN  /\ stage[t] \in {"policy", "attach"} \/ pos[t]["aad"] > 0 => Places(data) = {}
      /\ stage[t] = "wire" /\ pos[t]["aad"] = 0 =>
           /\ reply[t].size > 0
           /\ Cardinality(Places(data)) + reply[t].left = reply[t].size
      /\ stage[t] = "unwind" /\ pos[t]["aad"] = 0 /\ ~ Failed(result[t]) =>
           /\ reply[t].size > 0 /\ reply[t].left = 0
           /\ Cardinality(Places(data)) = reply[t].size + 1

\* What is appended is one place more.
LEMMA PlacesFacts ==
  ASSUME NEW data \in Seq({"earlier", "now"})
  PROVE  /\ Cardinality(Places(data)) \in Nat
         /\ Cardinality(Places(data \o <<"now">>)) = Cardinality(Places(data)) + 1
<1> DEFINE more == data \o <<"now">>
<1>1. Len(data) \in Nat /\ DOMAIN data = 1 .. Len(data)
  BY LenProperties
<1>2. IsFiniteSet(Places(data)) /\ Len(data) + 1 \notin Places(data)
  <2>1. IsFiniteSet(1 .. Len(data))
    BY <1>1, FS_Interval
  <2>2. Places(data) \subseteq 1 .. Len(data)
    BY <1>1 DEF Places
  <2> QED
    BY <1>1, <2>1, <2>2, FS_Subset
<1>3. Places(more) = Places(data) \cup {Len(data) + 1}
  <2>1. <<"now">> \in Seq({"earlier", "now"}) /\ Len(<<"now">>) = 1 /\ <<"now">>[1] = "now"
    OBVIOUS
  <2>2. /\ more \in Seq({"earlier", "now"}) /\ Len(more) = Len(data) + Len(<<"now">>)
        /\ \A i \in 1 .. Len(data) + Len(<<"now">>) :
             more[i] = IF i <= Len(data) THEN data[i] ELSE <<"now">>[i - Len(data)]
    BY <2>1, ConcatProperties, Zenon
  <2> HIDE DEF more
  <2>3. DOMAIN more = 1 .. Len(data) + 1
    BY <1>1, <2>1, <2>2, LenProperties
  <2>4. \A i \in 1 .. Len(data) : more[i] = data[i]
    BY <1>1, <2>1, <2>2
  <2>5. more[Len(data) + 1] = "now"
    <3>1. Len(data) + 1 \in 1 .. Len(data) + 1 /\ (Len(data) + 1) - Len(data) = 1
          /\ ~ (Len(data) + 1 <= Len(data))
      BY <1>1
    <3> QED
      BY <2>1, <2>2, <3>1, Zenon
  <2>6. 1 .. Len(data) + 1 = (1 .. Len(data)) \cup {Len(data) + 1}
    BY <1>1
  <2> QED
    BY <1>1, <2>3, <2>4, <2>5, <2>6 DEF Places
<1>4. /\ Cardinality(Places(data)) \in Nat
      /\ Cardinality(Places(data) \cup {Len(data) + 1}) = Cardinality(Places(data)) + 1
  BY <1>2, FS_CardinalityType, FS_AddElement
<1> QED
  BY <1>3, <1>4

\* A step on the way to the transport, or of the token request, keeps it.
LEMMA OnwardWhole ==
  ASSUME NEW t \in Threads, Whole(t), Onward(t)
  PROVE  Whole(t)'
<1>1. Places(response[t]["client"].data) = {}
  BY DEF Whole, Onward
<1>2. Places(response'[t]["client"].data) = {}
  BY <1>1 DEF Onward
<1> QED
  BY <1>2 DEF Whole, Onward

\* It holds of a thread that nothing happens to.
LEMMA UntouchedWhole ==
  ASSUME NEW u \in Threads, Whole(u), Untouched(u)
  PROVE  Whole(u)'
BY DEF Whole, Untouched

\* The steps of the transport and behind it keep it, for the token request as
\* for the client's.
LEMMA SendWhole ==
  ASSUME IInv, NEW t \in Threads, Whole(t), Send(t)
  PROVE  Whole(t)'
<1>1. MovesTyped /\ RestTyped
  BY TypeOKParts DEF IInv
<1>2. /\ stage[t] = "policy" /\ stage'[t] = "wire" /\ pos' = pos /\ response' = response
  BY <1>1 DEF Send, At, MovesTyped
<1>3. PICK size \in ReplySizes :
        \E content \in IF Top(t) = "aad" THEN AadReplies ELSE {NoReply} :
          reply' = [reply EXCEPT ![t] = [left |-> size, size |-> size,
                                         content |-> content, issuedAt |-> wall]]
  BY DEF Send
<1>4. reply'[t].left = size /\ reply'[t].size = size /\ size > 0 /\ size \in Nat
  BY <1>1, <1>3, PipelineAssumption DEF RestTyped
<1>5. Places(response[t]["client"].data) = {}
  BY <1>2 DEF Whole
<1>6. Cardinality({}) = 0
  BY FS_EmptySet
<1> QED
  BY <1>2, <1>4, <1>5, <1>6 DEF Whole

\* What the transport appends to the client's response, or to the other one.
LEMMA AppendedData ==
  ASSUME IInv, NEW t \in Threads,
         response' = [response EXCEPT ![t][Top(t)].data =
                        SpanAppend(ResponseSpan(t), <<"now">>).object.items]
  PROVE  LET data == response[t]["client"].data
             appended == SpanAppend(ResponseSpan(t), <<"now">>)
         IN  /\ data \in Seq({"earlier", "now"})
             /\ pos[t]["aad"] > 0 => response'[t]["client"].data = data
             /\ pos[t]["aad"] = 0 /\ ~ Failed(appended.result) =>
                  response'[t]["client"].data = data \o <<"now">>
<1>1. MovesTyped /\ RestTyped
  BY TypeOKParts DEF IInv
<1>2. response[t] \in [Frame -> Response] /\ response[t]["client"] \in Response
  BY <1>1 DEF RestTyped, Frame
<1>3. CASE pos[t]["aad"] > 0
  <2>1. Top(t) = "aad"
    BY <1>3 DEF Top
  <2>2. response'[t]["client"] = response[t]["client"]
    BY <1>1, <2>1 DEF RestTyped, Frame
  <2> QED
    BY <1>2, <1>3, <2>2 DEF Response
<1>4. CASE pos[t]["aad"] = 0
  <2>1. Top(t) = "client"
    BY <1>4 DEF Top
  <2> DEFINE span     == ResponseSpan(t)
             appended == SpanAppend(span, <<"now">>)
  <2>2. span.items = response[t]["client"].data
        /\ span = [items |-> span.items, capacity |-> span.capacity]
    BY <2>1 DEF ResponseSpan
  <2> HIDE DEF span
  <2>3. ~ Failed(appended.result) => appended.object.items = span.items \o <<"now">>
    BY <2>2 DEF SpanAppend, Success, Failure, Failed
  <2>4. response'[t]["client"].data = appended.object.items
    <3> HIDE DEF appended
    <3>1. response' = [response EXCEPT ![t]["client"].data = appended.object.items]
      BY <2>1 DEF appended, span
    <3> QED
      BY <1>1, <1>2, <3>1 DEF RestTyped, Frame, Response
  <2> QED
    BY <1>2, <1>4, <2>2, <2>3, <2>4 DEF Response, span
<1>5. pos[t]["aad"] \in Nat
  BY <1>1 DEF MovesTyped
<1> QED
  BY <1>3, <1>4, <1>5

LEMMA ReceiveWhole ==
  ASSUME IInv, NEW t \in Threads, Whole(t), Receive(t)
  PROVE  Whole(t)'
<1> DEFINE data     == response[t]["client"].data
           appended == SpanAppend(ResponseSpan(t), <<"now">>)
<1>1. MovesTyped /\ RestTyped /\ pos[t]["aad"] \in Nat
  BY TypeOKParts DEF IInv, MovesTyped
<1>2. /\ data \in Seq({"earlier", "now"})
      /\ pos[t]["aad"] > 0 => response'[t]["client"].data = data
      /\ pos[t]["aad"] = 0 /\ ~ Failed(appended.result) =>
           response'[t]["client"].data = data \o <<"now">>
  BY AppendedData DEF Receive
<1>3. /\ stage[t] = "wire" /\ reply[t].left > 0
      /\ reply'[t].left = reply[t].left - 1 /\ reply'[t].size = reply[t].size
      /\ reply[t].left \in Nat /\ reply[t].size \in Nat
  BY <1>1 DEF Receive, RestTyped
<1>4. CASE Failed(appended.result)
  <2>1. pos' = pos /\ stage'[t] = "unwind" /\ Failed(result'[t])
    BY <1>1, <1>4 DEF Receive, Unwind, MovesTyped, Failed
  <2> QED
    BY <1>2, <1>3, <2>1 DEF Whole
<1>5. CASE ~ Failed(appended.result)
  <2>1. pos' = pos /\ stage' = stage
    BY <1>5 DEF Receive
  <2>2. CASE pos[t]["aad"] > 0
    BY <1>2, <1>3, <2>1, <2>2 DEF Whole
  <2>3. CASE pos[t]["aad"] = 0
    <3>1. response'[t]["client"].data = data \o <<"now">>
      BY <1>2, <1>5, <2>3
    <3>2. /\ Cardinality(Places(data)) \in Nat
          /\ Cardinality(Places(data \o <<"now">>)) = Cardinality(Places(data)) + 1
      BY <1>2, PlacesFacts
    <3>3. Cardinality(Places(data)) + reply[t].left = reply[t].size /\ reply[t].size > 0
      BY <1>3, <2>3 DEF Whole
    <3> HIDE DEF data
    <3>4. Cardinality(Places(data \o <<"now">>)) + reply'[t].left = reply'[t].size
      BY <1>3, <3>2, <3>3
    <3> QED
      BY <1>3, <2>1, <2>3, <3>1, <3>3, <3>4 DEF Whole
  <2> QED
    BY <1>1, <2>2, <2>3
<1> QED
  BY <1>4, <1>5

LEMMA EndOfReplyWhole ==
  ASSUME IInv, NEW t \in Threads, Whole(t), EndOfReply(t)
  PROVE  Whole(t)'
<1> DEFINE data     == response[t]["client"].data
           appended == SpanAppend(ResponseSpan(t), <<"now">>)
<1>1. MovesTyped /\ RestTyped /\ pos[t]["aad"] \in Nat
  BY TypeOKParts DEF IInv, MovesTyped
<1>2. /\ data \in Seq({"earlier", "now"})
      /\ pos[t]["aad"] > 0 => response'[t]["client"].data = data
      /\ pos[t]["aad"] = 0 /\ ~ Failed(appended.result) =>
           response'[t]["client"].data = data \o <<"now">>
  BY AppendedData DEF EndOfReply
<1>3. /\ stage[t] = "wire" /\ reply[t].left = 0 /\ reply' = reply
      /\ pos' = pos /\ stage'[t] = "unwind" /\ result'[t] = appended.result
      /\ reply[t].size \in Nat
  BY <1>1 DEF EndOfReply, Unwind, MovesTyped, RestTyped
<1>4. CASE pos[t]["aad"] > 0
  BY <1>2, <1>3, <1>4 DEF Whole
<1>5. CASE pos[t]["aad"] = 0 /\ Failed(appended.result)
  BY <1>3, <1>5 DEF Whole
<1>6. CASE pos[t]["aad"] = 0 /\ ~ Failed(appended.result)
  <2>1. response'[t]["client"].data = data \o <<"now">>
    BY <1>2, <1>6
  <2>2. /\ Cardinality(Places(data)) \in Nat
        /\ Cardinality(Places(data \o <<"now">>)) = Cardinality(Places(data)) + 1
    BY <1>2, PlacesFacts
  <2>3. Cardinality(Places(data)) + reply[t].left = reply[t].size /\ reply[t].size > 0
    BY <1>3, <1>6 DEF Whole
  <2> HIDE DEF data, appended
  <2>4. Cardinality(Places(data \o <<"now">>)) = reply[t].size + 1
    BY <1>3, <2>2, <2>3
  <2> QED
    BY <1>3, <1>6, <2>1, <2>3, <2>4 DEF Whole
<1> QED
  BY <1>1, <1>4, <1>5, <1>6

\* A lost connection is a failure; the log leaves the data alone; a call that
\* has returned has nothing to keep.
LEMMA WayBackWhole ==
  ASSUME IInv, NEW t \in Threads, Whole(t),
         ConnectionLost(t) \/ LogResponse(t) \/ Return(t)
  PROVE  Whole(t)'
<1>1. MovesTyped /\ RestTyped
  BY TypeOKParts DEF IInv
<1>2. CASE ConnectionLost(t)
  <2>1. /\ stage'[t] = "unwind" /\ Failed(result'[t]) /\ pos' = pos
        /\ response' = response
    BY <1>1, <1>2 DEF ConnectionLost, Unwind, MovesTyped, Failed
  <2> QED
    BY <2>1 DEF Whole
<1>3. CASE LogResponse(t)
  <2>1. UNCHANGED <<stage, pos, result, reply>>
    BY <1>3 DEF LogResponse
  <2>2. PICK kind : response' = [response EXCEPT ![t][Top(t)].kind = kind]
    BY <1>3 DEF LogResponse
  <2>3. response'[t]["client"].data = response[t]["client"].data
    BY <1>1, <2>2, TopIsFrame DEF RestTyped, Response, Frame
  <2> QED
    BY <2>1, <2>3 DEF Whole
<1>4. CASE Return(t)
  <2>1. Top(t) = "client" /\ stage'[t] = "idle" /\ pos'[t]["aad"] = pos[t]["aad"]
    BY <1>1, <1>4 DEF Return, MovesTyped, Frame
  <2>2. pos[t]["aad"] = 0
    BY <1>1, <2>1, TopIsFrame
  <2> QED
    BY <2>1, <2>2 DEF Whole
<1> QED
  BY <1>2, <1>3, <1>4

\* A call starts with nothing of its own in the response.
LEMMA CallWhole ==
  ASSUME IInv, NEW t \in Threads, NEW c \in Clients, NEW op \in Operations,
         Call(t, c, op)
  PROVE  Whole(t)'
<1>1. MovesTyped /\ RestTyped /\ Stacked(t)
  BY TypeOKParts DEF IInv
<1>2. /\ stage'[t] = "policy"
      /\ response'[t]["client"] = GivenResponse(response[t]["client"])
  BY <1>1 DEF Call, MovesTyped, RestTyped, Frame
<1>3. response[t]["client"] \in Response
  BY <1>1 DEF RestTyped, Frame
<1>4. Places(GivenResponse(response[t]["client"]).data) = {}
  <2>1. CASE ReuseResponse
    BY <1>3, <2>1 DEF GivenResponse, Response, Places
  <2>2. CASE ~ ReuseResponse
    BY <2>2 DEF GivenResponse, EmptyResponse, Places
  <2> QED
    BY <2>1, <2>2
<1> QED
  BY <1>2, <1>4 DEF Whole

LEMMA WholeKept ==
  ASSUME IInv, \A t \in Threads : Whole(t), [Next]_vars
  PROVE  \A t \in Threads : Whole(t)'
<1>1. ASSUME NEW t \in Threads, Step(t), NEW u \in Threads
      PROVE  Whole(u)'
  <2>1. CASE u # t
    BY <1>1, <2>1, StepLeavesOthers, UntouchedWhole
  <2>2. Whole(t)'
    BY <1>1, MovesOnward, OnwardWhole, SendWhole, ReceiveWhole, EndOfReplyWhole,
       WayBackWhole DEF Step
  <2> QED
    BY <2>1, <2>2
<1>2. ASSUME NEW t \in Threads, NEW c \in Clients, NEW op \in Operations,
             Call(t, c, op), NEW u \in Threads
      PROVE  Whole(u)'
  <2>1. CASE u # t
    BY <1>2, <2>1, CallLeavesOthers, UntouchedWhole
  <2>2. Whole(t)'
    BY <1>2, CallWhole
  <2> QED
    BY <2>1, <2>2
<1>3. ASSUME UNCHANGED callVars, NEW u \in Threads
      PROVE  Whole(u)'
  BY <1>3, UntouchedWhole DEF callVars, Untouched
<1> QED
  BY <1>1, <1>2, <1>3 DEF Next, InitClient, SetListener, SetClassifications, Tick, vars

\* A call that returns AZ_OK hands over the whole of its reply and the zero byte,
\* whatever room the response has and wherever the exchange or the token request
\* fails.
THEOREM SuccessIsWhole == Spec => []NoTruncatedSuccess
<1> DEFINE AllWhole == \A t \in Threads : Whole(t)
<1>1. Init => AllWhole
  BY DEF Init, Whole, Frame
<1>2. IInv /\ AllWhole /\ [Next]_vars => AllWhole'
  BY WholeKept
<1>3. IInv /\ AllWhole => NoTruncatedSuccess
  <2> SUFFICES ASSUME IInv, AllWhole, NEW t \in Threads, Returning(t), ~ Failed(result[t])
               PROVE  /\ reply[t].size > 0 /\ reply[t].left = 0
                      /\ Cardinality(Places(response[t]["client"].data))
                           = reply[t].size + 1
    BY DEF NoTruncatedSuccess, Places
  <2>1. stage[t] = "unwind" /\ pos[t]["aad"] = 0
    BY TypeOKParts, TopIsFrame DEF IInv, Returning
  <2> QED
    BY <2>1 DEF Whole
<1> HIDE DEF AllWhole
<1> QED
  BY <1>1, <1>2, <1>3, Invariance, PTL DEF Spec
------------------------------------------------------------------------------
(***************************************************************************)
(* The token that is sent: its scope, and its life.                        *)
(***************************************************************************)

\* The steps that change neither a credential nor who is in a call.
LEMMA CredentialsStay ==
  ASSUME IInv, NEW t \in Threads, Step(t), ~ TokenReply(t), ~ Return(t)
  PROVE  UNCHANGED <<credential, ready, client>>
BY DEF Step, ApiVersion, UniqueRequestId, Telemetry, Retry, UseCachedToken, RequestToken,
       AttachToken, Logging, LogResponse, PassThrough, Send, SendFails, Receive,
       ConnectionLost, EndOfReply

\* A thread that makes a step is in a call.
LEMMA StepInCall ==
  ASSUME IInv, NEW t \in Threads, Step(t)
  PROVE  stage[t] # "idle"
BY DEF Step, At, ApiVersion, UniqueRequestId, Telemetry, Retry, UseCachedToken,
       RequestToken, TokenReply, EndTokenRequest, AttachToken, Logging, LogResponse,
       PassThrough, Send, SendFails, Receive, ConnectionLost, EndOfReply, Return

\* What the end of a token request does to the credentials.
LEMMA TokenReplyStores ==
  ASSUME IInv, NEW t \in Threads, TokenReply(t)
  PROVE  /\ stage[t] = "unwind" /\ pos[t]["aad"] > 0 /\ pos[t]["client"] = 5
         /\ client[t] \in Clients /\ OwnerOf[client[t]] = t /\ Cred(t) \in Credentials
         /\ UNCHANGED <<client, ready, cachedAt, clocks>>
         /\ \A k \in Credentials :
              \/ credential'[k] = credential[k]
              \/ /\ k = Cred(t)
                 /\ credential'[k].token = NewToken(t)
                 /\ credential'[k].scope = credential[k].scope
<1>1. MovesTyped /\ RestTyped /\ Stacked(t)
  BY TypeOKParts DEF IInv
<1>2. /\ stage[t] = "unwind" /\ pos[t]["aad"] > 0
      /\ UNCHANGED <<client, ready, cachedAt, clocks>>
  BY <1>1, TopIsFrame DEF TokenReply, EndTokenRequest
<1>3. /\ client[t] \in Clients /\ OwnerOf[client[t]] = t /\ Cred(t) \in Credentials
      /\ pos[t]["client"] = 5
  BY <1>1, <1>2, PipelineAssumption DEF Stacked, Cred
<1>4. CASE credential' = credential
  BY <1>2, <1>3, <1>4
<1>5. CASE credential' = [credential EXCEPT ![Cred(t)].token = NewToken(t)]
  <2> DEFINE c   == Cred(t)
             new == NewToken(t)
  <2>1. credential' = [credential EXCEPT ![c].token = new] /\ c \in Credentials
    BY <1>3, <1>5
  <2> HIDE DEF c, new
  <2>2. ASSUME NEW k \in Credentials
        PROVE  \/ credential'[k] = credential[k]
               \/ /\ k = c
                  /\ credential'[k].token = new
                  /\ credential'[k].scope = credential[k].scope
    BY <1>1, <2>1 DEF RestTyped
  <2> QED
    BY <1>2, <1>3, <2>2 DEF c, new
<1> QED
  BY <1>4, <1>5 DEF TokenReply, StoreToken

\* Clients that were given the same credential ask for the same scope.
ScopesAgree ==
  \A c, d \in Clients : CredentialOf[c] = CredentialOf[d] => ScopeOf[c] = ScopeOf[d]

\* A credential has the scope of the clients that were initialised with it, and
\* so has a token in it.
Scoped ==
  /\ \A c \in ready : credential[CredentialOf[c]].scope = ScopeOf[c]
  /\ \A t \in Threads : stage[t] # "idle" => client[t] \in ready
  /\ \A k \in Credentials :
       TokenOf(k).length > 0 => \E c \in ready : /\ CredentialOf[c] = k
                                                 /\ TokenOf(k).scope = ScopeOf[c]

LEMMA ScopedStep ==
  ASSUME IInv, Scoped, NEW t \in Threads, Step(t)
  PROVE  Scoped'
<1>1. MovesTyped /\ RestTyped /\ stage[t] # "idle" /\ client[t] \in ready
  BY TypeOKParts, StepInCall DEF IInv, Scoped
<1>2. ready \subseteq Clients /\ \A c \in ready : CredentialOf[c] \in Credentials
  BY <1>1, PipelineAssumption DEF RestTyped
<1>3. \A u \in Threads \ {t} : stage'[u] = stage[u] /\ client'[u] = client[u]
  BY StepLeavesOthers DEF Untouched
<1>4. CASE ~ TokenReply(t) /\ ~ Return(t)
  <2>1. UNCHANGED <<credential, ready, client>>
    BY <1>4, CredentialsStay
  <2>2. \A u \in Threads : stage'[u] # "idle" => client'[u] \in ready'
    BY <1>1, <1>3, <2>1 DEF Scoped
  <2> QED
    BY <2>1, <2>2 DEF Scoped, TokenOf
<1>5. CASE Return(t)
  <2>1. UNCHANGED <<credential, ready>> /\ stage'[t] = "idle"
    BY <1>1, <1>5 DEF Return, MovesTyped
  <2>2. \A u \in Threads : stage'[u] # "idle" => client'[u] \in ready'
    BY <1>3, <2>1 DEF Scoped
  <2> QED
    BY <2>1, <2>2 DEF Scoped, TokenOf
<1>6. CASE TokenReply(t)
  <2>1. /\ UNCHANGED <<client, ready>>
        /\ \A k \in Credentials :
             \/ credential'[k] = credential[k]
             \/ /\ k = Cred(t)
                /\ credential'[k].token = NewToken(t)
                /\ credential'[k].scope = credential[k].scope
    BY <1>6, TokenReplyStores
  <2>2. ASSUME NEW c \in ready'
        PROVE  credential'[CredentialOf[c]].scope = ScopeOf[c]
    BY <1>2, <2>1 DEF Scoped
  <2>3. \A u \in Threads : stage'[u] # "idle" => client'[u] \in ready'
    BY <1>1, <1>3, <2>1 DEF Scoped
  <2>4. ASSUME NEW k \in Credentials, TokenOf(k)'.length > 0
        PROVE  \E c \in ready' : CredentialOf[c] = k /\ TokenOf(k)'.scope = ScopeOf[c]
    <3>1. CASE credential'[k] = credential[k]
      BY <2>1, <2>4, <3>1 DEF Scoped, TokenOf
    <3>2. CASE k = Cred(t) /\ credential'[k].token = NewToken(t)
      <4>1. TokenOf(k)'.scope = credential[CredentialOf[client[t]]].scope
        BY <3>2 DEF TokenOf, NewToken, Cred
      <4>2. credential[CredentialOf[client[t]]].scope = ScopeOf[client[t]]
        BY <1>1 DEF Scoped
      <4>3. CredentialOf[client[t]] = k /\ client[t] \in ready'
        BY <1>1, <2>1, <3>2 DEF Cred
      <4> QED
        BY <4>1, <4>2, <4>3
    <3> QED
      BY <2>1, <3>1, <3>2
  <2> QED
    BY <2>2, <2>3, <2>4 DEF Scoped
<1> QED
  BY <1>4, <1>5, <1>6

LEMMA ScopedKept ==
  ASSUME ScopesAgree, IInv, Scoped, [Next]_vars
  PROVE  Scoped'
<1>1. MovesTyped /\ RestTyped
  BY TypeOKParts DEF IInv
<1>2. ASSUME NEW t \in Threads, NEW c \in Clients, NEW op \in Operations, Call(t, c, op)
      PROVE  Scoped'
  <2>1. UNCHANGED <<credential, ready>> /\ client'[t] = c /\ c \in ready
    BY <1>1, <1>2 DEF Call, RestTyped
  <2>2. \A u \in Threads \ {t} : stage'[u] = stage[u] /\ client'[u] = client[u]
    BY <1>2, CallLeavesOthers DEF Untouched
  <2>3. \A u \in Threads : stage'[u] # "idle" => client'[u] \in ready'
    BY <2>1, <2>2 DEF Scoped
  <2> QED
    BY <2>1, <2>3 DEF Scoped, TokenOf
<1>3. ASSUME NEW c \in Clients, InitClient(c)
      PROVE  Scoped'
  <2> DEFINE k == CredentialOf[c]
             new == ScopeOf[c]
  <2>1. /\ ready' = ready \cup {c} /\ UNCHANGED <<stage, client>>
        /\ credential' = [credential EXCEPT ![k].scope = new]
    BY <1>3 DEF InitClient, callVars
  <2>2. k \in Credentials
    BY PipelineAssumption
  <2> HIDE DEF k, new
  <2>3. \A q \in Credentials :
          /\ credential'[q].token = credential[q].token
          /\ credential'[q].scope = IF q = k THEN new ELSE credential[q].scope
    BY <1>1, <2>1, <2>2 DEF RestTyped
  <2>4. ASSUME NEW d \in ready'
        PROVE  credential'[CredentialOf[d]].scope = ScopeOf[d]
    <3>1. d \in Clients /\ CredentialOf[d] \in Credentials
      BY <1>1, <2>1, PipelineAssumption DEF RestTyped
    <3>2. CASE CredentialOf[d] = k
      BY <2>3, <3>1, <3>2 DEF ScopesAgree, k, new
    <3>3. CASE CredentialOf[d] # k
      BY <2>1, <2>3, <3>1, <3>3 DEF Scoped, k
    <3> QED
      BY <3>2, <3>3
  <2>5. \A u \in Threads : stage'[u] # "idle" => client'[u] \in ready'
    BY <2>1 DEF Scoped
  <2>6. ASSUME NEW q \in Credentials, TokenOf(q)'.length > 0
        PROVE  \E d \in ready' : CredentialOf[d] = q /\ TokenOf(q)'.scope = ScopeOf[d]
    BY <2>1, <2>3, <2>6 DEF Scoped, TokenOf
  <2> QED
    BY <2>4, <2>5, <2>6 DEF Scoped
<1>4. CASE UNCHANGED <<stage, client, credential, ready>>
  BY <1>4 DEF Scoped, TokenOf
<1> QED
  BY <1>2, <1>3, <1>4, ScopedStep
     DEF Next, SetListener, SetClassifications, Tick, vars, callVars

\* Where clients that share a credential agree on the scope, a client's request
\* carries a token that was issued for its scope.
THEOREM ScopeIsRight == ScopesAgree => (Spec => []RightScope)
<1> SUFFICES ASSUME ScopesAgree PROVE Spec => []RightScope
  OBVIOUS
<1>1. Init => Scoped
  BY DEF Init, Scoped, TokenOf, NoToken
<1>2. IInv /\ Scoped /\ [Next]_vars => Scoped'
  BY ScopedKept
<1>3. IInv /\ Scoped => RightScope
  <2> SUFFICES ASSUME IInv, Scoped, NEW t \in Threads, OnWire(t, "client")
               PROVE  TokenOf(Cred(t)).scope = ScopeOf[client[t]]
    BY DEF RightScope
  <2>1. MovesTyped /\ RestTyped /\ Stacked(t) /\ Attached(t)
    BY TypeOKParts DEF IInv
  <2>2. stage[t] = "wire" /\ pos[t]["client"] > 5
    BY <2>1, TopIsFrame DEF OnWire, Stacked
  <2>3. TokenOf(Cred(t)).length > 0 /\ client[t] \in Clients /\ Cred(t) \in Credentials
    BY <2>1, <2>2, PipelineAssumption DEF Attached, AuthorizedBy, Stacked, Cred
  <2>4. PICK c \in ready : /\ CredentialOf[c] = Cred(t)
                           /\ TokenOf(Cred(t)).scope = ScopeOf[c]
    BY <2>3 DEF Scoped
  <2>5. c \in Clients
    BY <2>1 DEF RestTyped
  <2> QED
    BY <2>3, <2>4, <2>5 DEF ScopesAgree, Cred
<1> QED
  BY <1>1, <1>2, <1>3, Invariance, PTL DEF Spec

\* Up to the decision on the token, and during a token request, thread t has
\* found no cached token good.
Deciding(t) == \/ stage[t] = "policy" /\ pos[t]["client"] <= 5
               \/ pos[t]["aad"] > 0

\* A cached token was found good before it expired.
FoundInTime(t) ==
  /\ Deciding(t) => cachedAt[t] < 0
  /\ stage[t] # "idle" /\ cachedAt[t] >= 0 => cachedAt[t] <= TokenOf(Cred(t)).expiresAt

\* The clock shows real time, and a token expires that much after it was stored.
Dated ==
  /\ cpu = wall
  /\ \A k \in Credentials :
       TokenOf(k).length > 0 =>
         TokenOf(k).expiresAt = TokenOf(k).storedAt + TokenOf(k).lifetime - Margin
  /\ \A t \in Threads : FoundInTime(t)

\* Nothing leads back to the decision.
LEMMA DecidingBefore ==
  ASSUME IInv, NEW t \in Threads, Step(t), ~ UseCachedToken(t), Deciding(t)'
  PROVE  Deciding(t)
<1>1. MovesTyped /\ RestTyped /\ Stacked(t)
  BY TypeOKParts DEF IInv
<1>2. pos[t]["client"] \in 0 .. 9 /\ pos[t]["aad"] \in 0 .. 3
  BY <1>1 DEF MovesTyped, Frame
<1>3. ASSUME NEW r, Unwind(t, r)
      PROVE  Deciding(t)
  BY <1>1, <1>3 DEF Unwind, Deciding, MovesTyped
<1>4. ASSUME NextPolicy(t), stage[t] \in {"policy", "attach"}
      PROVE  Deciding(t)
  <2>1. CASE pos[t][Top(t)] = Len(Pipeline[Top(t)])
    BY <1>3, <1>4, <2>1 DEF NextPolicy
  <2>2. CASE pos[t]["aad"] > 0
    BY <2>2 DEF Deciding
  <2>3. CASE pos[t]["aad"] = 0 /\ pos[t][Top(t)] # Len(Pipeline[Top(t)])
    <3>1. pos' = [pos EXCEPT ![t]["client"] = @ + 1]
      BY <1>4, <2>3 DEF NextPolicy, Top
    <3>2. /\ pos'[t]["client"] = pos[t]["client"] + 1 /\ pos'[t]["aad"] = 0
      BY <1>1, <2>3, <3>1 DEF MovesTyped, Frame
    <3> QED
      BY <1>1, <1>2, <1>4, <3>2 DEF Deciding, Stacked
  <2> QED
    BY <1>2, <2>1, <2>2, <2>3
<1>5. ASSUME NEW outcome, EditRequest(t, outcome), stage[t] \in {"policy", "attach"}
      PROVE  Deciding(t)
  BY <1>3, <1>4, <1>5 DEF EditRequest
<1>6. CASE ApiVersion(t) \/ UniqueRequestId(t) \/ Telemetry(t) \/ AttachToken(t)
  BY <1>5, <1>6 DEF ApiVersion, UniqueRequestId, Telemetry, AttachToken, At
<1>7. CASE Retry(t) \/ PassThrough(t) \/ Logging(t)
  BY <1>4, <1>7 DEF Retry, PassThrough, Logging, At
<1>8. CASE RequestToken(t)
  <2>1. stage[t] = "policy" /\ pos[t]["client"] = 5
    BY <1>1, <1>8, AtFacts, PipelineFacts DEF RequestToken, Stacked
  <2> QED
    BY <1>8, <2>1 DEF RequestToken, Deciding
<1>9. CASE TokenReply(t)
  BY <1>1, <1>9, TopIsFrame DEF TokenReply, EndTokenRequest, Deciding
<1>10. CASE SendFails(t) \/ ConnectionLost(t) \/ EndOfReply(t)
  BY <1>3, <1>10 DEF SendFails, ConnectionLost, EndOfReply
<1>11. CASE Send(t)
  BY <1>1, <1>11 DEF Send, Deciding, MovesTyped
<1>12. CASE LogResponse(t)
  BY <1>12 DEF LogResponse, Deciding
<1>13. CASE Receive(t)
  <2>1. CASE UNCHANGED <<stage, pos>>
    BY <1>13, <2>1 DEF Receive, Deciding
  <2>2. CASE Unwind(t, "ERROR_HTTP_RESPONSE_OVERFLOW")
    BY <1>3, <1>13, <2>2 DEF Receive
  <2> QED
    BY <1>13, <2>1, <2>2 DEF Receive
<1>14. CASE Return(t)
  BY <1>1, <1>14 DEF Return, Deciding, MovesTyped, Frame
<1> QED
  BY <1>6, <1>7, <1>8, <1>9, <1>10, <1>11, <1>12, <1>13, <1>14 DEF Step

\* A step of a call leaves the clocks alone, and only one decides on a cached
\* token.
LEMMA StepTakesNoTime ==
  ASSUME IInv, NEW t \in Threads, Step(t)
  PROVE  /\ UNCHANGED clocks
         /\ UseCachedToken(t) \/ UNCHANGED cachedAt
BY DEF Step, ApiVersion, UniqueRequestId, Telemetry, Retry, UseCachedToken, RequestToken,
       TokenReply, EndTokenRequest, AttachToken, Logging, LogResponse, PassThrough, Send,
       SendFails, Receive, ConnectionLost, EndOfReply, Return

\* What a thread has found stays found in time while its credential stays.
LEMMA UntouchedInTime ==
  ASSUME NEW u \in Threads, FoundInTime(u), Untouched(u),
         stage[u] # "idle" => TokenOf(Cred(u))' = TokenOf(Cred(u))
  PROVE  FoundInTime(u)'
BY DEF FoundInTime, Untouched, Deciding, Cred, TokenOf

LEMMA DatedStep ==
  ASSUME IInv, Dated, NEW t \in Threads, Step(t)
  PROVE  Dated'
<1>1. MovesTyped /\ RestTyped /\ stage[t] # "idle"
      /\ \A u \in Threads : Stacked(u)
  BY TypeOKParts, StepInCall DEF IInv
<1>2. wall \in Nat /\ cpu = wall /\ cpu' = cpu /\ wall' = wall
  BY <1>1, StepTakesNoTime DEF RestTyped, Dated, clocks
<1>3. \A u \in Threads \ {t} : Untouched(u)
  BY StepLeavesOthers
<1>4. CASE ~ TokenReply(t)
  <2>1. credential' = credential
    BY <1>4, CredentialsStay DEF Return
  <2>2. \A u \in Threads \ {t} : FoundInTime(u)'
    BY <1>3, <2>1, UntouchedInTime DEF Dated, TokenOf, Cred, Untouched
  <2>3. CASE UseCachedToken(t)
    <3>1. /\ stage'[t] = "attach" /\ pos' = pos /\ client' = client
          /\ cachedAt'[t] = wall
      BY <1>1, <2>3 DEF UseCachedToken, MovesTyped, RestTyped
    <3>2. pos[t]["aad"] = 0
      BY <1>1, <2>3, AtFacts, PipelineFacts DEF UseCachedToken
    <3>3. TokenOf(Cred(t)).expiresAt \in Int
      BY <1>1, PipelineAssumption DEF Stacked, RestTyped, Cred, Token, TokenOf
    <3>4. wall <= TokenOf(Cred(t)).expiresAt
      BY <1>2, <2>3, <3>3 DEF UseCachedToken, Expired
    <3>5. FoundInTime(t)'
      BY <2>1, <3>1, <3>2, <3>4 DEF FoundInTime, Deciding, TokenOf, Cred
    <3> QED
      BY <1>2, <2>1, <2>2, <3>5 DEF Dated, TokenOf
  <2>4. CASE ~ UseCachedToken(t)
    <3>1. cachedAt' = cachedAt /\ (Deciding(t)' => cachedAt'[t] < 0)
      BY <2>4, StepTakesNoTime, DecidingBefore DEF Dated, FoundInTime
    <3>2. stage'[t] = "idle" \/ client' = client
      BY <1>1, <1>4, CredentialsStay DEF Return, MovesTyped
    <3>3. FoundInTime(t)'
      BY <1>1, <2>1, <3>1, <3>2 DEF Dated, FoundInTime, TokenOf, Cred
    <3> QED
      BY <1>2, <2>1, <2>2, <3>3 DEF Dated, TokenOf
  <2> QED
    BY <2>3, <2>4
<1>5. CASE TokenReply(t)
  <2>1. /\ pos[t]["aad"] > 0 /\ client[t] \in Clients /\ Cred(t) \in Credentials
        /\ UNCHANGED <<client, ready, cachedAt, clocks>>
        /\ \A k \in Credentials :
             \/ credential'[k] = credential[k]
             \/ /\ k = Cred(t)
                /\ credential'[k].token = NewToken(t)
                /\ credential'[k].scope = credential[k].scope
    BY <1>5, TokenReplyStores
  <2>2. ASSUME NEW u \in Threads \ {t}
        PROVE  FoundInTime(u)'
    <3>1. CASE stage[u] = "idle"
      BY <1>3, <3>1, UntouchedInTime DEF Dated
    <3>2. CASE stage[u] # "idle"
      <4>1. Cred(u) # Cred(t) /\ Cred(u) \in Credentials
        BY <1>1, <3>2, OtherCredentials, PipelineAssumption DEF Stacked, Cred
      <4>2. credential'[Cred(u)] = credential[Cred(u)]
        BY <2>1, <4>1
      <4>3. TokenOf(Cred(u))' = TokenOf(Cred(u))
        BY <2>1, <4>2 DEF TokenOf, Cred
      <4> QED
        BY <1>3, <4>3, UntouchedInTime DEF Dated
    <3> QED
      BY <3>1, <3>2
  <2>3. FoundInTime(t)'
    <3>1. cachedAt'[t] = cachedAt[t] /\ cachedAt[t] < 0 /\ cachedAt[t] \in Int
      BY <1>1, <2>1 DEF Dated, FoundInTime, Deciding, RestTyped
    <3> QED
      BY <3>1 DEF FoundInTime
  <2>4. ASSUME NEW k \in Credentials, TokenOf(k)'.length > 0
        PROVE  TokenOf(k)'.expiresAt = TokenOf(k)'.storedAt + TokenOf(k)'.lifetime - Margin
    <3>1. CASE credential'[k] = credential[k]
      BY <2>4, <3>1 DEF Dated, TokenOf
    <3>2. CASE k = Cred(t) /\ credential'[k].token = NewToken(t)
      <4>1. reply[t].content.lifetime \in Int /\ Margin \in Nat
        BY <1>1, PipelineAssumption DEF RestTyped, AadReply
      <4>2. /\ NewToken(t).expiresAt = cpu + (reply[t].content.lifetime - Margin)
            /\ NewToken(t).storedAt = wall
            /\ NewToken(t).lifetime = reply[t].content.lifetime
        BY DEF NewToken
      <4>3. TokenOf(k)' = NewToken(t)
        BY <3>2 DEF TokenOf
      <4> QED
        BY <1>2, <4>1, <4>2, <4>3
    <3> QED
      BY <2>1, <3>1, <3>2
  <2> QED
    BY <1>2, <2>2, <2>3, <2>4 DEF Dated
<1> QED
  BY <1>4, <1>5

LEMMA DatedKept ==
  ASSUME ClockIsWall, IInv, Dated, [Next]_vars
  PROVE  Dated'
<1>1. MovesTyped /\ RestTyped
  BY TypeOKParts DEF IInv
<1>2. ASSUME NEW t \in Threads, NEW c \in Clients, NEW op \in Operations, Call(t, c, op)
      PROVE  Dated'
  <2>1. UNCHANGED <<credential, clocks>> /\ cachedAt'[t] = -1
    BY <1>1, <1>2 DEF Call, RestTyped
  <2>2. FoundInTime(t)'
    BY <2>1 DEF FoundInTime
  <2>3. \A u \in Threads \ {t} : FoundInTime(u)'
    BY <1>2, <2>1, CallLeavesOthers, UntouchedInTime DEF Dated, TokenOf, Cred, Untouched
  <2> QED
    BY <2>1, <2>2, <2>3 DEF Dated, TokenOf, clocks
<1>3. ASSUME NEW c \in Clients, InitClient(c)
      PROVE  Dated'
  <2> DEFINE k == CredentialOf[c]
             new == ScopeOf[c]
  <2>1. UNCHANGED <<callVars, clocks>> /\ credential' = [credential EXCEPT ![k].scope = new]
    BY <1>3 DEF InitClient
  <2> HIDE DEF k, new
  <2>2. \A q \in Credentials : TokenOf(q)' = TokenOf(q)
    BY <1>1, <2>1 DEF RestTyped, TokenOf
  <2>3. \A u \in Threads : stage[u] # "idle" => Cred(u) \in Credentials
    BY PipelineAssumption DEF IInv, Stacked, Cred
  <2>4. \A u \in Threads : FoundInTime(u)'
    BY <2>1, <2>2, <2>3, UntouchedInTime DEF Dated, Untouched, callVars, Cred, TokenOf
  <2> QED
    BY <2>1, <2>2, <2>4 DEF Dated, clocks
<1>4. CASE Tick
  <2>1. UNCHANGED <<callVars, credential>> /\ wall' = wall + 1 /\ cpu' = cpu + 1
    BY <1>4 DEF Tick
  <2>2. \A u \in Threads : FoundInTime(u)'
    BY <2>1 DEF Dated, FoundInTime, Deciding, callVars, Cred, TokenOf
  <2> QED
    BY <2>1, <2>2 DEF Dated, TokenOf
<1>5. CASE UNCHANGED <<callVars, credential, clocks>>
  BY <1>5 DEF Dated, FoundInTime, Deciding, callVars, clocks, Cred, TokenOf
<1> QED
  BY <1>2, <1>3, <1>4, <1>5, DatedStep
     DEF Next, SetListener, SetClassifications, vars

\* Where clock() counts real time, a cached token that was found good is still
\* accepted by the service when the request is on the wire, as long as the delays
\* on the way took no more than the three minutes.
THEOREM CachedTokenIsAlive == ClockIsWall => (Spec => []CachedTokenAlive)
<1> SUFFICES ASSUME ClockIsWall PROVE Spec => []CachedTokenAlive
  OBVIOUS
<1>1. Init => Dated
  BY DEF Init, Dated, FoundInTime, TokenOf, NoToken
<1>2. IInv /\ Dated /\ [Next]_vars => Dated'
  BY DatedKept
<1>3. IInv /\ Dated => CachedTokenAlive
  <2> SUFFICES ASSUME IInv, Dated, NEW t \in Threads, OnWire(t, "client"),
                      cachedAt[t] >= 0, Delay(t) <= Margin
               PROVE  wall <= TokenOf(Cred(t)).issuedAt + TokenOf(Cred(t)).lifetime
    BY DEF CachedTokenAlive
  <2> DEFINE token == TokenOf(Cred(t))
  <2>1. MovesTyped /\ RestTyped /\ Stacked(t) /\ Attached(t)
    BY TypeOKParts DEF IInv
  <2>2. stage[t] = "wire" /\ pos[t]["client"] > 5
    BY <2>1, TopIsFrame DEF OnWire, Stacked
  <2>3. token.length > 0 /\ Cred(t) \in Credentials
    BY <2>1, <2>2, PipelineAssumption DEF Attached, AuthorizedBy, Stacked, Cred
  <2>4. token \in Token /\ wall \in Nat /\ cachedAt[t] \in Int /\ Margin \in Nat
    BY <2>1, <2>3, PipelineAssumption DEF RestTyped, TokenOf
  <2>5. token.expiresAt = token.storedAt + token.lifetime - Margin
    BY <2>3 DEF Dated
  <2>6. cachedAt[t] <= token.expiresAt
    BY <2>2 DEF Dated, FoundInTime
  <2>7. (wall - cachedAt[t]) + (token.storedAt - token.issuedAt) <= Margin
    BY DEF Delay
  <2> HIDE DEF token
  <2>8. /\ token.expiresAt \in Int /\ token.storedAt \in Nat /\ token.issuedAt \in Nat
        /\ token.lifetime \in Int
    BY <2>4 DEF Token
  <2>9. wall <= token.issuedAt + token.lifetime
    BY <2>4, <2>5, <2>6, <2>7, <2>8
  <2> QED
    BY <2>9 DEF token
<1> QED
  BY <1>1, <1>2, <1>3, Invariance, PTL DEF Spec
------------------------------------------------------------------------------
(***************************************************************************)
(* The pipeline implements AuthenticatedCall.                              *)
(***************************************************************************)

\* The phase of a call, by the stage of its thread and the frames it has.
LEMMA PhaseFacts ==
  ASSUME NEW t \in Threads
  PROVE  LET inside == pos[t]["aad"] > 0
         IN  /\ stage[t] = "idle" => AbstractPhase(t) = "idle"
             /\ stage[t] = "attach" => AbstractPhase(t) = "authenticated"
             /\ stage[t] \in {"policy", "wire", "unwind"} /\ inside =>
                  AbstractPhase(t) = "preparing"
             /\ stage[t] = "policy" /\ ~ inside =>
                  AbstractPhase(t) = IF pos[t]["client"] > 5 THEN "authenticated"
                                                             ELSE "preparing"
             /\ stage[t] = "wire" /\ ~ inside => AbstractPhase(t) = "exchanging"
             /\ stage[t] = "unwind" /\ ~ inside =>
                  AbstractPhase(t) = IF Failed(result[t]) THEN "failed"
                                                          ELSE "succeeded"
BY DEF AbstractPhase, OnWire, Top

\* The same in the next state.
LEMMA PhaseFactsPrimed ==
  ASSUME NEW t \in Threads
  PROVE  LET inside == pos'[t]["aad"] > 0
         IN  /\ stage'[t] = "idle" => AbstractPhase(t)' = "idle"
             /\ stage'[t] = "attach" => AbstractPhase(t)' = "authenticated"
             /\ stage'[t] \in {"policy", "wire", "unwind"} /\ inside =>
                  AbstractPhase(t)' = "preparing"
             /\ stage'[t] = "policy" /\ ~ inside =>
                  AbstractPhase(t)' = IF pos'[t]["client"] > 5 THEN "authenticated"
                                                               ELSE "preparing"
             /\ stage'[t] = "wire" /\ ~ inside => AbstractPhase(t)' = "exchanging"
             /\ stage'[t] = "unwind" /\ ~ inside =>
                  AbstractPhase(t)' = IF Failed(result'[t]) THEN "failed"
                                                            ELSE "succeeded"
BY DEF AbstractPhase, OnWire, Top

\* What a step of thread t that changes no credential does to its call: it
\* stays in its phase, or passes to one the abstract specification lets it.
Passes(t) ==
  \/ AbstractPhase(t)' = AbstractPhase(t)
  \/ /\ AbstractPhase(t) = "preparing" /\ AbstractPhase(t)' = "authenticated"
     /\ TokenOf(Cred(t)) # NoToken
  \/ AbstractPhase(t) = "authenticated" /\ AbstractPhase(t)' = "exchanging"
  \/ AbstractPhase(t) = "exchanging" /\ AbstractPhase(t)' = "succeeded"
  \/ /\ AbstractPhase(t) \in {"preparing", "authenticated", "exchanging"}
     /\ AbstractPhase(t)' = "failed"

\* A policy that returns an error fails the call, unless it is one of the token
\* request.
LEMMA UnwindPasses ==
  ASSUME MovesTyped, NEW t \in Threads, stage[t] \in {"policy", "attach", "wire"},
         Stacked(t), NEW r, Unwind(t, r), Failed(r)
  PROVE  Passes(t)
<1>1. stage'[t] = "unwind" /\ result'[t] = r /\ pos'[t] = pos[t]
  BY DEF Unwind, MovesTyped
<1>2. CASE pos[t]["aad"] > 0
  <2>1. stage[t] \in {"policy", "wire"}
    BY <1>2 DEF Stacked
  <2> QED
    BY <1>1, <1>2, <2>1, PhaseFacts, PhaseFactsPrimed DEF Passes
<1>3. CASE ~ (pos[t]["aad"] > 0)
  <2>1. AbstractPhase(t) \in {"preparing", "authenticated", "exchanging"}
    BY <1>3, PhaseFacts
  <2>2. AbstractPhase(t)' = "failed"
    BY <1>1, <1>3, PhaseFactsPrimed
  <2> QED
    BY <2>1, <2>2 DEF Passes
<1> QED
  BY <1>2, <1>3

\* A policy that calls the next one keeps the phase, where it is not the
\* credential policy that has not attached a token.
LEMMA NextPolicyPasses ==
  ASSUME MovesTyped, NEW t \in Threads, stage[t] \in {"policy", "attach"}, Stacked(t),
         NextPolicy(t),
         stage[t] = "policy" /\ pos[t]["aad"] = 0 => pos[t]["client"] # 5
  PROVE  Passes(t)
<1>1. pos[t]["aad"] \in 0 .. 3 /\ pos[t]["client"] \in 0 .. 9
  BY DEF MovesTyped, Frame
<1>2. CASE pos[t][Top(t)] = Len(Pipeline[Top(t)])
  BY <1>2, UnwindPasses DEF NextPolicy, Failed
<1>3. CASE pos[t][Top(t)] # Len(Pipeline[Top(t)])
  <2>1. stage'[t] = "policy" /\ pos' = [pos EXCEPT ![t][Top(t)] = @ + 1]
    BY <1>3 DEF NextPolicy, MovesTyped
  <2>2. CASE pos[t]["aad"] > 0
    <3>1. pos'[t]["aad"] > 0 /\ stage[t] = "policy"
      BY <1>1, <2>1, <2>2 DEF Top, MovesTyped, Frame, Stacked
    <3> QED
      BY <2>1, <2>2, <3>1, PhaseFacts, PhaseFactsPrimed DEF Passes
  <2>3. CASE ~ (pos[t]["aad"] > 0)
    <3>1. pos'[t]["aad"] = 0 /\ pos'[t]["client"] = pos[t]["client"] + 1
      BY <1>1, <2>1, <2>3 DEF Top, MovesTyped, Frame
    <3>2. pos[t]["client"] = 5 => stage[t] = "attach"
      BY <1>1, <2>3
    <3>3. stage[t] = "attach" => pos[t]["client"] = 5
      BY DEF Stacked
    <3>4. AbstractPhase(t)' = IF pos[t]["client"] > 4 THEN "authenticated"
                                                      ELSE "preparing"
      BY <1>1, <2>1, <3>1, PhaseFactsPrimed
    <3>5. AbstractPhase(t) = IF pos[t]["client"] > 4 THEN "authenticated"
                                                     ELSE "preparing"
      BY <1>1, <2>3, <3>2, <3>3, PhaseFacts
    <3> QED
      BY <3>4, <3>5 DEF Passes
  <2> QED
    BY <2>2, <2>3
<1> QED
  BY <1>2, <1>3

\* A policy that edits the request does one or the other.
LEMMA EditRequestPasses ==
  ASSUME MovesTyped, NEW t \in Threads, stage[t] \in {"policy", "attach"}, Stacked(t),
         NEW outcome, EditRequest(t, outcome),
         stage[t] = "policy" /\ pos[t]["aad"] = 0 => pos[t]["client"] # 5
  PROVE  Passes(t)
BY UnwindPasses, NextPolicyPasses DEF EditRequest

\* Every step of a call but the end of a token request and the return passes to
\* a phase the abstract specification allows.
LEMMA StepPasses ==
  ASSUME IInv, NEW t \in Threads, Step(t), ~ TokenReply(t), ~ Return(t)
  PROVE  Passes(t)
<1>1. MovesTyped /\ RestTyped /\ Stacked(t) /\ GrantedIfFresh
  BY TypeOKParts DEF IInv
<1>2. pos[t]["aad"] \in 0 .. 3 /\ pos[t]["client"] \in 0 .. 9
  BY <1>1 DEF MovesTyped, Frame
<1>3. CASE ApiVersion(t) \/ UniqueRequestId(t) \/ Telemetry(t)
  <2>1. \E policy \in {"apiversion", "uniquerequestid", "telemetry"} : At(t, policy)
    BY <1>3 DEF ApiVersion, UniqueRequestId, Telemetry
  <2>2. stage[t] = "policy" /\ (pos[t]["aad"] = 0 => pos[t]["client"] # 5)
    BY <1>1, <2>1, AtFacts, PipelineFacts
  <2> QED
    BY <1>1, <1>3, <2>2, EditRequestPasses DEF ApiVersion, UniqueRequestId, Telemetry
<1>4. CASE Retry(t) \/ PassThrough(t) \/ Logging(t)
  <2>1. \E policy \in {"retry", "bufferresponse", "distributedtracing", "logging"} :
          At(t, policy)
    BY <1>4 DEF Retry, PassThrough, Logging
  <2>2. stage[t] = "policy" /\ (pos[t]["aad"] = 0 => pos[t]["client"] # 5)
    BY <1>1, <2>1, AtFacts, PipelineFacts
  <2> QED
    BY <1>1, <1>4, <2>2, NextPolicyPasses DEF Retry, PassThrough, Logging
<1>5. CASE UseCachedToken(t)
  <2>1. stage[t] = "policy" /\ pos[t]["aad"] = 0 /\ pos[t]["client"] = 5
    BY <1>1, <1>5, AtFacts, PipelineFacts DEF UseCachedToken
  <2>2. stage'[t] = "attach"
    BY <1>1, <1>5 DEF UseCachedToken, MovesTyped
  <2>3. TokenOf(Cred(t)) # NoToken
    BY <1>5 DEF UseCachedToken, Expired, NoToken
  <2> QED
    BY <2>1, <2>2, <2>3, PhaseFacts, PhaseFactsPrimed DEF Passes
<1>6. CASE RequestToken(t)
  <2>1. stage[t] = "policy" /\ pos[t]["aad"] = 0 /\ pos[t]["client"] = 5
    BY <1>1, <1>6, AtFacts, PipelineFacts DEF RequestToken
  <2>2. CASE Cred(t) \in TooLong
    BY <1>1, <1>6, <2>1, <2>2, UnwindPasses DEF RequestToken, Failed
  <2>3. CASE Cred(t) \notin TooLong
    <3>1. stage'[t] = "policy" /\ pos'[t]["aad"] > 0
      BY <1>1, <1>6, <2>1, <2>3 DEF RequestToken, MovesTyped, Frame
    <3> QED
      BY <2>1, <3>1, PhaseFacts, PhaseFactsPrimed DEF Passes
  <2> QED
    BY <2>2, <2>3
<1>7. CASE AttachToken(t)
  BY <1>1, <1>7, EditRequestPasses DEF AttachToken
<1>8. CASE LogResponse(t)
  <2>1. UNCHANGED <<stage, pos, result>>
    BY <1>8 DEF LogResponse
  <2> QED
    BY <2>1 DEF Passes, AbstractPhase, OnWire, Top
<1>9. CASE Send(t)
  <2>1. stage[t] = "policy" /\ (pos[t]["aad"] = 0 => pos[t]["client"] > 5)
    BY <1>1, <1>9, AtFacts, PipelineFacts DEF Send
  <2>2. stage'[t] = "wire" /\ pos' = pos
    BY <1>1, <1>9 DEF Send, MovesTyped
  <2> QED
    BY <1>2, <2>1, <2>2, PhaseFacts, PhaseFactsPrimed DEF Passes
<1>10. CASE SendFails(t)
  <2>1. PICK error \in ConnectErrors : Unwind(t, error)
    BY <1>10 DEF SendFails
  <2>2. Failed(error) /\ stage[t] = "policy"
    BY <1>10, <2>1, PipelineAssumption DEF AzError, Failed, SendFails, At
  <2> QED
    BY <1>1, <2>1, <2>2, UnwindPasses
<1>11. CASE Receive(t)
  <2>1. CASE UNCHANGED <<stage, pos, result>>
    BY <2>1 DEF Passes, AbstractPhase, OnWire, Top
  <2>2. CASE Unwind(t, "ERROR_HTTP_RESPONSE_OVERFLOW")
    BY <1>1, <1>11, <2>2, UnwindPasses DEF Receive, Failed
  <2> QED
    BY <1>11, <2>1, <2>2 DEF Receive
<1>12. CASE ConnectionLost(t)
  BY <1>1, <1>12, UnwindPasses DEF ConnectionLost, Failed
<1>13. CASE EndOfReply(t)
  <2>1. PICK r : Unwind(t, r)
    BY <1>13 DEF EndOfReply
  <2>2. stage[t] = "wire"
    BY <1>13 DEF EndOfReply
  <2>3. CASE Failed(r)
    BY <1>1, <2>1, <2>2, <2>3, UnwindPasses
  <2>4. CASE ~ Failed(r)
    <3>1. stage'[t] = "unwind" /\ result'[t] = r /\ pos' = pos
      BY <1>1, <2>1 DEF Unwind, MovesTyped
    <3> QED
      BY <2>2, <2>4, <3>1, PhaseFacts, PhaseFactsPrimed DEF Passes
  <2> QED
    BY <2>3, <2>4
<1> QED
  BY <1>3, <1>4, <1>5, <1>6, <1>7, <1>8, <1>9, <1>10, <1>11, <1>12, <1>13 DEF Step

\* The keeper of thread t's call, as KeepsPromise maps it.
KeeperOf(t) == IF client[t] = NoClient THEN NoClient ELSE Cred(t)

\* Where the other threads stand still, the calls change at thread t alone.
LEMMA CallsOfOthers ==
  ASSUME NEW t \in Threads, \A u \in Threads \ {t} : Untouched(u)
  PROVE  /\ [u \in Threads |-> AbstractPhase(u)']
              = [[u \in Threads |-> AbstractPhase(u)] EXCEPT ![t] = AbstractPhase(t)']
         /\ [u \in Threads |-> KeeperOf(u)']
              = [[u \in Threads |-> KeeperOf(u)] EXCEPT ![t] = KeeperOf(t)']
<1>1. ASSUME NEW u \in Threads \ {t}
      PROVE  AbstractPhase(u)' = AbstractPhase(u) /\ KeeperOf(u)' = KeeperOf(u)
  BY <1>1 DEF Untouched, AbstractPhase, OnWire, Top, KeeperOf, Cred
<1> QED
  BY <1>1

\* A step that leaves the credentials alone and passes on one call is a step of
\* the abstract specification or stutters.
LEMMA PassesKeepPromise ==
  ASSUME NEW t \in Threads, \A u \in Threads \ {t} : Untouched(u), Passes(t),
         client[t] \in Clients, Cred(t) \in Credentials,
         UNCHANGED <<client, credential>>
  PROVE  Promise!AbstractNext \/ UNCHANGED Promise!abstractVars
<1>1. KeeperOf(t)' = KeeperOf(t) /\ KeeperOf(t) = Cred(t)
  BY PipelineAssumption DEF KeeperOf, Cred
<1>2. /\ UNCHANGED [u \in Threads |-> KeeperOf(u)]
      /\ UNCHANGED [k \in Credentials |-> TokenOf(k)]
  BY <1>1, CallsOfOthers DEF TokenOf
<1>3. [u \in Threads |-> AbstractPhase(u)']
         = [[u \in Threads |-> AbstractPhase(u)] EXCEPT ![t] = AbstractPhase(t)']
  BY CallsOfOthers
<1> USE <1>2, <1>3 DEF Promise!Enter, KeeperOf, Promise!AbstractNext, Promise!abstractVars
<1>4. CASE AbstractPhase(t)' = AbstractPhase(t)
  BY <1>4
<1>5. CASE /\ AbstractPhase(t) = "preparing" /\ AbstractPhase(t)' = "authenticated"
           /\ TokenOf(Cred(t)) # NoToken
  <2>1. Promise!Reuse(t)
    BY <1>1, <1>5 DEF Promise!Reuse
  <2> QED
    BY <2>1
<1>6. CASE AbstractPhase(t) = "authenticated" /\ AbstractPhase(t)' = "exchanging"
  <2>1. Promise!Exchange(t)
    BY <1>6 DEF Promise!Exchange
  <2> QED
    BY <2>1
<1>7. CASE AbstractPhase(t) = "exchanging" /\ AbstractPhase(t)' = "succeeded"
  <2>1. Promise!Succeed(t)
    BY <1>7 DEF Promise!Succeed
  <2> QED
    BY <2>1
<1>8. CASE /\ AbstractPhase(t) \in {"preparing", "authenticated", "exchanging"}
           /\ AbstractPhase(t)' = "failed"
  <2>1. Promise!Fail(t)
    BY <1>8 DEF Promise!Fail
  <2> QED
    BY <2>1
<1> QED
  BY <1>4, <1>5, <1>6, <1>7, <1>8 DEF Passes

\* The end of a token request refreshes the token, or fails the call.
LEMMA TokenReplyKeepsPromise ==
  ASSUME IInv, NEW t \in Threads, TokenReply(t)
  PROVE  Promise!AbstractNext \/ UNCHANGED Promise!abstractVars
<1> DEFINE c   == Cred(t)
           new == NewToken(t)
<1>1. MovesTyped /\ RestTyped
  BY TypeOKParts DEF IInv
<1>2. /\ stage[t] = "unwind" /\ pos[t]["aad"] > 0
      /\ client[t] \in Clients /\ c \in Credentials
      /\ UNCHANGED client
  BY TokenReplyStores
<1>3. \A u \in Threads \ {t} : Untouched(u)
  BY StepLeavesOthers DEF Step
<1>4. AbstractPhase(t) = "preparing"
  BY <1>2, PhaseFacts
<1>5. /\ stage' = [stage EXCEPT ![t] = IF Failed(TokenOutcome(t)) THEN "unwind"
                                                                   ELSE "attach"]
      /\ result' = [result EXCEPT ![t] = TokenOutcome(t)]
      /\ pos' = [pos EXCEPT ![t]["aad"] = 0]
  BY DEF TokenReply, EndTokenRequest, Resume
<1>6. ~ (pos'[t]["aad"] > 0)
  BY <1>1, <1>5 DEF MovesTyped, Frame
<1>7. CASE Failed(TokenOutcome(t))
  <2>1. stage'[t] = "unwind" /\ result'[t] = TokenOutcome(t)
    BY <1>1, <1>5, <1>7 DEF MovesTyped
  <2>2. AbstractPhase(t)' = "failed"
    BY <1>6, <1>7, <2>1, PhaseFactsPrimed
  <2>3. UNCHANGED credential
    BY <1>7 DEF TokenReply
  <2> QED
    BY <1>2, <1>3, <1>4, <2>2, <2>3, PassesKeepPromise DEF Passes
<1>8. CASE ~ Failed(TokenOutcome(t))
  <2>1. stage'[t] = "attach"
    BY <1>1, <1>5, <1>8 DEF MovesTyped
  <2>2. AbstractPhase(t)' = "authenticated"
    BY <1>6, <2>1, PhaseFactsPrimed
  <2>3. credential' = [credential EXCEPT ![c].token = new]
    BY <1>8 DEF TokenReply, StoreToken
  <2>4. new \in GrantedToken
    BY <1>1, <1>2, NewTokenFacts DEF GrantedToken
  <2>5. KeeperOf(t)' = KeeperOf(t) /\ KeeperOf(t) = c
    BY <1>2, PipelineAssumption DEF KeeperOf, Cred
  <2> HIDE DEF c, new
  <2>6. \A k \in Credentials : credential'[k].token = IF k = c THEN new ELSE TokenOf(k)
    BY <1>1, <1>2, <2>3 DEF RestTyped, TokenOf
  <2>7. Promise!Refresh(t)
    <3>1. Promise!Enter(t, {"preparing"}, "authenticated")
      BY <1>3, <1>4, <2>2, CallsOfOthers DEF Promise!Enter
    <3>2. UNCHANGED [u \in Threads |-> KeeperOf(u)]
      BY <1>3, <2>5, CallsOfOthers
    <3>3. [k \in Credentials |-> TokenOf(k)]'
            = [k \in Credentials |-> IF k = c THEN new ELSE TokenOf(k)]
      BY <2>6 DEF TokenOf
    <3>4. [u \in Threads |-> KeeperOf(u)][t] = c
      BY <2>5
    <3> QED
      BY <1>2, <2>4, <3>1, <3>2, <3>3, <3>4 DEF Promise!Refresh, KeeperOf
  <2> QED
    BY <2>7 DEF Promise!AbstractNext
<1> QED
  BY <1>7, <1>8

\* The return of a call ends it.
LEMMA ReturnKeepsPromise ==
  ASSUME IInv, NEW t \in Threads, Return(t)
  PROVE  Promise!AbstractNext \/ UNCHANGED Promise!abstractVars
<1>1. MovesTyped /\ RestTyped
  BY TypeOKParts DEF IInv
<1>2. stage[t] = "unwind" /\ ~ (pos[t]["aad"] > 0)
  BY <1>1, TopIsFrame DEF Return
<1>3. AbstractPhase(t) \in {"succeeded", "failed"}
  BY <1>2, PhaseFacts
<1>4. stage'[t] = "idle" /\ client'[t] = NoClient /\ UNCHANGED credential
  BY <1>1 DEF Return, MovesTyped, RestTyped
<1>5. AbstractPhase(t)' = "idle" /\ KeeperOf(t)' = NoClient
  BY <1>4, PhaseFactsPrimed DEF KeeperOf
<1>6. \A u \in Threads \ {t} : Untouched(u)
  BY StepLeavesOthers DEF Step
<1>7. Promise!End(t)
  <2>1. Promise!Enter(t, {"succeeded", "failed"}, "idle")
    BY <1>3, <1>5, <1>6, CallsOfOthers DEF Promise!Enter
  <2>2. [u \in Threads |-> KeeperOf(u)']
          = [[u \in Threads |-> KeeperOf(u)] EXCEPT ![t] = NoClient]
    BY <1>5, <1>6, CallsOfOthers
  <2> QED
    BY <1>4, <2>1, <2>2 DEF Promise!End, KeeperOf, TokenOf
<1> QED
  BY <1>7 DEF Promise!AbstractNext

\* A call begins one.
LEMMA CallKeepsPromise ==
  ASSUME IInv, NEW t \in Threads, NEW c \in Clients, NEW op \in Operations,
         Call(t, c, op)
  PROVE  Promise!AbstractNext \/ UNCHANGED Promise!abstractVars
<1>1. MovesTyped /\ RestTyped /\ Stacked(t)
  BY TypeOKParts DEF IInv
<1>2. stage[t] = "idle" /\ pos[t]["client"] = 0 /\ ~ (pos[t]["aad"] > 0)
  BY <1>1 DEF Call, Stacked
<1>3. /\ stage'[t] = "policy" /\ ~ (pos'[t]["aad"] > 0) /\ pos'[t]["client"] = 1
      /\ client'[t] = c /\ UNCHANGED credential
  BY <1>1, <1>2 DEF Call, MovesTyped, RestTyped, Frame
<1>4. AbstractPhase(t) = "idle" /\ AbstractPhase(t)' = "preparing"
  BY <1>2, <1>3, PhaseFacts, PhaseFactsPrimed
<1>5. KeeperOf(t)' = CredentialOf[c] /\ CredentialOf[c] \in Credentials
  BY <1>3, PipelineAssumption DEF KeeperOf, Cred
<1>6. \A u \in Threads \ {t} : Untouched(u)
  BY CallLeavesOthers
<1>7. Promise!Begin(t, CredentialOf[c])
  <2>1. Promise!Enter(t, {"idle"}, "preparing")
    BY <1>4, <1>6, CallsOfOthers DEF Promise!Enter
  <2>2. [u \in Threads |-> KeeperOf(u)']
          = [[u \in Threads |-> KeeperOf(u)] EXCEPT ![t] = CredentialOf[c]]
    BY <1>5, <1>6, CallsOfOthers
  <2> QED
    BY <1>3, <2>1, <2>2 DEF Promise!Begin, KeeperOf, TokenOf
<1> QED
  BY <1>5, <1>7 DEF Promise!AbstractNext

\* No other step changes a call or a token.
LEMMA OtherStepsStutter ==
  ASSUME UNCHANGED callVars,
         \A k \in Credentials : TokenOf(k)' = TokenOf(k)
  PROVE  UNCHANGED Promise!abstractVars
<1>1. \A u \in Threads : AbstractPhase(u)' = AbstractPhase(u) /\ KeeperOf(u)' = KeeperOf(u)
  BY DEF callVars, AbstractPhase, OnWire, Top, KeeperOf, Cred
<1> QED
  BY <1>1 DEF Promise!abstractVars, KeeperOf

\* Every step of the pipeline is one of the abstract specification, or stutters.
LEMMA NextKeepsPromise ==
  IInv /\ [Next]_vars => [Promise!AbstractNext]_(Promise!abstractVars)
<1> SUFFICES ASSUME IInv, [Next]_vars
             PROVE  Promise!AbstractNext \/ UNCHANGED Promise!abstractVars
  OBVIOUS
<1>1. ASSUME NEW t \in Threads, Step(t)
      PROVE  Promise!AbstractNext \/ UNCHANGED Promise!abstractVars
  <2>1. CASE TokenReply(t)
    BY <2>1, TokenReplyKeepsPromise
  <2>2. CASE Return(t)
    BY <2>2, ReturnKeepsPromise
  <2>3. CASE ~ TokenReply(t) /\ ~ Return(t)
    <3>1. Passes(t) /\ UNCHANGED <<client, credential>>
      BY <1>1, <2>3, StepPasses, CredentialsStay
    <3>2. client[t] \in Clients /\ Cred(t) \in Credentials
      BY <1>1, StepInCall, PipelineAssumption DEF IInv, Stacked, Cred
    <3>3. \A u \in Threads \ {t} : Untouched(u)
      BY <1>1, StepLeavesOthers
    <3> QED
      BY <3>1, <3>2, <3>3, PassesKeepPromise
  <2> QED
    BY <2>1, <2>2, <2>3
<1>2. ASSUME NEW t \in Threads, NEW c \in Clients, NEW op \in Operations,
             Call(t, c, op)
      PROVE  Promise!AbstractNext \/ UNCHANGED Promise!abstractVars
  BY <1>2, CallKeepsPromise
<1>3. ASSUME NEW c \in Clients, InitClient(c)
      PROVE  UNCHANGED Promise!abstractVars
  <2>1. RestTyped /\ CredentialOf[c] \in Credentials
    BY TypeOKParts, PipelineAssumption DEF IInv
  <2>2. UNCHANGED callVars
        /\ credential' = [credential EXCEPT ![CredentialOf[c]].scope = ScopeOf[c]]
    BY <1>3 DEF InitClient
  <2>3. \A k \in Credentials : TokenOf(k)' = TokenOf(k)
    BY <2>1, <2>2 DEF RestTyped, TokenOf
  <2> QED
    BY <2>2, <2>3, OtherStepsStutter
<1>4. CASE \/ \E registered \in Listeners : SetListener(registered)
           \/ \E classes \in Whitelists : SetClassifications(classes)
           \/ Tick
           \/ UNCHANGED vars
  <2>1. UNCHANGED callVars /\ UNCHANGED credential
    BY <1>4 DEF SetListener, SetClassifications, Tick, vars
  <2> QED
    BY <2>1, OtherStepsStutter DEF TokenOf
<1> QED
  BY <1>1, <1>2, <1>3, <1>4 DEF Next

\* The pipeline implements AuthenticatedCall: a call exchanges its request once,
\* with a granted token kept or just refreshed, succeeds only behind that
\* exchange, and a cached token is replaced by a grant alone.
THEOREM ImplementsAuthenticatedCall == Spec => KeepsPromise
<1>1. Init => Promise!AbstractInit
  <2> SUFFICES ASSUME Init PROVE Promise!AbstractInit
    OBVIOUS
  <2>1. \A t \in Threads : AbstractPhase(t) = "idle" /\ client[t] = NoClient
    BY PhaseFacts DEF Init
  <2>2. \A k \in Credentials : TokenOf(k) = NoToken
    BY DEF Init, TokenOf
  <2> QED
    BY <2>1, <2>2 DEF Promise!AbstractInit
<1> QED
  BY <1>1, NextKeepsPromise, Invariance, PTL DEF Spec, KeepsPromise, Promise!AbstractSpec
=============================================================================
