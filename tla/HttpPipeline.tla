---------------------------- MODULE HttpPipeline ----------------------------
(***************************************************************************)
(* The HTTP pipeline of the SDK, from a client's call of                   *)
(* az_http_pipeline_process to its return, with everything the policies    *)
(* touch on the way: the request, the response, the credential with its    *)
(* cached token, the log settings and the clock.                           *)
(*                                                                         *)
(* A pipeline is a sequence of policies that call each other: what runs is *)
(* a stack of process functions.  The credential policy may start a second *)
(* pipeline, for the token request to Azure Active Directory, on top of    *)
(* the client's.  A thread therefore has up to two frames, "client" and    *)
(* "aad"; in each, pos is the index of the policy whose process function   *)
(* is the innermost.                                                       *)
(***************************************************************************)
EXTENDS HttpRequest, FiniteSets

CONSTANTS
  Threads,          \* threads of the application
  Clients,          \* service clients (KeyVault, Blobs)
  OwnerOf,          \* OwnerOf[c]: the thread that uses client c
  CredentialOf,     \* CredentialOf[c]: the credential client c was given
  ScopeOf,          \* ScopeOf[c]: the scope client c sets on it
  ApiVersionIn,     \* ApiVersionIn[c]: "header" or "queryparameter"
  UserAgent,        \* UserAgent[c]: length of its telemetry os option, may be 0
  Credentials,      \* client secret credentials
  TooLong,          \* those whose token request does not fit its buffers
  Operations,       \* requests as clients hand them over: [url, headers] sizes
  MaxUrl,           \* AZ_HTTP_REQUEST_URL_BUF_SIZE, in units
  MaxHeaders,       \* AZ_HTTP_REQUEST_HEADER_COUNT
  ResponseRoom,     \* ResponseRoom[f]: capacity of the response of frame f
  ReplySizes,       \* sizes a reply of a service can have
  AadReplies,       \* what Azure Active Directory can answer
  MaxToken,         \* _az_TOKEN_BUF_SIZE, in units; "Bearer " is one
  Margin,           \* the 3 minutes by which a token is taken to expire early
  ConnectErrors,    \* errors before a request is on the wire
  Listeners,        \* whether the application registers a log listener, or none
  Whitelists,       \* log classifications it may register
  ReuseResponse,    \* whether it reuses a response without initialising it
  ClockIsWall,      \* whether clock() counts real time or CPU time
  MaxClock,         \* bound of the model: ticks of real time
  NoClient, NoScope \* neither a client nor a scope

Frame == {"client", "aad"}
Scopes == {ScopeOf[c] : c \in Clients}

\* The p_policies arrays of the clients and of the token request.
Pipeline == [client |-> <<"apiversion", "uniquerequestid", "telemetry", "retry",
                          "credential", "logging", "bufferresponse",
                          "distributedtracing", "transport">>,
             aad    |-> <<"retry", "logging", "transport">>]

LogClass == {"HTTP_REQUEST", "HTTP_RESPONSE"}

\* az_http_response_kind: what the parser of a response reads next.
ResponseKind == {"STATUS_LINE", "HEADER", "BODY", "EOF"}

\* A reply to the token request: its status line, the two members the code
\* reads ("missing" also when of another type), seconds of life, size of the
\* token.
AadReply == [status: {"unreadable", "refused", "granted"},
             expires_in: {"number", "missing", "garbled"},
             lifetime: Int,
             access_token: {"string", "missing", "garbled"},
             length: Nat]

NoReply == [status |-> "unreadable", expires_in |-> "missing", lifetime |-> 0,
            access_token |-> "missing", length |-> 0]

ASSUME PipelineAssumption ==
  /\ OwnerOf \in [Clients -> Threads]
  /\ CredentialOf \in [Clients -> Credentials]
  /\ ApiVersionIn \in [Clients -> {"header", "queryparameter", "none"}]
  /\ UserAgent \in [Clients -> Nat]
  /\ TooLong \subseteq Credentials
  /\ Operations \subseteq [url: Nat, headers: Nat]
  /\ \A op \in Operations : op.url <= MaxUrl /\ op.headers <= MaxHeaders
  /\ MaxUrl \in Nat /\ MaxHeaders \in Nat /\ MaxToken \in Nat \ {0}
  /\ ResponseRoom \in [Frame -> Nat]
  /\ ReplySizes \subseteq Nat \ {0}
  /\ AadReplies \subseteq AadReply
  /\ Margin \in Nat /\ MaxClock \in Nat
  /\ ConnectErrors \subseteq AzError
  /\ Listeners \subseteq BOOLEAN /\ Whitelists \subseteq SUBSET LogClass
  /\ ReuseResponse \in BOOLEAN /\ ClockIsWall \in BOOLEAN
  /\ NoClient \notin Clients /\ NoScope \notin Scopes
  /\ {"u", "api-version", "version"} \subseteq UrlUnit
  /\ {"own", "x-ms-version", "x-ms-client-request-id", "User-Agent"}
       \subseteq HeaderName \ {""}

\* The credential is documented as not synchronised ("TODO: thread sync"):
\* threads do not share one.
ASSUME CredentialsPerThread ==
  \A c, d \in Clients : CredentialOf[c] = CredentialOf[d] => OwnerOf[c] = OwnerOf[d]
------------------------------------------------------------------------------
VARIABLES
  stage,       \* stage[t]: what thread t does next
  pos,         \* pos[t][f]: index of the running policy of frame f, 0 if none
  result,      \* result[t]: the az_result on its way up
  client,      \* client[t]: the client called
  request,     \* request[t][f]: the _az_http_request of the frame
  response,    \* response[t][f]: the az_http_response of the frame
  logging,     \* logging[t][f]: the logging policy will log the response
  reply,       \* reply[t]: the reply the transport is receiving
  cachedAt,    \* cachedAt[t]: history, when a cached token was found valid
  credential,  \* credential[k]: the scope and the token of credential k
  ready,       \* the clients that were initialised
  listener,    \* whether a log listener is registered
  whitelist,   \* the classifications registered, {} for all
  wall, cpu    \* real time and the value of clock()

callVars == <<stage, pos, result, client, request, response, logging, reply,
              cachedAt>>
logVars  == <<listener, whitelist>>
clocks   == <<wall, cpu>>
vars == <<callVars, credential, ready, logVars, clocks>>

Stage == {"idle",    \* not in a call
          "policy",  \* the process function of the policy at pos is called
          "attach",  \* the credential policy has decided on a token
          "wire",    \* the transport is receiving the reply
          "unwind"}  \* the policy at pos has the result of what it called

\* A cached token; the last three fields are history: when the service issued
\* it, when it was stored and for how long it is really valid.
Token == [length: Nat, expiresAt: Int, scope: Scopes \cup {NoScope},
          issuedAt: Nat, storedAt: Nat, lifetime: Int]

NoToken == [length |-> 0, expiresAt |-> 0, scope |-> NoScope,
            issuedAt |-> 0, storedAt |-> 0, lifetime |-> 0]

\* A response: the units written into it, by this call or by an earlier one,
\* and the state of its parser.
Response == [data: Seq({"earlier", "now"}), kind: ResponseKind]

EmptyResponse == [data |-> <<>>, kind |-> "STATUS_LINE"]
NoRequest     == RequestInit(EmptySpan(MaxUrl), MaxHeaders)
NothingToRead == [left |-> 0, size |-> 0, content |-> NoReply, issuedAt |-> 0]

Init ==
  /\ stage    = [t \in Threads |-> "idle"]
  /\ pos      = [t \in Threads |-> [f \in Frame |-> 0]]
  /\ result   = [t \in Threads |-> "OK"]
  /\ client   = [t \in Threads |-> NoClient]
  /\ request  = [t \in Threads |-> [f \in Frame |-> NoRequest]]
  /\ response = [t \in Threads |-> [f \in Frame |-> EmptyResponse]]
  /\ logging  = [t \in Threads |-> [f \in Frame |-> FALSE]]
  /\ reply    = [t \in Threads |-> NothingToRead]
  /\ cachedAt = [t \in Threads |-> -1]
  /\ credential = [k \in Credentials |-> [scope |-> NoScope, token |-> NoToken]]
  /\ ready = {}
  /\ listener = FALSE /\ whitelist = {}
  /\ wall = 0 /\ cpu = 0
------------------------------------------------------------------------------
(***************************************************************************)
(* Moving along the pipeline.                                              *)
(***************************************************************************)

\* The frame whose process function runs in thread t, and its policy.
Top(t) == IF pos[t]["aad"] > 0 THEN "aad" ELSE "client"
At(t, policy) == /\ stage[t] = "policy"
                 /\ Pipeline[Top(t)][pos[t][Top(t)]] = policy

\* The policy returns r to the one that called it.
Unwind(t, r) == /\ stage'  = [stage EXCEPT ![t] = "unwind"]
                /\ result' = [result EXCEPT ![t] = r]
                /\ UNCHANGED pos

\* az_http_pipeline_nextpolicy
NextPolicy(t) ==
  IF pos[t][Top(t)] = Len(Pipeline[Top(t)])
  THEN Unwind(t, "ERROR_HTTP_PIPELINE_INVALID_POLICY")
  ELSE /\ stage' = [stage EXCEPT ![t] = "policy"]
       /\ pos'   = [pos EXCEPT ![t][Top(t)] = @ + 1]
       /\ UNCHANGED result

\* The policy edits the request of the client's frame and goes on, or fails.
EditRequest(t, outcome) ==
  /\ request' = [request EXCEPT ![t]["client"] = outcome.object]
  /\ IF Failed(outcome.result) THEN Unwind(t, outcome.result) ELSE NextPolicy(t)
------------------------------------------------------------------------------
(***************************************************************************)
(* The application: it initialises clients, calls them and configures the  *)
(* log.                                                                    *)
(***************************************************************************)

\* Variant of InitClient: the second of two clients does not set its scope.
InitClientOnce(c) ==
  /\ c \notin ready /\ stage[OwnerOf[c]] = "idle"
  /\ ready' = ready \cup {c}
  /\ credential' = IF ready = {}
                   THEN [credential EXCEPT ![CredentialOf[c]].scope = ScopeOf[c]]
                   ELSE credential
  /\ UNCHANGED <<callVars, logVars, clocks>>

\* az_keyvault_keys_client_init, az_storage_blobs_blob_client_init: the scope
\* is set on the credential, whose token is left alone.
InitClient(c) ==
  /\ c \notin ready /\ stage[OwnerOf[c]] = "idle"
  /\ ready' = ready \cup {c}
  /\ credential' = [credential EXCEPT ![CredentialOf[c]].scope = ScopeOf[c]]
  /\ UNCHANGED <<callVars, logVars, clocks>>

\* The response the application gives a call: a new one, or that of the last
\* call as it is.
GivenResponse(last) ==
  IF ReuseResponse
  THEN [last EXCEPT !.data = [i \in DOMAIN last.data |-> "earlier"]]
  ELSE EmptyResponse

\* A client operation has built its request and calls az_http_pipeline_process
\* with the response the application gave it.
Call(t, c, op) ==
  /\ stage[t] = "idle" /\ OwnerOf[c] = t /\ c \in ready
  /\ stage'   = [stage EXCEPT ![t] = "policy"]
  /\ pos'     = [pos EXCEPT ![t]["client"] = 1]
  /\ client'  = [client EXCEPT ![t] = c]
  /\ request' = [request EXCEPT ![t]["client"] =
       [RequestInit([items |-> [i \in 1 .. op.url |-> "u"], capacity |-> MaxUrl],
                    MaxHeaders)
          EXCEPT !.headers.items =
            [i \in 1 .. op.headers |-> [name |-> "own", length |-> 1]]]]
  /\ response' = [response EXCEPT ![t]["client"] = GivenResponse(@)]
  /\ cachedAt' = [cachedAt EXCEPT ![t] = -1]
  /\ UNCHANGED <<result, logging, reply, credential, ready, logVars, clocks>>

\* az_log_set_listener, az_log_set_classifications
SetListener(registered) ==
  /\ listener' = registered
  /\ UNCHANGED <<callVars, credential, ready, whitelist, clocks>>

SetClassifications(classes) ==
  /\ whitelist' = classes
  /\ UNCHANGED <<callVars, credential, ready, listener, clocks>>

\* az_log_should_write
ShouldWrite(class) == listener /\ (whitelist = {} \/ class \in whitelist)

\* Time passes; clock() may stand still meanwhile where it counts CPU time.
Tick ==
  /\ wall < MaxClock
  /\ wall' = wall + 1
  /\ \/ cpu' = cpu + 1
     \/ ~ ClockIsWall /\ cpu' = cpu
  /\ UNCHANGED <<callVars, credential, ready, logVars>>
------------------------------------------------------------------------------
(***************************************************************************)
(* The policies in front of the credential.                                *)
(***************************************************************************)

\* az_http_pipeline_policy_apiversion
ApiVersion(t) ==
  /\ At(t, "apiversion")
  /\ EditRequest(t, CASE ApiVersionIn[client[t]] = "header" ->
                           AppendHeader(request[t]["client"], "x-ms-version", 1)
                      [] ApiVersionIn[client[t]] = "queryparameter" ->
                           SetQueryParameter(request[t]["client"],
                                             <<"api-version">>, <<"version">>)
                      [] OTHER -> Failure("ERROR_ARG", request[t]["client"]))
  /\ UNCHANGED <<client, response, logging, reply, cachedAt, credential, ready,
                 logVars, clocks>>

\* az_http_pipeline_policy_uniquerequestid
UniqueRequestId(t) ==
  /\ At(t, "uniquerequestid")
  /\ EditRequest(t, AppendHeader(request[t]["client"],
                                 "x-ms-client-request-id", 1))
  /\ UNCHANGED <<client, response, logging, reply, cachedAt, credential, ready,
                 logVars, clocks>>

\* az_http_pipeline_policy_telemetry
Telemetry(t) ==
  /\ At(t, "telemetry")
  /\ EditRequest(t, AppendHeader(request[t]["client"], "User-Agent",
                                 UserAgent[client[t]]))
  /\ UNCHANGED <<client, response, logging, reply, cachedAt, credential, ready,
                 logVars, clocks>>

\* az_http_pipeline_policy_retry: it initialises the response with the span
\* the response already has, so the parser starts over and the data stays.
Retry(t) ==
  /\ At(t, "retry")
  /\ response' = [response EXCEPT ![t][Top(t)].kind = "STATUS_LINE"]
  /\ NextPolicy(t)
  /\ UNCHANGED <<client, request, logging, reply, cachedAt, credential, ready,
                 logVars, clocks>>

\* az_http_pipeline_policy_bufferresponse, _distributedtracing
PassThrough(t) ==
  /\ At(t, "bufferresponse") \/ At(t, "distributedtracing")
  /\ NextPolicy(t)
  /\ UNCHANGED <<client, request, response, logging, reply, cachedAt,
                 credential, ready, logVars, clocks>>
------------------------------------------------------------------------------
(***************************************************************************)
(* The credential policy and the token request.                            *)
(***************************************************************************)

\* The credential and the token of the client that thread t has called.
Cred(t)     == CredentialOf[client[t]]
TokenOf(k)  == credential[k].token

\* _az_token_expired
Expired(k) == TokenOf(k).expiresAt <= 0 \/ cpu > TokenOf(k).expiresAt

\* az_http_pipeline_policy_credential up to _az_client_secret_credential_apply
\* finding the cached token still good.
UseCachedToken(t) ==
  /\ At(t, "credential") /\ ~ Expired(Cred(t))
  /\ stage'    = [stage EXCEPT ![t] = "attach"]
  /\ cachedAt' = [cachedAt EXCEPT ![t] = wall]
  /\ UNCHANGED <<pos, result, client, request, response, logging, reply,
                 credential, ready, logVars, clocks>>

\* The same, finding it expired: the token request is built and its pipeline
\* entered with a fresh request and a fresh response.
RequestToken(t) ==
  /\ At(t, "credential") /\ Expired(Cred(t))
  /\ IF Cred(t) \in TooLong
     THEN /\ Unwind(t, "ERROR_BUFFER_OVERFLOW")
          /\ UNCHANGED <<request, response>>
     ELSE /\ pos'      = [pos EXCEPT ![t]["aad"] = 1]
          /\ request'  = [request EXCEPT ![t]["aad"] = NoRequest]
          /\ response' = [response EXCEPT ![t]["aad"] = EmptyResponse]
          /\ UNCHANGED <<stage, result>>
  /\ UNCHANGED <<client, logging, reply, cachedAt, credential, ready, logVars,
                 clocks>>

\* What _az_aad_request_token makes of a complete reply, in the order of the
\* code: the status line, "/expires_in", "/access_token", then the copy of
\* "Bearer " and the token into the new token's buffer.
ReadGrant(grant) ==
  CASE grant.status = "unreadable"      -> "ERROR_PARSER_UNEXPECTED_CHAR"
    [] grant.status = "refused"         -> "ERROR_HTTP_AUTHENTICATION_FAILED"
    [] grant.expires_in = "garbled"     -> "ERROR_PARSER_UNEXPECTED_CHAR"
    [] grant.expires_in = "missing"     -> "ERROR_ITEM_NOT_FOUND"
    [] grant.access_token = "garbled"   -> "ERROR_PARSER_UNEXPECTED_CHAR"
    [] grant.access_token = "missing"   -> "ERROR_ITEM_NOT_FOUND"
    [] 1 + grant.length > MaxToken      -> "ERROR_BUFFER_OVERFLOW"
    [] OTHER                            -> "OK"

\* Variant of NewToken: the three minutes are not taken off.
NewTokenNoMargin(t) ==
  [length    |-> 1 + reply[t].content.length,
   expiresAt |-> cpu + reply[t].content.lifetime,
   scope     |-> credential[Cred(t)].scope,
   issuedAt  |-> reply[t].issuedAt, storedAt |-> wall,
   lifetime  |-> reply[t].content.lifetime]

\* The token made of a grant that was read successfully.
NewToken(t) ==
  [length    |-> 1 + reply[t].content.length,
   expiresAt |-> cpu + (reply[t].content.lifetime - Margin),
   scope     |-> credential[Cred(t)].scope,
   issuedAt  |-> reply[t].issuedAt, storedAt |-> wall,
   lifetime  |-> reply[t].content.lifetime]

\* The pipeline of the token request has returned to _az_aad_request_token;
\* the request and the response live on the stack.
EndTokenRequest(t) ==
  /\ stage[t] = "unwind" /\ Top(t) = "aad" /\ ~ logging[t]["aad"]
  /\ pos'      = [pos EXCEPT ![t]["aad"] = 0]
  /\ request'  = [request EXCEPT ![t]["aad"] = NoRequest]
  /\ response' = [response EXCEPT ![t]["aad"] = EmptyResponse]
  /\ reply'    = [reply EXCEPT ![t] = NothingToRead]
  /\ UNCHANGED <<client, logging, cachedAt, ready, logVars, clocks>>

\* Its result: the error its pipeline returned, or what the grant amounts to.
TokenOutcome(t) == IF Failed(result[t]) THEN result[t]
                   ELSE ReadGrant(reply[t].content)

\* The credential policy goes on to the header, or returns the error.
Resume(t) ==
  /\ result' = [result EXCEPT ![t] = TokenOutcome(t)]
  /\ stage'  = [stage EXCEPT ![t] = IF Failed(TokenOutcome(t)) THEN "unwind"
                                                               ELSE "attach"]

StoreToken(t) ==
  credential' = [credential EXCEPT ![Cred(t)].token = NewToken(t)]

\* Variants of TokenReply.  The result of the refresh is ignored:
TokenReplyUnchecked(t) ==
  /\ EndTokenRequest(t)
  /\ result' = [result EXCEPT ![t] = "OK"]
  /\ stage'  = [stage EXCEPT ![t] = "attach"]
  /\ IF Failed(TokenOutcome(t)) THEN UNCHANGED credential ELSE StoreToken(t)

\* The token is stored before its size is checked:
TokenReplyStoresFirst(t) ==
  /\ EndTokenRequest(t) /\ Resume(t)
  /\ IF TokenOutcome(t) \in {"OK", "ERROR_BUFFER_OVERFLOW"}
     THEN StoreToken(t) ELSE UNCHANGED credential

\* The expiry is checked again after the refresh:
TokenReplyRechecks(t) ==
  /\ EndTokenRequest(t)
  /\ result' = [result EXCEPT ![t] = TokenOutcome(t)]
  /\ stage'  = [stage EXCEPT ![t] = IF Failed(TokenOutcome(t)) THEN "unwind"
                                                               ELSE "policy"]
  /\ IF Failed(TokenOutcome(t)) THEN UNCHANGED credential ELSE StoreToken(t)

\* _az_aad_request_token from the return of its pipeline on: only a complete
\* grant replaces the cached token (_az_token_set), as a whole.
TokenReply(t) ==
  /\ EndTokenRequest(t) /\ Resume(t)
  /\ IF Failed(TokenOutcome(t)) THEN UNCHANGED credential ELSE StoreToken(t)

\* The end of _az_client_secret_credential_apply: the header's value is a view
\* of the credential's token buffer, as long as the token is now.
AttachToken(t) ==
  /\ stage[t] = "attach"
  /\ EditRequest(t, AppendHeader(request[t]["client"], "authorization",
                                 TokenOf(Cred(t)).length))
  /\ UNCHANGED <<client, response, logging, reply, cachedAt, credential, ready,
                 logVars, clocks>>
------------------------------------------------------------------------------
(***************************************************************************)
(* The logging policy.                                                     *)
(***************************************************************************)

\* az_http_pipeline_policy_logging before it calls the next policy: it decides
\* now whether the response will be logged.
Logging(t) ==
  /\ At(t, "logging")
  /\ logging' = [logging EXCEPT ![t][Top(t)] = ShouldWrite("HTTP_RESPONSE")]
  /\ NextPolicy(t)
  /\ UNCHANGED <<client, request, response, reply, cachedAt, credential, ready,
                 logVars, clocks>>

\* The rest of it, _az_log_http_response: the message is built with the
\* response's own parser, which stops where the status line is unreadable,
\* where the message buffer is full, or behind the last header.
LogResponse(t) ==
  /\ stage[t] = "unwind" /\ logging[t][Top(t)]
  /\ logging' = [logging EXCEPT ![t][Top(t)] = FALSE]
  /\ \E kind \in {response[t][Top(t)].kind, "HEADER", "BODY"} :
       /\ response[t][Top(t)].data = <<>> => kind = response[t][Top(t)].kind
       /\ response' = [response EXCEPT ![t][Top(t)].kind = kind]
  /\ UNCHANGED <<stage, pos, result, client, request, reply, cachedAt,
                 credential, ready, logVars, clocks>>
------------------------------------------------------------------------------
(***************************************************************************)
(* The transport: az_http_pipeline_policy_transport and the exchange that  *)
(* send_request performs with a service.                                   *)
(***************************************************************************)

\* The response of the running frame as a span the transport appends to.
ResponseSpan(t) == [items    |-> response[t][Top(t)].data,
                    capacity |-> ResponseRoom[Top(t)]]

\* The request goes out; the service decides on its reply.
Send(t) ==
  /\ At(t, "transport")
  /\ stage' = [stage EXCEPT ![t] = "wire"]
  /\ \E size \in ReplySizes :
     \E content \in IF Top(t) = "aad" THEN AadReplies ELSE {NoReply} :
       reply' = [reply EXCEPT ![t] = [left |-> size, size |-> size,
                                      content |-> content, issuedAt |-> wall]]
  /\ UNCHANGED <<pos, result, client, request, response, logging, cachedAt,
                 credential, ready, logVars, clocks>>

\* It cannot be sent.
SendFails(t) ==
  /\ At(t, "transport")
  /\ \E error \in ConnectErrors : Unwind(t, error)
  /\ UNCHANGED <<client, request, response, logging, reply, cachedAt,
                 credential, ready, logVars, clocks>>

\* _az_http_client_curl_write_to_span: a part of the reply arrives, and is
\* appended if all of it fits.
Receive(t) ==
  LET appended == SpanAppend(ResponseSpan(t), <<"now">>)
  IN  /\ stage[t] = "wire" /\ reply[t].left > 0
      /\ reply' = [reply EXCEPT ![t].left = @ - 1]
      /\ response' = [response EXCEPT ![t][Top(t)].data = appended.object.items]
      /\ IF Failed(appended.result)
         THEN Unwind(t, "ERROR_HTTP_RESPONSE_OVERFLOW")
         ELSE UNCHANGED <<stage, pos, result>>
      /\ UNCHANGED <<client, request, logging, cachedAt, credential, ready,
                     logVars, clocks>>

\* The connection breaks before the reply is complete.
ConnectionLost(t) ==
  /\ stage[t] = "wire"
  /\ Unwind(t, "ERROR_HTTP_PAL")
  /\ UNCHANGED <<client, request, response, logging, reply, cachedAt,
                 credential, ready, logVars, clocks>>

\* Variant of EndOfReply: nobody looks whether the zero byte was appended.
EndOfReplyUnchecked(t) ==
  LET appended == SpanAppend(ResponseSpan(t), <<"now">>)
  IN  /\ stage[t] = "wire" /\ reply[t].left = 0
      /\ response' = [response EXCEPT ![t][Top(t)].data = appended.object.items]
      /\ Unwind(t, "OK")
      /\ UNCHANGED <<client, request, logging, reply, cachedAt, credential,
                     ready, logVars, clocks>>

\* The reply is complete: a zero byte is appended to it, or the exchange fails.
EndOfReply(t) ==
  LET appended == SpanAppend(ResponseSpan(t), <<"now">>)
  IN  /\ stage[t] = "wire" /\ reply[t].left = 0
      /\ response' = [response EXCEPT ![t][Top(t)].data = appended.object.items]
      /\ Unwind(t, appended.result)
      /\ UNCHANGED <<client, request, logging, reply, cachedAt, credential,
                     ready, logVars, clocks>>

\* az_http_pipeline_process returns to the client, and the client to the
\* application; the request lived on the client's stack.
Return(t) ==
  /\ stage[t] = "unwind" /\ Top(t) = "client" /\ ~ logging[t]["client"]
  /\ stage'   = [stage EXCEPT ![t] = "idle"]
  /\ pos'     = [pos EXCEPT ![t]["client"] = 0]
  /\ result'  = [result EXCEPT ![t] = "OK"]
  /\ client'  = [client EXCEPT ![t] = NoClient]
  /\ request' = [request EXCEPT ![t]["client"] = NoRequest]
  /\ reply'   = [reply EXCEPT ![t] = NothingToRead]
  /\ UNCHANGED <<response, logging, cachedAt, credential, ready, logVars, clocks>>
------------------------------------------------------------------------------
\* The steps of a call that is under way.
Step(t) ==
  \/ ApiVersion(t) \/ UniqueRequestId(t) \/ Telemetry(t) \/ Retry(t)
  \/ UseCachedToken(t) \/ RequestToken(t) \/ TokenReply(t) \/ AttachToken(t)
  \/ Logging(t) \/ LogResponse(t) \/ PassThrough(t)
  \/ Send(t) \/ SendFails(t) \/ Receive(t) \/ ConnectionLost(t) \/ EndOfReply(t)
  \/ Return(t)

Next ==
  \/ \E t \in Threads : Step(t)
  \/ \E t \in Threads, c \in Clients, op \in Operations : Call(t, c, op)
  \/ \E c \in Clients : InitClient(c)
  \/ \E registered \in Listeners : SetListener(registered)
  \/ \E classes \in Whitelists : SetClassifications(classes)
  \/ Tick

Spec == Init /\ [][Next]_vars

\* A thread that is in a call keeps running, and a connection gives an answer
\* or breaks.  Nothing makes an application call, or time pass.
FairSpec == Spec /\ \A t \in Threads : WF_vars(Step(t))
------------------------------------------------------------------------------
(***************************************************************************)
(* Properties.                                                             *)
(***************************************************************************)

\* Every variable has its type.
TypeOK ==
  /\ stage    \in [Threads -> Stage]
  /\ pos      \in [Threads -> [Frame -> 0 .. 9]]
  /\ \A t \in Threads : pos[t]["aad"] \in 0 .. 3
  /\ result   \in [Threads -> AzResults]
  /\ client   \in [Threads -> Clients \cup {NoClient}]
  /\ request  \in [Threads -> [Frame -> Request]]
  /\ response \in [Threads -> [Frame -> Response]]
  /\ logging  \in [Threads -> [Frame -> BOOLEAN]]
  /\ reply    \in [Threads -> [left: Nat, size: Nat, content: AadReply,
                               issuedAt: Nat]]
  /\ cachedAt \in [Threads -> Int]
  /\ credential \in [Credentials -> [scope: Scopes \cup {NoScope}, token: Token]]
  /\ ready \subseteq Clients
  /\ listener \in BOOLEAN /\ whitelist \in SUBSET LogClass
  /\ wall \in Nat /\ cpu \in Nat

\* The request of frame f of thread t is on the wire.
OnWire(t, f) == stage[t] = "wire" /\ Top(t) = f

IsAuthorization(header) == header.name = "authorization"

\* A request goes to a service with exactly one authorization header, and the
\* memory that header is a view of still holds, in its whole length and no
\* more, a granted token; the token request itself carries none (credential
\* policy before transport, and nothing refreshes a credential between the
\* two, az_credentials.c:40-57).
Authorized ==
  \A t \in Threads :
    /\ OnWire(t, "client") =>
         LET headers == request[t]["client"].headers.items
             token   == TokenOf(Cred(t))
         IN  /\ \E i \in DOMAIN headers :
                  /\ IsAuthorization(headers[i])
                  /\ headers[i].length = token.length
                  /\ \A j \in DOMAIN headers :
                       IsAuthorization(headers[j]) => j = i
             /\ token.length > 0
    /\ OnWire(t, "aad") =>
         \A i \in DOMAIN request[t]["aad"].headers.items :
           ~ IsAuthorization(request[t]["aad"].headers.items[i])

\* The token sent was issued for the scope of the client that is calling, when
\* no two clients of different scopes were given the same credential: setting
\* the scope (az_credentials.c:59-63) leaves a cached token in place.
RightScope ==
  \A t \in Threads :
    OnWire(t, "client") => TokenOf(Cred(t)).scope = ScopeOf[client[t]]

\* The call of thread t is about to return result[t] to the application.
Returning(t) == /\ stage[t] = "unwind" /\ Top(t) = "client"
                /\ ~ logging[t]["client"]

\* A call that returns AZ_OK hands over the whole reply of its own request and
\* the zero byte behind it: no part that did not fit, no lost connection and no
\* failure of the token request is reported as success.
NoTruncatedSuccess ==
  \A t \in Threads :
    Returning(t) /\ ~ Failed(result[t]) =>
      /\ reply[t].size > 0 /\ reply[t].left = 0
      /\ Cardinality({i \in DOMAIN response[t]["client"].data :
                        response[t]["client"].data[i] = "now"})
           = reply[t].size + 1

\* How long ago the thread decided to use the cached token, plus how long that
\* token was on its way from the service to the cache.
Delay(t) == (wall - cachedAt[t])
            + (TokenOf(Cred(t)).storedAt - TokenOf(Cred(t)).issuedAt)

\* "We'll assume the token expires 3 minutes prior to its actual expiration"
\* (az_aad.c:132): a cached token that was found good is still accepted by the
\* service when the request is on the wire, provided the delays on the way took
\* no more than those minutes.
CachedTokenAlive ==
  \A t \in Threads :
    OnWire(t, "client") /\ cachedAt[t] >= 0 /\ Delay(t) <= Margin =>
      wall <= TokenOf(Cred(t)).issuedAt + TokenOf(Cred(t)).lifetime

\* "reset p_response to be written from the start" (az_http_policy.c:98): what
\* a successful call hands over begins with its own reply.
ResponseWrittenFromStart ==
  \A t \in Threads :
    Returning(t) /\ ~ Failed(result[t]) =>
      response[t]["client"].data[1] = "now"

\* Every call returns: neither the two pipelines nor the refresh of a token
\* that is expired from the start can keep a thread for ever.
CallsReturn == \A t \in Threads : stage[t] # "idle" ~> stage[t] = "idle"
------------------------------------------------------------------------------
(***************************************************************************)
(* The pipeline implements AuthenticatedCall.                              *)
(***************************************************************************)

\* How far the call of thread t has come: an authorization header or a
\* decision on the token has been made, the transport has the request.
AbstractPhase(t) ==
  CASE stage[t] = "idle"                               -> "idle"
    [] stage[t] = "unwind" /\ Top(t) = "client"        ->
         IF Failed(result[t]) THEN "failed" ELSE "succeeded"
    [] OnWire(t, "client")                             -> "exchanging"
    [] stage[t] = "attach"                             -> "authenticated"
    [] stage[t] = "policy" /\ Top(t) = "client"
         /\ pos[t]["client"] > 5                       -> "authenticated"
    [] OTHER                                           -> "preparing"

\* A token that was granted.
GrantedToken == {token \in Token : token.length > 0}

Promise == INSTANCE AuthenticatedCall WITH
  Callers  <- Threads,
  Keepers  <- Credentials,
  Grants   <- GrantedToken,
  NoGrant  <- NoToken,
  NoKeeper <- NoClient,
  phase    <- [t \in Threads |-> AbstractPhase(t)],
  keeper   <- [t \in Threads |-> IF client[t] = NoClient THEN NoClient ELSE Cred(t)],
  kept     <- [k \in Credentials |-> TokenOf(k)]

\* The pipeline keeps the promise of AuthenticatedCall: one exchange per call,
\* only with a granted token, success only after it, the cached token replaced
\* only by a grant.
KeepsPromise == Promise!AbstractSpec
==============================================================================
