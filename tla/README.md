# Verification of the Azure SDK for C

TLA+ models of the SDK's core (`sdk/core`), its KeyVault and Blobs clients and its curl
transport, model-checked with TLC on small instances and, where a theorem is stated, proved with
TLAPS for every value of the constants. All paths below are relative to `src/sdk`.

## 1. The system

The SDK is a library: it has no threads of its own, every operation runs to completion in the
thread of the application that calls it, and all memory is the caller's.

| component | state it keeps | operations | interacts with |
|---|---|---|---|
| spans (`core/core/src/az_span.c`) | pointer, length, capacity of a caller-owned buffer | append, copy, replace, slice, search, numbers, URL encoding | everything |
| result codes (`inc/az_result.h`) | none | first failure is returned (`AZ_RETURN_IF_FAILED`) | everything |
| request builder (`az_http_request.c`, `az_http_private.h`) | URL span, `query_start`, header span, retry mark | init, append_path, set_query_parameter, append_header, mark/remove retry headers | clients and policies write it, transport and log read it |
| pipeline and policies (`az_http_pipeline.c`, `az_http_policy.c`) | the C stack: which policies are running | process, nextpolicy, nine policies | call each other, the credential, the log, the transport |
| credential and token cache (`az_credentials.c`, `az_aad.c`) | scope, token buffer, its length and expiry | apply, set_scopes, request_token | starts a second pipeline inside the first |
| clock (`az_pal_clock_internal.h`) | process CPU time | `_az_pal_clock_msec` | token expiry, log |
| log (`az_log.c`) | process-wide listener, classifications | set_*, should_write, write, message builders | uses the parser of the response it logs |
| response parser (`az_http_response.c`) | remaining input, kind of the next element | get_status_line, get_next_header, get_body | application, log, token request |
| JSON parser, pointer, builder (`az_json_*.c`) | reader, nesting stack | parse_token, members, items, done, skip, get by pointer, build | token request, applications |
| curl transport (`transport_policies/curl`) | curl handle, header list | send_request, write and upload callbacks | last policy of a pipeline |
| clients (`keyvault`, `storage/blobs`) | options, pipeline of policies | init, create/get/delete key, upload | build requests, run the pipeline |

What is hard in this code, and what tests hardly reach:

* **Nesting.** A call may run the token request's pipeline in the middle of its own, with another
  request and response, and goes on afterwards with a credential that has changed.
* **Partial failure.** Every buffer is fixed; any append can be the one that does not fit, after
  earlier ones did.
* **Time.** A token is checked, then travels; the clock it is checked with is not the clock by which
  it dies.
* **Views.** Requests store pointers: an authorization header is a view of the credential's buffer.
* **Sharing without locks.** The log's settings are two variables that the application may write
  while calls are under way, and a credential may be in use by several threads ("TODO: thread sync").
* **Overlap.** A source may be a slice of the buffer that a function writes.
* **Words.** Numbers are read and written in words of 64 and 16 bits that wrap around.
* **Reads without a look at the length.** Both parsers read units they have not been promised; only
  the zero byte behind a reply stops them.
* **Memory in C.** The transport takes a handle, a list and a body, and libcurl keeps pointers to them.

`PROJECT.json` lists the hazards one by one, at their lines, with the properties aimed at them.

## 2. Modules

| module | models | state and actions |
|---|---|---|
| `AzResult`, `Span` | result codes; `az_span` as content and capacity | operators: an operation yields a result and an object |
| `SpanMemory` | `az_span.c` on bytes in memory | operators that yield the memory and the span they leave |
| `SpanWriting` | numbers, log messages, the URL and body of a token request, as appends one after another | operators that yield a sequence of pieces |
| `NumberReading` | `az_span_to_uint64` and the numbers of the JSON parser | one action per digit or sign; the state is the C locals, the history what the digits say |
| `SpanCalls` | calls of all these functions in any order | `mem`, `self`, `other`; one action per function |
| `SpanValue` | what the functions on spans promise, without pointers | content of the span, the last call; implemented by `SpanCalls` |
| `HttpRequest` | `_az_http_request` and its operations | operators, used by three of the state machines below |
| `RequestBuilder` | an operation building its request | `request`, `result`; one action per builder function; three history variables |
| `HttpPipeline` | a call from `az_http_pipeline_process` to its return | below |
| `SharedState` | a credential and the log's settings shared by threads without a lock | below |
| `AuthenticatedCall` | what a call promises, abstractly | phase of each caller, token each credential keeps; implemented by `HttpPipeline` |
| `ResponseReader` | the response parser, with the log and the application as its users | below |
| `ReplyReading` | what reading a well-formed response promises, in terms of its parts | `next`, `given`, `shown`; implemented by `ResponseReader` |
| `JsonText` | the operations of the JSON parser on a text | operators on a parser record (position, stack, last token) |
| `JsonCursor` | what an application has while it reads a JSON text | `text`, `events`, `at`, `stack` and `Now`, the parser they are |
| `JsonParser` | an application reading a JSON text by any calls | extends `JsonCursor`; below |
| `JsonGrammar` | reference: which texts are JSON, and the path to a place in one | operators written from the grammar, not from the parser |
| `JsonReading` | what reading a JSON document promises, in terms of its events | `document`, `next`, `shown`; implemented by `JsonParser` |
| `JsonPointer` | `az_json_parse_by_pointer` | extends `JsonCursor`; one action per step of the search |
| `JsonBuilder` | the operations of the builder | operators on a builder record |
| `JsonBuilding`, `JsonReadBack` | an application building a document; reading a text back with the parser | `builder` and history: what was appended |
| `Clients` | the four client operations up to the pipeline | `uri`, `ready`, `asked`, `sent`; one action per operation |
| `CurlTransport` | one `send_request` after the other | one action per step of the setting up, per callback and per step of the way back |
| `...Proofs` | the theorems about the module they are named after; `JsonProofs` is about parser, lookup and building, `RequestProofs` about `RequestBuilder` and `Clients`, `SpanCallsProofs` about `NumberReading` and `SpanCalls` | |
| `MC...`, `JsonDocuments` | values of the constants for TLC | |

Composition: `Clients` ends where `HttpPipeline` begins, with a built request. `HttpPipeline` sees the
transport as `Send` ... `EndOfReply` and the response as parts; `CurlTransport` and `ResponseReader`
have the detail of each, and `JsonPointer` that of the reading in `ReadGrant`. `SharedState` takes apart
three things that are one step each in `HttpPipeline`: the copy of a token, the header that points to it
until the transport reads it, and the two variables of the log. `Clients` runs `HttpRequest`, `JsonBuilder`
and, for its property, `JsonText`. `SpanCalls` runs `SpanWriting` and `NumberReading`; what it is shown to
implement, that an append changes the content by the whole of its source or not at all, is what `Span` says
and every other module builds on.

**`Span`.** A span is the record of its items in use and its capacity. Items are whatever the span
holds: units of a URL, whole headers, bytes. `SpanAppend` and `SpanReplace` return the pair of the
result and the span as it is then, unchanged on failure.

**`SpanMemory`, `SpanWriting`, `SpanCalls`.** Memory is a function from the addresses 1, 2, ... to bytes, and 0
is the null pointer; a span is a pointer, a length and a capacity. The functions move bytes as the code
does: `memmove` where the code calls it, byte by byte and in the code's order where it loops, so that a
source which overlaps what is written is read as the code reads it. A text that is put together by several
appends is a sequence of pieces (`AppendPieces`), each with its own check of the room; what has been
appended when one does not fit stays. Digits of a number are pieces, and so are the parts of a log message
and of a token request. In `SpanCalls` there is a buffer with bytes of other use around it, a text
elsewhere, and the text may also be a slice of the buffer (`CallSlice`). What is encoded for a URL is clear of
the part it is written to (`SourceClear`, see "What the promises leave out"). Fractions of a double are not
implemented in the code; the model has the error and the minus sign that may stand there before it.

**`NumberReading`.** The phases are the loops of the two readers. `n` is what the reader keeps, in words that
wrap around (`MaxWord`, `HalfExp`); `said` is the number that stands in the text, without any bound. The sign
of a JSON number is read and not kept (`core/core/src/az_json_parser.c:160`): it belongs to the product of doubles,
which is left out (section 5).

**`HttpRequest`.** URLs are sequences of units: the delimiters `? & = /` and opaque units. What the
operations write before they fail is kept in the returned object, as in the code, where
`set_query_parameter` and `append_path` work in several steps. `query_start` is kept exactly as the
code computes it: the index of `?` when set by `az_http_request_init`, the index behind it when set
by the other two.

**`HttpPipeline`.** What runs in a thread is a stack of process functions. `pos[t][f]` is the index of
the innermost policy of frame `f` ("client", and "aad" for the token request on top of it), `stage[t]`
says whether that policy is called (`policy`), has a result to pass up (`unwind`), whether the
credential policy has settled the token (`attach`) or the transport is receiving (`wire`). An error
unwinds the whole pipeline in one step, because every policy but the logging policy returns what it
got, and the logging policy's work on the way back is `LogResponse`. The response is the sequence of
parts written into it, each from this call (`now`) or an earlier one (`earlier`), with the kind its
parser reads next. A token is its length, its expiry by `clock()` and, as history, what the checks of
its freshness need: when it was issued, stored, for which scope and for how long.

Actions: `InitClient`, `Call`, `Return` (the application), `SetListener`, `SetClassifications` (the
log), `Tick` (time), `ApiVersion`, `UniqueRequestId`, `Telemetry`, `Retry`, `PassThrough`
(`bufferresponse` and `distributedtracing`), `UseCachedToken`, `RequestToken`, `TokenReply`,
`AttachToken` (the credential policy), `Logging`, `LogResponse`, and `Send`, `SendFails`, `Receive`,
`ConnectionLost`, `EndOfReply` (the transport).

Atomicity: calls in one thread are sequential, and what two threads share is the log settings, so a
policy is one step; a step reads the shared settings once. `SharedState` has the reads one by one, and
threads that share a credential, which `HttpPipeline` excludes (`CredentialsPerThread`).

**`SharedState`.** One read or one write of a shared variable is a step. The token is a struct whose parts are
copied one at a time in any order (`Store`), the length goes into the header when it is attached
(`ReadLength`), the bytes are read when the transport builds its headers (`Send`). A race is undefined
behaviour; the model lets every read see the last write and lets stores that do not depend on each other
come in any order. A null pointer that is called, and a read outside of a list of classifications, are
the step to `fault`. What a thread met with is history: `raced`, `alone`, `stored`, `given`, `taken`.
The token request is one step (`Granted`, `NotGranted`); the reads of the log's settings by its own pipeline are
left out, as they are made by the routine whose reads are modelled in the pipeline of the call.

**`ResponseReader`.** A text is a sequence of units (`HTTP/`, `digit`, `CR`, `LF`, `:`, blanks, others)
and the parser is a position in it with the kind of what comes next. A read without a look at the
length, behind the end, gives the outcome `READ_BEHIND`. The log's message builder and `get_body`
read headers in loops; a pass of a loop is a step (`LogHeader`, `SkipHeader`), and `user` says who is
in it. `LogResponse` may come first, with the same parser, and leaves the application what it left.
For a well-formed response the parts it was put together from are history (`parts`); `Consists` says,
without the parser's operators, what it means that they are those of the text. What the exchange gave is
history, too (`returned`): the transport puts a zero byte behind the reply only when it has succeeded
(`Terminated`, `SuccessTerminates`; `transport_policies/curl/src/az_curl.c:489`), and the log reads what
there is however it ended (`core/core/src/az_http_policy.c:134`).

**`JsonText`, `JsonParser`.** Units are the structural characters, `quote`, `scalar` (a number or a
literal), `part` (the beginning of one, which is no token), `escape` (a whole escape sequence), white
space, and the zero byte. The nesting stack is the integer of the code: a leading 1, then a bit per
container, in a word whose top bit is the constant `Top`. `skip_children` is a loop of `SkipPass`.
The parser takes a comma in front of a closing bracket; so does the grammar it is checked against.

**`JsonPointer`.** `Moved` and the actions of `SearchNext` follow `az_json_parse_by_pointer`: parse the root, take a
token of the pointer, walk over the items or members, skipping the children of those not meant.
`IsNamed` compares a name through both escapings (`~0`, `~1`; the escapes of JSON strings). An index
is compared by its number, so that leading zeros are taken, as the code takes them.

**`JsonBuilder`, `JsonBuilding`.** The builder is the text, the flag for the comma and the last result.
The application opens and closes containers as they nest and may go on after a failure.

**`Clients`.** A call copies the URI that was given, appends paths, body and headers, each of which may not
fit, and hands the request to the pipeline (`sent`) or returns (`returned`). The arrays of the options of a key
end at their first empty span (`NoOperation`, `NoTag`).

**`CurlTransport`.** `at` is the step of the call, `handle` what the handle has been told, `owned` the
memory the call holds, `lost` what nothing points to any more. `UploadBody` is the read callback with
any room, `Receive` the write callback with any part. Everything libcurl does is taken from how
`az_curl.c` uses it (`PostBody`, `ReplyComplete` are marked external).

## 3. What is checked

| run | instance | properties |
|---|---|---|
| `pipeline_calls` | one thread, two clients with a credential each, every policy and both exchanges able to fail, the log reconfigured meanwhile | `TypeOK`, `Authorized`, `RightScope`, `NoTruncatedSuccess`, `KeepsPromise` (refinement of `AuthenticatedCall`) |
| `pipeline_clock` | lifetimes 1..5 around a margin of 2, seven ticks, `clock()` counting real time; a second client whose token request does not fit its buffers; fairness | `CachedTokenAlive`, `CallsReturn` |
| `request_build` | every order of path, query, header, mark and remove calls, in buffers that fill up | `UrlIsPathThenQuery`, `RemoveRestoresMarked` |
| `response_read` | well-formed responses of up to two headers, with a zero byte and without; responses with bad status lines and bad headers, cut off anywhere in front of the zero byte; what failed exchanges leave of all of these, without one; fairness | `TypeOK`, `ReadsOnlyResponse`, `GivesParts` (refinement of `ReplyReading`), `LoopsEnd` |
| `json_parser` | all documents of up to five events in four spellings; texts damaged in one place, one of them in two, or cut off | `TypeOK`, `ReadsOnlyText`, `StackIsPath`, `DoneMeansJson`, `GivesDocument` (refinement of `JsonReading`), `NestingLimit`, `SkipAdvances` |
| `json_lookup` | documents of up to seven events and damaged texts, each with 41 pointers, faulty ones among them | `FindsValue`, `StandsAtDepth`, `SearchStaysInText`, `SearchAdvances` |
| `json_build` | up to six calls, buffers of 0 to 8 units and of 50; kinds, names and texts are compared | `CanBeClosed`, `ReadsBack` |
| `client_requests` | four operations, two types of key, every combination of options, tags of equal and of different values, URLs up to one unit too long; names and texts are compared | `BodyIsMeant`, `UrlIsMeant`, `RefusesOnlyTooLong` |
| `curl_exchange` | every method, 0 to 2 headers, bodies of 0, 1 and 4 bytes, every step able to fail | `PointsToLive`, `SendsWhole`, `UploadsInOrder`, `GivesWholeReply`, `FreesHandleAndBody` |
| `span_calls` | two calls in rooms of 3 and 5 bytes, three in one of 8, one call in every room from 3 to 44, sources inside and outside of the buffer; thousands of texts read as numbers | `ReadsExactly`, `RefusesOnlyTooLarge`, `KeepsPromise` (refinement of `SpanValue`), `WritesOnlyRoom` |
| `shared_state` | two threads with one credential and tokens of three sizes; or one thread that logs while the settings change | `WholeUnlessRaced`, `LogNeverFaults` |
| `pipeline_reuse` | the response of one call given to the next | `ResponseWrittenFromStart` **violated** |

`pipeline_reuse` is a disagreement between the code and what its comments say: the retry policy keeps the
length of the response it means to "reset ... to be written from the start"
(`core/core/src/az_http_policy.c:98`). Three more can be reproduced:

* `Response_read.cfg` (module `MCResponseReader`) with `LogIsAnswered` added to its properties: TLC violates it. A header
  line does not fit, the exchange fails, and the log, which reads the response of a failed exchange as well
  (`core/core/src/az_http_policy.c:134`), asks for the header behind the last whole line. No zero byte is there,
  because the transport appends it only when the exchange has succeeded
  (`transport_policies/curl/src/az_curl.c:489`), and `get_next_header` looks at the first unit behind the response
  (`core/core/src/az_http_response.c:140`), against "AZ_ERROR_ITEM_NOT_FOUND = No more headers"
  (`core/core/inc/az_http.h:323`). A reply of a status line and nothing else is enough.
* `Pipeline_cputime.cfg` (module `MCHttpPipeline`) violates `CachedTokenAlive`: `clock()` is CPU time on
  POSIX systems, so a process that waits uses a token long after it died
  (`core/core/internal/az_pal_clock_internal.h:17`, against "We'll assume the token expires 3 minutes prior
  to its actual expiration", `core/core/src/az_aad.c:132`).
* `Request_query.cfg` (module `MCRequestBuilder`) violates `UrlIsPathThenQuery`: `append_path` on a URL that
  has a query from the start inserts one position too early (`core/core/src/az_http_request.c:56`, against
  `core/core/internal/az_http_internal.h:119`).

The runs that pass have the same code. They keep clear of three of the disagreements by a named constant:
`ClockIsWall`, `ReuseResponse`, `InitialUrls`. `response_read` has the fourth in it: the model stops where the parser
reads behind a response, and `ReadsOnlyResponse` says after which exchanges it does not. Further disagreements
that modelling brought up have no run of their own: the models have the behaviour of the code.

* Logging a response moves the parser the application will use (`core/core/src/az_log.c:149`), so
  that `get_next_header` works before the status line was asked for, against `core/core/inc/az_http.h:317`.
* `append_header` takes an empty name or an empty value (`core/core/src/az_http_request.c:116`,
  against `core/core/internal/az_http_internal.h:163`).
* Behind an unreadable header `get_body` returns the rest of the headers with `AZ_OK`
  (`core/core/src/az_http_response.c:224`, against `core/core/inc/az_http.h:338`).
* The list of headers of the transport is never freed (`transport_policies/curl/src/az_curl.c:380`):
  `FreesHandleAndBody` says that nothing else is lost.
* The exponent of a JSON number wraps around in 16 bits (`core/core/src/az_json_parser.c:227`):
  `ReadsExactly` says that it is right but for multiples of 2^16.
* The texts of tags are not escaped (`keyvault/keyvault/src/az_keyvault_client.c:208`): `BodyIsMeant`
  is checked with texts that need no escape.

**Bounds and why they are enough.**

* Pipeline: `MaxHeaders` = 4 and `MaxUrl` = 5 with 0 to 2 headers of the operation's own: one of the
  appends of api version, request id, user agent and authorization is the one that fails, or all fit.
  `ResponseRoom` = 2 and replies of 1 to 3 parts: the reply and the zero byte fit, the zero byte does
  not, a part does not. `AadReplies` has a reply that fails at each check of `_az_aad_request_token`
  and good ones of several lifetimes. `MaxClock` bounds real time: seven ticks let a token be granted,
  used, expire and be renewed. TLC has one thread; the theorem `AlwaysAuthorized` has any number.
* `RequestBuilder`: 11 units of URL hold two calls, and each step of a third can fail; two headers.
* `ResponseReader`: two headers are the fewest with an order; `MaxLines` = 3 is more than a response
  has, so that a log that stays at one header is seen to fill its message. What a failed exchange leaves
  (`Beginnings`) ends behind a line or anywhere in the body, because libcurl hands headers on line by line.
* JSON: `Top` = 4 (two levels of nesting) in `json_parser` and 8 in `json_lookup`, so that texts of a few units
  reach the limit that takes 64 levels in the code. Five events hold a container in a container with
  something behind it; a text damaged in one place meets every guard of the parser.
* `JsonBuilding`: every buffer below the length of a short document makes another append fail.
* `Clients`: `UrlCapacity` = 10 and `BodyCapacity` = 50 lie between the shortest and the longest
  request; `HeaderCount` = 3 is what an upload needs. Two tags with different values show which value
  stands with which name. Whether a key is to be enabled is one unit, true or false.
* `span_calls`: words of three digits (`MaxWord` = 1023) and numbers of two (`MaxNumber` = 99) with an
  exponent of -16 to 15, against texts of up to five digits and exponents of up to two: every word wraps
  around, and the last digit that fits is the largest, or one too many. `ValueMax` = 8, `StringMax` = 4.
  Two calls in rooms of 3 and 5 bytes let a function find what another has left, with a slice of it for
  its source; in three calls the text is made a slice of the buffer, the content is replaced by less, and the slice,
  now behind the content, is what the third call appends. A log message and a token request, which are longer
  than that, meet every room up to 44, in which the longest fits.
* `shared_state`: `Room` = 3 and tokens of 2, 1 and 3 parts: the token that overwrites another is shorter or
  longer. Two threads, three grants and three ticks let a token expire under a thread that has attached
  it. Lists of classifications of equal and of different lengths, and none.
* `CurlTransport`: `MaxRoom` = 3 is smaller than a body of 4, so that an upload takes several parts of which
  the last is short; `Capacity` = 4 is below, at and above what replies of up to 6 bytes and their zero need.

**Fairness.** `HttpPipeline`: `WF_vars(Step(t))`, a thread in a call keeps running, and a connection gives an
answer or breaks (curl's own timeouts). `ResponseReader`: weak fairness of the loops' passes, which
run in one thread without waiting. None on the application, the log's setters or time. The loops of
JSON are shown to end without fairness, by what gets ahead at every pass (`SkipAdvances`,
`SearchAdvances`).

**Deadlock** is checked in the runs whose systems go on for ever: pipeline, clients, transport. It is off
where the system stops: building a request ends with the first failure, a lookup with its answer, a reading
of a response or of JSON with a read behind an unterminated text, a building and `span_calls` with their last call,
`shared_state` with a fault or when nobody calls any more.

**What the promises leave out.** `ReadsOnlyResponse` is about responses with a zero byte at the end, which are those
of every exchange that has succeeded: behind a failed one the log may read further (`LogIsAnswered`, section 3), and so would an
application that parses the response in spite of the error. `GivesParts` needs no zero byte, but a reply that is
whole. `ReadsBack` and `BodyIsMeant` compare kinds, names and texts; of a number, of true and false, and of an escape
sequence there is one unit, so that they do not tell which one it was. `SpanValue` promises nothing of the content where `az_span_replace` is given a
source inside the part it overwrites. Encoding for URLs is not called with such a source at all:
`az_span_copy_url_encode` counts the length of what it will write, compares it with the room, and reads the
source a second time while it writes (`core/core/src/az_span.c:114`). Where writing changes the source, what is
written may be longer than what was counted, and end behind the room. Nothing in the code rules this out; its
callers in `az_aad.c` encode texts that stand elsewhere, and so do the calls of the model (`SourceClear` in
`CallEncode`, `TokenUrl` and `TokenBody`). It takes three calls to get there, and it was the proof of
`WritesOnlyRoom` that asked for the condition. `WholeUnlessRaced` says where a credential
without a lock does no harm: as long as no other thread copies a token between the attaching of a
header and the building of the request, and no two threads copy at once. `LogNeverFaults` needs both of its
exceptions: with a listener taken away, or with lists of different lengths, TLC finds the fault.

## 4. What is proved

All theorems hold for every value of the constants that the named assumptions allow; TLC evaluates
the assumptions in every run of the module.

**`SpanProofs`** states what the operations on spans do: `SpanAppendFacts`, `SpanReplaceFacts` (a span never
exceeds its capacity; a failure changes nothing). `HttpPipelineProofs` begins with the same for requests:
`AppendHeaderFacts` (one header more, behind the others, or no change) and `SetQueryParameterFacts` (still a
request, headers untouched, wherever it fails).

**`HttpPipelineProofs`**, for every set of threads, clients and credentials, every size of the buffers and every
reply. `TypeCorrect` (`Spec => []TypeOK`) and `AlwaysAuthorized` (`Spec => []Authorized`) follow from one
inductive invariant, `IInv`. `Authorized` only speaks of the moment a request is on the wire and is not
inductive: nothing in it says how the header got there. `IInv` adds

* `Stacked(t)`: which frames a thread can have. A token request only runs on top of the credential
  policy, and only a transport policy is on the wire;
* `Attached(t)`: up to the credential policy the client's request has no authorization header, behind
  it exactly one, as long as the credential's token is now; the token request never has one;
* `GrantedIfFresh`: a credential without a token is expired, so that what `UseCachedToken` takes for
  good was granted.

Three more theorems stand on `IInv`, each with an invariant of its own:

* `SuccessIsWhole` (`NoTruncatedSuccess`) from `Whole(t)`: nothing of this call is in the response before the
  exchange, during it the parts received and those left make up the reply, and on the way back a call
  without an error has all of it and the zero byte. The steps in between share the lemma `MovesOnward`.
* `ScopeIsRight` (`RightScope`) from `Scoped`: a credential has the scope of the clients initialised with it, and
  so has a token in it. It has the hypothesis `ScopesAgree`, that clients which share a credential agree
  on the scope; without it `RightScope` fails, because setting a scope leaves the cached token in place.
* `CachedTokenIsAlive` (`CachedTokenAlive`) from `Dated`: the clock shows real time, a token expires its lifetime
  less the margin after it was stored, and a cached token was found good before that. It has the hypothesis
  `ClockIsWall`.

For `IInv` there is one lemma per action, resting on four lemmas for what many actions share: `NextPolicyMoves`,
`UnwindMoves`, `MoveKeepsAttached`, `StandStep`. The step that could disturb another thread is `TokenReply`,
which rewrites a token; `OtherCredentials` shows that a thread which has attached its header uses
another credential. Assumptions: `PipelineAssumption` gives the constants their types and says that an
operation's own URL and headers fit; `CredentialsPerThread` says that threads do not share a
credential, which the code leaves unsynchronised ("TODO: thread sync",
`core/core/src/az_aad.c:21`); `HttpRequestAssumption` names the delimiters and the authorization header.

`ImplementsAuthenticatedCall` is the refinement: `Spec => KeepsPromise`. The initial state maps to an initial state
(`PhaseFacts` says what the stack of a thread is to the abstract caller), and for each action there is a lemma that
it is a step of `AuthenticatedCall` or leaves `phase`, `keeper` and `kept` alone (`Passes`). Most policies stutter; what needs `IInv` is that a call is
authenticated only with a granted token in its credential (`GrantedIfFresh`), that an exchange ends in the frame
it began in (`Stacked`), and that no other caller keeps the token that `TokenReply` replaces.

**`SharedStateProofs`**: `UnracedIsWhole` (`WholeUnlessRaced`) and `SteadyLogIsSafe` (`LogNeverFaults`), for every number
of threads, every size of tokens and every list of classifications (`SharedStateAssumption`). A token is copied in
parts in any order, so the invariant speaks of copies that are half done: `Copied` (a thread that copies
alone has in the credential the parts it is through with), `StoredLast` (while nobody copies, the credential
holds the last grant, if that was copied alone), `Unraced` (while a header's credential is left alone, the units already
sent are that grant's). For the log, `Relies` says what a thread has seen of the two variables and may count on: that the
listener is there, that the list it counts over was given and is as long as any other.

**`RequestProofs`**: `PathsThenQuery` (`UrlIsPathThenQuery`) and `RemovingRestores` (`RemoveRestoresMarked`), for all
buffers, paths, parameters and headers. The first has the hypothesis `StartsWithoutQuery`, which the run
has too and without which the code fails (section 3). Its invariant is `Built`: the URL is the initial one with its paths,
followed by the query, and `query_start` is the index behind the question mark, or 0 while there is none
(`HasParts`, `StartOf`). Each operation on a request has a lemma that says so of its own appends and
replacements (`AppendDelimiterParts` and its neighbours), wherever one of them fails. The second stands on `Kept`: the
headers that were there at the mark are a beginning of those that are there now.

The same module proves two of the properties of `Clients`, for all URIs, options, texts and sizes of the buffers:
`RequestedUrlIsMeant` (`UrlIsMeant`) and `OnlyTooLongRefused` (`RefusesOnlyTooLong`). `Serves` says what a request
is after each of its paths and headers, as long as they fit, and `Measured` how long the body is after each of its
appends; a failure is traced to the append that met the end of its buffer, and so to a URL or a body longer than
the buffer. The length of a list of options is a recursive function, unfolded with `NatRecursion` and `UpTo` of
`SpanProofs`. `ClientsAssumption` says that a URI has no query of its own, that a request has room for three headers
(ten in `core/core/inc/az_config.h:23`), that arrays end at their first empty span and that the size of a blob has
at most ten digits.

**`CurlTransportProofs`**: `HandlePointsToLive`, `OnlyWholeRequestsSent`, `UploadInOrder`, `ReplyIsWhole` and
`HandleAndBodyFreed`, the five properties of `curl_exchange`, for every set of requests, every room for the
reply and every size of what libcurl hands to the callbacks (`CurlTransportAssumption`). One inductive
invariant carries all five: what the handle has been told when a step is reached (`Prepared`), that it points
to what the call still owns (`Kept`), that what was sent and what is left are the body (`Uploading`), and that
the response is a beginning of the reply, all of it while nothing failed (`Replying`).

**`SpanCallsProofs`** begins with the readers of numbers: `NumbersReadExactly` (`ReadsExactly`) and `OnlyTooLargeRefused` (`RefusesOnlyTooLarge`),
for every text and words of every size (`NumberAssumption`: the limit of a JSON number ends in 9, as
10^18 - 1 does, and fits a word). The invariant relates what the reader keeps to what the digits say:
`WordInv` (an unsigned number that was not refused did not wrap around), `ValueInv` and `RemainderInv` (a JSON
number is cut off behind the digits that fit, and knows whether it lost something) and `ExponentInv` (the
exponent makes up for it, modulo the word it is kept in). `SlicesReadExactly` and `SlicesRefusedOnlyTooLarge` are the
same two properties for the system that `span_calls` checks, in which readers and writers share the buffer.

`OnlyRoomWritten` (`WritesOnlyRoom`): whatever is called in whatever order, no byte outside of the buffer changes, for
every buffer and text, however they overlap after slices were taken. The invariant is `SpansPlaced` (both
spans lie in the memory, with their lengths within their capacities), and what a function may do is `Outcomes`: it
changes the memory only in the room of its span, keeps pointer and capacity, and leaves a length within the
capacity. `OutcomeOfBoth` composes two of them, and so a failure halfway is covered as well. Moves and
loops are shown byte by byte; `AppendPiecesFacts` is an induction over the pieces of a text with `NatRecursion`; the
digits of a number go down the powers of ten (`HigherPower`, `PowersRecursion`, `PowersInduction`). `UrlEncodeFacts`
is the one that needs its source to stand elsewhere: only then is the length counted the length written. Assumptions:
`SpanCallsAssumption` (contents are bytes and fit their room, numbers have as many digits as there are powers of ten)
and `WritingAssumption`.

**`ResponseReaderProofs`**: `ReaderTypeCorrect`, for every text, also what a failed exchange has left, and every order of
reading; and `NeverReadsBehind` (`ReadsOnlyResponse`), for every text, however damaged in front of its zero byte. That
there is such a byte is not assumed of every response: `SuccessTerminates` says it of those of exchanges that
have succeeded, which is what `ReplyIsWhole` of `CurlTransportProofs` shows of the transport. The invariant that
carries it says that a parser which expects a header has not passed that byte. `ImplementsReplyReading`
(`GivesParts`): for every well-formed response, with a zero byte or without, of any number of headers and any
length, and every order in which log and application read, each step of the parser
is a step of `ReplyReading` or none. The assumption is `KnownParts`, that parts which are known are those
of the text (`Consists`); the configuration puts texts together from parts and TLC checks that they satisfy it. The
invariant is `PlaceInv`: whoever reads and whatever was read before, a parser that expects a header stands at the
beginning of one or at the blank line, and one that expects the body at its beginning; `get_body` only
skips while headers are expected. `StatusLineIsRead` and `HeaderIsRead` say what the searches of the code find in such a
place, and `HeadersPassed` that the position alone tells how many headers were given.

**`JsonProofs`** begins with the lemmas on one operation: from a sound parser it leaves a sound one (position within the
text, stack within its word), reads nothing behind a text that ends with a zero byte, and, for the pass of
a loop, either gets ahead or ends it. They are lifted to `ParserTypeCorrect`, `ParserReadsOnlyText` and
`SkippingAdvances`, and for lookups to `SearchReadsOnlyText` and `SearchGetsAhead`, for every text, every pointer and
every width of the stack's word. `SkippingAdvances` and `SearchGetsAhead` are the variants by which
the loops end: a position in a finite text grows at every pass.

`StackHoldsPath` (`StackIsPath`) and `DoneIsJson` (`DoneMeansJson`) say that the parser agrees with the grammar, for every
text, every order of calls and every width of the word. `JsonGrammar` is written by recursion over a text and its tokens
and knows no parser. An induction theorem cannot be cited here (it takes an operator as a parameter), so
`SpanProofs` proves two facts about sets and functions instead: `UpTo` (a set with 0 that goes on up to n holds all
of 0 .. n, from the least element of what is missing) and `NatRecursion` (a function defined by recursion up to n
exists). With them each recursive function is unfolded once (`LexedUnfolds`, `OpenInUnfolds`, `PathUnfolds`) and read
unit by unit (`ReadUnit`). What a container is *complete* with is split into what it *waits* for (`Awaits`: a name, a
colon, a value, or what comes behind one); `TakeToken`, `TakeOpening` and `TakeClosing` say what the awaited token makes
of the containers that are open. The invariant is `PlaceInv`: while no call has failed the parser stands in one of
four places (`AtItem`, `AtEnd`, `AtTop`, `AtLast`), in each of which the stack is the path and the outer containers wait
for a value. `StackIsPath` alone is not inductive: it does not say that the closing bracket a call finds
ends a container that may end there.

`FoundAtDepth` (`StandsAtDepth`) carries this over to lookups: what a pointer leads to is as deep in the text as the
pointer has tokens, for every text, well-formed or not, and every pointer. Each call is shown to walk by at most one
container (`Walks`: over a value, into one, or out of one). The invariant is `DepthInv`: the lookup keeps the depth in
step with the tokens followed (`Before`), and while it skips, it is somewhere inside of a container (`home`) that is
open there with the stack that `skip_children` waits for. That the wait ends at this container and at no
deeper one is `AbovePath`: a path is longer than that of what it is inside of, so two of them are never the same
number.

`BuiltTextCanBeClosed` (`CanBeClosed`) does the same for the builder: as long as no call has failed, the closing brackets
of the containers that are open make a JSON text of what has been written, for every order of calls, every
token and every size of the buffer. What a call appends is read token by token by the lemmas on the grammar, and the
builder's flag for the comma is shown to say what the innermost container waits for; this is the invariant
`BuildInv`, with `Stands` for a text that has been begun. `JsonBuildingAssumption` says that names, and texts given as
JSON strings, hold no quotation mark and no control character, as they are written as they are
(`core/core/inc/az_json.h:30`).

Only model-checked: two of the refinements (`KeepsPromise` of the spans and
`GivesDocument`); `NestingLimit`, which needs powers of two, of which the provers know nothing; which
value a lookup finds (`FindsValue`; it and `GivesDocument` compare with the events that a document was put together
from, which the configurations give and no assumption relates to the text); that a built text reads back as what was appended (`ReadsBack`) and that the body of a
key is the JSON that was meant (`BodyIsMeant`), both of which run the parser over what the builder wrote, two
recursions that the proofs above follow one at a time; and liveness under fairness (`CallsReturn`, `LoopsEnd`), which is out of the prover's reach.

## 5. What is not modelled, and the plan

Not modelled: wording (reason phrases, the words of log messages behind their first ones), the characters of an
escape sequence in JSON, the product of doubles at the end of a JSON number and the cast of a lifetime that
no integer holds (`core/core/src/az_aad.c:134`, undefined behaviour), interim replies (100 Continue), the
lifetime of an application's own variables, which policies and log keep pointers to
(`keyvault/keyvault/src/az_keyvault_client.c:101`), `_az_token_get`, which nothing calls,
`az_span_builder.c` and `az_json_data.c` (no build file names them), samples, tests and build files.

Next, most important first:

1. Theorems: `ReadsBack` and `BodyIsMeant`, on the lemmas of `JsonProofs` about parser and builder; the refinement
   by the spans, for which the outcomes of `SpanCallsProofs` have to say what the content is, and not only where
   it is.
2. In `HttpPipeline`, one credential shared by clients of different scopes, with the property that then
   holds: a token has the scope that was set when it was asked for.
