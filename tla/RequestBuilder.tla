--------------------------- MODULE RequestBuilder ---------------------------
(***************************************************************************)
(* A client operation building its request: az_http_request_init with the  *)
(* URL of the service, then any calls of append_path, set_query_parameter, *)
(* append_header and the two retry header functions, until one of them     *)
(* fails (the operation then returns that error) or the request is done.   *)
(***************************************************************************)
EXTENDS HttpRequest

CONSTANTS InitialUrls,   \* service URLs, as sequences of units
          Paths,         \* what append_path is called with
          Parameters,    \* pairs of name and value for set_query_parameter
          HeaderValues,  \* lengths of header values
          MaxUrl, MaxHeaders

ASSUME BuilderAssumption ==
  /\ InitialUrls \subseteq Seq(UrlUnit)
  /\ \A url \in InitialUrls : Len(url) <= MaxUrl
  /\ Paths \subseteq Seq(UrlUnit)
  /\ Parameters \subseteq Seq(UrlUnit) \X Seq(UrlUnit)
  /\ HeaderValues \subseteq Nat
  /\ MaxUrl \in Nat /\ MaxHeaders \in Nat

VARIABLES request,   \* the request under construction
          result,    \* result of the last operation
          path,      \* history: the URL up to the query, as the calls ask for it
          query,     \* history: the query, with its '?'
          marked     \* history: the headers when they were last marked

vars == <<request, result, path, query, marked>>

\* The two parts of a URL.
PathPart(url) ==
  IF "?" \in {url[i] : i \in DOMAIN url} THEN SubSeq(url, 1, QuestionMark(url))
  ELSE url
QueryPart(url) == SubSeq(url, Len(PathPart(url)) + 1, Len(url))

Init ==
  /\ \E url \in InitialUrls :
       /\ request = RequestInit([items |-> url, capacity |-> MaxUrl], MaxHeaders)
       /\ path = PathPart(url) /\ query = QueryPart(url)
  /\ result = "OK"
  /\ marked = <<>>

\* The operation's outcome becomes the state of the request.
Perform(outcome) == /\ ~ Failed(result)
                    /\ request' = outcome.object
                    /\ result' = outcome.result

AddPath(segment) ==
  /\ Perform(AppendPath(request, segment))
  /\ path' = path \o <<"/">> \o segment
  /\ UNCHANGED <<query, marked>>

AddParameter(name, value) ==
  /\ Perform(SetQueryParameter(request, name, value))
  /\ query' = query \o (IF query = <<>> THEN <<"?">> ELSE <<"&">>)
                \o name \o <<"=">> \o value
  /\ UNCHANGED <<path, marked>>

AddHeader(name, length) ==
  /\ Perform(AppendHeader(request, name, length))
  /\ UNCHANGED <<path, query, marked>>

Mark ==
  /\ Perform(Success(MarkRetryHeaders(request)))
  /\ marked' = request.headers.items
  /\ UNCHANGED <<path, query>>

Remove ==
  /\ Perform(Success(RemoveRetryHeaders(request)))
  /\ UNCHANGED <<path, query, marked>>

Next ==
  \/ \E segment \in Paths : AddPath(segment)
  \/ \E parameter \in Parameters : AddParameter(parameter[1], parameter[2])
  \/ \E name \in HeaderName, length \in HeaderValues : AddHeader(name, length)
  \/ Mark
  \/ Remove

Spec == Init /\ [][Next]_vars
------------------------------------------------------------------------------
\* "if url in request is http://example.net?qp=1 and this function is called
\* with path equals to test, then request url will be updated to
\* http://example.net/test?qp=1" (az_http_internal.h:119): paths and parameters
\* may be added in any order, the paths come before the query, the parameters
\* in it, each in the order of the calls.
UrlIsPathThenQuery ==
  ~ Failed(result) => request.url.items = path \o query

\* Removing the retry headers brings back the headers there were when they were
\* last marked, however many were added since and however often they were
\* removed and marked again (az_http_private.h:24-41).
RemoveRestoresMarked ==
  [][Remove => request'.headers.items = marked]_vars
=============================================================================
