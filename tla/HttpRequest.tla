----------------------------- MODULE HttpRequest -----------------------------
(***************************************************************************)
(* The HTTP request object (_az_http_request) and the operations clients   *)
(* and policies build it with.  The URL is a span of units: a delimiter or *)
(* one unit of a name, a value or a path.  A header is the pair of its     *)
(* name and the length of its value: the value itself is a view of memory  *)
(* that somebody else owns, as the request stores pointers.                *)
(***************************************************************************)
EXTENDS Integers, Span

CONSTANTS UrlUnit,      \* what a URL is made of, delimiters included
          HeaderName    \* names of headers; "" is the empty name

ASSUME HttpRequestAssumption ==
  /\ {"?", "&", "=", "/"} \subseteq UrlUnit
  /\ "authorization" \in HeaderName

Header == [name: HeaderName, length: Nat]

Request == [url: SpanOf(UrlUnit), queryStart: Nat, headers: SpanOf(Header),
            retryStart: Nat]

\* Index (from 0) of the first '?' of the URL, 0 if there is none: what
\* _az_scan_until leaves in query_start.
QuestionMark(units) ==
  IF \E i \in DOMAIN units : units[i] = "?"
  THEN (CHOOSE i \in DOMAIN units :
          units[i] = "?" /\ \A j \in 1 .. i - 1 : units[j] # "?") - 1
  ELSE 0

\* az_http_request_init
RequestInit(url, maxHeaders) ==
  [url |-> url, queryStart |-> QuestionMark(url.items),
   headers |-> EmptySpan(maxHeaders), retryStart |-> 0]

\* az_http_request_append_header
AppendHeader(request, name, length) ==
  IF ~ (name # "" \/ length > 0)
  THEN Failure("ERROR_ARG", request)
  ELSE LET appended == SpanAppend(request.headers,
                                  <<[name |-> name, length |-> length]>>)
       IN  [result |-> appended.result,
            object |-> [request EXCEPT !.headers = appended.object]]

\* Variant of MarkRetryHeaders: only the first mark counts.
MarkRetryHeadersOnce(request) ==
  IF request.retryStart > 0 THEN request
  ELSE [request EXCEPT !.retryStart = SpanLength(request.headers)]

\* _az_http_request_mark_retry_headers_start, in headers rather than bytes.
MarkRetryHeaders(request) ==
  [request EXCEPT !.retryStart = SpanLength(request.headers)]

\* _az_http_request_remove_retry_headers: the headers behind the mark go.
RemoveRetryHeaders(request) ==
  [request EXCEPT !.headers.items = SubSeq(@, 1, request.retryStart)]
------------------------------------------------------------------------------
(***************************************************************************)
(* The operations on the URL.  Both work in several steps on the URL and   *)
(* stop at the first step that does not fit, leaving what the former steps *)
(* wrote.                                                                  *)
(***************************************************************************)

\* One step of such an operation, unless an earlier one failed.
UrlAppend(outcome, items) ==
  IF Failed(outcome.result) THEN outcome
  ELSE LET appended == SpanAppend(outcome.object.url, items)
       IN  [result |-> appended.result,
            object |-> [outcome.object EXCEPT !.url = appended.object]]

\* The step that writes the delimiter before a parameter; when there was no
\* query yet, it starts after the '?' just written.
AppendDelimiter(request) ==
  IF request.queryStart # 0
  THEN UrlAppend(Success(request), <<"&">>)
  ELSE LET marked == UrlAppend(Success(request), <<"?">>)
       IN  IF Failed(marked.result) THEN marked
           ELSE Success([marked.object EXCEPT
                           !.queryStart = SpanLength(marked.object.url)])

\* az_http_request_set_query_parameter
SetQueryParameter(request, name, value) ==
  IF ~ (Len(name) > 0 /\ Len(value) > 0)
  THEN Failure("ERROR_ARG", request)
  ELSE UrlAppend(UrlAppend(UrlAppend(AppendDelimiter(request),
                                     name), <<"=">>), value)

\* Variant of AppendPath: query_start is not moved behind the new path.
AppendPathStaleQuery(request, path) ==
  LET hasQuery == request.queryStart > 0
      at == IF hasQuery THEN request.queryStart - 1 ELSE SpanLength(request.url)
      slash == SpanReplace(request.url, at, at, <<"/">>)
      whole == SpanReplace(slash.object, at + 1, at + 1, path)
  IN  CASE Failed(slash.result) -> Failure(slash.result, request)
        [] OTHER -> [result |-> whole.result,
                     object |-> [request EXCEPT !.url = whole.object]]

\* az_http_request_append_path: two insertions, "/" and the path, in front of
\* the query.
AppendPath(request, path) ==
  LET hasQuery == request.queryStart > 0
      at == IF hasQuery THEN request.queryStart - 1 ELSE SpanLength(request.url)
      slash == SpanReplace(request.url, at, at, <<"/">>)
      whole == SpanReplace(slash.object, at + 1, at + 1, path)
  IN  CASE Failed(slash.result) -> Failure(slash.result, request)
        [] OTHER ->
             [result |-> whole.result,
              object |-> [request EXCEPT
                            !.url = whole.object,
                            !.queryStart = IF hasQuery /\ ~ Failed(whole.result)
                                           THEN at + 1 + Len(path) + 1 ELSE @]]
==============================================================================
