---------------------------- MODULE CurlTransport ----------------------------
(***************************************************************************)
(* The transport over libcurl (az_curl.c): one call of                     *)
(* _az_http_client_curl_send_request after the other, step by step, with   *)
(* the memory each step takes and gives back and with the callbacks that   *)
(* libcurl makes during the exchange.  Any step that needs memory or sets  *)
(* an option can fail; the process then goes back through what the code    *)
(* releases on that path.                                                  *)
(*                                                                         *)
(* A buffer that is taken and given back in one function, on all of its    *)
(* paths (the text of a header, the URL), only shows as a step that can    *)
(* fail.  The bytes of a body are 1, 2, ... in their order, those of a     *)
(* reply too; 0 is the zero byte.                                          *)
(***************************************************************************)
EXTENDS Integers, FiniteSets, Span

CONSTANTS Requests,   \* the requests: method, number of headers, length of the body
          Capacity,   \* room for a reply
          MaxRoom,    \* largest buffer libcurl hands to the read callback
          MaxPart,    \* largest part of a reply libcurl hands to the write callback
          MaxReply    \* longest reply

Methods == {"GET", "POST", "DELETE", "PUT", "OTHER"}

ASSUME CurlTransportAssumption ==
  /\ Requests \subseteq [method: Methods, headers: Nat, size: Nat]
  /\ Requests # {}
  /\ Capacity \in Nat /\ MaxRoom \in Nat /\ MaxPart \in Nat /\ MaxReply \in Nat

VARIABLES at,        \* the step the call is at; "idle" between calls
          request,   \* the request of the call
          list,      \* number of headers in the curl_slist
          handle,    \* what the handle has been told
          owned,     \* memory the call has taken and not given back
          lost,      \* memory that no variable of the transport points to any more
          toSend,    \* rest of the body, a local of the upload
          received,  \* the bytes of the body that the service has received
          said,      \* how much of its reply the service has sent
          response,  \* the caller's span for the reply
          result     \* the result so far

vars == <<at, request, list, handle, owned, lost, toSend, received, said,
          response, result>>

\* Where a call can be.
Places == {"idle", "headers", "url", "redirect", "method", "transfer",
           "body sent", "reply read", "cleanup"}

\* What a call can own: the handle, the list of headers, the zero-terminated
\* body of a POST.
Memory == {"handle", "list", "body"}

\* The handle points to memory of the transport for the headers and for the
\* body of a POST: libcurl copies neither.
NewHandle == [headers |-> FALSE, url |-> FALSE, redirected |-> FALSE,
              method |-> "GET", points |-> {}]

\* The first n bytes of a body or of a reply.
Bytes(n) == [i \in 1 .. n |-> i]

Init ==
  /\ at = "idle" /\ request \in Requests
  /\ list = 0 /\ handle = NewHandle
  /\ owned = {} /\ lost = {}
  /\ toSend = <<>> /\ received = <<>>
  /\ said = 0 /\ response = EmptySpan(Capacity) /\ result = "OK"
------------------------------------------------------------------------------
(***************************************************************************)
(* Setting up.  AZ_RETURN_IF_FAILED leaves                                 *)
(* _az_http_client_curl_send_request_impl_process for the cleanup.         *)
(***************************************************************************)

Goes(place) == at' = place /\ UNCHANGED result
Fails(error) == at' = "cleanup" /\ result' = error

\* Errors of a step that allocates a buffer and then sets an option, or adds
\* to the list.
SetupErrors == {"ERROR_OUT_OF_MEMORY", "ERROR_HTTP_PAL"}

callVars == <<request, toSend, received, said, response>>

\* curl_easy_init gives a handle, or nothing: then both functions that get it
\* refuse the null pointer.
Begin ==
  /\ at = "idle"
  /\ request' \in Requests
  /\ handle' = NewHandle /\ list' = 0 /\ toSend' = <<>> /\ received' = <<>>
  /\ said' = 0 /\ response' = EmptySpan(Capacity)
  /\ UNCHANGED lost
  /\ \/ owned' = {"handle"} /\ at' = "headers" /\ result' = "OK"
     \/ owned' = {} /\ at' = "idle" /\ result' = "ERROR_ARG"

\* _az_http_client_curl_add_header_to_curl_list: one header more.
AddHeader ==
  /\ at = "headers" /\ list < request.headers
  /\ \/ /\ list' = list + 1
        /\ owned' = owned \cup {"list"}
        /\ Goes("headers")
     \/ /\ \E error \in SetupErrors : Fails(error)
        /\ UNCHANGED <<list, owned>>
  /\ UNCHANGED <<handle, lost, callVars>>

\* Variant of SetHeaders: the list is given back once the handle has it.
SetHeadersFrees ==
  /\ at = "headers" /\ list = request.headers
  /\ \/ handle' = [handle EXCEPT !.headers = list > 0,
                                 !.points = IF list > 0 THEN {"list"} ELSE {}]
        /\ Goes("url")
     \/ list > 0 /\ Fails("ERROR_HTTP_PAL") /\ UNCHANGED handle
  /\ owned' = owned \ {"list"}
  /\ UNCHANGED <<list, lost, callVars>>

\* The list is complete: the handle gets it, if there are headers.
SetHeaders ==
  /\ at = "headers" /\ list = request.headers
  /\ \/ handle' = [handle EXCEPT !.headers = list > 0,
                                 !.points = IF list > 0 THEN {"list"} ELSE {}]
        /\ Goes("url")
     \/ list > 0 /\ Fails("ERROR_HTTP_PAL") /\ UNCHANGED handle
  /\ UNCHANGED <<list, owned, lost, callVars>>

\* Variant of SetUrl: goes on when the URL could not be set.
SetUrlUnchecked ==
  /\ at = "url"
  /\ \E set \in BOOLEAN : handle' = [handle EXCEPT !.url = set]
  /\ Goes("redirect")
  /\ UNCHANGED <<list, owned, lost, callVars>>

\* _az_http_client_curl_setup_url: libcurl copies the URL.
SetUrl ==
  /\ at = "url"
  /\ \/ handle' = [handle EXCEPT !.url = TRUE] /\ Goes("redirect")
     \/ (\E error \in SetupErrors : Fails(error)) /\ UNCHANGED handle
  /\ UNCHANGED <<list, owned, lost, callVars>>

\* _az_http_client_curl_setup_response_redirect: headers and body of the reply
\* go to the response, by the same callback.
Redirect ==
  /\ at = "redirect"
  /\ \/ handle' = [handle EXCEPT !.redirected = TRUE] /\ Goes("method")
     \/ Fails("ERROR_HTTP_PAL") /\ UNCHANGED handle
  /\ UNCHANGED <<list, owned, lost, callVars>>
------------------------------------------------------------------------------
(***************************************************************************)
(* The methods.                                                            *)
(***************************************************************************)

SendGet ==
  /\ at = "method" /\ request.method = "GET"
  /\ Goes("transfer")
  /\ UNCHANGED <<list, handle, owned, lost, callVars>>

SendDelete ==
  /\ at = "method" /\ request.method = "DELETE"
  /\ \/ handle' = [handle EXCEPT !.method = "DELETE"] /\ Goes("transfer")
     \/ Fails("ERROR_HTTP_PAL") /\ UNCHANGED handle
  /\ UNCHANGED <<list, owned, lost, callVars>>

\* Variant of SendPost: leaves at once when the body cannot be set.
SendPostLeaves ==
  /\ at = "method" /\ request.method = "POST"
  /\ \/ /\ handle' = [handle EXCEPT !.method = "POST", !.points = @ \cup {"body"}]
        /\ owned' = owned \cup {"body"}
        /\ Goes("transfer")
     \/ owned' = owned \cup {"body"} /\ Fails("ERROR_HTTP_PAL") /\ UNCHANGED handle
  /\ UNCHANGED <<list, lost, callVars>>

\* _az_http_client_curl_send_post_request up to curl_easy_perform: the body
\* becomes a string that the handle points to.
SendPost ==
  /\ at = "method" /\ request.method = "POST"
  /\ \/ Fails("ERROR_OUT_OF_MEMORY") /\ UNCHANGED <<handle, owned>>
     \/ /\ owned' = owned \cup {"body"}
        /\ \/ /\ handle' = [handle EXCEPT !.method = "POST",
                                          !.points = @ \cup {"body"}]
              /\ Goes("transfer")
           \/ at' = "body sent" /\ result' = "ERROR_HTTP_PAL" /\ UNCHANGED handle
  /\ UNCHANGED <<list, lost, callVars>>

\* _az_http_client_curl_send_upload_request up to curl_easy_perform: the
\* callback is to read a local span, which begins as the body.
SendUpload ==
  /\ at = "method" /\ request.method = "PUT"
  /\ \/ /\ handle' = [handle EXCEPT !.method = "PUT"]
        /\ toSend' = Bytes(request.size)
        /\ Goes("transfer")
     \/ Fails("ERROR_HTTP_PAL") /\ UNCHANGED <<handle, toSend>>
  /\ UNCHANGED <<request, list, owned, lost, received, said, response>>

SendOther ==
  /\ at = "method" /\ request.method = "OTHER"
  /\ Fails("ERROR_HTTP_INVALID_METHOD_VERB")
  /\ UNCHANGED <<list, handle, owned, lost, callVars>>
------------------------------------------------------------------------------
(***************************************************************************)
(* curl_easy_perform: libcurl takes the body and hands over the reply, in  *)
(* any interleaving: a service may reply before it has the whole request.  *)
(***************************************************************************)

\* Variant of UploadBody: says that it filled the buffer.
UploadBodyFull ==
  /\ at = "transfer" /\ handle.method = "PUT" /\ Len(received) < request.size
  /\ \E room \in 1 .. MaxRoom :
       LET size == IF Len(toSend) < room THEN Len(toSend) ELSE room
       IN  /\ received' = received \o SubSeq(toSend, 1, size)
                                   \o [i \in 1 .. room - size |-> 0]
           /\ toSend' = SubSeq(toSend, room + 1, Len(toSend))
  /\ UNCHANGED <<at, request, list, handle, owned, lost, said, response, result>>

\* _az_http_client_curl_upload_read_callback: as much of the rest as there is
\* room for is copied; the rest then begins behind the whole of the room.
\* libcurl asks until it has CURLOPT_INFILESIZE bytes.
UploadBody ==
  /\ at = "transfer" /\ handle.method = "PUT" /\ Len(received) < request.size
  /\ \E room \in 1 .. MaxRoom :
       LET size == IF Len(toSend) < room THEN Len(toSend) ELSE room
       IN  /\ received' = received \o SubSeq(toSend, 1, size)
           /\ toSend' = SubSeq(toSend, room + 1, Len(toSend))
  /\ UNCHANGED <<at, request, list, handle, owned, lost, said, response, result>>

\* libcurl sends the string it was given.  The bodies that clients post, JSON
\* texts and a form, have no zero byte that would end it early.
PostBody ==
  /\ at = "transfer" /\ handle.method = "POST" /\ received # Bytes(request.size)
  /\ received' = Bytes(request.size)
  /\ UNCHANGED <<at, request, list, handle, owned, lost, toSend, said, response,
                 result>>

\* Where a method goes on when curl_easy_perform has returned.
Performed == IF handle.method = "POST" THEN "body sent"
             ELSE IF Failed(result') THEN "cleanup" ELSE "reply read"

\* _az_http_client_curl_write_to_span: a part of the reply.  An error code is
\* no number of bytes that libcurl expects: it gives up.
Receive ==
  /\ at = "transfer"
  /\ \E size \in 1 .. MaxPart :
       LET appended == SpanAppend(response, [i \in 1 .. size |-> said + i])
       IN  /\ said + size <= MaxReply
           /\ said' = said + size
           /\ response' = appended.object
           /\ IF Failed(appended.result)
              THEN result' = "ERROR_HTTP_RESPONSE_OVERFLOW" /\ at' = Performed
              ELSE UNCHANGED <<at, result>>
  /\ UNCHANGED <<request, list, handle, owned, lost, toSend, received>>

\* The connection cannot be made, or breaks.
ConnectionLost ==
  /\ at = "transfer"
  /\ \/ result' = "ERROR_HTTP_PAL"
     \/ said = 0 /\ received = <<>>
        /\ result' = "ERROR_HTTP_RESPONSE_COULDNT_RESOLVE_HOST"
  /\ at' = Performed
  /\ UNCHANGED <<list, handle, owned, lost, callVars>>

\* The reply is complete.
ReplyComplete ==
  /\ at = "transfer" /\ said > 0
  /\ UNCHANGED result /\ at' = Performed
  /\ UNCHANGED <<list, handle, owned, lost, callVars>>
------------------------------------------------------------------------------
(***************************************************************************)
(* The way back.                                                           *)
(***************************************************************************)

\* The body of a POST is given back, whatever became of it.
FreeBody ==
  /\ at = "body sent"
  /\ owned' = owned \ {"body"}
  /\ at' = IF Failed(result) THEN "cleanup" ELSE "reply read"
  /\ UNCHANGED <<list, handle, lost, callVars, result>>

\* Variant of EndReply: nobody looks whether the zero byte fits.
EndReplyUnchecked ==
  /\ at = "reply read"
  /\ response' = SpanAppend(response, <<0>>).object
  /\ at' = "cleanup"
  /\ UNCHANGED <<request, list, handle, owned, lost, toSend, received, said, result>>

\* A zero byte ends the reply.
EndReply ==
  LET ended == SpanAppend(response, <<0>>)
  IN  /\ at = "reply read"
      /\ response' = ended.object
      /\ IF Failed(ended.result) THEN Fails(ended.result) ELSE Goes("cleanup")
      /\ UNCHANGED <<request, list, handle, owned, lost, toSend, received, said>>

\* _az_http_client_curl_done: the handle is given back, and the call returns.
\* Nothing else is; what the call still owned is lost with its variables.
Cleanup ==
  /\ at = "cleanup"
  /\ at' = "idle"
  /\ owned' = {}
  /\ lost' = lost \cup (owned \ {"handle"})
  /\ UNCHANGED <<list, handle, callVars, result>>

Next == \/ Begin \/ AddHeader \/ SetHeaders \/ SetUrl \/ Redirect
        \/ SendGet \/ SendDelete \/ SendPost \/ SendUpload \/ SendOther
        \/ UploadBody \/ PostBody \/ Receive \/ ConnectionLost \/ ReplyComplete
        \/ FreeBody \/ EndReply \/ Cleanup

Spec == Init /\ [][Next]_vars
------------------------------------------------------------------------------
(***************************************************************************)
(* Properties.                                                             *)
(***************************************************************************)

\* What libcurl reads during an exchange is still there: the list that
\* CURLOPT_HTTPHEADER points to and the string that CURLOPT_POSTFIELDS points
\* to live until curl_easy_perform has returned.
PointsToLive == at = "transfer" => handle.points \subseteq owned

\* Nothing goes to a service unless the handle has all of the request: each of
\* the headers, the URL, the method, and a place for the reply, whichever steps
\* of the setting up can fail.
SendsWhole ==
  at = "transfer" =>
    /\ list = request.headers /\ handle.headers = (request.headers > 0)
    /\ handle.url /\ handle.redirected /\ handle.method = request.method
    /\ request.method = "POST" => "body" \in handle.points

\* Whatever rooms the read callback is offered, what the service has of an
\* upload and what is left of it are the body: no byte twice, none left out.
UploadsInOrder ==
  at = "transfer" /\ handle.method = "PUT" => received \o toSend = Bytes(request.size)

\* A call that succeeds gives the whole reply, ended by a zero byte; one that
\* fails gives a beginning of it.
GivesWholeReply ==
  IF at = "idle" /\ result = "OK" /\ said > 0
  THEN response.items = Bytes(said) \o <<0>>
  ELSE at # "cleanup" => \E n \in 0 .. said : response.items = Bytes(n)

\* The handle and the body of a POST are given back on every path.  The list of
\* headers is on none: what curl cleans up behind "let curl clean everything"
\* (az_curl.c:519) is the handle, which does not own the list.
FreesHandleAndBody ==
  /\ at = "idle" => owned = {}
  /\ lost \subseteq {"list"}
==============================================================================
