-------------------------- MODULE MCRequestBuilder --------------------------
(***************************************************************************)
(* Small instances of RequestBuilder.  The URL has room for a few          *)
(* operations, so that every step of every one of them can be the one that *)
(* does not fit.                                                           *)
(***************************************************************************)
EXTENDS RequestBuilder

MCUrlUnit    == {"?", "&", "=", "/", "host", "p", "q", "v"}
MCHeaderName == {"", "authorization", "h"}

MCPaths      == {<<>>, <<"p">>, <<"p", "q">>}
MCParameters == {<<<<"q">>, <<"v">>>>, <<<<"q">>, <<>>>>, <<<<"q", "p">>, <<"v">>>>}
NoQueryUrl   == {<<"host">>}
QueryUrl     == {<<"host">>, <<"host", "?", "q", "=", "v">>}
=============================================================================
