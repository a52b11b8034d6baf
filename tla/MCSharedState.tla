--------------------------- MODULE MCSharedState ---------------------------
(***************************************************************************)
(* A small instance of SharedState: tokens of different sizes that expire, *)
(* or a log that is configured while it is used.                           *)
(***************************************************************************)
EXTENDS SharedState

CONSTANTS t1, t2

MCGrantLength == <<2, 1, 3>>
MCStarts ==
  {[callers |-> {t1, t2}, clock |-> 3, lists |-> {}, listeners |-> {}]}
  \cup {[callers |-> {t1}, clock |-> 1, lists |-> lists, listeners |-> {TRUE, FALSE}] :
          lists \in {{<<"HTTP_REQUEST">>, <<"HTTP_RESPONSE">>},
                     {NoList, <<"HTTP_RESPONSE">>},
                     {<<"HTTP_REQUEST">>, <<"HTTP_RESPONSE", "HTTP_REQUEST">>}}}
=============================================================================
