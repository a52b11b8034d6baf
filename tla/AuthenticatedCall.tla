-------------------------- MODULE AuthenticatedCall --------------------------
(***************************************************************************)
(* What the SDK promises of a call, whatever its pipeline is made of: the  *)
(* request of a call is exchanged with the service at most once, and only  *)
(* with a granted token in hand; success means that the exchange took      *)
(* place; the token kept for later calls is only ever replaced as a whole, *)
(* by a newly granted one, at most once in a call and not after the        *)
(* request has gone out.                                                   *)
(***************************************************************************)
CONSTANTS Callers,      \* threads that make calls
          Keepers,      \* credentials that keep a token
          Grants,       \* tokens that can be granted
          NoGrant,      \* what a credential holds at first
          NoKeeper      \* a caller that is not in a call uses no credential

VARIABLES phase,        \* phase[c]: how far the call of c has come
          keeper,       \* keeper[c]: the credential that call uses
          kept          \* kept[k]: the token credential k holds

abstractVars == <<phase, keeper, kept>>

Phase == {"idle", "preparing", "authenticated", "exchanging", "succeeded",
          "failed"}

AbstractInit ==
  /\ phase  = [c \in Callers |-> "idle"]
  /\ keeper = [c \in Callers |-> NoKeeper]
  /\ kept   = [k \in Keepers |-> NoGrant]

Enter(c, from, to) == /\ phase[c] \in from
                      /\ phase' = [phase EXCEPT ![c] = to]

Begin(c, k) == /\ Enter(c, {"idle"}, "preparing")
               /\ keeper' = [keeper EXCEPT ![c] = k]
               /\ UNCHANGED kept

\* The token kept is still good.
Reuse(c) == /\ Enter(c, {"preparing"}, "authenticated")
            /\ kept[keeper[c]] # NoGrant
            /\ UNCHANGED <<keeper, kept>>

\* A new one is granted.
Refresh(c) == /\ Enter(c, {"preparing"}, "authenticated")
              /\ DOMAIN kept' = Keepers
              /\ kept'[keeper[c]] \in Grants
              /\ \A k \in Keepers \ {keeper[c]} : kept'[k] = kept[k]
              /\ UNCHANGED keeper

Exchange(c) == /\ Enter(c, {"authenticated"}, "exchanging")
               /\ UNCHANGED <<keeper, kept>>

Succeed(c) == /\ Enter(c, {"exchanging"}, "succeeded")
              /\ UNCHANGED <<keeper, kept>>

Fail(c) == /\ Enter(c, {"preparing", "authenticated", "exchanging"}, "failed")
           /\ UNCHANGED <<keeper, kept>>

End(c) == /\ Enter(c, {"succeeded", "failed"}, "idle")
          /\ keeper' = [keeper EXCEPT ![c] = NoKeeper]
          /\ UNCHANGED kept

AbstractNext ==
  \E c \in Callers :
    \/ \E k \in Keepers : Begin(c, k)
    \/ Reuse(c) \/ Refresh(c) \/ Exchange(c) \/ Succeed(c) \/ Fail(c) \/ End(c)

AbstractSpec == AbstractInit /\ [][AbstractNext]_abstractVars
==============================================================================
