--------------------------- MODULE MCHttpPipeline ---------------------------
(***************************************************************************)
(* Small instances of HttpPipeline.                                        *)
(***************************************************************************)
EXTENDS HttpPipeline

CONSTANTS t1, vault, blob, k1, k2   \* a thread, clients and credentials

MCUrlUnit == {"?", "&", "=", "/", "u", "api-version", "version"}
MCHeaderName == {"", "own", "authorization", "x-ms-version",
                 "x-ms-client-request-id", "User-Agent"}

Refused  == [NoReply EXCEPT !.status = "refused"]
Granted(expires_in, lifetime, access_token, length) ==
  [status |-> "granted", expires_in |-> expires_in, lifetime |-> lifetime,
   access_token |-> access_token, length |-> length]

\* Replies that fail at each point of _az_aad_request_token, and good ones.
BadReplies == {NoReply, Refused,
               Granted("garbled", 3, "garbled", 1),
               Granted("missing", 3, "string", 1),
               Granted("number", 3, "missing", 1),
               Granted("number", 3, "string", 9)}
GoodReplies(lifetimes) == {Granted("number", n, "string", 1) : n \in lifetimes}

\* One thread that uses the KeyVault and the Blobs client, each with its own
\* credential.  The room for headers lets every append be the one that fails.
OneThread     == {t1}
TwoClients    == {vault, blob}
OneOwner      == [c \in TwoClients |-> t1]
OwnCredential == [c \in TwoClients |-> IF c = vault THEN k1 ELSE k2]
OwnScope      == [c \in TwoClients |-> IF c = vault THEN "vault" ELSE "storage"]
Agents        == [c \in TwoClients |-> IF c = vault THEN 0 ELSE 1]
Locations     == [c \in TwoClients |-> IF c = vault THEN "queryparameter" ELSE "header"]
SmallRooms    == [f \in Frame |-> 2]
RoomForTwo    == [f \in Frame |-> 4]
AnyOperation  == {[url |-> 1, headers |-> n] : n \in 0 .. 2}
                   \cup {[url |-> 2, headers |-> 0]}
MixedReplies  == BadReplies \cup {Granted("number", 2, "string", 1),
                                  Granted("number", 9, "string", 2)}

\* One thread, one client, a clock that runs for a while.
OneClient   == {vault}
VaultOwner  == [c \in OneClient |-> t1]
VaultCredential == [c \in OneClient |-> k1]
VaultScope  == [c \in OneClient |-> "vault"]
VaultAgent  == [c \in OneClient |-> 0]
VaultApi    == [c \in OneClient |-> "header"]
OneOperation == [url: {1}, headers: {0}]
Lifetimes   == GoodReplies(1 .. 5) \cup {Refused}
=============================================================================
