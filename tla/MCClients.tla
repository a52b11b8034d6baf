------------------------------ MODULE MCClients ------------------------------
(***************************************************************************)
(* Small instances of Clients: URIs with a path and without, names of      *)
(* different lengths, every combination of options, and buffers in which   *)
(* any step can be the one that does not fit.                              *)
(***************************************************************************)
EXTENDS Clients

MCUnit == {"{", "}", "[", "]", ",", ":", "quote", "scalar", "part", "escape",
           " ", "LF", "NUL", "RSA", "EC", "sign", "verify", "name", "value"} \cup BodyNames
MCUrlUnit == {"?", "&", "=", "/", "host", "dir", "key", "version", "keys", "create"}
MCHeaderName == {"", "authorization", "Content-Type", "x-ms-blob-type", "Content-Length"}

MCUris == {<<"host">>, <<"host", "/", "dir">>, [i \in 1 .. 12 |-> "dir"]}
MCKeyNames == {<<>>, <<"key">>, <<"version", "key">>}
MCKeyTypes == {<<"RSA">>, <<"EC">>}
MCSizes == {0, 9, 10, 1024}

\* Tags of texts that stand in a JSON string as they are.
MCTexts == {<<>>, <<"value", ",", "}">>}

MCNoOptions == [enabled |-> "NULL"]

MCOptions ==
  [enabled: {"absent", "present"},
   operations: {Null, << <<>> >>, << <<"sign">>, <<>> >>,
                << <<"sign">>, <<"verify">>, <<>> >>},
   tags: {Null} \cup [1 .. 1 -> [name: {<<>>}, value: {<<>>}]]
           \cup {<<[name |-> <<"name">>, value |-> v], [name |-> <<>>, value |-> <<>>]>> :
                   v \in MCTexts}
           \cup {<<[name |-> <<"name">>, value |-> v], [name |-> <<"value">>, value |-> w],
                   [name |-> <<>>, value |-> <<>>]>> : v, w \in MCTexts}]
    \cup {MCNoOptions}
==============================================================================
