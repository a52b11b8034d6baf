------------------------------ MODULE Clients ------------------------------
(***************************************************************************)
(* The operations of the KeyVault and the Blobs client, from the           *)
(* application's arguments to the request that the pipeline gets: each one *)
(* copies the client's URI into a buffer of its own, builds a body, and    *)
(* adds paths and headers; the first step that fails ends the call, and    *)
(* nothing is sent.  HttpPipeline goes on where this module ends.          *)
(*                                                                         *)
(* A URL is made of the units of HttpRequest and a body of those of        *)
(* JsonText.  The constant names of the code are one unit each; what an    *)
(* upload carries is only its size.                                        *)
(***************************************************************************)
EXTENDS HttpRequest, JsonBuilder, JsonReadBack, FiniteSetsExt

CONSTANTS
  Uris,         \* the URIs applications give, without a query
  KeyNames,     \* names and versions of keys
  KeyTypes,     \* types of keys
  Options,      \* options of key_create; NoOptions is the null pointer
  NoOptions,
  Sizes,        \* sizes of uploads
  UrlCapacity,  \* AZ_HTTP_REQUEST_URL_BUF_SIZE
  BodyCapacity, \* AZ_HTTP_REQUEST_BODY_BUF_SIZE
  HeaderCount   \* AZ_HTTP_REQUEST_HEADER_COUNT

BodyNames == {"kty", "attributes", "enabled", "key_ops", "tags"}

\* An array that is missing: it has no end either.
Null == <<>>

\* The number of digits of n (az_span_append_int64).
HasDigits(n, d) == n < 10 ^ d /\ (d = 1 \/ n >= 10 ^ (d - 1))
Digits(n) == CHOOSE d \in 1 .. 10 : HasDigits(n, d)

\* The operations and the tags of some options are arrays that their first empty
\* span ends; a tag is a pair of name and value.
NoOperation(options) == {i \in DOMAIN options.operations : options.operations[i] = <<>>}
NoTag(options) == {i \in DOMAIN options.tags : options.tags[i].name = <<>>}

ASSUME ClientsAssumption ==
  /\ {"keys", "create"} \subseteq UrlUnit /\ BodyNames \subseteq Unit
  /\ {"Content-Type", "x-ms-blob-type", "Content-Length"} \subseteq HeaderName
  /\ Uris \subseteq Seq(UrlUnit \ {"?"}) /\ KeyNames \subseteq Seq(UrlUnit)
  /\ KeyTypes \subseteq Seq(Unit)
  /\ \A size \in Sizes : \E d \in 1 .. 10 : HasDigits(size, d)
  /\ \A o \in Options \ {NoOptions} :
       /\ o.enabled \in {"absent", "present"}
       /\ o.operations \in Seq(Seq(Unit))
       /\ o.operations # Null => NoOperation(o) = {Len(o.operations)}
       /\ o.tags \in Seq([name: Seq(Unit), value: Seq(Unit)])
       /\ o.tags # Null => NoTag(o) = {Len(o.tags)}
  /\ UrlCapacity \in Nat /\ BodyCapacity \in Nat /\ HeaderCount \in Nat
  /\ HeaderCount >= 3

VARIABLES
  uri,      \* the URI that the client has copied
  ready,    \* the client has been initialised
  asked,    \* the operation and what it was given
  returned, \* what the steps up to the pipeline gave
  sent      \* the request that the pipeline got, none if they failed

clientVars == <<uri, ready, asked, returned, sent>>

NoCall == [op |-> "none"]
NoRequest == [method |-> "none"]

ClientInit ==
  /\ uri = EmptySpan(UrlCapacity) /\ ready = FALSE
  /\ asked = NoCall /\ returned = "OK" /\ sent = NoRequest
------------------------------------------------------------------------------
(***************************************************************************)
(* The body of key_create.                                                 *)
(***************************************************************************)

\* What stands in front of the first of the empty spans in an array.
UpToNull(array, empty) == SubSeq(array, 1, Min(empty) - 1)

Operations(options) == UpToNull(options.operations, NoOperation(options))
Tags(options)       == UpToNull(options.tags, NoTag(options))

AppendAttributes(b, options) ==
  IF options.enabled = "absent" THEN b
  ELSE AppendObjectClose(AppendObject(AppendObject(b, <<"attributes">>, Bare("object")),
                                      <<"enabled">>, Bare("scalar")))

AppendOperations(b, options) ==
  LET items == Operations(options)
      write[n \in 0 .. Len(items)] ==
        IF n = 0 THEN AppendObject(b, <<"key_ops">>, Bare("array"))
        ELSE AppendArrayItem(write[n - 1], Text("string", items[n]))
  IN  IF options.operations = Null THEN b ELSE AppendArrayClose(write[Len(items)])

\* Variant of AppendTags: every tag gets the value of the first one.
AppendTagsFirst(b, options) ==
  LET tags == Tags(options)
      write[n \in 0 .. Len(tags)] ==
        IF n = 0 THEN AppendObject(b, <<"tags">>, Bare("object"))
        ELSE AppendObject(write[n - 1], tags[n].name, Text("string", tags[1].value))
  IN  IF options.tags = Null THEN b ELSE AppendObjectClose(write[Len(tags)])

AppendTags(b, options) ==
  LET tags == Tags(options)
      write[n \in 0 .. Len(tags)] ==
        IF n = 0 THEN AppendObject(b, <<"tags">>, Bare("object"))
        ELSE AppendObject(write[n - 1], tags[n].name, Text("string", tags[n].value))
  IN  IF options.tags = Null THEN b ELSE AppendObjectClose(write[Len(tags)])

\* _az_keyvault_keys_key_create_build_json_body; the builder does nothing more
\* once one of its calls has failed.
CreateBody(capacity, type, options) ==
  LET begun == AppendObject(AppendToken(NewBuilder(capacity), Bare("object")),
                            <<"kty">>, Text("string", type))
      full == IF options = NoOptions THEN begun
              ELSE AppendTags(AppendOperations(AppendAttributes(begun, options),
                                               options),
                              options)
  IN  AppendObjectClose(full)
------------------------------------------------------------------------------
(***************************************************************************)
(* The request.                                                            *)
(***************************************************************************)

\* Variant of ThenPath: goes on behind a path that did not fit.
ThenPathUnchecked(built, path) ==
  [AppendPath(built.object, path) EXCEPT !.result = built.result]

\* A path, or a header, unless a step before it has failed; of a header's value
\* there is the length.
ThenPath(built, path) ==
  IF Failed(built.result) THEN built ELSE AppendPath(built.object, path)

ThenHeader(built, name, length) ==
  IF Failed(built.result) THEN built ELSE AppendHeader(built.object, name, length)

\* A copy of the client's URI in a buffer of the operation, and a request on it.
OnCopyOf(base) ==
  LET copied == SpanAppend(EmptySpan(UrlCapacity), base.items)
  IN  IF Failed(copied.result) THEN copied
      ELSE Success(RequestInit(copied.object, HeaderCount))

\* The URL of a key, under that of the client.
OnKey(name) == ThenPath(ThenPath(OnCopyOf(uri), <<"keys">>), name)

\* The last step of an operation: what it built goes into the pipeline.
Starts(call, method, body, built) ==
  /\ asked' = call /\ returned' = built.result
  /\ sent' = IF Failed(built.result) THEN NoRequest
             ELSE [method |-> method, url |-> built.object.url.items,
                   headers |-> built.object.headers.items, body |-> body]
  /\ UNCHANGED <<uri, ready>>

\* Both client_init functions, as to the URI: it is copied into the client.
InitClient(given) ==
  LET copied == SpanAppend(EmptySpan(UrlCapacity), given)
  IN  /\ uri' = copied.object /\ ready' = ~ Failed(copied.result)
      /\ asked' = NoCall /\ returned' = copied.result /\ sent' = NoRequest

\* az_keyvault_keys_key_create: the body is built before the request.
KeyCreate(name, type, options) ==
  LET body  == CreateBody(BodyCapacity, type, options)
      built == ThenHeader(ThenPath(OnKey(name), <<"create">>), "Content-Type", 16)
  IN  /\ ready
      /\ Starts([op |-> "create", name |-> name, type |-> type, options |-> options],
                "POST", body.json.items,
                IF Failed(body.result) THEN Failure(body.result, NoRequest) ELSE built)

\* az_keyvault_keys_key_get: an empty version is the latest one.
KeyGet(name, version) ==
  /\ ready
  /\ Starts([op |-> "get", name |-> name, version |-> version], "GET", <<>>,
            IF Len(version) > 0 THEN ThenPath(OnKey(name), version) ELSE OnKey(name))

\* az_keyvault_keys_key_delete
KeyDelete(name) ==
  /\ ready
  /\ Starts([op |-> "delete", name |-> name], "DELETE", <<>>,
            OnKey(name))

\* az_storage_blobs_blob_upload
BlobUpload(size) ==
  /\ ready
  /\ Starts([op |-> "upload", size |-> size], "PUT", size,
            ThenHeader(ThenHeader(ThenHeader(OnCopyOf(uri), "x-ms-blob-type", 9),
                                  "Content-Length", Digits(size)),
                       "Content-Type", 10))

ClientNext ==
  \/ \E given \in Uris : InitClient(given)
  \/ \E name \in KeyNames :
       \/ \E type \in KeyTypes, options \in Options : KeyCreate(name, type, options)
       \/ \E version \in KeyNames : KeyGet(name, version)
       \/ KeyDelete(name)
  \/ \E size \in Sizes : BlobUpload(size)

ClientSpec == ClientInit /\ [][ClientNext]_clientVars
------------------------------------------------------------------------------
(***************************************************************************)
(* Properties.                                                             *)
(***************************************************************************)

Ended == [is |-> "end", name |-> <<>>, value |-> <<>>]
Event(is, name) == [is |-> is, name |-> name, value |-> <<>>]
StringEvent(name, value) == [is |-> "string", name |-> name, value |-> value]

\* What the body of a call is to say, event by event.
Meant(call) ==
  LET o == call.options
      attributes == IF o.enabled = "absent" THEN <<>>
                    ELSE <<Event("object", <<"attributes">>),
                           Event("scalar", <<"enabled">>), Ended>>
      operations == IF o.operations = Null THEN <<>>
                    ELSE <<Event("array", <<"key_ops">>)>>
                           \o [i \in 1 .. Len(o.operations) - 1 |->
                                 StringEvent(<<>>, o.operations[i])]
                           \o <<Ended>>
      tags == IF o.tags = Null THEN <<>>
              ELSE <<Event("object", <<"tags">>)>>
                     \o [i \in 1 .. Len(o.tags) - 1 |->
                           StringEvent(o.tags[i].name, o.tags[i].value)]
                     \o <<Ended>>
  IN  <<Event("object", <<>>), StringEvent(<<"kty">>, call.type)>>
        \o (IF call.options = NoOptions THEN <<>> ELSE attributes \o operations \o tags)
        \o <<Ended>>

\* A key that is to be created is described by a JSON text: reading it back
\* gives the type that was asked for, every operation and every tag with its
\* name and its value, in the order given and each where it belongs, and whether
\* the key is to be enabled if that was asked (true and false are one unit).  It
\* takes texts that can stand in a JSON string as they are: the client writes
\* them unescaped (az_keyvault_client.c:208).
BodyIsMeant ==
  sent # NoRequest /\ asked.op = "create" =>
    ReadBack(sent.body, Len(Meant(asked))) = [events |-> Meant(asked), done |-> "OK"]

Under(url, path) == url \o <<"/">> \o path

UrlMeant(call) ==
  LET key == Under(Under(uri.items, <<"keys">>), call.name)
  IN  CASE call.op = "create" -> Under(key, <<"create">>)
        [] call.op = "get"    -> IF call.version = <<>> THEN key
                                 ELSE Under(key, call.version)
        [] call.op = "delete" -> key
        [] call.op = "upload" -> uri.items

\* The URL that is asked for is the client's, and names the key, its version
\* and the operation, whichever of its parts could not have fitted.
UrlIsMeant == sent # NoRequest => sent.url = UrlMeant(asked)

\* The lengths of JSON texts: of a string, of a member with a value of length n,
\* and of a container whose items have the given lengths, with commas between.
StringLength(text) == Len(text) + 2
MemberLength(name, n) == StringLength(name) + 1 + n
ContainerLength(lengths) ==
  LET upTo[n \in 0 .. Len(lengths)] ==
        IF n = 0 THEN 2 ELSE upTo[n - 1] + lengths[n] + (IF n = 1 THEN 0 ELSE 1)
  IN  upTo[Len(lengths)]

\* The length of the body that a key is to be created with.
AttributesLength(options) ==
  IF options.enabled = "absent" THEN 0
  ELSE 1 + MemberLength(<<"attributes">>,
             ContainerLength(<<MemberLength(<<"enabled">>, 1)>>))

OperationsLength(options) ==
  IF options.operations = Null THEN 0
  ELSE 1 + MemberLength(<<"key_ops">>, ContainerLength(
             [i \in 1 .. Len(options.operations) - 1 |->
                StringLength(options.operations[i])]))

TagsLength(options) ==
  IF options.tags = Null THEN 0
  ELSE 1 + MemberLength(<<"tags">>, ContainerLength(
             [i \in 1 .. Len(options.tags) - 1 |->
                MemberLength(options.tags[i].name, StringLength(options.tags[i].value))]))

BodyLength(type, options) ==
  2 + MemberLength(<<"kty">>, StringLength(type))
    + (IF options = NoOptions THEN 0
       ELSE AttributesLength(options) + OperationsLength(options) + TagsLength(options))

\* A call of a usable client is only refused when what it is to send does not
\* fit: its URL, or its body, is longer than the buffer for it.  The length of a
\* body is that of every body that is sent.
RefusesOnlyTooLong ==
  LET length == BodyLength(asked.type, asked.options)
  IN  /\ ready /\ returned # "OK" =>
           \/ Len(UrlMeant(asked)) > UrlCapacity
           \/ asked.op = "create" /\ length > BodyCapacity
      /\ sent # NoRequest /\ asked.op = "create" => Len(sent.body) = length
==============================================================================
