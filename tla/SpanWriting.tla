---------------------------- MODULE SpanWriting ----------------------------
(***************************************************************************)
(* Texts that the SDK puts together by one append after another into one   *)
(* buffer: numbers, log messages, the URL and the body of a token request. *)
(* Each is a sequence of pieces; the first that does not fit ends it, and  *)
(* what has been appended stays.  Of a literal only its beginning is kept. *)
(***************************************************************************)
EXTENDS SpanMemory

CONSTANTS
  Powers,    \* the powers of ten that a word of 64 bits holds
  ValueMax   \* _az_LOG_VALUE_MAX_LENGTH

ASSUME WritingAssumption ==
  /\ Powers \subseteq Nat \ {0}
  /\ 1 \in Powers /\ \A p \in Powers \ {1} : p % 10 = 0 /\ p \div 10 \in Powers
  /\ ValueMax \in Nat /\ ValueMax % 2 = 0 /\ ValueMax > 6

Bytes(bytes)  == [how |-> "bytes", bytes |-> bytes, span |-> NullSpan]
Plain(span)   == [how |-> "plain", bytes |-> <<>>, span |-> span]
Encoded(span) == [how |-> "encoded", bytes |-> <<>>, span |-> span]

AppendPiece(mem, self, piece) ==
  CASE piece.how = "bytes"   -> AppendBytes(mem, self, piece.bytes)
    [] piece.how = "plain"   -> AppendSpan(mem, self, piece.span)
    [] piece.how = "encoded" -> AppendUrlEncoded(mem, self, piece.span)

\* AZ_RETURN_IF_FAILED around every append.
AppendPieces(mem, self, pieces) ==
  LET done[i \in 0 .. Len(pieces)] ==
        IF i = 0 THEN Ok(mem, self)
        ELSE IF Failing(done[i - 1]) THEN done[i - 1]
        ELSE AppendPiece(done[i - 1].object.mem, done[i - 1].object.span, pieces[i])
  IN  done[Len(pieces)]
------------------------------------------------------------------------------
(***************************************************************************)
(* Numbers.                                                                *)
(***************************************************************************)
Digit(d) == Bytes(<<48 + d>>)

\* _az_span_builder_append_uint64: the division is by the highest power that is
\* not above the number first; what remains is divided by the next ones.
Uint64Pieces(n) ==
  LET first == CHOOSE div \in Powers : n \div div # 0 /\ n \div div < 10
      nn[div \in {p \in Powers : p <= first}] ==
        IF div = first THEN n ELSE nn[div * 10] % (div * 10)
      digits[div \in {p \in Powers : p <= first}] ==
        (IF div = first THEN <<>> ELSE digits[div * 10]) \o <<Digit(nn[div] \div div)>>
  IN  IF n = 0 THEN <<Digit(0)>> ELSE digits[1]

\* az_span_append_int64.  The lowest number has no negative in its word; what
\* the negation leaves is the right one among the numbers without sign.
Int64Pieces(n) == IF n < 0 THEN <<Bytes(<<45>>)>> \o Uint64Pieces(- n) ELSE Uint64Pieces(n)

\* az_span_append_double, for a number that is whole or not: a fraction is not
\* implemented, and a minus sign may have been written when that turns out.
AppendDouble(mem, self, number) ==
  LET sign == IF number.negative THEN <<Bytes(<<45>>)>> ELSE <<>>
      done == AppendPieces(mem, self, sign)
  IN  IF number.whole = 0 /\ ~ number.fraction
      THEN AppendPieces(mem, self, <<Digit(0)>>)
      ELSE IF Failing(done) THEN done
      ELSE IF number.fraction
      THEN Refused("ERROR_NOT_IMPLEMENTED", done.object.mem, done.object.span)
      ELSE AppendPieces(mem, self, sign \o Uint64Pieces(number.whole))
------------------------------------------------------------------------------
(***************************************************************************)
(* Log messages and token requests.                                        *)
(***************************************************************************)
Ellipsis == <<32, 46, 46, 46, 32>>

\* _az_log_value_msg: of a long value its beginning and its end.
ValuePieces(value) ==
  LET ellipsis_len == Len(Ellipsis)
      first == ValueMax \div 2 - ((ellipsis_len \div 2) + (ellipsis_len % 2))
      last  == (ValueMax \div 2) + (ValueMax % 2) - (ellipsis_len \div 2)
  IN  IF value.length <= ValueMax THEN <<Plain(value)>>
      ELSE <<Plain(Take(value, first)), Bytes(Ellipsis),
             Plain(Drop(value, value.length - last))>>

\* _az_log_http_request_msg: method, URL and the headers, a value only if there
\* is one.
RequestPieces(method, url, headers) ==
  LET Header(h) == <<Bytes(<<10>>), Plain(h.key)>>
                   \o (IF h.value.length > 0
                       THEN <<Bytes(<<58>>)>> \o ValuePieces(h.value) ELSE <<>>)
      all[i \in 0 .. Len(headers)] ==
        IF i = 0 THEN <<Bytes(<<72>>), Plain(method), Bytes(<<32>>), Plain(url)>>
        ELSE all[i - 1] \o Header(headers[i])
  IN  all[Len(headers)]

\* _az_aad_build_url
TokenUrlPieces(tenant_id) == <<Bytes(<<104>>), Encoded(tenant_id), Bytes(<<47>>)>>

\* _az_aad_build_body
TokenBodyPieces(client_id, scopes, client_secret) ==
  <<Bytes(<<103>>), Encoded(client_id), Bytes(<<38>>), Encoded(scopes)>>
  \o (IF client_secret.length > 0 THEN <<Bytes(<<38>>), Encoded(client_secret)>> ELSE <<>>)
=============================================================================
