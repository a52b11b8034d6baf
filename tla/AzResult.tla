------------------------------ MODULE AzResult ------------------------------
(***************************************************************************)
(* The result codes of the SDK (az_result.h).  A result is a success or an *)
(* error; a caller that sees an error stops and returns it unchanged       *)
(* (AZ_RETURN_IF_FAILED).  An operation of the SDK that returns a result   *)
(* and writes an object is modelled by an operator whose value is the pair *)
(* of both, built by Success and Failure.                                  *)
(***************************************************************************)

\* The error codes this development tells apart.
AzError == {"ERROR_ARG", "ERROR_BUFFER_OVERFLOW", "ERROR_OUT_OF_MEMORY",
            "ERROR_NOT_IMPLEMENTED", "ERROR_ITEM_NOT_FOUND",
            "ERROR_PARSER_UNEXPECTED_CHAR", "ERROR_EOF",
            "ERROR_JSON_INVALID_STATE", "ERROR_JSON_NESTING_OVERFLOW",
            "ERROR_HTTP_PAL", "ERROR_HTTP_INVALID_STATE",
            "ERROR_HTTP_PIPELINE_INVALID_POLICY",
            "ERROR_HTTP_INVALID_METHOD_VERB",
            "ERROR_HTTP_AUTHENTICATION_FAILED",
            "ERROR_HTTP_RESPONSE_OVERFLOW",
            "ERROR_HTTP_RESPONSE_COULDNT_RESOLVE_HOST"}

AzResults == {"OK"} \cup AzError

\* az_failed
Failed(result) == result # "OK"

\* What an operation hands back: its result and the object it wrote.
Success(object)        == [result |-> "OK",  object |-> object]
Failure(error, object) == [result |-> error, object |-> object]
=============================================================================
