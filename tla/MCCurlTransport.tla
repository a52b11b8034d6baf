--------------------------- MODULE MCCurlTransport ---------------------------
(* Instances of CurlTransport: every method, with no header, one and two, and
   bodies longer and shorter than the buffers of the callbacks. *)
EXTENDS CurlTransport

AllRequests ==
  [method: {"POST", "PUT"}, headers: {0, 2}, size: {0, 1, 4}]
    \cup [method: {"GET", "DELETE", "OTHER"}, headers: 0 .. 2, size: {0}]
==============================================================================
