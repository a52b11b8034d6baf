-------------------------------- MODULE Span --------------------------------
(***************************************************************************)
(* az_span: a caller-owned buffer of fixed capacity of which a prefix is   *)
(* in use.  A span is the record of the items in use and the capacity; the *)
(* items are bytes for text spans and whole az_pair values for the header  *)
(* span of a request.  The operators say what an az_span function does to  *)
(* the content of its destination, or that it refuses.                     *)
(***************************************************************************)
EXTENDS Naturals, Sequences, AzResult

\* The spans over the set Item: never more items in use than there is room for.
SpanOf(Item) == {s \in [items: Seq(Item), capacity: Nat] :
                   Len(s.items) <= s.capacity}

\* AZ_SPAN_FROM_BUFFER followed by a reset of the length: an empty span.
EmptySpan(capacity) == [items |-> <<>>, capacity |-> capacity]

\* The length of a span (az_span_length).
SpanLength(span) == Len(span.items)

\* Variant of SpanAppend: one item too many.
SpanAppendOffByOne(span, items) ==
  IF SpanLength(span) + Len(items) <= span.capacity + 1
  THEN Success([span EXCEPT !.items = @ \o items])
  ELSE Failure("ERROR_BUFFER_OVERFLOW", span)

\* Variant of SpanAppend: the last item of the room stays free.
SpanAppendStrict(span, items) ==
  IF SpanLength(span) + Len(items) < span.capacity
  THEN Success([span EXCEPT !.items = @ \o items])
  ELSE Failure("ERROR_BUFFER_OVERFLOW", span)

\* az_span_append: all of the items, or AZ_ERROR_BUFFER_OVERFLOW and no change.
SpanAppend(span, items) ==
  IF SpanLength(span) + Len(items) <= span.capacity
  THEN Success([span EXCEPT !.items = @ \o items])
  ELSE Failure("ERROR_BUFFER_OVERFLOW", span)

\* The four contracts of _az_span_replace, in the order of the code.
ReplaceContracts(span, start, end, items) ==
  /\ end - start <= SpanLength(span)
  /\ start <= SpanLength(span) /\ end <= SpanLength(span)
  /\ start <= end
  /\ SpanLength(span) - (end - start) + Len(items) <= span.capacity

\* _az_span_replace: the items at positions start .. end - 1 (counted from 0)
\* give way to the new ones.
SpanReplace(span, start, end, items) ==
  IF ReplaceContracts(span, start, end, items)
  THEN Success([span EXCEPT
                  !.items = SubSeq(@, 1, start) \o items
                              \o SubSeq(@, end + 1, Len(@))])
  ELSE Failure("ERROR_ARG", span)

\* _az_scan_until: the first position from p on that holds a unit of S, 0 if
\* there is none.
FirstIn(text, p, S) ==
  IF \E q \in p .. Len(text) : text[q] \in S
  THEN CHOOSE q \in p .. Len(text) :
         text[q] \in S /\ \A r \in p .. q - 1 : text[r] \notin S
  ELSE 0
=============================================================================
