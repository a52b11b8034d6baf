----------------------------- MODULE SpanMemory -----------------------------
(***************************************************************************)
(* Spans as they are: a pointer into memory, a length and a capacity       *)
(* (az_span.h), and the functions of az_span.c and az_span_private.h as    *)
(* moves of bytes, with source and destination anywhere, also in one and   *)
(* the same buffer.                                                        *)
(*                                                                         *)
(* A memory is a function from the addresses 1, 2, ... to bytes; 0 is the  *)
(* null pointer.  A function that writes hands back, with its result, the  *)
(* memory and the span that it leaves in its out parameter.                *)
(***************************************************************************)
EXTENDS Integers, Sequences, AzResult

Pointed(ptr, length, capacity) == [ptr |-> ptr, length |-> length, capacity |-> capacity]

\* az_span_null
NullSpan == Pointed(0, 0, 0)

Room(span) == span.ptr .. span.ptr + span.capacity - 1
Used(span) == span.ptr .. span.ptr + span.length - 1
Content(mem, span) == [i \in 1 .. span.length |-> mem[span.ptr + i - 1]]

Ok(mem, span)            == Success([mem |-> mem, span |-> span])
Refused(error, mem, span) == Failure(error, [mem |-> mem, span |-> span])

\* One operation after another on the same span: the second is not tried if the
\* first has failed, and what the first has written stays.
Failing(done) == Failed(done.result)

\* az_span_take
Take(span, count) ==
  IF span.capacity <= count THEN span
  ELSE Pointed(span.ptr, IF span.length > count THEN count ELSE span.length, count)

\* az_span_drop: nothing remains of a span whose room is dropped.
Drop(span, count) ==
  IF span.capacity <= count THEN NullSpan
  ELSE Pointed(span.ptr + count,
               IF span.length < count THEN 0 ELSE span.length - count,
               span.capacity - count)

\* az_span_slice, to the end if high is negative.  There is no room behind the
\* end of a slice.
Slice(span, low, high) ==
  LET right == Drop(IF high >= 0 THEN Take(span, high) ELSE span, low)
  IN  Pointed(right.ptr, right.length, right.length)

\* memmove
Moved(mem, to, from) ==
  [a \in DOMAIN mem |-> IF a \in to .. to + from.length - 1
                        THEN mem[from.ptr + (a - to)] ELSE mem[a]]

\* az_span_copy
Copy(mem, dst, src) ==
  IF dst.capacity < src.length THEN Refused("ERROR_BUFFER_OVERFLOW", mem, dst)
  ELSE Ok(Moved(mem, dst.ptr, src), Pointed(dst.ptr, src.length, dst.capacity))

\* az_span_append
AppendSpan(mem, self, src) ==
  LET copy == Copy(mem, Drop(self, self.length), src)
  IN  IF Failing(copy) THEN Refused(copy.result, mem, self)
      ELSE Ok(copy.object.mem, [self EXCEPT !.length = @ + src.length])

\* The same for bytes that stand elsewhere: a literal or a local variable.
AppendBytes(mem, self, bytes) ==
  IF self.capacity - self.length < Len(bytes)
  THEN Refused("ERROR_BUFFER_OVERFLOW", mem, self)
  ELSE Ok([a \in DOMAIN mem |->
             LET i == a - (self.ptr + self.length) + 1
             IN  IF i \in 1 .. Len(bytes) THEN bytes[i] ELSE mem[a]],
          [self EXCEPT !.length = @ + Len(bytes)])

\* az_span_set: the whole room is filled.
Set(mem, span, fill) == [a \in DOMAIN mem |-> IF a \in Room(span) THEN fill ELSE mem[a]]

\* _az_span_append_zeros
AppendZeros(mem, self, size) ==
  LET rest == Take(Drop(self, self.length), size)
  IN  IF rest.capacity < size THEN Refused("ERROR_BUFFER_OVERFLOW", mem, self)
      ELSE Ok(Set(mem, rest, 0), [self EXCEPT !.length = @ + size])

\* Variant of Replace: the new content is written before the old is moved.
ReplaceThenMove(mem, self, start, end, src) ==
  LET size == self.length - (end - start) + src.length
      put  == Copy(mem, Drop(self, start), src)
      move == Copy(put.object.mem, Drop(self, start + src.length), Drop(self, end))
  IN  IF ~ (start <= end /\ end <= self.length /\ size <= self.capacity)
      THEN Refused("ERROR_ARG", mem, self)
      ELSE Ok(move.object.mem, [self EXCEPT !.length = size])

\* _az_span_replace: what stands behind is moved first, then the new content is
\* put in its place.
Replace(mem, self, start, end, src) ==
  LET size == self.length - (end - start) + src.length
      move == Copy(mem, Drop(self, start + src.length), Drop(self, end))
      put  == Copy(move.object.mem, Drop(self, start), src)
  IN  IF ~ (/\ end - start <= self.length
            /\ start <= self.length /\ end <= self.length
            /\ start <= end
            /\ size <= self.capacity)  THEN Refused("ERROR_ARG", mem, self)
      ELSE IF Failing(move)            THEN Refused(move.result, mem, self)
      ELSE IF Failing(put)             THEN Refused(put.result, put.object.mem, self)
      ELSE Ok(put.object.mem, [self EXCEPT !.length = size])

\* _az_span_swap: byte by byte, as many as the shorter one has.
Swap(mem, a, b) ==
  LET count == IF a.length < b.length THEN a.length ELSE b.length
      swapped[i \in 0 .. count] ==
        IF i = 0 THEN mem
        ELSE [swapped[i - 1] EXCEPT ![a.ptr + i - 1] = swapped[i - 1][b.ptr + i - 1],
                                    ![b.ptr + i - 1] = swapped[i - 1][a.ptr + i - 1]]
  IN  swapped[count]

\* az_span_to_str, to an address that has max_size bytes.
ToStr(mem, s, max_size, span) ==
  IF span.length + 1 > max_size THEN Refused("ERROR_BUFFER_OVERFLOW", mem, span)
  ELSE Ok([Moved(mem, s, span) EXCEPT ![s + span.length] = 0], span)
------------------------------------------------------------------------------
(***************************************************************************)
(* Encoding for URLs.                                                      *)
(***************************************************************************)
UnReserved == (48 .. 57) \cup (65 .. 90) \cup (97 .. 122) \cup {45, 46, 95, 126}
should_encode(c) == c \notin UnReserved

\* _az_number_to_upper_hex
UpperHex(number) == number + (IF number < 10 THEN 48 ELSE 55)

EncodedByte(c) == IF should_encode(c)
                  THEN <<37, UpperHex(c \div 16), UpperHex(c % 16)>> ELSE <<c>>

\* Variant of UrlEncode: the room is taken for enough if the source fits.
UrlEncodeUnchecked(mem, dst, src) ==
  LET Put(m, p, bytes) == [a \in DOMAIN m |-> IF a - p + 1 \in DOMAIN bytes
                                              THEN bytes[a - p + 1] ELSE m[a]]
      encoded[i \in 0 .. src.length] ==
        IF i = 0 THEN [mem |-> mem, p_d |-> dst.ptr]
        ELSE LET before == encoded[i - 1]
                 bytes  == EncodedByte(before.mem[src.ptr + i - 1])
             IN  [mem |-> Put(before.mem, before.p_d, bytes),
                  p_d |-> before.p_d + Len(bytes)]
      all == encoded[src.length]
  IN  IF dst.capacity < src.length THEN Refused("ERROR_BUFFER_OVERFLOW", mem, dst)
      ELSE Ok(all.mem, Pointed(dst.ptr, all.p_d - dst.ptr, dst.capacity))

\* az_span_copy_url_encode: the length of the outcome is counted first, then the
\* source is read and the destination written byte by byte.
UrlEncode(mem, dst, src) ==
  LET size[i \in 0 .. src.length] ==
        IF i = 0 THEN 0 ELSE size[i - 1] + Len(EncodedByte(mem[src.ptr + i - 1]))
      Put(m, p, bytes) == [a \in DOMAIN m |-> IF a - p + 1 \in DOMAIN bytes
                                              THEN bytes[a - p + 1] ELSE m[a]]
      encoded[i \in 0 .. src.length] ==
        IF i = 0 THEN [mem |-> mem, p_d |-> dst.ptr]
        ELSE LET before == encoded[i - 1]
                 bytes  == EncodedByte(before.mem[src.ptr + i - 1])
             IN  [mem |-> Put(before.mem, before.p_d, bytes),
                  p_d |-> before.p_d + Len(bytes)]
      all == encoded[src.length]
  IN  IF dst.capacity < size[src.length] THEN Refused("ERROR_BUFFER_OVERFLOW", mem, dst)
      ELSE Ok(all.mem, Pointed(dst.ptr, all.p_d - dst.ptr, dst.capacity))

\* _az_span_append_with_url_encode (az_aad.c)
AppendUrlEncoded(mem, self, src) ==
  LET rest == Pointed(self.ptr + self.length, 0, self.capacity - self.length)
      done == UrlEncode(mem, rest, src)
  IN  IF Failing(done) THEN Refused(done.result, mem, self)
      ELSE Ok(done.object.mem, [self EXCEPT !.length = @ + done.object.span.length])
=============================================================================
