----------------------------- MODULE SpanCalls -----------------------------
(***************************************************************************)
(* Calls of the functions on spans, in any order, by someone who has a     *)
(* buffer, a text elsewhere in memory and a place for a string, and who    *)
(* may also use a slice of the buffer for the text.  At the end the text   *)
(* is read as a number.                                                    *)
(***************************************************************************)
EXTENDS SpanWriting, NumberReading

CONSTANTS
  Starts,    \* what there is at first: [content, text, room, calls]: of the
             \* buffer and of the text, the buffer's capacity, and how many calls
             \* are made
  StringMax, \* bytes in the place for a string
  Numbers,   \* that are appended
  Doubles    \* the same, as [negative, whole, fraction]

\* A number and the whole of a double are of a size that a word holds.
ASSUME SpanCallsAssumption ==
  /\ \A s \in Starts : /\ s.content \in Seq(Byte) /\ s.text \in Seq(Byte)
                       /\ s.room \in Nat /\ Len(s.content) <= s.room
  /\ StringMax \in Nat
  /\ \A k \in Numbers : k \in Int
  /\ \A number \in Doubles : number.whole \in Nat
  /\ \A k \in {i \in Numbers : i > 0} \cup {- i : i \in {j \in Numbers : j < 0}}
            \cup {number.whole : number \in Doubles} :
       k # 0 => \E div \in Powers : k \div div \in 1 .. 9

VARIABLES
  mem,     \* the memory
  self,    \* the span of the buffer
  other,   \* the span of the text
  answer,  \* the last call: [of, asked, clear, result, got]
  calls    \* how many are still to be made

memoryVars == <<mem, self, other, answer, calls>>
vars == <<mem, self, other, answer, calls, text, reader, phase, at, result, n, said>>

\* A byte of other use stands behind the buffer, behind the text and at the end.
Elsewhere == 170
Unused(count) == [i \in 1 .. count |-> Elsewhere]

TextAt(s)   == s.room + 2
StringAt    == Len(mem) - StringMax
Init ==
  /\ \E s \in Starts :
       /\ mem = s.content \o Unused(s.room - Len(s.content) + 1) \o s.text
                  \o Unused(StringMax + 2)
       /\ self = Pointed(1, Len(s.content), s.room)
       /\ other = Pointed(TextAt(s), Len(s.text), Len(s.text))
       /\ calls = s.calls
  /\ answer = [of |-> "none", asked |-> <<>>, clear |-> TRUE, result |-> "OK", got |-> <<>>]
  /\ NumberInit

\* Behind the content of the buffer: what is written by appending.
Behind(from) == (self.ptr + from) .. (self.ptr + self.capacity - 1)
SourceClear(from) == Used(other) \cap Behind(from) = {}

Called(of, asked, clear, outcome, got) ==
  /\ phase = "done" /\ calls > 0 /\ calls' = calls - 1
  /\ answer' = [of |-> of, asked |-> asked, clear |-> clear,
                result |-> outcome.result, got |-> got]
  /\ UNCHANGED numberVars

\* A call that may change the memory and the span of the buffer.
Changes(of, asked, clear, outcome) ==
  /\ Called(of, asked, clear, outcome, <<>>)
  /\ mem' = outcome.object.mem /\ self' = outcome.object.span /\ UNCHANGED other

Source == Content(mem, other)
Items  == [items |-> Source]

CallAppend == Changes("append", Items, TRUE, AppendSpan(mem, self, other))
CallCopy   == Changes("copy", Items, TRUE,
                      LET copy == Copy(mem, self, other)
                      IN  IF Failing(copy) THEN Refused(copy.result, mem, self) ELSE copy)

CallZeros == \E size \in 0 .. 2 :
  Changes("zeros", [number |-> size], TRUE, AppendZeros(mem, self, size))

CallReplace == \E start, end \in 0 .. self.length + 1 :
  Changes("replace", [items |-> Source, start |-> start, end |-> end],
          SourceClear(start), Replace(mem, self, start, end, other))

\* The length of an encoded text is counted before any of it is written, so that a
\* source which is overwritten while it is read could grow beyond it.  What is
\* encoded stands elsewhere, as all that az_aad.c encodes does.
CallEncode == /\ SourceClear(self.length)
              /\ Changes("encode", Items, TRUE, AppendUrlEncoded(mem, self, other))

Pieces(of, asked, pieces) ==
  Changes(of, asked, SourceClear(self.length), AppendPieces(mem, self, pieces))

CallUint64 == \E k \in {m \in Numbers : m >= 0} :
  Pieces("uint64", [number |-> k], Uint64Pieces(k))
CallInt64  == \E k \in Numbers : Pieces("int64", [number |-> k], Int64Pieces(k))
CallDouble == \E number \in Doubles :
  Changes("double", [number |-> number], TRUE, AppendDouble(mem, self, number))

\* The SDK's own texts, with the text for each of their parts.
LogRequest == Pieces("request", Items,
                     RequestPieces(other, other, <<[key |-> other, value |-> other]>>))
TokenUrl   == SourceClear(self.length) /\ Pieces("url", Items, TokenUrlPieces(other))
TokenBody  == /\ SourceClear(self.length)
              /\ Pieces("body", Items, TokenBodyPieces(other, other, other))

CallSwap ==
  LET swapped == Swap(mem, self, other)
  IN  /\ Called("swap", Items, Used(self) \cap Used(other) = {}, Ok(mem, self),
                Content(swapped, other))
      /\ mem' = swapped /\ UNCHANGED <<self, other>>

CallToStr == \E max_size \in 0 .. StringMax :
  LET done == ToStr(mem, StringAt, max_size, self)
  IN  /\ Called("string", [number |-> max_size], TRUE, done,
                IF Failing(done) THEN <<>>
                ELSE Content(done.object.mem, Pointed(StringAt, self.length + 1, 0)))
      /\ mem' = done.object.mem /\ UNCHANGED <<self, other>>

\* A part of the buffer's content becomes the text.
CallSlice == \E low \in 0 .. self.length + 1, high \in -1 .. self.length + 1 :
  /\ Called("slice", [start |-> low, end |-> high], TRUE, Ok(mem, self),
            Content(mem, Slice(self, low, high)))
  /\ other' = Slice(self, low, high) /\ UNCHANGED <<mem, self>>

Call == \/ CallAppend \/ CallCopy \/ CallZeros \/ CallReplace \/ CallEncode
        \/ CallUint64 \/ CallInt64 \/ CallDouble
        \/ LogRequest \/ TokenUrl \/ TokenBody
        \/ CallSwap \/ CallToStr \/ CallSlice

\* The text, or what was cut out of the buffer last, is read as a number.
Read ==
  /\ \/ /\ calls = 0 /\ answer.of \in {"none", "slice"} /\ reader = "none"
        /\ BeginUint64(Source) \/ BeginJsonNumber(Source)
     \/ ReadNumber
  /\ UNCHANGED memoryVars

Next == Call \/ Read

Spec == Init /\ [][Next]_vars
------------------------------------------------------------------------------
(***************************************************************************)
(* Properties.  ReadsExactly and RefusesOnlyTooLarge are NumberReading's.  *)
(***************************************************************************)
Promise == INSTANCE SpanValue WITH
  value <- [items |-> Content(mem, self), capacity |-> self.capacity],
  shown <- answer

\* The functions on pointers do to the content of the buffer what is promised:
\* appending and copying from anywhere, also from the buffer itself, replacing
\* and encoding as long as the source is not in the part that is overwritten;
\* and a text that does not fit is there up to the first piece that failed.
KeepsPromise ==
  Promise!ValueInit /\ [][Promise!ValueNext]_(Promise!valueVars)

\* No call, whether it succeeds or fails, writes a byte outside of the room of
\* the buffer, but for the string, its zero byte included, and the text that is
\* swapped; and the buffer stays where it is.
WritesOnlyRoom ==
  [][/\ \A a \in DOMAIN mem :
          mem'[a] # mem[a] =>
            \/ a \in Room(self)
            \/ answer'.of = "string" /\ a \in StringAt .. StringAt + StringMax - 1
            \/ answer'.of = "swap" /\ a \in Used(other)
     /\ self'.ptr = self.ptr /\ self'.capacity = self.capacity
     /\ self'.length <= self.capacity]_vars
=============================================================================
