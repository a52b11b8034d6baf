----------------------------- MODULE JsonProofs -----------------------------
(***************************************************************************)
(* Theorems about the JSON parser (JsonParser) and the search by pointer   *)
(* (JsonPointer), for every text, every order of calls, every pointer and  *)
(* every width of the stack.  The parser's types hold, with the stack      *)
(* inside its word; of a text that ends with a zero byte nothing behind    *)
(* the end is looked at; both loops get ahead; the stack is what is open   *)
(* at the parser's position; a text that is told to be complete is JSON;   *)
(* and what a pointer leads to is as deep in the text as the pointer is    *)
(* long.  And about the JSON builder (JsonBuilding), for every token, name *)
(* and buffer: what it has written can be closed to JSON.                  *)
(*                                                                         *)
(* The first part is about the operations of JsonText: the parser stays    *)
(* within the text, the stack within its word, a failure stays a failure,  *)
(* and a call that does not fail gets ahead.  An operation is a chain of   *)
(* steps, and each step has one lemma, which says what it keeps and what   *)
(* its result tells of the step before.                                    *)
(*                                                                         *)
(* The second part relates what the parser has read to the grammar, which  *)
(* knows nothing of a parser: the recursive functions of the grammar are   *)
(* unfolded unit by unit; what a container is complete with is split into  *)
(* what it waits for; and every step of the parser is shown to take the    *)
(* token that is waited for, or to fail.                                   *)
(*                                                                         *)
(* The third part follows a lookup through the containers it enters and    *)
(* skips.  The fourth reads what the builder writes by the same grammar.   *)
(***************************************************************************)
EXTENDS JsonParser, JsonPointer, JsonBuilding, SpanProofs, FiniteSetTheorems

Ended(t) == t # <<>> /\ t[Len(t)] = "NUL"

\* What a step hands on.
Chained(t) ==
  [result: AzResults \cup {ReadBehind}, at: 1 .. Len(t) + 1, stack: 1 .. 2 * Top - 1,
   kind: Kind, value: Nat, string: Views, name: Views]

\* In a text that ends with a zero byte, the parser stays in front of its end.
Inside(t, p) ==
  /\ p \in Chained(t)
  /\ Ended(t) => p.at <= Len(t) /\ p.result # ReadBehind

\* What holds of a step from p to q, whatever the step: it does not go back, it
\* does not make a failure good, and it does not end a container.
Follows(t, p, q) ==
  /\ Inside(t, q)
  /\ p.at <= q.at
  /\ q.result = "OK" => p.result = "OK"
  /\ q.result = "ERROR_ITEM_NOT_FOUND" => p.result = "ERROR_ITEM_NOT_FOUND"

LEMMA FollowsTransitive ==
  ASSUME NEW t \in Seq(Unit), NEW p, NEW q, NEW r,
         Inside(t, p), Follows(t, p, q), Follows(t, q, r)
  PROVE  Follows(t, p, r)
BY DEF Follows, Inside, Chained

\* White space is not a zero byte, so it does not go up to the end.
LEMMA SkipWhiteFollows ==
  ASSUME NEW t \in Seq(Unit), NEW p, Inside(t, p)
  PROVE  Follows(t, p, SkipWhite(t, p))
<1> DEFINE ink == FirstIn(t, p.at, Unit \ White)
           q   == [p EXCEPT !.at = IF ink = 0 THEN Len(t) + 1 ELSE ink]
<1>1. CASE p.result # "OK"
  BY <1>1 DEF SkipWhite, Follows, Inside, Chained
<1>2. CASE p.result = "OK"
  <2>1. p.at \in Nat \ {0} /\ p.at <= Len(t) + 1 /\ Len(t) \in Nat
    BY DEF Inside, Chained
  <2>2. /\ ink \in Nat
        /\ ink # 0 => ink \in p.at .. Len(t)
        /\ \A i \in p.at .. Len(t) : t[i] \in Unit \ White => ink # 0
    BY <2>1, FirstInFacts
  <2> HIDE DEF ink
  <2>3. Ended(t) => ink # 0
    <3> SUFFICES ASSUME Ended(t)
                 PROVE  ink # 0
      OBVIOUS
    <3>1. Len(t) \in p.at .. Len(t)
      BY <2>1 DEF Ended, Inside, Chained
    <3>2. t[Len(t)] \in Unit \ White
      BY JsonTextAssumption DEF Ended, White
    <3> QED
      BY <2>2, <3>1, <3>2
  <2>4. q.at \in 1 .. Len(t) + 1 /\ p.at <= q.at /\ (Ended(t) => q.at <= Len(t))
    BY <2>1, <2>2, <2>3 DEF Inside, Chained
  <2>5. Follows(t, p, q)
    BY <2>4 DEF Follows, Inside, Chained
  <2> QED
    BY <1>2, <2>5 DEF SkipWhite, ink
<1> QED
  BY <1>1, <1>2

\* A failure stands where it was noticed.
LEMMA FailFollows ==
  ASSUME NEW t \in Seq(Unit), NEW p, Inside(t, p),
         NEW error \in AzResults \ {"OK", "ERROR_ITEM_NOT_FOUND"}
  PROVE  Follows(t, p, Fail(p, error))
BY DEF Fail, Follows, Inside, Chained, ReadBehind, AzResults, AzError

\* A unit that is not the zero byte is passed.
LEMMA PassFollows ==
  ASSUME NEW t \in Seq(Unit), NEW p, Inside(t, p), p.at <= Len(t), t[p.at] # "NUL"
  PROVE  /\ Follows(t, p, [p EXCEPT !.at = @ + 1])
         /\ [p EXCEPT !.at = @ + 1].at > p.at
BY DEF Follows, Inside, Chained, Ended

LEMMA ExpectFollows ==
  ASSUME NEW t \in Seq(Unit), NEW p, Inside(t, p), NEW unit, unit # "NUL"
  PROVE  Follows(t, p, Expect(t, p, unit))
<1>1. CASE p.result # "OK"
  BY <1>1 DEF Expect, Follows, Inside, Chained
<1>2. CASE p.result = "OK" /\ p.at > Len(t)
  BY <1>2, FailFollows DEF Expect, AzResults, AzError
<1>3. CASE p.result = "OK" /\ p.at <= Len(t) /\ t[p.at] # unit
  BY <1>3, FailFollows DEF Expect, AzResults, AzError, Inside, Chained
<1>4. CASE p.result = "OK" /\ p.at <= Len(t) /\ t[p.at] = unit
  BY <1>4, PassFollows DEF Expect, Inside, Chained
<1> QED
  BY <1>1, <1>2, <1>3, <1>4 DEF Inside, Chained

\* Forward, to a position that is in front of a zero byte.
Ahead(t, p, a) == a \in p.at .. Len(t) + 1 /\ (Ended(t) => a <= Len(t))

LEMMA MoveFollows ==
  ASSUME NEW t \in Seq(Unit), NEW p, Inside(t, p), NEW a, Ahead(t, p, a),
         NEW view \in Views, NEW error \in AzResults \ {"OK", "ERROR_ITEM_NOT_FOUND"}
  PROVE  /\ Follows(t, p, [p EXCEPT !.result = error, !.at = a])
         /\ Follows(t, p, [p EXCEPT !.at = a, !.string = view])
<1>1. a \in 1 .. Len(t) + 1 /\ p.at <= a /\ (Ended(t) => a <= Len(t))
  BY DEF Ahead, Inside, Chained
<1>2. p \in Chained(t) /\ (Ended(t) => p.result # ReadBehind)
  BY DEF Inside
<1>3. /\ error \in AzResults \cup {ReadBehind}
      /\ error # ReadBehind /\ error # "OK" /\ error # "ERROR_ITEM_NOT_FOUND"
  BY DEF AzResults, AzError, ReadBehind
<1>4. Follows(t, p, [p EXCEPT !.result = error, !.at = a])
  <2> DEFINE q == [p EXCEPT !.result = error, !.at = a]
  <2>1. q \in Chained(t)
    BY <1>1, <1>2, <1>3 DEF Chained
  <2>2. q.at = a /\ q.result = error
    BY <1>2 DEF Chained
  <2> HIDE DEF q
  <2>3. Follows(t, p, q)
    BY <1>1, <1>3, <2>1, <2>2 DEF Follows, Inside
  <2> QED
    BY <2>3 DEF q
<1>5. Follows(t, p, [p EXCEPT !.at = a, !.string = view])
  <2> DEFINE q == [p EXCEPT !.at = a, !.string = view]
  <2>1. q \in Chained(t)
    BY <1>1, <1>2 DEF Chained
  <2>2. q.at = a /\ q.result = p.result
    BY <1>2 DEF Chained
  <2> HIDE DEF q
  <2>3. Follows(t, p, q)
    BY <1>1, <1>2, <2>1, <2>2 DEF Follows, Inside
  <2> QED
    BY <2>3 DEF q
<1> QED
  BY <1>4, <1>5

\* A string ends in front of a zero byte.
LEMMA StringRestFollows ==
  ASSUME NEW t \in Seq(Unit), NEW p, Inside(t, p)
  PROVE  Follows(t, p, StringRest(t, p))
<1> DEFINE stop == FirstIn(t, p.at, {"quote"} \cup Control)
<1>1. CASE p.result # "OK"
  BY <1>1 DEF StringRest, Follows, Inside, Chained
<1>2. CASE p.result = "OK"
  <2>1. p.at \in Nat \ {0} /\ p.at <= Len(t) + 1 /\ Len(t) \in Nat
    BY DEF Inside, Chained
  <2>2. /\ stop \in Nat
        /\ stop # 0 => stop \in p.at .. Len(t) /\ t[stop] \in {"quote"} \cup Control
        /\ \A i \in p.at .. Len(t) : t[i] \in {"quote"} \cup Control => stop # 0
    BY <2>1, FirstInFacts
  <2> HIDE DEF stop
  <2>3. Ended(t) => stop # 0
    <3> SUFFICES ASSUME Ended(t)
                 PROVE  stop # 0
      OBVIOUS
    <3>1. Len(t) \in p.at .. Len(t)
      BY <2>1 DEF Ended, Inside, Chained
    <3>2. t[Len(t)] \in {"quote"} \cup Control
      BY DEF Ended, Control
    <3> QED
      BY <2>2, <3>1, <3>2
  <2>4. CASE stop = 0
    <3>1. Ahead(t, p, Len(t) + 1)
      BY <2>1, <2>3, <2>4 DEF Ahead
    <3>2. "ERROR_EOF" \in AzResults \ {"OK", "ERROR_ITEM_NOT_FOUND"}
      BY DEF AzResults, AzError
    <3>3. Nowhere \in Views
      BY DEF Nowhere, Views
    <3> QED
      BY <1>2, <2>4, <3>1, <3>2, <3>3, MoveFollows DEF StringRest, stop
  <2>5. CASE stop # 0 /\ t[stop] # "quote"
    <3>1. Ahead(t, p, stop)
      BY <2>1, <2>2, <2>5 DEF Ahead
    <3>2. "ERROR_PARSER_UNEXPECTED_CHAR" \in AzResults \ {"OK", "ERROR_ITEM_NOT_FOUND"}
      BY DEF AzResults, AzError
    <3>3. Nowhere \in Views
      BY DEF Nowhere, Views
    <3> QED
      BY <1>2, <2>5, <3>1, <3>2, <3>3, MoveFollows DEF StringRest, stop
  <2>6. CASE stop # 0 /\ t[stop] = "quote"
    <3> DEFINE view == [from |-> p.at, to |-> stop - 1]
    <3>1. Ahead(t, p, stop + 1)
      BY <2>1, <2>2, <2>6 DEF Ahead, Ended
    <3>2. view \in Views
      BY <2>1, <2>2, <2>6 DEF Views
    <3>3. StringRest(t, p) = [p EXCEPT !.at = stop + 1, !.string = view]
      BY <1>2, <2>6 DEF StringRest, stop
    <3>4. "ERROR_EOF" \in AzResults \ {"OK", "ERROR_ITEM_NOT_FOUND"}
      BY DEF AzResults, AzError
    <3> HIDE DEF view
    <3>5. Follows(t, p, [p EXCEPT !.at = stop + 1, !.string = view])
      BY <3>1, <3>2, <3>4, MoveFollows
    <3> QED
      BY <3>3, <3>5
  <2> QED
    BY <2>4, <2>5, <2>6
<1> QED
  BY <1>1, <1>2

LEMMA SmallModulus ==
  ASSUME NEW a \in Nat, NEW n \in Nat \ {0}, a < n
  PROVE  a % n = a
OBVIOUS

\* The highest bit is checked in front of the shift, so none is lost.
LEMMA PushStackFollows ==
  ASSUME NEW t \in Seq(Unit), NEW p, Inside(t, p), NEW item \in {Object, Array}
  PROVE  Follows(t, p, PushStack(p, item))
<1>1. p.stack \in 1 .. 2 * Top - 1 /\ Top \in Nat \ {0} /\ item \in {0, 1}
  BY JsonTextAssumption DEF Inside, Chained, Object, Array
<1>2. CASE p.stack >= Top
  BY <1>2, FailFollows DEF PushStack, AzResults, AzError
<1>3. CASE ~ p.stack >= Top
  <2> DEFINE s == 2 * p.stack + item
  <2>1. s \in Nat /\ s < 2 * Top /\ 2 * Top \in Nat \ {0} /\ s >= 1
    BY <1>1, <1>3
  <2>2. s % (2 * Top) = s
    BY <2>1, SmallModulus
  <2>3. PushStack(p, item) = [p EXCEPT !.stack = s]
    BY <1>3, <2>2 DEF PushStack
  <2>4. s \in 1 .. 2 * Top - 1
    BY <1>1, <2>1
  <2> HIDE DEF s
  <2>5. Follows(t, p, [p EXCEPT !.stack = s])
    BY <2>4 DEF Follows, Inside, Chained
  <2> QED
    BY <2>3, <2>5
<1> QED
  BY <1>2, <1>3

\* What a step does that has something to show for it: it has read something.
Gains(t, p, q) == Follows(t, p, q) /\ (q.result = "OK" => q.at > p.at)

LEMMA FollowsGains ==
  ASSUME NEW t \in Seq(Unit), NEW p, NEW q, NEW r, Inside(t, p)
  PROVE  /\ Follows(t, p, q) /\ Gains(t, q, r) => Gains(t, p, r)
         /\ Gains(t, p, q) /\ Follows(t, q, r) => Gains(t, p, r)
BY DEF Gains, Follows, Inside, Chained

LEMMA GetValueGains ==
  ASSUME NEW t \in Seq(Unit), NEW p, Inside(t, p)
  PROVE  Gains(t, p, GetValue(t, p))
<1> DEFINE unit == t[p.at]
           Token(kind) == [p EXCEPT !.at = @ + 1, !.kind = kind, !.value = p.at]
           bad == IF p.at = Len(t) THEN "ERROR_EOF" ELSE "ERROR_PARSER_UNEXPECTED_CHAR"
<1>1. CASE p.result # "OK"
  BY <1>1 DEF GetValue, Gains, Follows, Inside, Chained
<1>2. CASE p.result = "OK" /\ p.at > Len(t)
  <2>1. Follows(t, p, Fail(p, "ERROR_EOF"))
    BY FailFollows DEF AzResults, AzError
  <2>2. Fail(p, "ERROR_EOF").result # "OK"
    BY DEF Fail, Inside, Chained
  <2> QED
    BY <1>2, <2>1, <2>2 DEF GetValue, Gains
<1>3. CASE p.result = "OK" /\ ~ p.at > Len(t)
  <2>1. ASSUME NEW kind \in Kind, unit # "NUL"
        PROVE  Gains(t, p, Token(kind))
    <3>1. /\ p.at \in Nat /\ p.at + 1 \in 1 .. Len(t) + 1
          /\ Ended(t) => p.at + 1 <= Len(t)
      BY <1>3, <2>1 DEF Ended, Inside, Chained
    <3>2. Token(kind) \in Chained(t)
      BY <3>1 DEF Inside, Chained
    <3>3. Token(kind).at = p.at + 1 /\ Token(kind).result = p.result
      BY DEF Inside, Chained
    <3> HIDE DEF Token
    <3> QED
      BY <3>1, <3>2, <3>3 DEF Gains, Follows, Inside
  <2>2. ASSUME NEW q, Gains(t, p, q),
               NEW error \in AzResults \ {"OK", "ERROR_ITEM_NOT_FOUND"}
        PROVE  Gains(t, p, Fail(q, error))
    BY <2>2, FailFollows, FollowsGains DEF Gains, Follows
  <2>3. ASSUME NEW q, Gains(t, p, q)
        PROVE  /\ Gains(t, p, StringRest(t, q))
               /\ Gains(t, p, PushStack(q, Object))
               /\ Gains(t, p, PushStack(q, Array))
    BY <2>3, StringRestFollows, PushStackFollows, FollowsGains DEF Gains, Follows
  <2>4. CASE unit = "scalar"
    <3>1. Gains(t, p, Token("scalar"))
      BY <2>1, <2>4 DEF Kind
    <3> QED
      BY <1>3, <2>4, <3>1 DEF GetValue
  <2>5. CASE unit = "part"
    <3>1. Gains(t, p, Token("scalar"))
      BY <2>1, <2>5 DEF Kind
    <3>2. bad \in AzResults \ {"OK", "ERROR_ITEM_NOT_FOUND"}
      BY DEF AzResults, AzError
    <3>3. Gains(t, p, Fail(Token("scalar"), bad))
      BY <2>2, <3>1, <3>2
    <3> QED
      BY <1>3, <2>5, <3>3 DEF GetValue
  <2>6. CASE unit = "quote"
    <3>1. Gains(t, p, Token("string"))
      BY <2>1, <2>6 DEF Kind
    <3>2. Gains(t, p, StringRest(t, Token("string")))
      BY <2>3, <3>1
    <3> QED
      BY <1>3, <2>6, <3>2 DEF GetValue
  <2>7. CASE unit = "{"
    <3>1. Gains(t, p, Token("object"))
      BY <2>1, <2>7 DEF Kind, Containers
    <3>2. Gains(t, p, PushStack(Token("object"), Object))
      BY <2>3, <3>1
    <3> QED
      BY <1>3, <2>7, <3>2 DEF GetValue
  <2>8. CASE unit = "["
    <3>1. Gains(t, p, Token("array"))
      BY <2>1, <2>8 DEF Kind, Containers
    <3>2. Gains(t, p, PushStack(Token("array"), Array))
      BY <2>3, <3>1
    <3> QED
      BY <1>3, <2>8, <3>2 DEF GetValue
  <2>9. CASE unit \notin {"scalar", "part", "quote", "{", "["}
    <3>1. Follows(t, p, Fail(p, "ERROR_PARSER_UNEXPECTED_CHAR"))
      BY FailFollows DEF AzResults, AzError
    <3>2. Fail(p, "ERROR_PARSER_UNEXPECTED_CHAR").result # "OK"
      BY DEF Fail, Inside, Chained
    <3> QED
      BY <1>3, <2>9, <3>1, <3>2 DEF GetValue, Gains
  <2> QED
    BY <2>4, <2>5, <2>6, <2>7, <2>8, <2>9
<1> QED
  BY <1>1, <1>2, <1>3

LEMMA GetValueSpaceGains ==
  ASSUME NEW t \in Seq(Unit), NEW p, Inside(t, p)
  PROVE  Gains(t, p, GetValueSpace(t, p))
BY GetValueGains, SkipWhiteFollows, FollowsGains DEF GetValueSpace, Gains, Follows

\* The unit behind a value is looked at without a look at the length; in a text
\* that ends with a zero byte it is there.
LEMMA ReadCommaOrCloseFollows ==
  ASSUME NEW t \in Seq(Unit), NEW p, Inside(t, p)
  PROVE  Follows(t, p, ReadCommaOrClose(t, p))
<1>1. CASE p.result # "OK"
  BY <1>1 DEF ReadCommaOrClose, Follows, Inside, Chained
<1>2. CASE p.result = "OK" /\ p.at > Len(t)
  <2>1. ~ Ended(t)
    BY <1>2 DEF Inside, Chained
  <2>2. Follows(t, p, Fail(p, ReadBehind))
    BY <2>1 DEF Fail, ReadBehind, Follows, Inside, Chained
  <2> QED
    BY <1>2, <2>2 DEF ReadCommaOrClose
<1>3. CASE p.result = "OK" /\ ~ p.at > Len(t) /\ t[p.at] = ","
  <2> DEFINE q == [p EXCEPT !.at = @ + 1]
  <2>1. Follows(t, p, q)
    <3>1. p.at <= Len(t)
      <4>1. ~ p.at > Len(t)
        BY <1>3
      <4> QED
        BY <4>1 DEF Inside, Chained
    <3>2. t[p.at] # "NUL"
      BY <1>3
    <3> QED
      BY <3>1, <3>2, PassFollows
  <2>2. Follows(t, q, SkipWhite(t, q))
    BY <2>1, SkipWhiteFollows DEF Follows
  <2>3. ReadCommaOrClose(t, p) = SkipWhite(t, q)
    BY <1>3 DEF ReadCommaOrClose
  <2> HIDE DEF q
  <2> QED
    BY <2>1, <2>2, <2>3, FollowsTransitive
<1>4. CASE p.result = "OK" /\ ~ p.at > Len(t) /\ t[p.at] # ","
  <2>1. Follows(t, p, Fail(p, "ERROR_PARSER_UNEXPECTED_CHAR"))
    BY FailFollows DEF AzResults, AzError
  <2>2. Follows(t, p, p)
    BY DEF Follows, Inside, Chained
  <2> QED
    BY <1>4, <2>1, <2>2 DEF ReadCommaOrClose
<1> QED
  BY <1>1, <1>2, <1>3, <1>4

LEMMA CheckItemEndFollows ==
  ASSUME NEW t \in Seq(Unit), NEW p, Inside(t, p)
  PROVE  Follows(t, p, CheckItemEnd(t, p))
BY ReadCommaOrCloseFollows DEF CheckItemEnd, Follows, Inside, Chained

\* What a call does when it fails, tells a value, or tells the end of a
\* container: in the last two cases it has read something.
Calls(t, p, q) ==
  /\ Inside(t, q)
  /\ p.at <= q.at
  /\ q.result \in Fine => q.at > p.at

\* The end of a container is told behind its bracket.
LEMMA CheckItemBeginCalls ==
  ASSUME NEW t \in Seq(Unit), NEW p, Inside(t, p), p.result = "OK",
         NEW item \in {Object, Array}
  PROVE  LET q == CheckItemBegin(t, p, item)
         IN  /\ Inside(t, q)
             /\ p.at <= q.at
             /\ q.result = "ERROR_ITEM_NOT_FOUND" => q.at > p.at
<1> DEFINE q      == CheckItemBegin(t, p, item)
           popped == [p EXCEPT !.at = @ + 1, !.stack = @ \div 2]
           closed == SkipWhite(t, popped)
           after   == IF closed.stack = 1 THEN closed ELSE ReadCommaOrClose(t, closed)
<1>1. CASE p.stack = 1 \/ p.stack % 2 # item
  <2>1. Follows(t, p, Fail(p, "ERROR_JSON_INVALID_STATE"))
    BY FailFollows DEF AzResults, AzError
  <2> QED
    BY <1>1, <2>1 DEF CheckItemBegin, Follows
<1>2. CASE ~ (p.stack = 1 \/ p.stack % 2 # item) /\ p.at > Len(t)
  <2>1. Follows(t, p, Fail(p, "ERROR_EOF"))
    BY FailFollows DEF AzResults, AzError
  <2> QED
    BY <1>2, <2>1 DEF CheckItemBegin, Follows
<1>3. CASE /\ ~ (p.stack = 1 \/ p.stack % 2 # item) /\ ~ p.at > Len(t)
           /\ t[p.at] # Close(item)
  <2>1. q = p
    BY <1>3 DEF CheckItemBegin
  <2> QED
    BY <2>1 DEF Inside, Chained
<1>4. CASE /\ ~ (p.stack = 1 \/ p.stack % 2 # item) /\ ~ p.at > Len(t)
           /\ t[p.at] = Close(item)
  <2>1. p.stack \in 2 .. 2 * Top - 1 /\ Top \in Nat
    <3>1. p.stack # 1
      BY <1>4
    <3>2. p.stack \in 1 .. 2 * Top - 1
      BY DEF Inside, Chained
    <3>3. Top \in Nat
      BY JsonTextAssumption
    <3> QED
      BY <3>1, <3>2, <3>3
  <2>2. p.stack \div 2 \in 1 .. 2 * Top - 1
    BY <2>1
  <2>3. p.at \in Nat /\ p.at + 1 \in 1 .. Len(t) + 1 /\ (Ended(t) => p.at + 1 <= Len(t))
    <3>1. ~ p.at > Len(t) /\ t[p.at] # "NUL"
      BY <1>4 DEF Close
    <3> QED
      BY <3>1 DEF Ended, Inside, Chained
  <2>4. Inside(t, popped) /\ popped.at = p.at + 1
    BY <2>2, <2>3 DEF Inside, Chained
  <2> HIDE DEF popped
  <2>5. Follows(t, popped, closed)
    BY <2>4, SkipWhiteFollows
  <2> HIDE DEF closed
  <2>6. Follows(t, closed, closed)
    BY <2>5 DEF Follows, Inside, Chained
  <2>7. Follows(t, closed, after)
    BY <2>5, <2>6, ReadCommaOrCloseFollows DEF Follows
  <2> HIDE DEF after
  <2>8. Follows(t, popped, after)
    BY <2>4, <2>5, <2>7, FollowsTransitive
  <2>9. Inside(t, after) /\ after.at > p.at
    BY <2>3, <2>4, <2>8 DEF Follows, Inside, Chained
  <2>10. q = IF after.result # "OK" THEN after ELSE Fail(after, "ERROR_ITEM_NOT_FOUND")
    BY <1>4 DEF CheckItemBegin, after, closed, popped
  <2>11. /\ Inside(t, Fail(after, "ERROR_ITEM_NOT_FOUND"))
         /\ Fail(after, "ERROR_ITEM_NOT_FOUND").at = after.at
    BY <2>9 DEF Fail, ReadBehind, AzResults, AzError, Inside, Chained
  <2>12. Inside(t, q) /\ q.at = after.at
    BY <2>9, <2>10, <2>11
  <2> HIDE DEF q
  <2>13. p.at \in Nat /\ q.at \in Nat
    BY <2>12 DEF Inside, Chained
  <2> QED
    BY <2>9, <2>12, <2>13 DEF q
<1> QED
  BY <1>1, <1>2, <1>3, <1>4

\* A value behind the beginning of an item.
LEMMA ItemCalls ==
  ASSUME NEW t \in Seq(Unit), NEW p, NEW begun, NEW q,
         Inside(t, p), Inside(t, begun), p.at <= begun.at,
         begun.result = "ERROR_ITEM_NOT_FOUND" => begun.at > p.at,
         Gains(t, begun, q)
  PROVE  Calls(t, p, q)
BY DEF Calls, Gains, Follows, Inside, Chained, Fine

LEMMA ParseTokenMemberCalls ==
  ASSUME NEW t \in Seq(Unit), NEW p, Inside(t, p), p.result = "OK"
  PROVE  Calls(t, p, ParseTokenMember(t, p))
<1> DEFINE begun  == CheckItemBegin(t, p, Object)
           quote  == Expect(t, begun, "quote")
           named  == StringRest(t, quote)
           spaced == SkipWhite(t, named)
           colon  == Expect(t, spaced, ":")
           before == SkipWhite(t, colon)
           valued == GetValueSpace(t, before)
           known  == [valued EXCEPT !.name = named.string]
<1>1. /\ Inside(t, begun)
      /\ p.at <= begun.at
      /\ begun.result = "ERROR_ITEM_NOT_FOUND" => begun.at > p.at
  BY CheckItemBeginCalls
<1>2. ParseTokenMember(t, p) = CheckItemEnd(t, known)
  BY DEF ParseTokenMember
<1> HIDE DEF begun
<1>3. Follows(t, begun, quote)
  BY <1>1, ExpectFollows
<1> HIDE DEF quote
<1>4. Follows(t, quote, named) /\ Follows(t, begun, named)
  BY <1>1, <1>3, StringRestFollows, FollowsTransitive DEF Follows
<1> HIDE DEF named
<1>5. Follows(t, named, spaced) /\ Follows(t, begun, spaced)
  BY <1>1, <1>4, SkipWhiteFollows, FollowsTransitive DEF Follows
<1> HIDE DEF spaced
<1>6. Follows(t, spaced, colon) /\ Follows(t, begun, colon)
  BY <1>1, <1>5, ExpectFollows, FollowsTransitive DEF Follows
<1> HIDE DEF colon
<1>7. Follows(t, colon, before) /\ Follows(t, begun, before)
  BY <1>1, <1>6, SkipWhiteFollows, FollowsTransitive DEF Follows
<1> HIDE DEF before
<1>8. Gains(t, before, valued) /\ Gains(t, begun, valued)
  BY <1>1, <1>7, GetValueSpaceGains, FollowsGains DEF Follows
<1> HIDE DEF valued
<1>9. Gains(t, begun, known)
  BY <1>4, <1>8 DEF Gains, Follows, Inside, Chained
<1> HIDE DEF known
<1>10. Gains(t, begun, CheckItemEnd(t, known))
  BY <1>1, <1>9, CheckItemEndFollows, FollowsGains DEF Gains, Follows
<1> QED
  BY <1>1, <1>2, <1>10, ItemCalls

LEMMA ParseArrayItemCalls ==
  ASSUME NEW t \in Seq(Unit), NEW p, Inside(t, p), p.result = "OK"
  PROVE  Calls(t, p, ParseArrayItem(t, p))
<1> DEFINE begun  == CheckItemBegin(t, p, Array)
           valued == GetValueSpace(t, begun)
<1>1. /\ Inside(t, begun)
      /\ p.at <= begun.at
      /\ begun.result = "ERROR_ITEM_NOT_FOUND" => begun.at > p.at
  BY CheckItemBeginCalls
<1>2. ParseArrayItem(t, p) = CheckItemEnd(t, valued)
  BY DEF ParseArrayItem
<1> HIDE DEF begun
<1>3. Gains(t, begun, valued)
  BY <1>1, GetValueSpaceGains
<1> HIDE DEF valued
<1>4. Gains(t, begun, CheckItemEnd(t, valued))
  BY <1>1, <1>3, CheckItemEndFollows, FollowsGains DEF Gains, Follows
<1> QED
  BY <1>1, <1>2, <1>4, ItemCalls

LEMMA SkipItemCalls ==
  ASSUME NEW t \in Seq(Unit), NEW p, Inside(t, p), p.result = "OK"
  PROVE  Calls(t, p, SkipItem(t, p))
BY ParseTokenMemberCalls, ParseArrayItemCalls DEF SkipItem

LEMMA ParseTokenCalls ==
  ASSUME NEW t \in Seq(Unit), NEW p, Inside(t, p), p.result = "OK"
  PROVE  Calls(t, p, ParseToken(t, p))
<1> DEFINE space == SkipWhite(t, p)
           read  == GetValueSpace(t, space)
<1>1. Gains(t, p, read)
  BY SkipWhiteFollows, GetValueSpaceGains, FollowsGains DEF Follows
<1>2. Calls(t, p, read)
  BY <1>1 DEF Calls, Gains, Follows, Fine
<1>3. ASSUME NEW q, Inside(t, q), p.at <= q.at,
             NEW error \in AzResults \ {"OK", "ERROR_ITEM_NOT_FOUND"}
      PROVE  Calls(t, p, Fail(q, error))
  BY <1>3, FailFollows DEF Calls, Follows, Fine, Fail, Inside, Chained
<1>4. /\ Calls(t, p, Fail(p, "ERROR_JSON_INVALID_STATE"))
      /\ Calls(t, p, Fail(read, "ERROR_EOF"))
      /\ Calls(t, p, Fail(read, "ERROR_PARSER_UNEXPECTED_CHAR"))
  <2>1. Inside(t, read) /\ p.at <= read.at /\ p.at <= p.at
    BY <1>1 DEF Gains, Follows, Inside, Chained
  <2>2. {"ERROR_JSON_INVALID_STATE", "ERROR_EOF", "ERROR_PARSER_UNEXPECTED_CHAR"}
          \subseteq AzResults \ {"OK", "ERROR_ITEM_NOT_FOUND"}
    BY DEF AzResults, AzError
  <2> HIDE DEF read
  <2> QED
    BY <1>3, <2>1, <2>2
<1> QED
  BY <1>2, <1>4 DEF ParseToken

LEMMA DoneInside ==
  ASSUME NEW t \in Seq(Unit), NEW p, Inside(t, p)
  PROVE  Inside(t, Done(t, p))
BY FailFollows DEF Done, Follows, AzResults, AzError

LEMMA TopIsPositive == Top \in Nat \ {0}
BY JsonTextAssumption

LEMMA ParserInside ==
  ASSUME NEW t \in Seq(Unit), NEW a \in 1 .. Len(t) + 1, NEW s \in 1 .. 2 * Top - 1,
         Ended(t) => a <= Len(t)
  PROVE  Inside(t, Parser(a, s)) /\ Parser(a, s).result = "OK"
<1>1. Nowhere \in Views
  BY DEF Nowhere, Views
<1>2. Parser(a, s) \in Chained(t)
  BY <1>1 DEF Parser, Chained, AzResults, AzError, Kind, Containers
<1>3. Parser(a, s).result = "OK" /\ Parser(a, s).at = a
  BY DEF Parser
<1> QED
  BY <1>2, <1>3 DEF Inside, ReadBehind
------------------------------------------------------------------------------
(***************************************************************************)
(* The tokens of a text.  What the grammar reads from the beginning of a   *)
(* text, it reads unit by unit: the tokens that stand in front of a unit   *)
(* are known when the unit is.                                             *)
(***************************************************************************)
\* What a container is made of, as the grammar has it.
Token == Unit \cup {"string", "junk", "container"}

\* The tokens so far, and whether a string has begun.
LexState == [inside: BOOLEAN, tokens: Seq(Token)]
LexStart == [inside |-> FALSE, tokens |-> <<>>]

\* What a unit does to the tokens in front of it.
Lex1(before, unit) ==
  LET Then(inside, lexeme) ==
        [inside |-> inside, tokens |-> Append(before.tokens, lexeme)]
  IN  IF before.inside
      THEN CASE unit = "quote"    -> Then(FALSE, "string")
             [] unit \in Control  -> Then(TRUE, "junk")
             [] OTHER             -> before
      ELSE CASE unit = "quote"    -> [before EXCEPT !.inside = TRUE]
             [] unit \in White    -> before
             [] OTHER             -> Then(FALSE, unit)

\* f is how the tokens of a text come together.
IsLexOf(f, t) ==
  /\ f \in [0 .. Len(t) -> LexState]
  /\ f[0] = LexStart
  /\ \A i \in 1 .. Len(t) : f[i] = Lex1(f[i - 1], t[i])

\* It is that again.
LEMMA Lex1Typed ==
  ASSUME NEW before \in LexState, NEW unit \in Unit
  PROVE  Lex1(before, unit) \in LexState
<1>1. \A lexeme \in Token : Append(before.tokens, lexeme) \in Seq(Token)
  BY AppendProperties DEF LexState
<1>2. before.inside \in BOOLEAN /\ before.tokens \in Seq(Token)
  BY DEF LexState
<1>3. [before EXCEPT !.inside = TRUE] \in LexState
  BY DEF LexState
<1>4. ASSUME NEW inside \in BOOLEAN, NEW lexeme \in Token
      PROVE  [inside |-> inside, tokens |-> Append(before.tokens, lexeme)] \in LexState
  BY <1>1 DEF LexState
<1>5. unit \in Token /\ "string" \in Token /\ "junk" \in Token
  BY DEF Token
<1> QED
  BY <1>2, <1>3, <1>4, <1>5 DEF Lex1

\* The recursive function of Lexed is what it is defined by.
LEMMA LexedUnfolds ==
  ASSUME NEW t \in Seq(Unit)
  PROVE  \E f : /\ IsLexOf(f, t)
                /\ Lexed(t) = IF f[Len(t)].inside THEN Append(f[Len(t)].tokens, "junk")
                                                  ELSE f[Len(t)].tokens
<1> DEFINE lex[n \in 0 .. Len(t)] ==
             IF n = 0 THEN [inside |-> FALSE, tokens |-> <<>>]
             ELSE LET before == lex[n - 1]
                      unit   == t[n]
                      Then(inside, lexeme) ==
                        [inside |-> inside, tokens |-> Append(before.tokens, lexeme)]
                  IN  IF before.inside
                      THEN CASE unit = "quote"    -> Then(FALSE, "string")
                             [] unit \in Control  -> Then(TRUE, "junk")
                             [] OTHER             -> before
                      ELSE CASE unit = "quote"    -> [before EXCEPT !.inside = TRUE]
                             [] unit \in White    -> before
                             [] OTHER             -> Then(FALSE, unit)
           grow == [i \in 1 .. Len(t) |-> [s \in LexState |-> Lex1(s, t[i])]]
<1>1. LexStart \in LexState
  BY EmptySeq DEF LexStart, LexState
<1>2. grow \in [1 .. Len(t) -> [LexState -> LexState]]
  BY Lex1Typed
<1>3. PICK f \in Recursive(Len(t), LexState, LexStart, grow) : TRUE
  <2> HIDE DEF lex, grow
  <2>1. Len(t) \in Nat
    BY LenProperties
  <2> QED
    BY <1>1, <1>2, <2>1, NatRecursion
<1>4. /\ f \in [0 .. Len(t) -> LexState] /\ f[0] = LexStart
      /\ \A i \in 1 .. Len(t) : f[i] = Lex1(f[i - 1], t[i])
  <2> HIDE DEF lex
  <2>1. /\ f \in [0 .. Len(t) -> LexState] /\ f[0] = LexStart
        /\ \A i \in 1 .. Len(t) : f[i] = grow[i][f[i - 1]]
    <3> HIDE DEF grow
    <3> QED
      BY <1>3 DEF Recursive
  <2>2. \A i \in 1 .. Len(t) : f[i - 1] \in LexState
    BY <2>1
  <2> QED
    BY <2>1, <2>2
<1>5. f = [n \in 0 .. Len(t) |->
             IF n = 0 THEN [inside |-> FALSE, tokens |-> <<>>] ELSE Lex1(f[n - 1], t[n])]
  BY <1>4 DEF LexStart
<1>6. \E g : g = [n \in 0 .. Len(t) |->
             IF n = 0 THEN [inside |-> FALSE, tokens |-> <<>>] ELSE Lex1(g[n - 1], t[n])]
  BY <1>5
<1>7. lex = [n \in 0 .. Len(t) |->
             IF n = 0 THEN [inside |-> FALSE, tokens |-> <<>>] ELSE Lex1(lex[n - 1], t[n])]
  BY <1>6 DEF Lex1
<1>8. Lexed(t) = IF lex[Len(t)].inside THEN Append(lex[Len(t)].tokens, "junk")
                                       ELSE lex[Len(t)].tokens
  BY DEF Lexed
<1> HIDE DEF lex
<1>9. IsLexOf(lex, t)
  <2>1. Len(t) \in Nat
    BY LenProperties
  <2>2. lex[0] = LexStart /\ \A i \in 1 .. Len(t) : lex[i] = Lex1(lex[i - 1], t[i])
    <3>1. \A i \in 1 .. Len(t) : i \in 0 .. Len(t) /\ i # 0
      OBVIOUS
    <3>2. 0 \in 0 .. Len(t)
      BY <2>1
    <3> QED
      BY <1>7, <3>1, <3>2, Zenon DEF LexStart
  <2> DEFINE Good == {n \in 0 .. Len(t) : lex[n] \in LexState}
  <2>3. 0 \in Good
    BY <1>1, <2>1, <2>2
  <2>4. ASSUME NEW k \in 0 .. Len(t) - 1, k \in Good
        PROVE  k + 1 \in Good
    <3>1. lex[k + 1] = Lex1(lex[k], t[k + 1]) /\ t[k + 1] \in Unit
      BY <2>2
    <3> QED
      BY <2>4, <3>1, Lex1Typed
  <2>5. 0 .. Len(t) \subseteq Good
    <3> HIDE DEF Good
    <3> QED
      BY <2>1, <2>3, <2>4, UpTo
  <2> QED
    BY <1>7, <2>2, <2>5 DEF IsLexOf
<1> QED
  BY <1>8, <1>9

\* How the tokens of t come together.
LexOf(t) == CHOOSE f : IsLexOf(f, t)

\* Two readings agree as far as their texts do.
LEMMA LexAgree ==
  ASSUME NEW s \in Seq(Unit), NEW t \in Seq(Unit), Len(s) <= Len(t),
         \A i \in 1 .. Len(s) : s[i] = t[i],
         NEW f, IsLexOf(f, t), NEW g, IsLexOf(g, s)
  PROVE  g[Len(s)] = f[Len(s)]
<1> DEFINE k == Len(s)
           Same == {i \in 0 .. k : g[i] = f[i]}
<1>1. k \in Nat /\ Len(t) \in Nat /\ k <= Len(t)
  BY LenProperties
<1>2. 0 \in Same
  BY <1>1 DEF IsLexOf
<1>3. ASSUME NEW i \in 0 .. k - 1, i \in Same
      PROVE  i + 1 \in Same
  <2>1. i + 1 \in 1 .. k /\ i + 1 \in 1 .. Len(t) /\ i + 1 \in 0 .. k /\ (i + 1) - 1 = i
    BY <1>1
  <2>2. g[i + 1] = Lex1(g[i], s[i + 1])
    BY <2>1 DEF IsLexOf
  <2>3. f[i + 1] = Lex1(f[i], t[i + 1])
    BY <2>1 DEF IsLexOf
  <2> QED
    BY <1>3, <2>1, <2>2, <2>3
<1>4. 0 .. k \subseteq Same
  <2> HIDE DEF Same, k
  <2> QED
    BY <1>1, <1>2, <1>3, UpTo
<1> QED
  BY <1>1, <1>4

\* A part of a text has the tokens it has in the text.
LEMMA LexedPrefix ==
  ASSUME NEW t \in Seq(Unit), NEW k \in 0 .. Len(t)
  PROVE  /\ IsLexOf(LexOf(t), t)
         /\ LET behind == LexOf(t)[k]
            IN  Lexed(SubSeq(t, 1, k)) = IF behind.inside THEN Append(behind.tokens, "junk")
                                                          ELSE behind.tokens
<1> DEFINE s == SubSeq(t, 1, k)
           f == LexOf(t)
<1>1. IsLexOf(f, t)
  BY LexedUnfolds DEF LexOf
<1>2. Len(t) \in Nat /\ k \in Nat /\ s \in Seq(Unit) /\ Len(s) = k
      /\ \A i \in 1 .. k : s[i] = t[i]
  BY LenProperties, PrefixFacts
<1> HIDE DEF s, f
<1>3. PICK g : /\ IsLexOf(g, s)
               /\ Lexed(s) = IF g[Len(s)].inside THEN Append(g[Len(s)].tokens, "junk")
                                                 ELSE g[Len(s)].tokens
  BY <1>2, LexedUnfolds
<1>4. g[k] = f[k]
  BY <1>1, <1>2, <1>3, LexAgree
<1> QED
  BY <1>1, <1>2, <1>3, <1>4 DEF s, f

------------------------------------------------------------------------------
(***************************************************************************)
(* The containers that are open.  They come together token by token.       *)
(***************************************************************************)
\* The containers that are open: the text itself, and those that begin with a
\* bracket.
Opens == {o \in Seq(Seq(Token)) : o # <<>> /\ \A d \in 2 .. Len(o) : o[d] # <<>>}

\* A lexeme behind those of the container d, the innermost that is left open.
Put(open, d, item) == [SubSeq(open, 1, d) EXCEPT ![d] = Append(@, item)]

\* What a lexeme does to the containers that are open.
Open1(open, lexeme) ==
  CASE lexeme \in {"{", "["} -> Append(open, <<lexeme>>)
    [] lexeme \in {"}", "]"} ->
         IF Len(open) > 1 /\ Complete(open[Len(open)], lexeme)
         THEN Put(open, Len(open) - 1, "container")
         ELSE Put(open, Len(open), "junk")
    [] OTHER -> Put(open, Len(open), lexeme)

\* What is left of them when an item is put behind those of one of them.
LEMMA PutFacts ==
  ASSUME NEW open \in Opens, NEW d \in 1 .. Len(open), NEW item \in Token
  PROVE  /\ Put(open, d, item) \in Opens
         /\ Len(Put(open, d, item)) = d
         /\ Put(open, d, item)[d] = Append(open[d], item)
         /\ \A e \in 1 .. d - 1 : Put(open, d, item)[e] = open[e]
<1> DEFINE cut  == SubSeq(open, 1, d)
           more == Append(open[d], item)
           put  == [cut EXCEPT ![d] = more]
<1>1. open \in Seq(Seq(Token)) /\ Len(open) \in Nat /\ d \in 0 .. Len(open)
  BY LenProperties DEF Opens
<1>2. /\ cut \in Seq(Seq(Token)) /\ Len(cut) = d
      /\ \A e \in 1 .. d : cut[e] = open[e]
  BY <1>1, PrefixFacts
<1>3. more \in Seq(Token) /\ more # <<>>
  <2>1. open[d] \in Seq(Token)
    BY <1>1, ElementOfSeq
  <2> QED
    BY <2>1, AppendProperties
<1>4. Put(open, d, item) = put
  <2>1. cut[d] = open[d]
    BY <1>2
  <2>2. Put(open, d, item) = [cut EXCEPT ![d] = Append(cut[d], item)]
    BY DEF Put
  <2> QED
    BY <2>1, <2>2
<1> HIDE DEF cut
<1>5. /\ put \in Seq(Seq(Token)) /\ Len(put) = d
      /\ \A e \in 1 .. d : put[e] = IF e = d THEN more ELSE cut[e]
  <2> HIDE DEF more
  <2>1. d \in 1 .. Len(cut)
    BY <1>2
  <2> QED
    BY <1>2, <1>3, <2>1, ExceptSeq
<1> HIDE DEF put
<1>6. put[d] = more /\ \A e \in 1 .. d - 1 : put[e] = open[e]
  BY <1>2, <1>5
<1>7. put # <<>> /\ \A e \in 2 .. Len(put) : put[e] # <<>>
  <2>1. put # <<>>
    BY <1>5, EmptySeq
  <2>2. ASSUME NEW e \in 2 .. d
        PROVE  put[e] # <<>>
    BY <1>3, <1>6 DEF Opens
  <2> QED
    BY <1>5, <2>1, <2>2
<1> QED
  BY <1>4, <1>5, <1>6, <1>7 DEF Opens

\* Any token leaves such containers.
LEMMA Open1Typed ==
  ASSUME NEW open \in Opens, NEW lexeme \in Token
  PROVE  Open1(open, lexeme) \in Opens
<1>1. open \in Seq(Seq(Token)) /\ Len(open) \in Nat /\ Len(open) > 0
  BY EmptySeq, LenProperties DEF Opens
<1>2. "container" \in Token /\ "junk" \in Token
  BY DEF Token
<1>3. CASE lexeme \in {"{", "["}
  <2>1. <<lexeme>> \in Seq(Token) /\ <<lexeme>> # <<>>
    OBVIOUS
  <2> DEFINE longer == Append(open, <<lexeme>>)
  <2>2. /\ longer \in Seq(Seq(Token)) /\ Len(longer) = Len(open) + 1
        /\ longer[Len(open) + 1] = <<lexeme>>
        /\ \A e \in 1 .. Len(open) : longer[e] = open[e]
    BY <1>1, <2>1, AppendProperties
  <2> HIDE DEF longer
  <2>3. longer # <<>>
    BY <1>1, <2>2, EmptySeq
  <2>4. ASSUME NEW e \in 2 .. Len(open) + 1
        PROVE  longer[e] # <<>>
    <3>1. CASE e = Len(open) + 1
      BY <2>1, <2>2, <3>1
    <3>2. CASE e # Len(open) + 1
      <4>1. \A n \in Nat : \A i \in 2 .. n + 1 : i # n + 1 => i \in 2 .. n /\ i \in 1 .. n
        OBVIOUS
      <4>2. e \in 2 .. Len(open) /\ e \in 1 .. Len(open)
        BY <1>1, <3>2, <4>1
      <4> QED
        BY <2>2, <4>2 DEF Opens
    <3> QED
      BY <3>1, <3>2
  <2>5. Open1(open, lexeme) = longer
    BY <1>3 DEF Open1, longer
  <2> QED
    BY <2>2, <2>3, <2>4, <2>5 DEF Opens
<1>4. CASE lexeme \notin {"{", "["}
  <2>1. \/ Open1(open, lexeme) = Put(open, Len(open), lexeme)
        \/ Open1(open, lexeme) = Put(open, Len(open), "junk")
        \/ Len(open) > 1 /\ Open1(open, lexeme) = Put(open, Len(open) - 1, "container")
    BY <1>4 DEF Open1
  <2>2. Len(open) \in 1 .. Len(open) /\ (Len(open) > 1 => Len(open) - 1 \in 1 .. Len(open))
    BY <1>1
  <2> QED
    BY <1>2, <2>1, <2>2, PutFacts
<1> QED
  BY <1>3, <1>4

\* Those in front of a text: none but the text itself.
OpenStart == << <<>> >>

\* f is how containers are opened and closed by a sequence of tokens.
IsOpenOf(f, tokens) ==
  /\ f \in [0 .. Len(tokens) -> Opens]
  /\ f[0] = OpenStart
  /\ \A i \in 1 .. Len(tokens) : f[i] = Open1(f[i - 1], tokens[i])

LEMMA OpenStartTyped == OpenStart \in Opens /\ Len(OpenStart) = 1 /\ OpenStart[1] = <<>>
<1>1. <<>> \in Seq(Token)
  BY EmptySeq
<1>2. OpenStart \in Seq(Seq(Token)) /\ Len(OpenStart) = 1 /\ OpenStart[1] = <<>>
  BY <1>1 DEF OpenStart
<1>3. OpenStart # <<>> /\ \A d \in 2 .. Len(OpenStart) : OpenStart[d] # <<>>
  BY <1>2, EmptySeq
<1> QED
  BY <1>2, <1>3 DEF Opens

\* The recursive function of OpenIn is what it is defined by.
LEMMA OpenInUnfolds ==
  ASSUME NEW tokens \in Seq(Token)
  PROVE  \E f : IsOpenOf(f, tokens) /\ OpenIn(tokens) = f[Len(tokens)]
<1> DEFINE open[n \in 0 .. Len(tokens)] ==
             IF n = 0 THEN << <<>> >>
             ELSE LET before == open[n - 1]
                      lexeme  == tokens[n]
                      depth  == Len(before)
                      PutIn(c, d, item) == [SubSeq(c, 1, d) EXCEPT ![d] = Append(@, item)]
                  IN  CASE lexeme \in {"{", "["} -> Append(before, <<lexeme>>)
                        [] lexeme \in {"}", "]"} ->
                             IF depth > 1 /\ Complete(before[depth], lexeme)
                             THEN PutIn(before, depth - 1, "container")
                             ELSE PutIn(before, depth, "junk")
                        [] OTHER -> PutIn(before, depth, lexeme)
           grow == [i \in 1 .. Len(tokens) |-> [o \in Opens |-> Open1(o, tokens[i])]]
<1>1. OpenStart \in Opens
  BY OpenStartTyped
<1>2. grow \in [1 .. Len(tokens) -> [Opens -> Opens]]
  BY Open1Typed
<1>3. PICK f \in Recursive(Len(tokens), Opens, OpenStart, grow) : TRUE
  <2> HIDE DEF open, grow
  <2>1. Len(tokens) \in Nat
    BY LenProperties
  <2> QED
    BY <1>1, <1>2, <2>1, NatRecursion
<1>4. /\ f \in [0 .. Len(tokens) -> Opens] /\ f[0] = OpenStart
      /\ \A i \in 1 .. Len(tokens) : f[i] = Open1(f[i - 1], tokens[i])
  <2> HIDE DEF open
  <2>1. /\ f \in [0 .. Len(tokens) -> Opens] /\ f[0] = OpenStart
        /\ \A i \in 1 .. Len(tokens) : f[i] = grow[i][f[i - 1]]
    <3> HIDE DEF grow
    <3> QED
      BY <1>3 DEF Recursive
  <2>2. \A i \in 1 .. Len(tokens) : f[i - 1] \in Opens
    BY <2>1
  <2> QED
    BY <2>1, <2>2
<1>5. f = [n \in 0 .. Len(tokens) |->
             IF n = 0 THEN << <<>> >> ELSE Open1(f[n - 1], tokens[n])]
  BY <1>4 DEF OpenStart
<1>6. \E g : g = [n \in 0 .. Len(tokens) |->
             IF n = 0 THEN << <<>> >> ELSE Open1(g[n - 1], tokens[n])]
  BY <1>5
<1>7. open = [n \in 0 .. Len(tokens) |->
             IF n = 0 THEN << <<>> >> ELSE Open1(open[n - 1], tokens[n])]
  BY <1>6 DEF Open1, Put
<1>8. OpenIn(tokens) = open[Len(tokens)]
  BY DEF OpenIn
<1> HIDE DEF open
<1>9. IsOpenOf(open, tokens)
  <2>1. Len(tokens) \in Nat
    BY LenProperties
  <2>2. open[0] = OpenStart
        /\ \A i \in 1 .. Len(tokens) : open[i] = Open1(open[i - 1], tokens[i])
    <3>1. \A i \in 1 .. Len(tokens) : i \in 0 .. Len(tokens) /\ i # 0
      OBVIOUS
    <3>2. 0 \in 0 .. Len(tokens)
      BY <2>1
    <3> QED
      BY <1>7, <3>1, <3>2, Zenon DEF OpenStart
  <2> DEFINE Good == {n \in 0 .. Len(tokens) : open[n] \in Opens}
  <2>3. 0 \in Good
    BY <1>1, <2>1, <2>2
  <2>4. ASSUME NEW k \in 0 .. Len(tokens) - 1, k \in Good
        PROVE  k + 1 \in Good
    <3>1. open[k + 1] = Open1(open[k], tokens[k + 1]) /\ tokens[k + 1] \in Token
      BY <2>2
    <3> QED
      BY <2>4, <3>1, Open1Typed
  <2>5. 0 .. Len(tokens) \subseteq Good
    <3> HIDE DEF Good
    <3> QED
      BY <2>1, <2>3, <2>4, UpTo
  <2> QED
    BY <1>7, <2>2, <2>5 DEF IsOpenOf
<1> QED
  BY <1>8, <1>9

LEMMA OpenInStart == OpenIn(<<>>) = OpenStart
<1>1. PICK f : IsOpenOf(f, <<>>) /\ OpenIn(<<>>) = f[Len(<<>>)]
  BY EmptySeq, OpenInUnfolds
<1> QED
  BY <1>1, EmptySeq DEF IsOpenOf

\* One more lexeme.
LEMMA OpenInAppend ==
  ASSUME NEW tokens \in Seq(Token), NEW lexeme \in Token
  PROVE  /\ OpenIn(tokens) \in Opens
         /\ OpenIn(Append(tokens, lexeme)) = Open1(OpenIn(tokens), lexeme)
<1> DEFINE longer == Append(tokens, lexeme)
           n      == Len(tokens)
<1>1. /\ n \in Nat /\ longer \in Seq(Token) /\ Len(longer) = n + 1
      /\ longer[n + 1] = lexeme /\ \A i \in 1 .. n : longer[i] = tokens[i]
  BY LenProperties, AppendProperties
<1>2. PICK f : IsOpenOf(f, tokens) /\ OpenIn(tokens) = f[n]
  BY OpenInUnfolds
<1> HIDE DEF longer
<1>3. PICK g : IsOpenOf(g, longer) /\ OpenIn(longer) = g[n + 1]
  BY <1>1, OpenInUnfolds
<1> HIDE DEF n
<1>4. /\ f \in [0 .. n -> Opens] /\ f[0] = OpenStart
      /\ \A i \in 1 .. n : f[i] = Open1(f[i - 1], tokens[i])
  BY <1>2 DEF IsOpenOf, n
<1>5. /\ g[0] = OpenStart
      /\ \A i \in 1 .. n + 1 : g[i] = Open1(g[i - 1], longer[i])
  BY <1>1, <1>3 DEF IsOpenOf
<1> DEFINE Same == {i \in 0 .. n : g[i] = f[i]}
<1>6. 0 \in Same
  BY <1>1, <1>4, <1>5
<1>7. ASSUME NEW i \in 0 .. n - 1, i \in Same
      PROVE  i + 1 \in Same
  <2>1. i + 1 \in 1 .. n /\ i + 1 \in 1 .. n + 1 /\ i + 1 \in 0 .. n /\ (i + 1) - 1 = i
    BY <1>1
  <2>2. g[i + 1] = Open1(g[i], longer[i + 1]) /\ f[i + 1] = Open1(f[i], tokens[i + 1])
    BY <1>4, <1>5, <2>1
  <2> QED
    BY <1>1, <1>7, <2>1, <2>2
<1>8. g[n] = f[n]
  <2>1. 0 .. n \subseteq Same
    <3> HIDE DEF Same
    <3> QED
      BY <1>1, <1>6, <1>7, UpTo
  <2> QED
    BY <1>1, <2>1
<1>9. g[n + 1] = Open1(g[n], lexeme)
  <2>1. n + 1 \in 1 .. n + 1 /\ (n + 1) - 1 = n
    BY <1>1
  <2> QED
    BY <1>1, <1>5, <2>1
<1>10. f[n] \in Opens
  BY <1>1, <1>4
<1> QED
  BY <1>2, <1>3, <1>8, <1>9, <1>10 DEF longer

------------------------------------------------------------------------------
(***************************************************************************)
(* The path: the containers that are open as the bits of a number.         *)
(***************************************************************************)
\* The bits of the containers that are open.
PathOf(open) ==
  LET bits[n \in 1 .. Len(open)] ==
        IF n = 1 THEN 1
        ELSE 2 * bits[n - 1] + (IF open[n][1] = "{" THEN Object ELSE Array)
  IN  bits[Len(open)]

\* What the parser remembers of a container.
Bit(container) == IF container[1] = "{" THEN Object ELSE Array

\* b is how they come together.
IsBitsOf(b, open) ==
  /\ b \in [1 .. Len(open) -> Nat \ {0}]
  /\ b[1] = 1
  /\ \A n \in 2 .. Len(open) : b[n] = 2 * b[n - 1] + Bit(open[n])

\* The path of a text is that of what is open behind it.
LEMMA PathIs ==
  ASSUME NEW t
  PROVE  Path(t) = PathOf(OpenIn(Lexed(t)))
BY DEF Path, PathOf

LEMMA BitTyped == ASSUME NEW c PROVE Bit(c) \in {0, 1}
BY DEF Bit, Object, Array

\* The recursive function of Path is what it is defined by.
LEMMA PathUnfolds ==
  ASSUME NEW open \in Opens
  PROVE  \E b : IsBitsOf(b, open) /\ PathOf(open) = b[Len(open)]
<1> DEFINE bits[n \in 1 .. Len(open)] ==
             IF n = 1 THEN 1
             ELSE 2 * bits[n - 1] + (IF open[n][1] = "{" THEN Object ELSE Array)
           Positive == Nat \ {0}
           last == Len(open) - 1
           grow == [i \in 1 .. last |-> [x \in Positive |-> 2 * x + Bit(open[i + 1])]]
<1>1. Len(open) \in Nat /\ Len(open) > 0 /\ last \in Nat /\ Len(open) = last + 1
  BY EmptySeq, LenProperties DEF Opens
<1> HIDE DEF bits, last
<1>2. grow \in [1 .. last -> [Positive -> Positive]]
  <2>1. \A i \in 1 .. last : \A x \in Positive : 2 * x + Bit(open[i + 1]) \in Positive
    BY BitTyped
  <2> QED
    BY <2>1
<1>3. PICK f \in Recursive(last, Positive, 1, grow) : TRUE
  <2>1. 1 \in Positive
    OBVIOUS
  <2> HIDE DEF grow, Positive
  <2> QED
    BY <1>1, <1>2, <2>1, NatRecursion
<1>4. /\ f \in [0 .. last -> Positive] /\ f[0] = 1
      /\ \A i \in 1 .. last : f[i] = 2 * f[i - 1] + Bit(open[i + 1])
  <2>1. /\ f \in [0 .. last -> Positive] /\ f[0] = 1
        /\ \A i \in 1 .. last : f[i] = grow[i][f[i - 1]]
    <3> HIDE DEF grow, Positive
    <3> QED
      BY <1>3 DEF Recursive
  <2>2. \A i \in 1 .. last : i - 1 \in 0 .. last
    BY <1>1
  <2>3. \A i \in 1 .. last : f[i - 1] \in Positive
    BY <2>1, <2>2
  <2> HIDE DEF Positive
  <2> QED
    BY <2>1, <2>3
<1> DEFINE b == [n \in 1 .. last + 1 |-> f[n - 1]]
<1>5. /\ b \in [1 .. last + 1 -> Positive] /\ b[1] = 1
      /\ \A n \in 2 .. last + 1 : b[n] = 2 * b[n - 1] + Bit(open[n])
  <2>1. b \in [1 .. last + 1 -> Positive]
    BY <1>1, <1>4
  <2>2. b[1] = 1
    BY <1>1, <1>4
  <2>3. ASSUME NEW n \in 2 .. last + 1
        PROVE  b[n] = 2 * b[n - 1] + Bit(open[n])
    <3>1. n - 1 \in 1 .. last /\ (n - 1) + 1 = n /\ n \in 1 .. last + 1
          /\ n - 1 \in 1 .. last + 1
      BY <1>1
    <3>2. b[n] = f[n - 1] /\ b[n - 1] = f[(n - 1) - 1]
      BY <3>1
    <3> HIDE DEF b
    <3> QED
      BY <1>4, <3>1, <3>2
  <2> HIDE DEF b
  <2> QED
    BY <2>1, <2>2, <2>3
<1> HIDE DEF b
<1>6. IsBitsOf(b, open)
  BY <1>1, <1>5 DEF IsBitsOf
<1>7. b = [n \in 1 .. Len(open) |->
             IF n = 1 THEN 1 ELSE 2 * b[n - 1] + Bit(open[n])]
  <2>1. \A n \in 1 .. Len(open) : n # 1 => n \in 2 .. Len(open)
    OBVIOUS
  <2>2. \A n \in 1 .. Len(open) :
          b[n] = IF n = 1 THEN 1 ELSE 2 * b[n - 1] + Bit(open[n])
    BY <1>6, <2>1 DEF IsBitsOf
  <2>3. b = [n \in 1 .. Len(open) |-> b[n]]
    BY <1>6 DEF IsBitsOf
  <2> QED
    BY <2>2, <2>3
<1>8. \E g : g = [n \in 1 .. Len(open) |->
             IF n = 1 THEN 1 ELSE 2 * g[n - 1] + Bit(open[n])]
  BY <1>7
<1>9. bits = [n \in 1 .. Len(open) |->
             IF n = 1 THEN 1 ELSE 2 * bits[n - 1] + Bit(open[n])]
  BY <1>8 DEF Bit, bits
<1>10. PathOf(open) = bits[Len(open)]
  BY DEF PathOf, bits
<1>11. IsBitsOf(bits, open)
  <2>1. bits[1] = 1
    BY <1>1, <1>9
  <2>2. \A n \in 2 .. Len(open) : bits[n] = 2 * bits[n - 1] + Bit(open[n])
    <3>1. \A n \in 2 .. Len(open) : n \in 1 .. Len(open) /\ n # 1
      OBVIOUS
    <3> QED
      BY <1>9, <3>1, Zenon
  <2> DEFINE Good == {n \in 0 .. last : bits[n + 1] \in Positive}
  <2>3. 0 \in Good
    BY <1>1, <2>1
  <2>4. ASSUME NEW k \in 0 .. last - 1, k \in Good
        PROVE  k + 1 \in Good
    <3> DEFINE n == k + 2
    <3>1. /\ n \in 2 .. Len(open) /\ n - 1 = k + 1 /\ (k + 1) + 1 = n
          /\ k + 1 \in 0 .. last
      BY <1>1
    <3> HIDE DEF n
    <3>2. bits[n] = 2 * bits[n - 1] + Bit(open[n]) /\ Bit(open[n]) \in {0, 1}
      BY <2>2, <3>1, BitTyped
    <3>3. bits[n - 1] \in Nat \ {0}
      BY <2>4, <3>1
    <3>4. \A x \in Nat \ {0} : \A y \in {0, 1} : 2 * x + y \in Nat \ {0}
      OBVIOUS
    <3>5. bits[n] \in Positive
      BY <3>2, <3>3, <3>4
    <3> HIDE DEF Positive
    <3> QED
      BY <3>1, <3>5
  <2>5. 0 .. last \subseteq Good
    <3> HIDE DEF Good
    <3> QED
      BY <1>1, <2>3, <2>4, UpTo
  <2>6. ASSUME NEW n \in 1 .. Len(open)
        PROVE  bits[n] \in Positive
    <3>1. n - 1 \in 0 .. last /\ (n - 1) + 1 = n
      BY <1>1
    <3> HIDE DEF Positive
    <3> QED
      BY <2>5, <3>1
  <2> QED
    BY <1>9, <2>1, <2>2, <2>6 DEF IsBitsOf
<1> QED
  BY <1>10, <1>11

\* Brackets that are alike have the same path, as far as they go.
LEMMA PathPrefix ==
  ASSUME NEW open \in Opens, NEW other \in Opens, Len(other) <= Len(open),
         \A d \in 2 .. Len(other) : Bit(other[d]) = Bit(open[d]),
         NEW b, IsBitsOf(b, open)
  PROVE  PathOf(other) = b[Len(other)]
<1> DEFINE n == Len(other)
           m == Len(open)
<1>1. n \in Nat /\ n > 0 /\ m \in Nat /\ n <= m
  BY EmptySeq, LenProperties DEF Opens
<1>2. PICK c : IsBitsOf(c, other) /\ PathOf(other) = c[n]
  BY PathUnfolds
<1>3. /\ c[1] = 1 /\ \A d \in 2 .. n : c[d] = 2 * c[d - 1] + Bit(open[d])
      /\ b[1] = 1 /\ \A d \in 2 .. m : b[d] = 2 * b[d - 1] + Bit(open[d])
  BY <1>2 DEF IsBitsOf
<1> HIDE DEF n, m
<1> DEFINE Same == {k \in 0 .. n - 1 : c[k + 1] = b[k + 1]}
<1>4. 0 \in Same
  BY <1>1, <1>3
<1>5. ASSUME NEW k \in 0 .. (n - 1) - 1, k \in Same
      PROVE  k + 1 \in Same
  <2>1. k + 2 \in 2 .. n /\ k + 2 \in 2 .. m /\ (k + 1) + 1 = k + 2 /\ (k + 2) - 1 = k + 1
        /\ k + 1 \in 0 .. n - 1
    BY <1>1
  <2> QED
    BY <1>3, <1>5, <2>1
<1>6. 0 .. n - 1 \subseteq Same
  <2>1. n - 1 \in Nat
    BY <1>1
  <2> HIDE DEF Same
  <2> QED
    BY <1>4, <1>5, <2>1, UpTo
<1>7. n - 1 \in 0 .. n - 1 /\ (n - 1) + 1 = n
  BY <1>1
<1> QED
  BY <1>2, <1>6, <1>7 DEF n

\* The path has a first bit, and no other when nothing is open.
LEMMA PathTyped ==
  ASSUME NEW open \in Opens
  PROVE  PathOf(open) \in Nat \ {0} /\ (Len(open) = 1 => PathOf(open) = 1)
<1>1. PICK b : IsBitsOf(b, open) /\ PathOf(open) = b[Len(open)]
  BY PathUnfolds
<1>2. Len(open) \in 1 .. Len(open)
  BY EmptySeq, LenProperties DEF Opens
<1> QED
  BY <1>1, <1>2 DEF IsBitsOf

\* It does not depend on what stands in the containers,
LEMMA PathSame ==
  ASSUME NEW open \in Opens, NEW other \in Opens, Len(other) = Len(open),
         \A d \in 2 .. Len(other) : Bit(other[d]) = Bit(open[d])
  PROVE  PathOf(other) = PathOf(open)
<1>1. PICK b : IsBitsOf(b, open) /\ PathOf(open) = b[Len(open)]
  BY PathUnfolds
<1>2. Len(other) <= Len(open)
  BY LenProperties DEF Opens
<1> QED
  BY <1>1, <1>2, PathPrefix

\* and the innermost container is its last bit.
LEMMA PathGrows ==
  ASSUME NEW open \in Opens, NEW other \in Opens, Len(open) = Len(other) + 1,
         \A d \in 2 .. Len(other) : Bit(other[d]) = Bit(open[d])
  PROVE  PathOf(open) = 2 * PathOf(other) + Bit(open[Len(open)])
<1>1. PICK b : IsBitsOf(b, open) /\ PathOf(open) = b[Len(open)]
  BY PathUnfolds
<1>2. Len(other) \in Nat /\ Len(other) > 0
  BY EmptySeq, LenProperties DEF Opens
<1>3. PathOf(other) = b[Len(other)]
  BY <1>1, <1>2, PathPrefix
<1>4. Len(open) \in 2 .. Len(open) /\ Len(open) - 1 = Len(other)
  BY <1>2
<1> QED
  BY <1>1, <1>3, <1>4 DEF IsBitsOf

------------------------------------------------------------------------------
(***************************************************************************)
(* What has been read when the parser stands behind k units of a text.     *)
(***************************************************************************)
\* Whether the place behind k units of a text is inside of a string, and the
\* containers that are open there.
InString(t, k) == LexOf(t)[k].inside
Opened(t, k)   == OpenIn(LexOf(t)[k].tokens)

\* In front of a text nothing is open,
LEMMA OpenedStart ==
  ASSUME NEW t \in Seq(Unit)
  PROVE  ~ InString(t, 0) /\ Opened(t, 0) = OpenStart
<1>1. Len(t) \in Nat
  BY LenProperties
<1>2. LexOf(t)[0] = LexStart
  BY <1>1, LexedPrefix DEF IsLexOf
<1> QED
  BY <1>2, OpenInStart DEF InString, Opened, LexStart

\* and behind a unit there is always something to be told.
LEMMA OpenedTyped ==
  ASSUME NEW t \in Seq(Unit), NEW k \in 0 .. Len(t)
  PROVE  InString(t, k) \in BOOLEAN /\ Opened(t, k) \in Opens
<1>1. LexOf(t)[k] \in LexState
  BY LexedPrefix DEF IsLexOf
<1>2. LexOf(t)[k].tokens \in Seq(Token) /\ LexOf(t)[k].inside \in BOOLEAN
  BY <1>1 DEF LexState
<1>3. "junk" \in Token
  BY DEF Token
<1> QED
  BY <1>2, <1>3, OpenInAppend DEF InString, Opened

\* The properties speak of parts of the text; outside of a string this is what
\* they mean.
LEMMA OpenedMeans ==
  ASSUME NEW t \in Seq(Unit), NEW k \in 0 .. Len(t), ~ InString(t, k)
  PROVE  OpenIn(Lexed(SubSeq(t, 1, k))) = Opened(t, k)
BY LexedPrefix DEF InString, Opened

\* What one unit more makes of that.
LEMMA ReadUnit ==
  ASSUME NEW t \in Seq(Unit), NEW k \in 1 .. Len(t)
  PROVE  /\ ~ InString(t, k - 1) /\ t[k] \in White =>
              ~ InString(t, k) /\ Opened(t, k) = Opened(t, k - 1)
         /\ ~ InString(t, k - 1) /\ t[k] = "quote" =>
              InString(t, k) /\ Opened(t, k) = Opened(t, k - 1)
         /\ ~ InString(t, k - 1) /\ t[k] # "quote" /\ t[k] \notin White =>
              ~ InString(t, k) /\ Opened(t, k) = Open1(Opened(t, k - 1), t[k])
         /\ InString(t, k - 1) /\ t[k] = "quote" =>
              ~ InString(t, k) /\ Opened(t, k) = Open1(Opened(t, k - 1), "string")
         /\ InString(t, k - 1) /\ t[k] # "quote" /\ t[k] \notin Control =>
              InString(t, k) /\ Opened(t, k) = Opened(t, k - 1)
<1> DEFINE f == LexOf(t)
<1>1. /\ k - 1 \in 0 .. Len(t) /\ k \in 0 .. Len(t) /\ t[k] \in Unit
      /\ IsLexOf(f, t)
  BY LenProperties, LexedPrefix
<1>2. f[k] = Lex1(f[k - 1], t[k]) /\ f[k - 1] \in LexState
  BY <1>1 DEF IsLexOf
<1> DEFINE before == f[k - 1]
           tokens == before.tokens
<1>3. before.inside \in BOOLEAN /\ tokens \in Seq(Token)
      /\ before = [inside |-> before.inside, tokens |-> tokens]
  BY <1>2 DEF LexState
<1> HIDE DEF f
<1>4. \A lexeme \in Token : OpenIn(Append(tokens, lexeme)) = Open1(OpenIn(tokens), lexeme)
  <2> HIDE DEF before, tokens
  <2> QED
    BY <1>3, OpenInAppend
<1>5. "string" \in Token /\ t[k] \in Token
  BY <1>1 DEF Token
<1>6. /\ InString(t, k - 1) <=> before.inside
      /\ Opened(t, k - 1) = OpenIn(tokens)
      /\ InString(t, k) <=> f[k].inside
      /\ Opened(t, k) = OpenIn(f[k].tokens)
  BY <1>3 DEF InString, Opened, f
<1>7. [before EXCEPT !.inside = TRUE].inside = TRUE
      /\ [before EXCEPT !.inside = TRUE].tokens = tokens
  BY <1>3
<1> HIDE DEF before, tokens
<1>8. CASE ~ before.inside /\ t[k] \in White
  <2>1. f[k] = before
    BY <1>2, <1>8 DEF Lex1, White, before
  <2> QED
    BY <1>6, <1>8, <2>1 DEF tokens, White
<1>9. CASE ~ before.inside /\ t[k] = "quote"
  <2>1. f[k] = [before EXCEPT !.inside = TRUE]
    BY <1>2, <1>9 DEF Lex1, White, before
  <2> QED
    BY <1>6, <1>7, <1>9, <2>1 DEF White
<1>10. CASE ~ before.inside /\ t[k] # "quote" /\ t[k] \notin White
  <2>1. f[k] = [inside |-> FALSE, tokens |-> Append(tokens, t[k])]
    BY <1>2, <1>10 DEF Lex1, before, tokens
  <2> QED
    BY <1>4, <1>5, <1>6, <1>10, <2>1
<1>11. CASE before.inside /\ t[k] = "quote"
  <2>1. f[k] = [inside |-> FALSE, tokens |-> Append(tokens, "string")]
    BY <1>2, <1>11 DEF Lex1, Control, before, tokens
  <2> QED
    BY <1>4, <1>5, <1>6, <1>11, <2>1
<1>12. CASE before.inside /\ t[k] # "quote" /\ t[k] \notin Control
  <2>1. f[k] = before
    BY <1>2, <1>12 DEF Lex1, before
  <2> QED
    BY <1>6, <1>12, <2>1 DEF tokens
<1> QED
  BY <1>6, <1>8, <1>9, <1>10, <1>11, <1>12

\* White space outside of strings is passed,
LEMMA WhiteRun ==
  ASSUME NEW t \in Seq(Unit), NEW a \in 0 .. Len(t), NEW b \in a .. Len(t),
         ~ InString(t, a), \A q \in a + 1 .. b : t[q] \in White
  PROVE  ~ InString(t, b) /\ Opened(t, b) = Opened(t, a)
<1> DEFINE Good == {i \in 0 .. b - a : ~ InString(t, a + i) /\ Opened(t, a + i) = Opened(t, a)}
<1>1. Len(t) \in Nat /\ a \in Nat /\ b \in Nat /\ b - a \in Nat
  BY LenProperties
<1>2. 0 \in Good
  BY <1>1
<1>3. ASSUME NEW i \in 0 .. (b - a) - 1, i \in Good
      PROVE  i + 1 \in Good
  <2> DEFINE k == a + (i + 1)
  <2>1. k \in 1 .. Len(t) /\ k - 1 = a + i /\ k \in a + 1 .. b /\ i + 1 \in 0 .. b - a
    BY <1>1
  <2> HIDE DEF k
  <2>2. ~ InString(t, k) /\ Opened(t, k) = Opened(t, k - 1)
    BY <1>3, <2>1, ReadUnit
  <2> QED
    BY <1>3, <2>1, <2>2 DEF k
<1>4. 0 .. b - a \subseteq Good
  <2> HIDE DEF Good
  <2> QED
    BY <1>1, <1>2, <1>3, UpTo
<1>5. b - a \in 0 .. b - a /\ a + (b - a) = b
  BY <1>1
<1>6. b - a \in Good
  <2> HIDE DEF Good
  <2> QED
    BY <1>4, <1>5
<1> QED
  BY <1>5, <1>6

\* and so are the units of a string.
LEMMA StringRun ==
  ASSUME NEW t \in Seq(Unit), NEW a \in 0 .. Len(t), NEW b \in a .. Len(t),
         InString(t, a), \A q \in a + 1 .. b : t[q] \notin {"quote"} \cup Control
  PROVE  InString(t, b) /\ Opened(t, b) = Opened(t, a)
<1> DEFINE Good == {i \in 0 .. b - a : InString(t, a + i) /\ Opened(t, a + i) = Opened(t, a)}
<1>1. Len(t) \in Nat /\ a \in Nat /\ b \in Nat /\ b - a \in Nat
  BY LenProperties
<1>2. 0 \in Good
  BY <1>1
<1>3. ASSUME NEW i \in 0 .. (b - a) - 1, i \in Good
      PROVE  i + 1 \in Good
  <2> DEFINE k == a + (i + 1)
  <2>1. k \in 1 .. Len(t) /\ k - 1 = a + i /\ k \in a + 1 .. b /\ i + 1 \in 0 .. b - a
    BY <1>1
  <2> HIDE DEF k
  <2>2. InString(t, k) /\ Opened(t, k) = Opened(t, k - 1)
    BY <1>3, <2>1, ReadUnit
  <2> QED
    BY <1>3, <2>1, <2>2 DEF k
<1>4. 0 .. b - a \subseteq Good
  <2> HIDE DEF Good
  <2> QED
    BY <1>1, <1>2, <1>3, UpTo
<1>5. b - a \in 0 .. b - a /\ a + (b - a) = b
  BY <1>1
<1>6. b - a \in Good
  <2> HIDE DEF Good
  <2> QED
    BY <1>4, <1>5
<1> QED
  BY <1>5, <1>6

------------------------------------------------------------------------------
(***************************************************************************)
(* What a container waits for, and what it is when it has that.            *)
(***************************************************************************)
\* Brackets and the like are spoken of by name.
IsObject(container) == container[1] = "{"
IsArray(container)  == container[1] = "["
IsComma(lexeme) == lexeme = ","
IsColon(lexeme) == lexeme = ":"

\* What may stand at a place in an array, and in an object.
ArrayAt(i, item) == IF i % 2 = 1 THEN item \in Values ELSE IsComma(item)

ObjectAt(i, item) ==
  /\ i % 4 = 1 => item = "string"
  /\ i % 4 = 2 => IsColon(item)
  /\ i % 4 = 3 => item \in Values
  /\ i % 4 = 0 => IsComma(item)

\* The items of an array, and the members of an object, as far as they go.
FlatItems(items)   == \A i \in DOMAIN items : ArrayAt(i, items[i])
FlatMembers(items) == \A i \in DOMAIN items : ObjectAt(i, items[i])

\* What a container that is open waits for: the name of a member, its colon, a
\* value, or what comes behind a value.
Awaits(container, what) ==
  LET n == Len(container)
  IN  \/ /\ IsArray(container) /\ FlatItems(Tail(container))
         /\ \/ what = "value" /\ n % 2 = 1
            \/ what = "next"  /\ n % 2 = 0
      \/ /\ IsObject(container) /\ FlatMembers(Tail(container))
         /\ \/ what = "name"  /\ n % 4 = 1
            \/ what = "colon" /\ n % 4 = 2
            \/ what = "value" /\ n % 4 = 3
            \/ what = "next"  /\ n % 4 = 0

\* It waits for an item.
Begins(container) == Awaits(container, IF IsObject(container) THEN "name" ELSE "value")

LEMMA OneKind == ASSUME NEW c PROVE ~ (IsObject(c) /\ IsArray(c))
BY DEF IsObject, IsArray

\* The tokens behind the bracket, when there is one more.
LEMMA TailOfAppend ==
  ASSUME NEW c \in Seq(Token), c # <<>>, NEW x \in Token
  PROVE  LET d == Append(c, x)
         IN  /\ Len(c) \in Nat \ {0} /\ Len(d) = Len(c) + 1 /\ d[1] = c[1]
             /\ DOMAIN Tail(c) = 1 .. Len(c) - 1
             /\ DOMAIN Tail(d) = 1 .. Len(c)
             /\ Tail(d)[Len(c)] = x
             /\ \A i \in 1 .. Len(c) - 1 : Tail(d)[i] = Tail(c)[i]
<1> DEFINE d == Append(c, x)
<1>1. Len(c) \in Nat \ {0}
  BY EmptySeq, LenProperties
<1>2. /\ d \in Seq(Token) /\ Len(d) = Len(c) + 1 /\ d[Len(c) + 1] = x
      /\ \A i \in 1 .. Len(c) : d[i] = c[i]
  BY AppendProperties
<1> HIDE DEF d
<1>3. d # <<>>
  BY <1>1, <1>2, EmptySeq
<1>4. /\ Tail(c) \in Seq(Token) /\ Len(Tail(c)) = Len(c) - 1
      /\ \A i \in 1 .. Len(c) - 1 : Tail(c)[i] = c[i + 1]
  BY HeadTailProperties
<1>5. /\ Tail(d) \in Seq(Token) /\ Len(Tail(d)) = Len(c)
      /\ \A i \in 1 .. Len(c) : Tail(d)[i] = d[i + 1]
  BY <1>1, <1>2, <1>3, HeadTailProperties
<1>6. DOMAIN Tail(c) = 1 .. Len(c) - 1 /\ DOMAIN Tail(d) = 1 .. Len(c)
  BY <1>4, <1>5, LenProperties
<1>7. Tail(d)[Len(c)] = x
  BY <1>1, <1>2, <1>5
<1>8. ASSUME NEW i \in 1 .. Len(c) - 1
      PROVE  Tail(d)[i] = Tail(c)[i]
  <2>1. i + 1 \in 1 .. Len(c) /\ i \in 1 .. Len(c)
    BY <1>1
  <2> QED
    BY <1>2, <1>4, <1>5, <2>1
<1>9. d[1] = c[1]
  BY <1>1, <1>2
<1> QED
  BY <1>1, <1>2, <1>6, <1>7, <1>8, <1>9 DEF d

\* A container that has just been opened waits for an item.
LEMMA NewBegins ==
  ASSUME NEW c, c \in Seq(Token), Len(c) = 1, IsObject(c) \/ IsArray(c)
  PROVE  Begins(c)
<1>1. c # <<>>
  BY EmptySeq
<1>2. Tail(c) \in Seq(Token) /\ Len(Tail(c)) = 0
  BY <1>1, HeadTailProperties
<1>3. DOMAIN Tail(c) = {}
  <2>1. DOMAIN Tail(c) = 1 .. Len(Tail(c))
    BY <1>2, LenProperties
  <2>2. 1 .. 0 = {}
    OBVIOUS
  <2> QED
    BY <1>2, <2>1, <2>2
<1>4. FlatItems(Tail(c)) /\ FlatMembers(Tail(c))
  BY <1>3 DEF FlatItems, FlatMembers
<1>5. Len(c) % 2 = 1 /\ Len(c) % 4 = 1
  OBVIOUS
<1> QED
  BY <1>4, <1>5, OneKind DEF Begins, Awaits

\* The lexeme that a container waits for.
Suits(what, lexeme) ==
  \/ what = "name"  /\ lexeme = "string"
  \/ what = "colon" /\ IsColon(lexeme)
  \/ what = "value" /\ lexeme \in Values
  \/ what = "next"  /\ IsComma(lexeme)

\* What it waits for then.
Then(container, what) ==
  CASE what = "name"  -> "colon"
    [] what = "colon" -> "value"
    [] what = "value" -> "next"
    [] what = "next"  -> IF IsObject(container) THEN "name" ELSE "value"

\* With what it waits for, it is well-formed again.
LEMMA TokenSuits ==
  ASSUME NEW c \in Seq(Token), c # <<>>, NEW lexeme \in Token,
         NEW what, Awaits(c, what), Suits(what, lexeme)
  PROVE  /\ Awaits(Append(c, lexeme), Then(c, what))
         /\ Append(c, lexeme)[1] = c[1]
<1> DEFINE d == Append(c, lexeme)
           n == Len(c)
<1>1. /\ n \in Nat \ {0} /\ Len(d) = n + 1 /\ d[1] = c[1]
      /\ DOMAIN Tail(c) = 1 .. n - 1
      /\ DOMAIN Tail(d) = 1 .. n
      /\ Tail(d)[n] = lexeme
      /\ \A i \in 1 .. n - 1 : Tail(d)[i] = Tail(c)[i]
  BY TailOfAppend
<1> HIDE DEF d, n
<1>2. \A i \in 1 .. n : i \in 1 .. n - 1 \/ i = n
  BY <1>1
<1>3. /\ n % 2 = 0 => (n + 1) % 2 = 1
      /\ n % 2 = 1 => (n + 1) % 2 = 0
      /\ n % 4 = 0 => (n + 1) % 4 = 1
      /\ n % 4 = 1 => (n + 1) % 4 = 2
      /\ n % 4 = 2 => (n + 1) % 4 = 3
      /\ n % 4 = 3 => (n + 1) % 4 = 0
  BY <1>1
<1>6. (IsArray(d) <=> IsArray(c)) /\ (IsObject(d) <=> IsObject(c))
  BY <1>1 DEF IsArray, IsObject
<1>4. CASE IsArray(c)
  <2>1. FlatItems(Tail(c))
    BY <1>4, OneKind DEF Awaits
  <2>2. \/ what = "value" /\ n % 2 = 1 /\ lexeme \in Values
        \/ what = "next" /\ n % 2 = 0 /\ IsComma(lexeme)
    BY <1>4, OneKind DEF Awaits, Suits, n
  <2>3. ArrayAt(n, lexeme)
    BY <1>1, <2>2 DEF ArrayAt
  <2>4. FlatItems(Tail(d))
    BY <1>1, <1>2, <2>1, <2>3 DEF FlatItems
  <2> QED
    BY <1>1, <1>3, <1>4, <1>6, <2>2, <2>4, OneKind DEF Awaits, Then, d
<1>5. CASE IsObject(c)
  <2>1. FlatMembers(Tail(c))
    BY <1>5, OneKind DEF Awaits
  <2>2. \/ what = "name" /\ n % 4 = 1 /\ lexeme = "string"
        \/ what = "colon" /\ n % 4 = 2 /\ IsColon(lexeme)
        \/ what = "value" /\ n % 4 = 3 /\ lexeme \in Values
        \/ what = "next" /\ n % 4 = 0 /\ IsComma(lexeme)
    BY <1>5, OneKind DEF Awaits, Suits, n
  <2>3. CASE n % 4 = 1 /\ lexeme = "string" /\ what = "name"
    <3>1. ObjectAt(n, lexeme)
      BY <1>1, <2>3 DEF ObjectAt
    <3>2. FlatMembers(Tail(d))
      BY <1>1, <1>2, <2>1, <3>1 DEF FlatMembers
    <3> QED
      BY <1>1, <1>3, <1>5, <1>6, <2>3, <3>2 DEF Awaits, Then, d
  <2>4. CASE n % 4 = 2 /\ IsColon(lexeme) /\ what = "colon"
    <3>1. ObjectAt(n, lexeme)
      BY <1>1, <2>4 DEF ObjectAt
    <3>2. FlatMembers(Tail(d))
      BY <1>1, <1>2, <2>1, <3>1 DEF FlatMembers
    <3> QED
      BY <1>1, <1>3, <1>5, <1>6, <2>4, <3>2 DEF Awaits, Then, d
  <2>5. CASE n % 4 = 3 /\ lexeme \in Values /\ what = "value"
    <3>1. ObjectAt(n, lexeme)
      BY <1>1, <2>5 DEF ObjectAt
    <3>2. FlatMembers(Tail(d))
      BY <1>1, <1>2, <2>1, <3>1 DEF FlatMembers
    <3> QED
      BY <1>1, <1>3, <1>5, <1>6, <2>5, <3>2 DEF Awaits, Then, d
  <2>6. CASE n % 4 = 0 /\ IsComma(lexeme) /\ what = "next"
    <3>1. ObjectAt(n, lexeme)
      BY <1>1, <2>6 DEF ObjectAt
    <3>2. FlatMembers(Tail(d))
      BY <1>1, <1>2, <2>1, <3>1 DEF FlatMembers
    <3> QED
      BY <1>1, <1>3, <1>5, <1>6, <2>6, <3>2 DEF Awaits, Then, d
  <2> QED
    BY <2>2, <2>3, <2>4, <2>5, <2>6
<1> QED
  BY <1>1, <1>4, <1>5 DEF Awaits, d

\* A container may be closed where an item may begin, and behind one.
LEMMA MayClose ==
  ASSUME NEW c \in Seq(Token), c # <<>>, Begins(c) \/ Awaits(c, "next")
  PROVE  Complete(c, Close(Bit(c)))
<1> DEFINE n == Len(c)
<1>1. n \in Nat \ {0}
  BY EmptySeq, LenProperties
<1>2. Len(Tail(c)) = n - 1
  BY HeadTailProperties
<1> HIDE DEF n
<1>3. CASE IsArray(c)
  <2>1. FlatItems(Tail(c))
    BY <1>3, OneKind DEF Begins, Awaits
  <2>2. FlatArray(Tail(c))
    BY <2>1 DEF FlatItems, FlatArray, ArrayAt, IsComma
  <2>3. Bit(c) = Array /\ Close(Array) = "]"
    BY <1>3 DEF Bit, IsArray, Close, Array, Object
  <2> QED
    BY <1>3, <2>2, <2>3 DEF Complete, IsArray
<1>4. CASE IsObject(c)
  <2>1. FlatMembers(Tail(c)) /\ n % 4 \in {0, 1}
    BY <1>4, OneKind DEF Begins, Awaits, n
  <2>2. (n - 1) % 4 \in {0, 3}
    BY <1>1, <2>1
  <2>3. Len(Tail(c)) % 4 \in {0, 3}
    BY <1>2, <2>2 DEF n
  <2>4. ASSUME NEW i \in DOMAIN Tail(c)
        PROVE  CASE i % 4 = 1 -> Tail(c)[i] = "string"
                 [] i % 4 = 2 -> Tail(c)[i] = ":"
                 [] i % 4 = 3 -> Tail(c)[i] \in Values
                 [] i % 4 = 0 -> Tail(c)[i] = ","
    <3> DEFINE m    == i % 4
               item == Tail(c)[i]
    <3>1. i \in Nat
      BY HeadTailProperties, LenProperties
    <3>2. \/ m = 1 /\ m # 2 /\ m # 3 /\ m # 0
          \/ m = 2 /\ m # 1 /\ m # 3 /\ m # 0
          \/ m = 3 /\ m # 2 /\ m # 1 /\ m # 0
          \/ m = 0 /\ m # 2 /\ m # 3 /\ m # 1
      BY <3>1
    <3>3. /\ m = 1 => item = "string"
          /\ m = 2 => item = ":"
          /\ m = 3 => item \in Values
          /\ m = 0 => item = ","
      BY <2>1, Zenon DEF FlatMembers, ObjectAt, IsColon, IsComma
    <3> HIDE DEF m, item
    <3>4. (CASE m = 1 -> item = "string"
             [] m = 2 -> item = ":"
             [] m = 3 -> item \in Values
             [] m = 0 -> item = ",")
      BY <3>2, <3>3, Zenon
    <3> QED
      BY <3>4 DEF m, item
  <2>6. FlatObject(Tail(c))
    BY <2>3, <2>4, Zenon DEF FlatObject
  <2>5. Bit(c) = Object /\ Close(Object) = "}"
    BY <1>4 DEF Bit, IsObject, Close, Array, Object
  <2> QED
    BY <1>4, <2>5, <2>6 DEF Complete, IsObject
<1> QED
  BY <1>3, <1>4 DEF Begins, Awaits

------------------------------------------------------------------------------
(***************************************************************************)
(* What a token makes of the containers that are open, where the parser    *)
(* may take it.                                                            *)
(***************************************************************************)
\* The text has nothing but complete containers.
AllClosed(root) == \A i \in DOMAIN root : root[i] = "container"

\* The containers around the innermost one wait for it to end; the text itself
\* has nothing but containers so far.
Lower(open) ==
  \A d \in 1 .. Len(open) - 1 :
    IF d = 1 THEN AllClosed(open[1]) ELSE Awaits(open[d], "value")

Innermost(open) == open[Len(open)]

\* Containers that are open in two places: in the second, this many of the same
\* kinds are, and maybe more.
Alike(n, open, new) == \A d \in 2 .. n : Bit(new[d]) = Bit(open[d])

SameDepth(open, new) == Len(new) = Len(open) /\ Alike(Len(open), open, new)
Deeper(open, new)    == Len(new) = Len(open) + 1 /\ Alike(Len(open), open, new)

\* In a container that waits for this, or in none.
Within(open, what) == Len(open) > 1 /\ Lower(open) /\ Awaits(Innermost(open), what)
Outside(open)      == Len(open) = 1 /\ AllClosed(open[1])

\* What IsJson says of the text itself.
Whole(root) ==
  /\ Len(root) > 0 /\ root[Len(root)] \in Values
  /\ \A i \in 1 .. Len(root) - 1 : root[i] = "container"

IsOpening(lexeme) == lexeme \in {"{", "["}
IsClosing(lexeme) == lexeme \in {"}", "]"}
Plain(lexeme) == ~ IsOpening(lexeme) /\ ~ IsClosing(lexeme)

\* The three ways a token is taken.
LEMMA Open1Cases ==
  ASSUME NEW open, NEW lexeme
  PROVE  /\ IsOpening(lexeme) => Open1(open, lexeme) = Append(open, <<lexeme>>)
         /\ Plain(lexeme) => Open1(open, lexeme) = Put(open, Len(open), lexeme)
         /\ IsClosing(lexeme) /\ Len(open) > 1 /\ Complete(open[Len(open)], lexeme) =>
              Open1(open, lexeme) = Put(open, Len(open) - 1, "container")
<1>1. ~ (IsOpening(lexeme) /\ IsClosing(lexeme))
  BY DEF IsOpening, IsClosing
<1> QED
  BY <1>1, Zenon DEF Open1, Plain, IsOpening, IsClosing

LEMMA OpensFacts ==
  ASSUME NEW open \in Opens
  PROVE  /\ Len(open) \in Nat \ {0}
         /\ \A d \in 1 .. Len(open) : open[d] \in Seq(Token)
         /\ \A d \in 2 .. Len(open) : open[d] # <<>>
BY EmptySeq, LenProperties, ElementOfSeq DEF Opens

LEMMA DepthFacts ==
  ASSUME NEW one \in Opens, NEW two \in Opens, NEW three \in Opens
  PROVE  /\ SameDepth(one, one)
         /\ SameDepth(one, two) /\ SameDepth(two, three) => SameDepth(one, three)
         /\ SameDepth(one, two) /\ Deeper(two, three) => Deeper(one, three)
         /\ Deeper(one, two) /\ SameDepth(two, three) => Deeper(one, three)
         /\ Deeper(one, two) /\ SameDepth(one, three) => Deeper(three, two)
<1>1. Len(one) \in Nat /\ Len(two) \in Nat /\ Len(three) \in Nat
  BY OpensFacts
<1>2. \A d \in 2 .. Len(one) : d \in 2 .. Len(one) + 1
  BY <1>1
<1> QED
  BY <1>1, <1>2 DEF SameDepth, Deeper, Alike

\* More is open than in the first place, and inside of what is open there.
Above(home, open) == Len(open) > Len(home) /\ Alike(Len(home), home, open)

LEMMA AboveFacts ==
  ASSUME NEW home \in Opens, NEW one \in Opens, NEW two \in Opens
  PROVE  /\ Deeper(home, one) => Above(home, one)
         /\ Above(home, one) /\ SameDepth(one, two) => Above(home, two)
         /\ Above(home, one) /\ Deeper(one, two) => Above(home, two)
         /\ Above(home, one) /\ Deeper(two, one) =>
              Above(home, two) \/ SameDepth(home, two)
<1>1. Len(home) \in Nat /\ Len(one) \in Nat /\ Len(two) \in Nat
  BY OpensFacts
<1>2. Len(one) > Len(home) => \A d \in 2 .. Len(home) : d \in 2 .. Len(one)
  BY <1>1
<1>3. Len(two) >= Len(home) => \A d \in 2 .. Len(home) : d \in 2 .. Len(two)
  BY <1>1
<1>4. Deeper(home, one) => Above(home, one)
  BY <1>1 DEF Deeper, Above
<1>5. Above(home, one) /\ SameDepth(one, two) => Above(home, two)
  BY <1>1, <1>2 DEF SameDepth, Above, Alike
<1>6. Above(home, one) /\ Deeper(one, two) => Above(home, two)
  BY <1>1, <1>2 DEF Deeper, Above, Alike
<1>7. ASSUME Above(home, one), Deeper(two, one)
      PROVE  Above(home, two) \/ SameDepth(home, two)
  <2>1. Len(two) >= Len(home)
    BY <1>1, <1>7 DEF Above, Deeper
  <2>2. Alike(Len(home), home, two)
    BY <1>3, <1>7, <2>1 DEF Above, Deeper, Alike
  <2> QED
    BY <1>1, <2>1, <2>2 DEF Above, SameDepth
<1> QED
  BY <1>4, <1>5, <1>6, <1>7

\* Then the path is another one: skip_children tells by the stack where it ends.
LEMMA AbovePath ==
  ASSUME NEW home \in Opens, NEW open \in Opens, Above(home, open)
  PROVE  PathOf(open) # PathOf(home)
<1> DEFINE n == Len(home)
           m == Len(open)
<1>1. n \in Nat \ {0} /\ m \in Nat \ {0} /\ m > n
  BY OpensFacts DEF Above
<1>2. PICK b : IsBitsOf(b, open) /\ PathOf(open) = b[m]
  BY PathUnfolds
<1>3. PathOf(home) = b[n]
  BY <1>1, <1>2, PathPrefix DEF Above, Alike
<1>4. /\ \A d \in 2 .. m : b[d] = 2 * b[d - 1] + Bit(open[d])
      /\ \A d \in 1 .. m : b[d] \in Nat \ {0}
  BY <1>2 DEF IsBitsOf
<1> HIDE DEF n, m
<1>5. \A d \in 2 .. m : b[d] > b[d - 1]
  <2> SUFFICES ASSUME NEW d \in 2 .. m
               PROVE  b[d] > b[d - 1]
    OBVIOUS
  <2>1. b[d] = 2 * b[d - 1] + Bit(open[d]) /\ d - 1 \in 1 .. m
    BY <1>1, <1>4
  <2>2. b[d - 1] \in Nat \ {0} /\ Bit(open[d]) \in {0, 1}
    BY <1>4, <2>1, BitTyped
  <2> QED
    BY <2>1, <2>2
<1> DEFINE More == {k \in 0 .. m - n - 1 : b[k + n + 1] > b[n]}
<1>6. 0 \in More
  <2>1. n + 1 \in 2 .. m /\ (n + 1) - 1 = n /\ 0 + n + 1 = n + 1 /\ 0 \in 0 .. m - n - 1
    BY <1>1
  <2> QED
    BY <1>5, <2>1
<1>7. ASSUME NEW k \in 0 .. (m - n - 1) - 1, k \in More
      PROVE  k + 1 \in More
  <2> DEFINE d == (k + 1) + n + 1
  <2>1. /\ d \in 2 .. m /\ d - 1 = k + n + 1 /\ k + 1 \in 0 .. m - n - 1
        /\ d \in 1 .. m /\ d - 1 \in 1 .. m /\ n \in 1 .. m
    BY <1>1
  <2>2. b[k + n + 1] > b[n]
    BY <1>7
  <2>3. b[d] \in Nat /\ b[d - 1] \in Nat /\ b[n] \in Nat
    BY <1>4, <2>1
  <2> HIDE DEF d
  <2>4. b[d] > b[n]
    BY <1>5, <2>1, <2>2, <2>3
  <2> QED
    BY <2>1, <2>4 DEF d
<1>8. 0 .. m - n - 1 \subseteq More
  <2>1. m - n - 1 \in Nat
    BY <1>1
  <2> HIDE DEF More
  <2> QED
    BY <1>6, <1>7, <2>1, UpTo
<1>9. m - n - 1 \in 0 .. m - n - 1 /\ (m - n - 1) + n + 1 = m
  BY <1>1
<1>10. b[m] > b[n]
  BY <1>8, <1>9
<1>11. b[m] \in Nat /\ b[n] \in Nat
  BY <1>1, <1>4
<1> QED
  BY <1>2, <1>3, <1>10, <1>11

LEMMA AwaitsKind ==
  ASSUME NEW c, NEW what, Awaits(c, what)
  PROVE  IsObject(c) \/ IsArray(c)
BY DEF Awaits

LEMMA BitOfSame ==
  ASSUME NEW c, NEW d, c[1] = d[1]
  PROVE  /\ Bit(c) = Bit(d)
         /\ IsObject(c) <=> IsObject(d)
         /\ IsArray(c) <=> IsArray(d)
BY DEF Bit, IsObject, IsArray

\* A token that a container waits for.
LEMMA TakeToken ==
  ASSUME NEW open \in Opens, NEW lexeme \in Token, Plain(lexeme),
         NEW what, Within(open, what), Suits(what, lexeme)
  PROVE  LET new == Open1(open, lexeme)
         IN  /\ new \in Opens
             /\ Within(new, Then(Innermost(open), what))
             /\ Innermost(new)[1] = Innermost(open)[1]
             /\ PathOf(new) = PathOf(open) /\ SameDepth(open, new)
<1> DEFINE n   == Len(open)
           new == Put(open, n, lexeme)
<1>1. n \in Nat /\ n > 1 /\ n \in 1 .. Len(open) /\ n \in 2 .. Len(open)
  BY OpensFacts DEF Within
<1>2. Open1(open, lexeme) = new
  BY Open1Cases
<1>3. /\ new \in Opens /\ Len(new) = n /\ new[n] = Append(open[n], lexeme)
      /\ \A d \in 1 .. n - 1 : new[d] = open[d]
  <2> HIDE DEF n
  <2> QED
    BY <1>1, PutFacts
<1> HIDE DEF new
<1>4. /\ Awaits(new[n], Then(open[n], what))
      /\ new[n][1] = open[n][1]
  <2>1. open[n] \in Seq(Token) /\ open[n] # <<>> /\ Awaits(open[n], what)
    BY <1>1, OpensFacts DEF Within, Innermost
  <2> HIDE DEF n
  <2> QED
    BY <1>3, <2>1, TokenSuits
<1>5. Lower(new)
  <2>1. Lower(open)
    BY DEF Within
  <2>2. 1 \in 1 .. n - 1
    BY <1>1
  <2> QED
    BY <1>3, <2>1, <2>2 DEF Lower
<1>6. PathOf(new) = PathOf(open) /\ SameDepth(open, new)
  <2>1. \A d \in 2 .. n : Bit(new[d]) = Bit(open[d])
    <3> SUFFICES ASSUME NEW d \in 2 .. n
                 PROVE  new[d][1] = open[d][1]
      BY BitOfSame
    <3>1. d = n \/ d \in 1 .. n - 1
      BY <1>1
    <3> QED
      BY <1>3, <1>4, <3>1
  <2> QED
    BY <1>3, <2>1, PathSame DEF SameDepth, Alike
<1> QED
  BY <1>1, <1>2, <1>3, <1>4, <1>5, <1>6 DEF Within, Innermost

\* An opening bracket where a value may stand.
LEMMA TakeOpening ==
  ASSUME NEW open \in Opens, NEW bracket \in Token, IsOpening(bracket),
         Within(open, "value") \/ Outside(open)
  PROVE  LET new == Open1(open, bracket)
         IN  /\ new \in Opens
             /\ Len(new) > 1 /\ Lower(new) /\ Begins(Innermost(new))
             /\ Innermost(new)[1] = bracket
             /\ PathOf(new) = 2 * PathOf(open) + Bit(Innermost(new))
             /\ Deeper(open, new)
<1> DEFINE n   == Len(open)
           c   == <<bracket>>
           new == Append(open, c)
<1>1. n \in Nat \ {0} /\ open \in Seq(Seq(Token))
  BY OpensFacts DEF Opens
<1>2. c \in Seq(Token) /\ Len(c) = 1 /\ c[1] = bracket
  OBVIOUS
<1>3. Open1(open, bracket) = new
  BY Open1Cases
<1>4. new \in Opens
  BY <1>3, Open1Typed
<1> HIDE DEF c
<1>5. /\ Len(new) = n + 1 /\ new[n + 1] = c
      /\ \A d \in 1 .. n : new[d] = open[d]
  BY <1>1, <1>2, AppendProperties
<1> HIDE DEF new
<1>6. Begins(c)
  <2>1. IsObject(c) \/ IsArray(c)
    BY <1>2, Zenon DEF IsOpening, IsObject, IsArray
  <2> QED
    BY <1>2, <2>1, NewBegins
<1>7. Lower(new)
  <2> SUFFICES ASSUME NEW d \in 1 .. n
               PROVE  IF d = 1 THEN AllClosed(new[1]) ELSE Awaits(new[d], "value")
    BY <1>1, <1>5 DEF Lower
  <2>1. new[d] = open[d] /\ new[1] = open[1]
    BY <1>1, <1>5
  <2>2. CASE Outside(open)
    BY <2>1, <2>2 DEF Outside
  <2>3. CASE Within(open, "value") /\ d = n
    BY <2>1, <2>3 DEF Within, Innermost
  <2>4. CASE Within(open, "value") /\ d # n
    <3>1. d \in 1 .. Len(open) - 1
      BY <1>1, <2>4
    <3> QED
      BY <2>1, <2>4, <3>1 DEF Within, Lower
  <2> QED
    BY <2>2, <2>3, <2>4
<1>8. PathOf(new) = 2 * PathOf(open) + Bit(new[n + 1]) /\ Deeper(open, new)
  <2>1. \A d \in 2 .. Len(open) : Bit(open[d]) = Bit(new[d])
    BY <1>1, <1>5
  <2>2. PathOf(new) = 2 * PathOf(open) + Bit(new[n + 1])
    BY <1>4, <1>5, <2>1, PathGrows
  <2>3. Deeper(open, new)
    BY <1>5, <2>1 DEF Deeper, Alike
  <2> QED
    BY <2>2, <2>3
<1> QED
  BY <1>1, <1>2, <1>3, <1>4, <1>5, <1>6, <1>7, <1>8 DEF Innermost

\* A closing bracket where a container may end.
LEMMA TakeClosing ==
  ASSUME NEW open \in Opens, Len(open) > 1, Lower(open),
         Begins(Innermost(open)) \/ Awaits(Innermost(open), "next")
  PROVE  LET new == Open1(open, Close(Bit(Innermost(open))))
         IN  /\ new \in Opens
             /\ \/ Outside(new) /\ new[1] # <<>>
                \/ Within(new, "next")
             /\ PathOf(open) = 2 * PathOf(new) + Bit(Innermost(open))
             /\ Deeper(new, open)
<1> DEFINE n   == Len(open)
           m   == n - 1
           c   == open[n]
           new == Put(open, m, "container")
<1>1. /\ n \in Nat /\ n > 1 /\ n \in 1 .. Len(open) /\ n \in 2 .. Len(open)
      /\ m \in Nat \ {0} /\ m \in 1 .. Len(open) /\ n = m + 1
  BY OpensFacts
<1>2. c \in Seq(Token) /\ c # <<>>
  BY <1>1, OpensFacts
<1>3. Complete(c, Close(Bit(c)))
  BY <1>2, MayClose DEF Innermost
<1>4. IsClosing(Close(Bit(c)))
  BY DEF Close, IsClosing
<1>5. Open1(open, Close(Bit(c))) = new
  BY <1>3, <1>4, Open1Cases
<1>6. "container" \in Token /\ "container" \in Values
  BY DEF Token, Values
<1> HIDE DEF m
<1>7. /\ new \in Opens /\ Len(new) = m /\ new[m] = Append(open[m], "container")
      /\ \A d \in 1 .. m - 1 : new[d] = open[d]
  BY <1>1, <1>6, PutFacts
<1> HIDE DEF new, n, c
<1>8. open[m] \in Seq(Token)
  BY <1>1, OpensFacts
<1>9. IF m = 1 THEN AllClosed(open[1]) ELSE Awaits(open[m], "value")
  <2>1. m \in 1 .. Len(open) - 1
    BY <1>1 DEF n
  <2> QED
    BY <2>1 DEF Lower
<1>10. ASSUME m = 1
       PROVE  Outside(new) /\ new[1] # <<>>
  <2>1. new[1] = Append(open[1], "container") /\ AllClosed(open[1])
    BY <1>7, <1>9, <1>10
  <2>2. AllClosed(new[1]) /\ new[1] # <<>>
    <3> DEFINE root == open[1]
               more == Append(root, "container")
    <3>1. /\ more \in Seq(Token) /\ Len(more) = Len(root) + 1 /\ Len(root) \in Nat
          /\ more[Len(root) + 1] = "container"
          /\ \A i \in 1 .. Len(root) : more[i] = root[i]
      BY <1>6, <1>8, <1>10, LenProperties, AppendProperties
    <3>2. DOMAIN root = 1 .. Len(root)
      BY <1>8, <1>10, LenProperties
    <3> HIDE DEF root, more
    <3>3. DOMAIN more = 1 .. Len(root) + 1
      BY <3>1, LenProperties
    <3>4. more # <<>>
      BY <3>1, EmptySeq
    <3>5. ASSUME NEW i \in 1 .. Len(root) + 1
          PROVE  more[i] = "container"
      <4>1. i = Len(root) + 1 \/ i \in 1 .. Len(root)
        BY <3>1
      <4> QED
        BY <2>1, <3>1, <3>2, <4>1 DEF AllClosed, root
    <3> QED
      BY <2>1, <3>3, <3>4, <3>5 DEF AllClosed, root, more
  <2> QED
    BY <1>7, <1>10, <2>2 DEF Outside
<1>11. ASSUME m # 1
       PROVE  Within(new, "next")
  <2>1. open[m] # <<>> /\ Awaits(open[m], "value")
    BY <1>1, <1>9, <1>11, OpensFacts
  <2>2. Suits("value", "container")
    BY <1>6 DEF Suits
  <2>3. /\ Awaits(new[m], Then(open[m], "value"))
        /\ new[m][1] = open[m][1]
    BY <1>6, <1>7, <1>8, <2>1, <2>2, TokenSuits
  <2>4. Awaits(new[m], "next")
    BY <2>3 DEF Then
  <2>5. Lower(new)
    <3> SUFFICES ASSUME NEW d \in 1 .. m - 1
                 PROVE  IF d = 1 THEN AllClosed(new[1]) ELSE Awaits(new[d], "value")
      BY <1>7 DEF Lower
    <3>1. d \in 1 .. Len(open) - 1 /\ 1 \in 1 .. m - 1
      BY <1>1, <1>11 DEF n
    <3> QED
      BY <1>7, <3>1 DEF Lower
  <2> QED
    BY <1>1, <1>7, <1>11, <2>4, <2>5 DEF Within, Innermost
<1>12. PathOf(open) = 2 * PathOf(new) + Bit(open[n]) /\ Deeper(new, open)
  <2>1. ASSUME NEW d \in 2 .. m
        PROVE  Bit(new[d]) = Bit(open[d])
    <3>1. CASE d = m
      <4>1. open[m] # <<>>
        BY <1>1, <2>1, <3>1, OpensFacts
      <4>2. new[m][1] = open[m][1]
        BY <1>6, <1>7, <1>8, <4>1, TailOfAppend
      <4> QED
        BY <3>1, <4>2, BitOfSame
    <3>2. CASE d # m
      <4>1. d \in 1 .. m - 1
        BY <1>1, <3>2
      <4> QED
        BY <1>7, <4>1
    <3> QED
      BY <3>1, <3>2
  <2>2. PathOf(open) = 2 * PathOf(new) + Bit(open[n])
    BY <1>1, <1>7, <2>1, PathGrows DEF n
  <2>3. Deeper(new, open)
    BY <1>1, <1>7, <2>1 DEF Deeper, Alike, n
  <2> QED
    BY <2>2, <2>3
<1> QED
  BY <1>5, <1>7, <1>10, <1>11, <1>12 DEF Innermost, n, c

\* A scalar or a string behind containers, or alone, is the whole text.
LEMMA TakeLast ==
  ASSUME NEW open \in Opens, Outside(open), NEW lexeme \in {"scalar", "string"}
  PROVE  LET new == Open1(open, lexeme)
         IN  new \in Opens /\ Len(new) = 1 /\ Whole(new[1]) /\ SameDepth(open, new)
<1> DEFINE new  == Put(open, 1, lexeme)
           root == open[1]
           more == Append(root, lexeme)
<1>1. Len(open) = 1 /\ AllClosed(root)
  BY DEF Outside
<1>2. lexeme \in Token /\ lexeme \in Values /\ Plain(lexeme)
  BY JsonTextAssumption DEF Token, Values, Plain, IsOpening, IsClosing
<1>3. Open1(open, lexeme) = new
  BY <1>1, <1>2, Open1Cases
<1>4. new \in Opens /\ Len(new) = 1 /\ new[1] = more
  <2>1. 1 \in 1 .. Len(open)
    BY <1>1
  <2> QED
    BY <1>2, <2>1, PutFacts
<1>5. root \in Seq(Token)
  BY <1>1, OpensFacts
<1> HIDE DEF new, root
<1>6. /\ Len(root) \in Nat /\ DOMAIN root = 1 .. Len(root)
      /\ more \in Seq(Token) /\ Len(more) = Len(root) + 1 /\ more[Len(root) + 1] = lexeme
      /\ \A i \in 1 .. Len(root) : more[i] = root[i]
  BY <1>2, <1>5, LenProperties, AppendProperties
<1> HIDE DEF more
<1>7. Whole(more)
  <2>1. \A i \in 1 .. Len(more) - 1 : more[i] = "container"
    BY <1>1, <1>6 DEF AllClosed
  <2> QED
    BY <1>2, <1>6, <2>1 DEF Whole
<1>8. SameDepth(open, new)
  BY <1>1, <1>4 DEF SameDepth, Alike
<1> QED
  BY <1>3, <1>4, <1>7, <1>8

\* Containers one after another are a text too.
LEMMA ClosedIsWhole ==
  ASSUME NEW open \in Opens, Outside(open), open[1] # <<>>
  PROVE  Whole(open[1])
<1> DEFINE root == open[1]
<1>1. root \in Seq(Token) /\ AllClosed(root)
  BY OpensFacts DEF Outside
<1>2. Len(root) \in Nat \ {0} /\ DOMAIN root = 1 .. Len(root)
  BY <1>1, EmptySeq, LenProperties
<1>3. "container" \in Values
  BY DEF Values
<1> HIDE DEF root
<1>4. \A i \in 1 .. Len(root) : root[i] = "container"
  BY <1>1, <1>2 DEF AllClosed
<1>5. Whole(root)
  BY <1>2, <1>3, <1>4 DEF Whole
<1> QED
  BY <1>5 DEF root

------------------------------------------------------------------------------
(***************************************************************************)
(* The steps of the parser, as tokens that are read.                       *)
(***************************************************************************)
\* The containers that are open where the parser stands.
Around(t, p) == Opened(t, p.at - 1)

\* The parser stands outside of strings.
Between(t, p) == ~ InString(t, p.at - 1)

\* White space is no token.
LEMMA SkipWhiteAround ==
  ASSUME NEW t \in Seq(Unit), NEW p, Inside(t, p), p.result = "OK", Between(t, p)
  PROVE  LET q == SkipWhite(t, p)
         IN  /\ q = [p EXCEPT !.at = q.at]
             /\ q.result = "OK" /\ q.stack = p.stack /\ q.kind = p.kind
             /\ q.value = p.value
             /\ Between(t, q) /\ Around(t, q) = Around(t, p)
<1> DEFINE ink == FirstIn(t, p.at, Unit \ White)
           a   == IF ink = 0 THEN Len(t) + 1 ELSE ink
           q   == SkipWhite(t, p)
<1>1. p.at \in Nat \ {0} /\ p.at <= Len(t) + 1 /\ Len(t) \in Nat /\ p \in Chained(t)
  BY LenProperties DEF Inside, Chained
<1>2. /\ ink \in Nat
      /\ ink # 0 => ink \in p.at .. Len(t)
      /\ \A i \in p.at .. Len(t) : t[i] \in Unit \ White => ink # 0
      /\ ink # 0 => \A i \in p.at .. ink - 1 : t[i] \notin Unit \ White
  BY <1>1, FirstInFacts
<1>3. q = [p EXCEPT !.at = a]
  BY DEF SkipWhite
<1>4. /\ q.at = a /\ q.result = "OK" /\ q.stack = p.stack /\ q.kind = p.kind
      /\ q.value = p.value
  BY <1>1, <1>3 DEF Chained
<1> HIDE DEF ink, q
<1>5. a \in p.at .. Len(t) + 1 /\ \A i \in p.at .. a - 1 : t[i] \in White
  <2>1. a \in p.at .. Len(t) + 1
    BY <1>1, <1>2
  <2>2. ASSUME NEW i \in p.at .. a - 1
        PROVE  t[i] \in White
    <3>1. i \in 1 .. Len(t) /\ i \in p.at .. Len(t)
      BY <1>1, <2>1
    <3>2. t[i] \in Unit
      BY <3>1
    <3>3. t[i] \notin Unit \ White
      BY <1>2, <3>1
    <3> QED
      BY <3>2, <3>3
  <2> QED
    BY <2>1, <2>2
<1> HIDE DEF a
<1>6. /\ p.at - 1 \in 0 .. Len(t) /\ a - 1 \in p.at - 1 .. Len(t)
      /\ (p.at - 1) + 1 = p.at
  BY <1>1, <1>5
<1>7. ~ InString(t, a - 1) /\ Opened(t, a - 1) = Opened(t, p.at - 1)
  <2> DEFINE b == p.at - 1
             e == a - 1
  <2>1. /\ b \in 0 .. Len(t) /\ e \in b .. Len(t) /\ ~ InString(t, b)
        /\ \A i \in b + 1 .. e : t[i] \in White
    BY <1>5, <1>6 DEF Between
  <2> HIDE DEF b, e
  <2>2. ~ InString(t, e) /\ Opened(t, e) = Opened(t, b)
    BY <2>1, WhiteRun
  <2> QED
    BY <2>2 DEF b, e
<1> QED
  BY <1>3, <1>4, <1>7 DEF Between, Around, q

\* A single unit that is neither a quote nor white space is a token.
LEMMA ExpectAround ==
  ASSUME NEW t \in Seq(Unit), NEW p, Inside(t, p), Between(t, p), NEW unit,
         Expect(t, p, unit).result = "OK", p.result = "OK"
  PROVE  LET q == Expect(t, p, unit)
         IN  /\ q = [p EXCEPT !.at = @ + 1]
             /\ q.stack = p.stack /\ q.at = p.at + 1
             /\ unit \in Unit
             /\ unit = "quote" => InString(t, q.at - 1) /\ Around(t, q) = Around(t, p)
             /\ unit # "quote" /\ unit \notin White =>
                  Between(t, q) /\ Around(t, q) = Open1(Around(t, p), unit)
<1> DEFINE q == Expect(t, p, unit)
<1>1. p.at \in Nat \ {0} /\ p.at <= Len(t) + 1 /\ Len(t) \in Nat /\ p \in Chained(t)
  BY LenProperties DEF Inside, Chained
<1>2. ~ p.at > Len(t) /\ t[p.at] = unit /\ q = [p EXCEPT !.at = @ + 1]
  BY <1>1 DEF Expect, Fail, Chained
<1>3. q.stack = p.stack /\ q.at = p.at + 1
  BY <1>1, <1>2 DEF Chained
<1> HIDE DEF q
<1>4. p.at \in 1 .. Len(t) /\ (p.at + 1) - 1 = p.at
  BY <1>1, <1>2
<1>5. t[p.at] \in Unit
  BY <1>4
<1> QED
  BY <1>2, <1>3, <1>4, <1>5, ReadUnit DEF Between, Around, q

\* A string is one token.
LEMMA StringRestAround ==
  ASSUME NEW t \in Seq(Unit), NEW p, Inside(t, p), p.result = "OK",
         InString(t, p.at - 1), StringRest(t, p).result = "OK"
  PROVE  LET q == StringRest(t, p)
         IN  /\ q.stack = p.stack /\ q.kind = p.kind /\ q.value = p.value
             /\ Between(t, q) /\ Around(t, q) = Open1(Around(t, p), "string")
<1> DEFINE stop == FirstIn(t, p.at, {"quote"} \cup Control)
           view == [from |-> p.at, to |-> stop - 1]
           q    == StringRest(t, p)
<1>1. p.at \in Nat \ {0} /\ p.at <= Len(t) + 1 /\ Len(t) \in Nat /\ p \in Chained(t)
  BY LenProperties DEF Inside, Chained
<1>2. /\ stop \in Nat
      /\ stop # 0 => stop \in p.at .. Len(t) /\ t[stop] \in {"quote"} \cup Control
      /\ stop # 0 => \A i \in p.at .. stop - 1 : t[i] \notin {"quote"} \cup Control
  BY <1>1, FirstInFacts
<1>3. stop # 0 /\ t[stop] = "quote" /\ q = [p EXCEPT !.at = stop + 1, !.string = view]
  BY <1>1 DEF StringRest, Chained
<1>4. /\ q.stack = p.stack /\ q.kind = p.kind /\ q.value = p.value
      /\ q.at = stop + 1
  BY <1>1, <1>3 DEF Chained
<1> HIDE DEF stop, q, view
<1> DEFINE b == p.at - 1
           e == stop - 1
<1>5. /\ b \in 0 .. Len(t) /\ e \in b .. Len(t) /\ stop \in 1 .. Len(t)
      /\ b + 1 = p.at /\ (stop + 1) - 1 = stop
  BY <1>1, <1>2, <1>3
<1>6. InString(t, b) /\ \A i \in b + 1 .. e : t[i] \notin {"quote"} \cup Control
  BY <1>2, <1>3, <1>5
<1> HIDE DEF b, e
<1>7. InString(t, e) /\ Opened(t, e) = Opened(t, b)
  BY <1>5, <1>6, StringRun
<1>8. ~ InString(t, stop) /\ Opened(t, stop) = Open1(Opened(t, e), "string")
  BY <1>3, <1>5, <1>7, ReadUnit DEF e
<1> QED
  BY <1>4, <1>5, <1>7, <1>8 DEF Between, Around, b, q

------------------------------------------------------------------------------
(***************************************************************************)
(* Where the parser stands, between two calls and inside of one.           *)
(***************************************************************************)
\* The parser stands outside of strings, and its stack is the path.
Tracks(t, p) == Between(t, p) /\ p.stack = PathOf(Around(t, p))

\* Where the parser may stand between two calls: where an item of a container
\* may begin,
AtItem(t, p) ==
  /\ Tracks(t, p)
  /\ Len(Around(t, p)) > 1 /\ Lower(Around(t, p)) /\ Begins(Innermost(Around(t, p)))

\* behind an item, in front of the bracket that ends the container,
AtEnd(t, p) ==
  /\ Tracks(t, p)
  /\ Within(Around(t, p), "next")
  /\ p.at <= Len(t) /\ t[p.at] = Close(p.stack % 2)

\* behind containers that are complete,
AtTop(t, p) ==
  /\ Tracks(t, p)
  /\ Outside(Around(t, p)) /\ (Around(t, p)[1] = <<>> => p.at = 1)

\* or behind a text that is complete.
AtLast(t, p) ==
  /\ Tracks(t, p)
  /\ Len(Around(t, p)) = 1 /\ Whole(Around(t, p)[1]) /\ p.at > Len(t)

Sound(t, p) == AtItem(t, p) \/ AtEnd(t, p) \/ AtTop(t, p) \/ AtLast(t, p)

\* What is open where the parser stands is something that can be open.
LEMMA AroundTyped ==
  ASSUME NEW t \in Seq(Unit), NEW p, Inside(t, p)
  PROVE  /\ p.at - 1 \in 0 .. Len(t) /\ p.at \in Nat \ {0}
         /\ Around(t, p) \in Opens
<1>1. p.at - 1 \in 0 .. Len(t) /\ p.at \in Nat \ {0}
  BY LenProperties DEF Inside, Chained
<1> QED
  BY <1>1, OpenedTyped DEF Around

\* It is the position and the stack that count.
LEMMA SoundSame ==
  ASSUME NEW t, NEW p, NEW q, q.at = p.at, q.stack = p.stack, Sound(t, p)
  PROVE  Sound(t, q)
BY DEF Sound, AtItem, AtEnd, AtTop, AtLast, Tracks, Between, Around

\* The last bit of the stack is the innermost container.
LEMMA InnermostBit ==
  ASSUME NEW open \in Opens, Len(open) > 1
  PROVE  /\ PathOf(open) >= 2
         /\ PathOf(open) % 2 = Bit(Innermost(open))
<1>1. PICK b : IsBitsOf(b, open) /\ PathOf(open) = b[Len(open)]
  BY PathUnfolds
<1> DEFINE n == Len(open)
           x == b[n - 1]
           d == Bit(open[n])
<1>2. n \in Nat /\ n \in 2 .. Len(open) /\ n - 1 \in 1 .. Len(open)
  BY OpensFacts
<1>3. x \in Nat \ {0} /\ b[n] = 2 * x + d
  BY <1>1, <1>2 DEF IsBitsOf
<1>4. d \in {0, 1}
  BY BitTyped
<1>5. b[n] = PathOf(open) /\ d = Bit(Innermost(open))
  BY <1>1 DEF Innermost
<1> HIDE DEF x, d, n
<1>6. 2 * x + d >= 2 /\ (2 * x + d) % 2 = d
  BY <1>3, <1>4
<1> QED
  BY <1>3, <1>5, <1>6

\* Nothing is open when the stack is its first bit.
LEMMA OutermostPath ==
  ASSUME NEW open \in Opens
  PROVE  PathOf(open) = 1 <=> Len(open) = 1
<1>1. Len(open) \in Nat \ {0} /\ (Len(open) = 1 => PathOf(open) = 1)
  BY OpensFacts, PathTyped
<1>2. CASE Len(open) = 1
  BY <1>1, <1>2
<1>3. CASE Len(open) > 1
  <2>1. PathOf(open) >= 2
    BY <1>3, InnermostBit
  <2>2. PathOf(open) # 1 /\ Len(open) # 1
    BY <1>1, <1>3, <2>1
  <2> QED
    BY <2>2
<1> QED
  BY <1>1, <1>2, <1>3

\* What a comma, a colon and a bracket are not.
LEMMA CommaFacts ==
  ASSUME NEW x, IsComma(x)
  PROVE  x # "quote" /\ x \notin White /\ Plain(x) /\ Suits("next", x)
<1>1. x # "quote" /\ x # " " /\ x # "LF"
  BY Zenon DEF IsComma
<1>2. Plain(x)
  BY Zenon DEF IsComma, Plain, IsOpening, IsClosing
<1> QED
  BY <1>1, <1>2, Zenon DEF White, Suits

LEMMA ColonFacts ==
  ASSUME NEW x, IsColon(x)
  PROVE  x # "quote" /\ x \notin White /\ Plain(x) /\ Suits("colon", x)
<1>1. x # "quote" /\ x # " " /\ x # "LF"
  BY Zenon DEF IsColon
<1>2. Plain(x)
  BY Zenon DEF IsColon, Plain, IsOpening, IsClosing
<1> QED
  BY <1>1, <1>2, Zenon DEF White, Suits

LEMMA BracketFacts ==
  ASSUME NEW x, IsOpening(x) \/ IsClosing(x)
  PROVE  x # "quote" /\ x \notin White
<1>1. x # "quote" /\ x # " " /\ x # "LF"
  BY Zenon DEF IsOpening, IsClosing
<1> QED
  BY <1>1, Zenon DEF White

\* What a value is, by its first unit.
LEMMA GetValueCases ==
  ASSUME NEW t, NEW p, p.result = "OK", ~ p.at > Len(t)
  PROVE  LET Begun(kind) == [p EXCEPT !.at = @ + 1, !.kind = kind, !.value = p.at]
         IN  \/ t[p.at] = "scalar" /\ GetValue(t, p) = Begun("scalar")
             \/ t[p.at] = "quote" /\ GetValue(t, p) = StringRest(t, Begun("string"))
             \/ \E kind \in Containers : \E item \in {Object, Array} :
                  /\ IsOpening(t[p.at]) /\ Bit(<<t[p.at]>>) = item
                  /\ GetValue(t, p) = PushStack(Begun(kind), item)
             \/ \E q, error : /\ GetValue(t, p) = Fail(q, error)
                              /\ error # "OK" /\ (q = p \/ q = Begun("scalar"))
<1> DEFINE unit == t[p.at]
           Begun(kind) == [p EXCEPT !.at = @ + 1, !.kind = kind, !.value = p.at]
           bad == IF p.at = Len(t) THEN "ERROR_EOF" ELSE "ERROR_PARSER_UNEXPECTED_CHAR"
<1>1. CASE unit = "scalar"
  <2>1. GetValue(t, p) = Begun("scalar")
    BY <1>1 DEF GetValue
  <2> QED
    BY <1>1, <2>1
<1>2. CASE unit = "part"
  <2>1. GetValue(t, p) = Fail(Begun("scalar"), bad)
    BY <1>2 DEF GetValue
  <2>2. bad # "OK"
    OBVIOUS
  <2> QED
    BY <2>1, <2>2, Zenon
<1>3. CASE unit = "quote"
  <2>1. GetValue(t, p) = StringRest(t, Begun("string"))
    BY <1>3 DEF GetValue
  <2> QED
    BY <1>3, <2>1
<1>4. CASE unit = "{"
  <2>1. GetValue(t, p) = PushStack(Begun("object"), Object)
    BY <1>4 DEF GetValue
  <2>2. IsOpening(unit)
    BY <1>4, Zenon DEF IsOpening
  <2>3. Bit(<<unit>>) = Object
    BY <1>4 DEF Bit
  <2>4. "object" \in Containers
    BY DEF Containers
  <2> QED
    BY <2>1, <2>2, <2>3, <2>4, Zenon
<1>5. CASE unit = "["
  <2>1. GetValue(t, p) = PushStack(Begun("array"), Array)
    BY <1>5 DEF GetValue
  <2>2. IsOpening(unit)
    BY <1>5, Zenon DEF IsOpening
  <2>3. Bit(<<unit>>) = Array
    BY <1>5 DEF Bit
  <2>4. "array" \in Containers
    BY DEF Containers
  <2> QED
    BY <2>1, <2>2, <2>3, <2>4, Zenon
<1>6. CASE unit \notin {"scalar", "part", "quote", "{", "["}
  <2>1. GetValue(t, p) = Fail(p, "ERROR_PARSER_UNEXPECTED_CHAR")
    BY <1>6 DEF GetValue
  <2> QED
    BY <2>1, Zenon
<1> QED
  BY <1>1, <1>2, <1>3, <1>4, <1>5, <1>6

\* A scalar and a string are a token, and so is the bracket of a container, the
\* kind of which is pushed.
LEMMA GetValueAround ==
  ASSUME NEW t \in Seq(Unit), NEW p, Inside(t, p), p.result = "OK", Between(t, p),
         GetValue(t, p).result = "OK"
  PROVE  LET q == GetValue(t, p)
         IN  /\ Between(t, q) /\ q.value = p.at /\ p.at <= Len(t)
             /\ \/ /\ q.kind \in {"scalar", "string"} /\ q.stack = p.stack
                   /\ \E single \in {"scalar", "string"} :
                        Around(t, q) = Open1(Around(t, p), single)
                \/ /\ q.kind \in Containers
                   /\ \E bracket \in Token :
                        /\ IsOpening(bracket)
                        /\ Around(t, q) = Open1(Around(t, p), bracket)
                        /\ q.stack = 2 * p.stack + Bit(<<bracket>>)
<1> DEFINE q == GetValue(t, p)
           unit == t[p.at]
           Begun(kind) == [p EXCEPT !.at = @ + 1, !.kind = kind, !.value = p.at]
<1>1. /\ p.at \in Nat \ {0} /\ p.at <= Len(t) + 1 /\ Len(t) \in Nat /\ p \in Chained(t)
      /\ p.stack \in 1 .. 2 * Top - 1
  BY LenProperties DEF Inside, Chained
<1>2. ~ p.at > Len(t)
  BY <1>1 DEF GetValue, Fail, Chained
<1>3. p.at \in 1 .. Len(t) /\ p.at <= Len(t) /\ (p.at + 1) - 1 = p.at /\ unit \in Unit
  BY <1>1, <1>2
<1>4. ASSUME NEW kind \in Kind
      PROVE  /\ Begun(kind).at = p.at + 1 /\ Begun(kind).kind = kind
             /\ Begun(kind).stack = p.stack /\ Begun(kind).result = "OK"
             /\ Begun(kind).value = p.at
             /\ Begun(kind) \in Chained(t)
  <2>1. p.at \in Nat /\ p.at + 1 \in 1 .. Len(t) + 1
    BY <1>1, <1>3
  <2>2. Begun(kind) \in Chained(t)
    BY <1>1, <2>1 DEF Chained
  <2>3. /\ Begun(kind).at = p.at + 1 /\ Begun(kind).kind = kind
        /\ Begun(kind).stack = p.stack /\ Begun(kind).result = p.result
        /\ Begun(kind).value = p.at
    BY <1>1 DEF Chained
  <2> QED
    BY <2>2, <2>3
<1>5. CASE unit = "scalar" /\ q = Begun("scalar")
  <2>1. "scalar" \in Kind
    BY DEF Kind
  <2>2. q.at = p.at + 1 /\ q.kind = "scalar" /\ q.stack = p.stack /\ q.value = p.at
    BY <1>4, <1>5, <2>1
  <2> HIDE DEF q
  <2>3. unit # "quote" /\ unit \notin White
    BY <1>5 DEF White
  <2>4. ~ InString(t, p.at) /\ Opened(t, p.at) = Open1(Opened(t, p.at - 1), unit)
    BY <1>3, <2>3, ReadUnit DEF Between
  <2>5. Between(t, q) /\ Around(t, q) = Open1(Around(t, p), "scalar")
    BY <1>3, <1>5, <2>2, <2>4 DEF Between, Around
  <2> QED
    BY <1>3, <2>2, <2>5 DEF q
<1>6. CASE unit = "quote" /\ q = StringRest(t, Begun("string"))
  <2> DEFINE r == Begun("string")
  <2>1. "string" \in Kind
    BY DEF Kind
  <2>2. /\ r.at = p.at + 1 /\ r.kind = "string" /\ r.stack = p.stack
        /\ r.value = p.at /\ r.result = "OK" /\ r \in Chained(t)
    BY <1>4, <2>1
  <2>3. q = StringRest(t, r)
    BY <1>6
  <2> HIDE DEF r, q
  <2>4. InString(t, p.at) /\ Opened(t, p.at) = Opened(t, p.at - 1)
    BY <1>3, <1>6, ReadUnit DEF Between
  <2>5. InString(t, r.at - 1) /\ Around(t, r) = Around(t, p)
    BY <1>3, <2>2, <2>4 DEF Around
  <2>6. Inside(t, r)
    <3>1. Ended(t) => r.at <= Len(t)
      BY <1>1, <1>3, <1>6, <2>2 DEF Ended
    <3> QED
      BY <2>2, <3>1 DEF Inside, ReadBehind
  <2>7. q.result = "OK"
    BY DEF q
  <2>8. /\ q.stack = r.stack /\ q.kind = r.kind /\ q.value = r.value
        /\ Between(t, q) /\ Around(t, q) = Open1(Around(t, r), "string")
    BY <2>2, <2>3, <2>5, <2>6, <2>7, StringRestAround
  <2> QED
    BY <1>3, <2>2, <2>5, <2>8 DEF q
<1>7. ASSUME NEW kind \in Containers, NEW item \in {Object, Array},
             IsOpening(unit), Bit(<<unit>>) = item, q = PushStack(Begun(kind), item)
      PROVE  /\ Between(t, q) /\ q.kind \in Containers /\ q.value = p.at
             /\ Around(t, q) = Open1(Around(t, p), unit)
             /\ q.stack = 2 * p.stack + Bit(<<unit>>)
  <2> DEFINE r == Begun(kind)
  <2>1. kind \in Kind
    BY DEF Kind
  <2>2. /\ r.at = p.at + 1 /\ r.kind = kind /\ r.stack = p.stack
        /\ r.value = p.at /\ r.result = "OK" /\ r \in Chained(t)
    BY <1>4, <2>1
  <2>3. q = PushStack(r, item) /\ q.result = "OK"
    BY <1>7
  <2> HIDE DEF r, q
  <2>4. ~ r.stack >= Top /\ q = [r EXCEPT !.stack = (2 * @ + item) % (2 * Top)]
    BY <2>2, <2>3 DEF PushStack, Fail, Chained
  <2>5. /\ q.stack = (2 * p.stack + item) % (2 * Top) /\ q.at = p.at + 1
        /\ q.kind = kind /\ q.value = p.at
    BY <2>2, <2>4 DEF Chained
  <2>6. Top \in Nat \ {0}
    BY TopIsPositive
  <2>7. item \in {0, 1}
    BY DEF Object, Array
  <2>8. q.stack = 2 * p.stack + item
    <3>1. /\ 2 * p.stack + item \in Nat /\ 2 * Top \in Nat \ {0}
          /\ 2 * p.stack + item < 2 * Top
      BY <1>1, <2>2, <2>4, <2>6, <2>7
    <3> QED
      BY <2>5, <3>1, SmallModulus
  <2>9. unit # "quote" /\ unit \notin White
    BY <1>7, BracketFacts
  <2>10. ~ InString(t, p.at) /\ Opened(t, p.at) = Open1(Opened(t, p.at - 1), unit)
    BY <1>3, <2>9, ReadUnit DEF Between
  <2>11. Between(t, q) /\ Around(t, q) = Open1(Around(t, p), unit)
    BY <1>3, <2>5, <2>10 DEF Between, Around
  <2> QED
    BY <1>7, <2>5, <2>8, <2>11
<1>8. ASSUME NEW r, NEW error, q = Fail(r, error), error # "OK",
             r = p \/ r = Begun("scalar")
      PROVE  FALSE
  <2>1. "scalar" \in Kind
    BY DEF Kind
  <2>2. r \in Chained(t)
    BY <1>1, <1>4, <1>8, <2>1
  <2>3. q.result = error
    BY <1>8, <2>2 DEF Fail, Chained
  <2> QED
    BY <1>8, <2>3
<1>9. unit \in Token
  BY <1>3 DEF Token
<1>10. \/ unit = "scalar" /\ q = Begun("scalar")
       \/ unit = "quote" /\ q = StringRest(t, Begun("string"))
       \/ \E kind \in Containers : \E item \in {Object, Array} :
            /\ IsOpening(unit) /\ Bit(<<unit>>) = item
            /\ q = PushStack(Begun(kind), item)
       \/ \E r, error : /\ q = Fail(r, error)
                        /\ error # "OK" /\ (r = p \/ r = Begun("scalar"))
  BY <1>2, GetValueCases
<1> QED
  <2>1. ASSUME NEW kind \in Containers, NEW item \in {Object, Array},
               IsOpening(unit), Bit(<<unit>>) = item, q = PushStack(Begun(kind), item)
        PROVE  /\ Between(t, q) /\ q.value = p.at
               /\ q.kind \in Containers
               /\ \E bracket \in Token :
                    /\ IsOpening(bracket)
                    /\ Around(t, q) = Open1(Around(t, p), bracket)
                    /\ q.stack = 2 * p.stack + Bit(<<bracket>>)
    <3>1. /\ Between(t, q) /\ q.kind \in Containers /\ q.value = p.at
          /\ Around(t, q) = Open1(Around(t, p), unit)
          /\ q.stack = 2 * p.stack + Bit(<<unit>>)
      BY <1>7, <2>1
    <3> HIDE DEF q, unit
    <3> QED
      BY <1>9, <2>1, <3>1
  <2> QED
    BY <1>3, <1>5, <1>6, <1>8, <1>10, <2>1

LEMMA OutsideOrWithin ==
  ASSUME NEW open, NEW what
  PROVE  ~ (Outside(open) /\ Within(open, what))
<1> SUFFICES ASSUME Len(open) = 1, Len(open) > 1
             PROVE  FALSE
  BY DEF Outside, Within
<1> QED
  OBVIOUS

\* From p to q a value has been read, as q tells: it began in the containers
\* around p, and if it is one, the parser is in it.
Took(t, p, q) ==
  /\ q.kind # "none" /\ q.value \in 1 .. Len(t) /\ ~ InString(t, q.value - 1)
  /\ SameDepth(Around(t, p), Opened(t, q.value - 1))
  /\ IF q.kind \in Containers THEN Deeper(Around(t, p), Around(t, q))
     ELSE SameDepth(Around(t, p), Around(t, q))

\* What is read in front of the value and behind it may be more.
LEMMA TookMore ==
  ASSUME NEW t \in Seq(Unit), NEW p, NEW before, NEW behind, NEW q,
         Inside(t, p), Inside(t, before), Inside(t, behind), Inside(t, q),
         Took(t, before, behind), q.kind = behind.kind, q.value = behind.value,
         SameDepth(Around(t, p), Around(t, before)),
         SameDepth(Around(t, behind), Around(t, q))
  PROVE  Took(t, p, q)
<1> DEFINE inner == Opened(t, q.value - 1)
           one   == Around(t, p)
           two   == Around(t, before)
           three == Around(t, behind)
           four  == Around(t, q)
<1>1. one \in Opens /\ two \in Opens /\ three \in Opens /\ four \in Opens
  BY AroundTyped
<1>2. q.value \in 1 .. Len(t) /\ q.kind # "none" /\ ~ InString(t, q.value - 1)
  BY DEF Took
<1>3. inner \in Opens
  <2>1. q.value - 1 \in 0 .. Len(t)
    BY <1>2, LenProperties
  <2> QED
    BY <2>1, OpenedTyped
<1>4. SameDepth(two, inner)
  BY DEF Took
<1>5. IF q.kind \in Containers THEN Deeper(two, three) ELSE SameDepth(two, three)
  BY DEF Took
<1>6. SameDepth(one, two) /\ SameDepth(three, four)
  OBVIOUS
<1> HIDE DEF inner, one, two, three, four
<1>7. SameDepth(one, inner)
  BY <1>1, <1>3, <1>4, <1>6, DepthFacts
<1>8. IF q.kind \in Containers THEN Deeper(one, four) ELSE SameDepth(one, four)
  <2>1. Deeper(two, three) => Deeper(one, three)
    BY <1>1, <1>6, DepthFacts
  <2>2. Deeper(one, three) => Deeper(one, four)
    BY <1>1, <1>6, DepthFacts
  <2>3. SameDepth(two, three) => SameDepth(one, three)
    BY <1>1, <1>6, DepthFacts
  <2>4. SameDepth(one, three) => SameDepth(one, four)
    BY <1>1, <1>6, DepthFacts
  <2> QED
    BY <1>5, <2>1, <2>2, <2>3, <2>4
<1> QED
  BY <1>2, <1>7, <1>8 DEF Took, inner, one, four

\* What has been done when a value is read, and white space behind it.
LEMMA ValueTaken ==
  ASSUME NEW t \in Seq(Unit), NEW p, Inside(t, p), p.result = "OK", Tracks(t, p),
         Within(Around(t, p), "value") \/ Outside(Around(t, p)),
         GetValueSpace(t, p).result = "OK"
  PROVE  LET q == GetValueSpace(t, p)
         IN  /\ Inside(t, q) /\ Tracks(t, q) /\ Took(t, p, q)
             /\ q.kind \in Containers => AtItem(t, q)
             /\ q.kind \notin Containers =>
                  /\ Within(Around(t, p), "value") => Within(Around(t, q), "next")
                  /\ Outside(Around(t, p)) =>
                       Len(Around(t, q)) = 1 /\ Whole(Around(t, q)[1])
<1> DEFINE r == GetValue(t, p)
           q == SkipWhite(t, r)
           open == Around(t, p)
           new  == Around(t, r)
<1>1. Inside(t, r) /\ Gains(t, p, r)
  BY GetValueGains DEF Gains, Follows
<1>2. Follows(t, r, q)
  BY <1>1, SkipWhiteFollows
<1>3. GetValueSpace(t, p) = q
  BY DEF GetValueSpace
<1>4. r.result = "OK" /\ Inside(t, q)
  BY <1>2, <1>3 DEF Follows
<1>5. Between(t, p) /\ p.stack = PathOf(open)
  BY DEF Tracks
<1>6. /\ Between(t, r) /\ r.value = p.at /\ p.at <= Len(t)
      /\ \/ /\ r.kind \in {"scalar", "string"} /\ r.stack = p.stack
            /\ \E single \in {"scalar", "string"} : new = Open1(open, single)
         \/ /\ r.kind \in Containers
            /\ \E bracket \in Token :
                 /\ IsOpening(bracket)
                 /\ new = Open1(open, bracket)
                 /\ r.stack = 2 * p.stack + Bit(<<bracket>>)
  BY <1>4, <1>5, GetValueAround
<1> HIDE DEF r
<1>7. /\ q.stack = r.stack /\ q.kind = r.kind /\ q.value = r.value
      /\ Between(t, q) /\ Around(t, q) = new
  BY <1>1, <1>4, <1>6, SkipWhiteAround
<1>8. open \in Opens
  BY AroundTyped
<1> HIDE DEF q, new, open
<1>9. ASSUME NEW bracket \in Token, IsOpening(bracket), new = Open1(open, bracket),
             r.stack = 2 * p.stack + Bit(<<bracket>>)
      PROVE  /\ r.stack = PathOf(new)
             /\ Len(new) > 1 /\ Lower(new) /\ Begins(Innermost(new))
             /\ Deeper(open, new)
  <2>1. /\ Len(new) > 1 /\ Lower(new) /\ Begins(Innermost(new))
        /\ Deeper(open, new)
        /\ Innermost(new)[1] = bracket
        /\ PathOf(new) = 2 * PathOf(open) + Bit(Innermost(new))
    BY <1>8, <1>9, TakeOpening DEF open
  <2>2. Bit(Innermost(new)) = Bit(<<bracket>>)
    <3>1. <<bracket>>[1] = Innermost(new)[1]
      BY <2>1
    <3> DEFINE c == <<bracket>>
    <3>2. c[1] = Innermost(new)[1]
      BY <3>1
    <3> HIDE DEF c
    <3>3. Bit(c) = Bit(Innermost(new))
      BY <3>2, BitOfSame
    <3> QED
      BY <3>3 DEF c
  <2> QED
    BY <1>5, <1>9, <2>1, <2>2
<1>10. ASSUME NEW single \in {"scalar", "string"}, new = Open1(open, single), r.stack = p.stack
       PROVE  /\ r.stack = PathOf(new) /\ SameDepth(open, new)
              /\ Within(open, "value") => Within(new, "next")
              /\ Outside(open) => Len(new) = 1 /\ Whole(new[1])
  <2>1. single \in Token /\ Plain(single) /\ Suits("value", single)
    <3>1. single \in Token
      BY JsonTextAssumption DEF Token
    <3>2. Plain(single)
      BY Zenon DEF Plain, IsOpening, IsClosing
    <3>3. Suits("value", single)
      BY DEF Suits, Values
    <3> QED
      BY <3>1, <3>2, <3>3
  <2>2. CASE Outside(open)
    <3>1. new \in Opens /\ Len(new) = 1 /\ Whole(new[1]) /\ SameDepth(open, new)
      BY <1>8, <1>10, <2>2, TakeLast
    <3>2. PathOf(open) = 1 /\ PathOf(new) = 1
      BY <1>8, <2>2, <3>1, PathTyped DEF Outside
    <3>3. ~ Within(open, "value")
      BY <2>2, OutsideOrWithin
    <3> QED
      BY <1>5, <1>10, <3>1, <3>2, <3>3
  <2>3. CASE Within(open, "value")
    <3>1. /\ Within(new, Then(Innermost(open), "value")) /\ PathOf(new) = PathOf(open)
          /\ SameDepth(open, new)
      BY <1>8, <1>10, <2>1, <2>3, TakeToken
    <3>2. Within(new, "next")
      BY <3>1 DEF Then
    <3>3. ~ Outside(open)
      BY <2>3, OutsideOrWithin
    <3> QED
      BY <1>5, <1>10, <3>1, <3>2, <3>3
  <2> QED
    BY <2>2, <2>3 DEF open
<1>11. /\ r.kind \in Containers => Deeper(open, new)
       /\ r.kind \notin Containers => SameDepth(open, new)
       /\ r.kind # "none"
  <2>1. /\ "scalar" \notin Containers /\ "string" \notin Containers
        /\ "none" \notin Containers
    BY DEF Containers
  <2>2. CASE r.kind \in {"scalar", "string"} /\ r.stack = p.stack /\
             \E single \in {"scalar", "string"} : new = Open1(open, single)
    BY <1>10, <2>1, <2>2
  <2>3. CASE r.kind \in Containers
    <3>1. r.kind \notin {"scalar", "string"}
      BY <2>1, <2>3
    <3> QED
      BY <1>6, <1>9, <2>1, <2>3, <3>1
  <2> QED
    BY <1>6, <2>2, <2>3
<1>12. Took(t, p, q)
  <2>1. p.at \in 1 .. Len(t) /\ q.value = p.at
    BY <1>6, <1>7, LenProperties DEF Inside, Chained
  <2>2. SameDepth(open, open)
    BY <1>8, DepthFacts
  <2> QED
    BY <1>5, <1>7, <1>11, <2>1, <2>2 DEF Took, Between, Around, open
<1>13. r.stack = PathOf(new)
  BY <1>6, <1>9, <1>10
<1>14. Tracks(t, q)
  BY <1>7, <1>13 DEF Tracks
<1>15. q.kind \in Containers => AtItem(t, q)
  <2>1. r.kind \in Containers => r.kind \notin {"scalar", "string"}
    BY DEF Containers
  <2> QED
    BY <1>6, <1>7, <1>9, <1>14, <2>1 DEF AtItem
<1>16. q.kind \notin Containers =>
         /\ Within(open, "value") => Within(Around(t, q), "next")
         /\ Outside(open) => Len(Around(t, q)) = 1 /\ Whole(Around(t, q)[1])
  BY <1>6, <1>7, <1>10
<1> QED
  BY <1>3, <1>4, <1>14, <1>15, <1>16, <1>12 DEF open, q

\* Behind an item a comma is taken, or the bracket that ends the container is
\* left.
LEMMA ItemTaken ==
  ASSUME NEW t \in Seq(Unit), NEW p, Inside(t, p), p.result = "OK", Tracks(t, p),
         Within(Around(t, p), "next"), ReadCommaOrClose(t, p).result = "OK"
  PROVE  LET q == ReadCommaOrClose(t, p)
         IN  /\ Sound(t, q) /\ q.kind = p.kind /\ q.value = p.value
             /\ SameDepth(Around(t, p), Around(t, q))
<1> DEFINE q    == ReadCommaOrClose(t, p)
           r    == [p EXCEPT !.at = @ + 1]
           open == Around(t, p)
           new  == Around(t, r)
           unit == t[p.at]
<1>1. p.at \in Nat \ {0} /\ p.at <= Len(t) + 1 /\ Len(t) \in Nat /\ p \in Chained(t)
  BY LenProperties DEF Inside, Chained
<1>2. ~ p.at > Len(t)
  <2>1. p.at > Len(t) => q = Fail(p, ReadBehind)
    BY Zenon DEF ReadCommaOrClose
  <2>2. Fail(p, ReadBehind).result # "OK"
    BY <1>1 DEF Fail, ReadBehind, Chained
  <2> QED
    BY <2>1, <2>2
<1>3. p.at \in 1 .. Len(t) /\ (p.at + 1) - 1 = p.at /\ unit \in Unit
  BY <1>1, <1>2
<1>4. CASE ~ IsComma(unit)
  <2>1. q = IF unit = Close(p.stack % 2) THEN p ELSE Fail(p, "ERROR_PARSER_UNEXPECTED_CHAR")
    BY <1>2, <1>4, Zenon DEF ReadCommaOrClose, IsComma
  <2>2. Fail(p, "ERROR_PARSER_UNEXPECTED_CHAR").result # "OK"
    BY <1>1 DEF Fail, Chained
  <2>3. unit = Close(p.stack % 2) /\ q = p
    BY <2>1, <2>2
  <2>4. AtEnd(t, p)
    BY <1>3, <2>3 DEF AtEnd
  <2>5. SameDepth(open, open)
    BY AroundTyped, DepthFacts
  <2> QED
    BY <2>3, <2>4, <2>5 DEF Sound
<1>5. CASE IsComma(unit)
  <2>1. q = SkipWhite(t, r)
    BY <1>2, <1>5, Zenon DEF ReadCommaOrClose, IsComma
  <2>2. unit # "quote" /\ unit \notin White /\ Plain(unit) /\ Suits("next", unit)
    BY <1>5, CommaFacts
  <2>3. unit # "NUL"
    BY <1>5, Zenon DEF IsComma
  <2>4. /\ r.at = p.at + 1 /\ r.stack = p.stack /\ r.result = "OK"
        /\ r.kind = p.kind /\ r.value = p.value
    BY <1>1 DEF Chained
  <2>5. Inside(t, r)
    BY <1>3, <2>3, PassFollows DEF Follows
  <2> HIDE DEF r, q
  <2>6. Between(t, r) /\ new = Open1(open, unit)
    <3>1. ~ InString(t, p.at) /\ Opened(t, p.at) = Open1(Opened(t, p.at - 1), unit)
      BY <1>3, <2>2, ReadUnit DEF Tracks, Between
    <3> QED
      BY <1>3, <2>4, <3>1 DEF Between, Around
  <2>7. open \in Opens /\ unit \in Token
    BY <1>3, AroundTyped DEF Token
  <2> HIDE DEF new, open, unit
  <2>8. /\ Within(new, Then(Innermost(open), "next"))
        /\ Innermost(new)[1] = Innermost(open)[1]
        /\ PathOf(new) = PathOf(open) /\ SameDepth(open, new)
    BY <2>2, <2>6, <2>7, TakeToken DEF open
  <2>9. Begins(Innermost(new))
    <3>1. IsObject(Innermost(new)) <=> IsObject(Innermost(open))
      BY <2>8, BitOfSame
    <3>2. Then(Innermost(open), "next") = IF IsObject(Innermost(new)) THEN "name" ELSE "value"
      BY <3>1 DEF Then
    <3> QED
      BY <2>8, <3>2 DEF Begins, Within
  <2>10. /\ q.stack = r.stack /\ Between(t, q) /\ Around(t, q) = new
         /\ q.kind = r.kind /\ q.value = r.value
    BY <2>1, <2>4, <2>5, <2>6, SkipWhiteAround DEF new
  <2>11. q.stack = PathOf(new)
    BY <2>4, <2>8, <2>10 DEF Tracks, open
  <2>12. AtItem(t, q)
    BY <2>8, <2>9, <2>10, <2>11 DEF AtItem, Tracks, Within
  <2> QED
    BY <2>4, <2>8, <2>10, <2>12 DEF Sound, q, open
<1> QED
  BY <1>4, <1>5

\* In a container the stack is more than its first bit, and its last one tells
\* what container it is.
LEMMA InContainer ==
  ASSUME NEW t \in Seq(Unit), NEW p, Inside(t, p), AtItem(t, p) \/ AtEnd(t, p)
  PROVE  /\ Len(Around(t, p)) > 1 /\ Lower(Around(t, p))
         /\ Begins(Innermost(Around(t, p))) \/ Awaits(Innermost(Around(t, p)), "next")
         /\ p.stack = PathOf(Around(t, p))
         /\ p.stack # 1
         /\ p.stack % 2 = Bit(Innermost(Around(t, p)))
<1> DEFINE open == Around(t, p)
<1>1. open \in Opens
  BY AroundTyped
<1>2. /\ Len(open) > 1 /\ Lower(open)
      /\ Begins(Innermost(open)) \/ Awaits(Innermost(open), "next")
      /\ p.stack = PathOf(open)
  BY DEF AtItem, AtEnd, Within, Tracks
<1> HIDE DEF open
<1>3. PathOf(open) >= 2 /\ PathOf(open) % 2 = Bit(Innermost(open))
  BY <1>1, <1>2, InnermostBit
<1>4. PathOf(open) # 1
  BY <1>3
<1> QED
  BY <1>2, <1>3, <1>4 DEF open

\* Outside of containers there is no call that begins an item.
LEMMA OutOfContainers ==
  ASSUME NEW t \in Seq(Unit), NEW p, Inside(t, p), AtTop(t, p) \/ AtLast(t, p)
  PROVE  p.stack = 1
<1>1. Around(t, p) \in Opens
  BY AroundTyped
<1>2. Len(Around(t, p)) = 1 /\ p.stack = PathOf(Around(t, p))
  BY DEF AtTop, AtLast, Outside, Tracks
<1> QED
  BY <1>1, <1>2, PathTyped

\* The bracket that ends a container.
LEMMA BracketTaken ==
  ASSUME NEW t \in Seq(Unit), NEW p, Inside(t, p), p.result = "OK",
         AtItem(t, p) \/ AtEnd(t, p), p.at <= Len(t), t[p.at] = Close(p.stack % 2)
  PROVE  LET q == [p EXCEPT !.at = @ + 1, !.stack = @ \div 2]
         IN  /\ Inside(t, q) /\ q.result = "OK" /\ Tracks(t, q)
             /\ Deeper(Around(t, q), Around(t, p))
             /\ \/ Outside(Around(t, q)) /\ Around(t, q)[1] # <<>>
                \/ Within(Around(t, q), "next")
<1> DEFINE q    == [p EXCEPT !.at = @ + 1, !.stack = @ \div 2]
           open == Around(t, p)
           new  == Around(t, q)
           unit == t[p.at]
           bit  == Bit(Innermost(open))
<1>1. /\ p.at \in Nat \ {0} /\ p.at <= Len(t) + 1 /\ Len(t) \in Nat /\ p \in Chained(t)
      /\ p.stack \in 1 .. 2 * Top - 1
  BY LenProperties DEF Inside, Chained
<1>2. p.at \in 1 .. Len(t) /\ (p.at + 1) - 1 = p.at /\ unit \in Unit
  BY <1>1
<1>3. /\ Len(open) > 1 /\ Lower(open)
      /\ Begins(Innermost(open)) \/ Awaits(Innermost(open), "next")
      /\ p.stack = PathOf(open) /\ p.stack # 1 /\ p.stack % 2 = bit
  BY InContainer
<1>4. Between(t, p) /\ open \in Opens
  BY AroundTyped DEF AtItem, AtEnd, Tracks
<1>5. unit = Close(bit) /\ IsClosing(unit)
  <2>1. unit = Close(bit)
    BY <1>3
  <2>2. IsClosing(Close(bit))
    BY DEF Close, IsClosing
  <2> QED
    BY <2>1, <2>2
<1>6. unit # "quote" /\ unit \notin White /\ unit # "NUL"
  <2>1. unit # "NUL"
    BY <1>5, Zenon DEF IsClosing
  <2> QED
    BY <1>5, <2>1, BracketFacts
<1>7. q.at = p.at + 1 /\ q.stack = p.stack \div 2 /\ q.result = "OK"
  BY <1>1 DEF Chained
<1>8. Between(t, q) /\ new = Open1(open, unit)
  <2>1. ~ InString(t, p.at) /\ Opened(t, p.at) = Open1(Opened(t, p.at - 1), unit)
    BY <1>2, <1>4, <1>6, ReadUnit DEF Between
  <2> HIDE DEF q
  <2> QED
    BY <1>2, <1>7, <2>1 DEF Between, Around
<1>9. Inside(t, q)
  <2>1. p.stack \div 2 \in 1 .. 2 * Top - 1
    BY <1>1, <1>3, TopIsPositive
  <2>2. p.at + 1 \in 1 .. Len(t) + 1 /\ (Ended(t) => p.at + 1 <= Len(t))
    BY <1>2, <1>6 DEF Ended
  <2> QED
    BY <1>1, <2>1, <2>2 DEF Inside, Chained
<1> HIDE DEF q, new, open, unit, bit
<1>10. /\ new \in Opens /\ Deeper(new, open)
       /\ \/ Outside(new) /\ new[1] # <<>>
          \/ Within(new, "next")
       /\ PathOf(open) = 2 * PathOf(new) + bit
  BY <1>3, <1>4, <1>5, <1>8, TakeClosing DEF bit
<1>11. PathOf(new) = PathOf(open) \div 2
  <2>1. PathOf(new) \in Nat
    BY <1>10, PathTyped
  <2>2. bit \in {0, 1}
    BY BitTyped DEF bit
  <2> QED
    BY <1>10, <2>1, <2>2
<1>12. Tracks(t, q)
  BY <1>3, <1>7, <1>8, <1>11 DEF Tracks, new
<1> QED
  BY <1>7, <1>9, <1>10, <1>12 DEF q, new, open

\* What begins an item: one may begin here, of a container of this kind, or the
\* container has ended.
LEMMA ItemBegun ==
  ASSUME NEW t \in Seq(Unit), NEW p, Inside(t, p), p.result = "OK", Sound(t, p),
         NEW item \in {Object, Array}
  PROVE  LET q == CheckItemBegin(t, p, item)
         IN  /\ q.result = "OK" =>
                  q = p /\ AtItem(t, p) /\ Bit(Innermost(Around(t, p))) = item
             /\ q.result = "ERROR_ITEM_NOT_FOUND" =>
                  Sound(t, q) /\ Deeper(Around(t, q), Around(t, p))
<1> DEFINE q      == CheckItemBegin(t, p, item)
           popped == [p EXCEPT !.at = @ + 1, !.stack = @ \div 2]
           closed == SkipWhite(t, popped)
           after  == IF closed.stack = 1 THEN closed ELSE ReadCommaOrClose(t, closed)
<1>1. p \in Chained(t) /\ p.at \in Nat /\ Len(t) \in Nat
  BY LenProperties DEF Inside, Chained
<1>2. CASE p.stack = 1 \/ p.stack % 2 # item
  <2>1. q = Fail(p, "ERROR_JSON_INVALID_STATE")
    BY <1>2 DEF CheckItemBegin
  <2>2. q.result = "ERROR_JSON_INVALID_STATE"
    BY <1>1, <2>1 DEF Fail, Chained
  <2> QED
    BY <2>2
<1>3. CASE ~ (p.stack = 1 \/ p.stack % 2 # item) /\ p.at > Len(t)
  <2>1. q = Fail(p, "ERROR_EOF")
    BY <1>3 DEF CheckItemBegin
  <2>2. q.result = "ERROR_EOF"
    BY <1>1, <2>1 DEF Fail, Chained
  <2> QED
    BY <2>2
<1>4. CASE /\ ~ (p.stack = 1 \/ p.stack % 2 # item) /\ ~ p.at > Len(t)
           /\ t[p.at] # Close(item)
  <2>1. q = p
    BY <1>4 DEF CheckItemBegin
  <2>2. AtItem(t, p)
    <3>1. ~ (AtTop(t, p) \/ AtLast(t, p))
      BY <1>4, OutOfContainers
    <3>2. ~ AtEnd(t, p)
      BY <1>4 DEF AtEnd
    <3> QED
      BY <3>1, <3>2 DEF Sound
  <2>3. Bit(Innermost(Around(t, p))) = item
    BY <1>4, <2>2, InContainer
  <2>4. q.result = "OK"
    BY <2>1
  <2> QED
    BY <2>1, <2>2, <2>3, <2>4
<1>5. CASE /\ ~ (p.stack = 1 \/ p.stack % 2 # item) /\ ~ p.at > Len(t)
           /\ t[p.at] = Close(item)
  <2>1. AtItem(t, p) \/ AtEnd(t, p)
    BY <1>5, OutOfContainers DEF Sound
  <2>2. p.at <= Len(t) /\ t[p.at] = Close(p.stack % 2)
    <3>1. ~ p.at > Len(t) /\ p.stack % 2 = item /\ t[p.at] = Close(item)
      BY <1>5
    <3>2. p.at <= Len(t)
      BY <1>1, <3>1
    <3> QED
      BY <3>1, <3>2
  <2>3. /\ Inside(t, popped) /\ popped.result = "OK" /\ Tracks(t, popped)
        /\ Deeper(Around(t, popped), Around(t, p))
        /\ \/ Outside(Around(t, popped)) /\ Around(t, popped)[1] # <<>>
           \/ Within(Around(t, popped), "next")
    BY <2>1, <2>2, BracketTaken
  <2>4. q = IF after.result # "OK" THEN after ELSE Fail(after, "ERROR_ITEM_NOT_FOUND")
    BY <1>5 DEF CheckItemBegin
  <2> HIDE DEF popped
  <2>5. /\ closed.result = "OK" /\ closed.stack = popped.stack
        /\ Between(t, closed) /\ Around(t, closed) = Around(t, popped)
    BY <2>3, SkipWhiteAround DEF Tracks
  <2>6. Inside(t, closed) /\ Tracks(t, closed)
    BY <2>3, <2>5, SkipWhiteFollows DEF Follows, Tracks
  <2> HIDE DEF closed
  <2>7. Around(t, closed) \in Opens
    BY <2>6, AroundTyped
  <2>8. CASE closed.stack = 1
    <3>1. Len(Around(t, closed)) = 1
      BY <2>6, <2>7, <2>8, OutermostPath DEF Tracks
    <3>2. ~ Within(Around(t, closed), "next")
      BY <3>1 DEF Within
    <3>3. AtTop(t, closed)
      BY <2>3, <2>5, <2>6, <3>2 DEF AtTop
    <3>4. after = closed
      BY <2>8
    <3>5. q = Fail(closed, "ERROR_ITEM_NOT_FOUND")
      BY <2>4, <2>5, <3>4
    <3>6. q.at = closed.at /\ q.stack = closed.stack /\ q.result = "ERROR_ITEM_NOT_FOUND"
      BY <2>6, <3>5 DEF Fail, Inside, Chained
    <3> HIDE DEF q
    <3>7. Sound(t, q) /\ Deeper(Around(t, q), Around(t, p))
      BY <2>3, <2>5, <3>3, <3>6, SoundSame DEF Sound, Around
    <3> QED
      BY <3>6, <3>7 DEF q
  <2>9. CASE closed.stack # 1
    <3>1. after = ReadCommaOrClose(t, closed)
      BY <2>9
    <3>2. Follows(t, closed, after)
      BY <2>6, <3>1, ReadCommaOrCloseFollows
    <3>3. Within(Around(t, closed), "next")
      <4>1. ~ Outside(Around(t, closed))
        BY <2>6, <2>7, <2>9, PathTyped DEF Outside, Tracks
      <4> QED
        BY <2>3, <2>5, <4>1
    <3> HIDE DEF after, q
    <3>4. CASE after.result = "OK"
      <4>1. Sound(t, after) /\ SameDepth(Around(t, closed), Around(t, after))
        BY <2>5, <2>6, <3>1, <3>3, <3>4, ItemTaken
      <4>2. q = Fail(after, "ERROR_ITEM_NOT_FOUND")
        BY <2>4, <3>4
      <4>3. q.at = after.at /\ q.stack = after.stack /\ q.result = "ERROR_ITEM_NOT_FOUND"
        BY <3>2, <4>2 DEF Fail, Follows, Inside, Chained
      <4>4. Sound(t, q) /\ Around(t, q) = Around(t, after)
        BY <4>1, <4>3, SoundSame DEF Around
      <4>5. Deeper(Around(t, q), Around(t, p))
        <5>1. Around(t, p) \in Opens /\ Around(t, after) \in Opens
          BY <3>2, AroundTyped DEF Follows
        <5>2. Deeper(Around(t, closed), Around(t, p))
          BY <2>3, <2>5
        <5> QED
          BY <2>7, <4>1, <4>4, <5>1, <5>2, DepthFacts
      <4> QED
        BY <4>3, <4>4, <4>5 DEF q
    <3>5. CASE after.result # "OK"
      <4>1. q = after
        BY <2>4, <3>5
      <4>2. q.result # "OK" /\ q.result # "ERROR_ITEM_NOT_FOUND"
        BY <2>5, <3>2, <3>5, <4>1 DEF Follows
      <4> QED
        BY <4>2 DEF q
    <3> QED
      BY <3>4, <3>5
  <2> QED
    BY <2>8, <2>9
<1> QED
  BY <1>2, <1>3, <1>4, <1>5

\* A step does nothing after a failure.
LEMMA StepsAfterFailure ==
  ASSUME NEW t, NEW p, p.result # "OK"
  PROVE  /\ SkipWhite(t, p) = p
         /\ StringRest(t, p) = p
         /\ GetValueSpace(t, p) = p
         /\ CheckItemEnd(t, p) = p
<1>1. SkipWhite(t, p) = p
  BY DEF SkipWhite
<1>2. GetValue(t, p) = p
  BY Zenon DEF GetValue
<1>3. ReadCommaOrClose(t, p) = p
  BY Zenon DEF ReadCommaOrClose
<1> QED
  BY <1>1, <1>2, <1>3 DEF StringRest, GetValueSpace, CheckItemEnd

\* Neither does this one.
LEMMA ExpectAfterFailure ==
  ASSUME NEW t, NEW p, NEW unit, p.result # "OK"
  PROVE  Expect(t, p, unit) = p
BY DEF Expect

\* The kind of a container, by its bit.
LEMMA BitTells ==
  ASSUME NEW c
  PROVE  /\ Bit(c) = Object => IsObject(c)
         /\ Bit(c) = Array => ~ IsObject(c)
<1>1. Bit(c) = IF IsObject(c) THEN Object ELSE Array
  BY Zenon DEF Bit, IsObject
<1> QED
  BY <1>1 DEF Object, Array

\* Behind a value of a container, whatever it is.
LEMMA ItemEnded ==
  ASSUME NEW t \in Seq(Unit), NEW p, Inside(t, p), p.result = "OK", Tracks(t, p),
         p.kind \in Containers => AtItem(t, p),
         p.kind \notin Containers => Within(Around(t, p), "next"),
         CheckItemEnd(t, p).result = "OK"
  PROVE  LET q == CheckItemEnd(t, p)
         IN  /\ Sound(t, q) /\ q.kind = p.kind /\ q.value = p.value
             /\ SameDepth(Around(t, p), Around(t, q))
<1>1. CASE p.kind \in Containers
  <2>1. SameDepth(Around(t, p), Around(t, p))
    BY AroundTyped, DepthFacts
  <2> QED
    BY <1>1, <2>1 DEF CheckItemEnd, Sound
<1>2. CASE p.kind \notin Containers
  BY <1>2, ItemTaken DEF CheckItemEnd
<1> QED
  BY <1>1, <1>2

\* What a call keeps that does not fail.
Keeps(t, q) == q.result \in Fine => Sound(t, q)

\* Where it leads to: behind a value, or out of the container.
Walks(t, p, q) ==
  /\ q.result = "OK" => Took(t, p, q)
  /\ q.result = "ERROR_ITEM_NOT_FOUND" => Deeper(Around(t, q), Around(t, p))

\* An item that is read, the end of an array, or a failure.
LEMMA ParseArrayItemKeeps ==
  ASSUME NEW t \in Seq(Unit), NEW p, Inside(t, p), p.result = "OK", Sound(t, p)
  PROVE  Keeps(t, ParseArrayItem(t, p)) /\ Walks(t, p, ParseArrayItem(t, p))
<1> DEFINE begun  == CheckItemBegin(t, p, Array)
           valued == GetValueSpace(t, begun)
           ended  == CheckItemEnd(t, valued)
<1>1. /\ begun.result = "OK" =>
           begun = p /\ AtItem(t, p) /\ Bit(Innermost(Around(t, p))) = Array
      /\ begun.result = "ERROR_ITEM_NOT_FOUND" =>
           Sound(t, begun) /\ Deeper(Around(t, begun), Around(t, p))
  BY ItemBegun
<1>2. Inside(t, begun)
  BY CheckItemBeginCalls
<1>3. ParseArrayItem(t, p) = ended
  BY DEF ParseArrayItem
<1> HIDE DEF begun
<1>4. CASE begun.result # "OK"
  <2>1. valued = begun
    BY <1>4, StepsAfterFailure
  <2>2. ended = begun
    BY <1>4, <2>1, StepsAfterFailure
  <2> QED
    BY <1>1, <1>3, <1>4, <2>2 DEF Keeps, Walks, Fine
<1>5. CASE begun.result = "OK"
  <2>1. valued = GetValueSpace(t, p)
    BY <1>1, <1>5
  <2>2. Follows(t, p, valued)
    BY <2>1, GetValueSpaceGains DEF Gains
  <2>3. Follows(t, valued, ended)
    BY <2>2, CheckItemEndFollows DEF Follows
  <2>4. Within(Around(t, p), "value") /\ Tracks(t, p)
    <3>1. Begins(Innermost(Around(t, p))) /\ ~ IsObject(Innermost(Around(t, p)))
      BY <1>1, <1>5, BitTells DEF AtItem
    <3> QED
      BY <1>1, <1>5, <3>1 DEF AtItem, Within, Begins
  <2> HIDE DEF valued
  <2> SUFFICES ASSUME ended.result = "OK"
               PROVE  Sound(t, ended) /\ Took(t, p, ended)
    <3>1. ended.result # "ERROR_ITEM_NOT_FOUND"
      BY <2>2, <2>3 DEF Follows
    <3> HIDE DEF ended
    <3> QED
      BY <1>3, <3>1 DEF Keeps, Walks, Fine
  <2>5. valued.result = "OK"
    BY <2>3 DEF Follows
  <2>6. /\ Inside(t, valued) /\ Tracks(t, valued) /\ Took(t, p, valued)
        /\ valued.kind \in Containers => AtItem(t, valued)
        /\ valued.kind \notin Containers => Within(Around(t, valued), "next")
    BY <2>1, <2>4, <2>5, ValueTaken
  <2>7. /\ Sound(t, ended) /\ ended.kind = valued.kind /\ ended.value = valued.value
        /\ SameDepth(Around(t, valued), Around(t, ended))
    BY <2>5, <2>6, ItemEnded
  <2>8. SameDepth(Around(t, p), Around(t, p)) /\ Inside(t, ended)
    BY <2>3, AroundTyped, DepthFacts DEF Follows
  <2> HIDE DEF ended
  <2> QED
    BY <2>6, <2>7, <2>8, TookMore
<1> QED
  BY <1>4, <1>5

\* A member that is read, the end of an object, or a failure.
LEMMA ParseTokenMemberKeeps ==
  ASSUME NEW t \in Seq(Unit), NEW p, Inside(t, p), p.result = "OK", Sound(t, p)
  PROVE  Keeps(t, ParseTokenMember(t, p)) /\ Walks(t, p, ParseTokenMember(t, p))
<1> DEFINE begun  == CheckItemBegin(t, p, Object)
           quote  == Expect(t, begun, "quote")
           named  == StringRest(t, quote)
           spaced == SkipWhite(t, named)
           colon  == Expect(t, spaced, ":")
           before == SkipWhite(t, colon)
           valued == GetValueSpace(t, before)
           known  == [valued EXCEPT !.name = named.string]
           ended  == CheckItemEnd(t, known)
<1>1. /\ begun.result = "OK" =>
           begun = p /\ AtItem(t, p) /\ Bit(Innermost(Around(t, p))) = Object
      /\ begun.result = "ERROR_ITEM_NOT_FOUND" =>
           Sound(t, begun) /\ Deeper(Around(t, begun), Around(t, p))
  BY ItemBegun
<1>2. Inside(t, begun)
  BY CheckItemBeginCalls
<1>3. ParseTokenMember(t, p) = ended
  BY DEF ParseTokenMember
<1> HIDE DEF begun
<1>4. CASE begun.result # "OK"
  <2>1. quote = begun
    BY <1>4, ExpectAfterFailure, Zenon
  <2> HIDE DEF quote
  <2>2. named = begun
    BY <1>4, <2>1, StepsAfterFailure
  <2> HIDE DEF named
  <2>3. spaced = begun
    BY <1>4, <2>2, StepsAfterFailure
  <2> HIDE DEF spaced
  <2>4. colon = begun
    BY <1>4, <2>3, ExpectAfterFailure, Zenon
  <2> HIDE DEF colon
  <2>5. before = begun
    BY <1>4, <2>4, StepsAfterFailure
  <2> HIDE DEF before
  <2>6. valued = begun
    BY <1>4, <2>5, StepsAfterFailure
  <2>7. known.at = begun.at /\ known.stack = begun.stack /\ known.result = begun.result
    BY <1>2, <2>6 DEF Inside, Chained
  <2> HIDE DEF known
  <2>8. ended = known
    BY <1>4, <2>7, StepsAfterFailure
  <2>9. known.result = "ERROR_ITEM_NOT_FOUND" =>
          Sound(t, known) /\ Deeper(Around(t, known), Around(t, p))
    BY <1>1, <2>7, SoundSame DEF Around
  <2> QED
    BY <1>3, <1>4, <2>7, <2>8, <2>9 DEF Keeps, Walks, Fine
<1>5. CASE begun.result = "OK"
  <2>1. begun = p
    BY <1>1, <1>5
  <2>2. Follows(t, begun, quote)
    BY <1>2, ExpectFollows
  <2>3. quote = Expect(t, p, "quote")
    BY <2>1
  <2> HIDE DEF quote
  <2>4. Follows(t, quote, named)
    BY <2>2, StringRestFollows DEF Follows
  <2>5. named = StringRest(t, quote)
    OBVIOUS
  <2> HIDE DEF named
  <2>6. Follows(t, named, spaced)
    BY <2>4, SkipWhiteFollows DEF Follows
  <2>7. spaced = SkipWhite(t, named)
    OBVIOUS
  <2> HIDE DEF spaced
  <2>8. Follows(t, spaced, colon)
    BY <2>6, ExpectFollows DEF Follows
  <2>9. \E unit : IsColon(unit) /\ colon = Expect(t, spaced, unit)
    <3>1. IsColon(":")
      BY Zenon DEF IsColon
    <3> QED
      BY <3>1, Zenon
  <2> HIDE DEF colon
  <2>10. Follows(t, colon, before)
    BY <2>8, SkipWhiteFollows DEF Follows
  <2>11. before = SkipWhite(t, colon)
    OBVIOUS
  <2> HIDE DEF before
  <2>12. Follows(t, before, valued)
    BY <2>10, GetValueSpaceGains DEF Gains, Follows
  <2>13. valued = GetValueSpace(t, before)
    OBVIOUS
  <2> HIDE DEF valued
  <2>14. /\ known.at = valued.at /\ known.stack = valued.stack
         /\ known.result = valued.result /\ known.kind = valued.kind
         /\ known.value = valued.value
         /\ Inside(t, known)
    BY <2>4, <2>12 DEF Follows, Inside, Chained
  <2> HIDE DEF known
  <2>15. Follows(t, known, ended)
    BY <2>14, CheckItemEndFollows
  <2>16. ended.result \in Fine => ended.result = "OK"
    <3>1. ended.result # "ERROR_ITEM_NOT_FOUND"
      BY <1>5, <2>2, <2>4, <2>6, <2>8, <2>10, <2>12, <2>14, <2>15 DEF Follows
    <3> QED
      BY <3>1 DEF Fine
  <2> HIDE DEF ended
  <2> SUFFICES ASSUME ended.result = "OK"
               PROVE  Sound(t, ended) /\ Took(t, p, ended)
    BY <1>3, <2>16 DEF Keeps, Walks, Fine
  <2>17. /\ quote.result = "OK" /\ named.result = "OK" /\ spaced.result = "OK"
         /\ colon.result = "OK" /\ before.result = "OK" /\ valued.result = "OK"
         /\ known.result = "OK"
    BY <2>2, <2>4, <2>6, <2>8, <2>10, <2>12, <2>14, <2>15 DEF Follows
  <2>18. /\ Inside(t, quote) /\ Inside(t, named) /\ Inside(t, spaced)
         /\ Inside(t, colon) /\ Inside(t, before) /\ Inside(t, valued)
    BY <2>2, <2>4, <2>6, <2>8, <2>10, <2>12 DEF Follows
  <2>19. /\ Tracks(t, p) /\ Within(Around(t, p), "name") /\ Around(t, p) \in Opens
    <3>1. AtItem(t, p) /\ Bit(Innermost(Around(t, p))) = Object
      BY <1>1, <1>5
    <3>2. Begins(Innermost(Around(t, p))) /\ IsObject(Innermost(Around(t, p)))
      BY <3>1, BitTells DEF AtItem
    <3> QED
      BY <3>1, <3>2, AroundTyped DEF AtItem, Within, Begins
  <2>20. /\ InString(t, quote.at - 1) /\ Around(t, quote) = Around(t, p)
         /\ quote.stack = p.stack
    BY <2>3, <2>17, <2>19, ExpectAround DEF Tracks
  <2>21. /\ named.stack = p.stack /\ Between(t, named)
         /\ Around(t, named) = Open1(Around(t, p), "string")
    BY <2>5, <2>17, <2>18, <2>20, StringRestAround
  <2>22. /\ Within(Around(t, named), "colon") /\ Around(t, named) \in Opens
         /\ PathOf(Around(t, named)) = p.stack
         /\ SameDepth(Around(t, p), Around(t, named))
    <3>1. "string" \in Token /\ Suits("name", "string")
      BY DEF Token, Suits
    <3>2. Plain("string")
      BY Zenon DEF Plain, IsOpening, IsClosing
    <3>3. Then(Innermost(Around(t, p)), "name") = "colon"
      BY DEF Then
    <3> QED
      BY <2>19, <2>21, <3>1, <3>2, <3>3, TakeToken DEF Tracks
  <2>23. /\ spaced.stack = p.stack /\ Between(t, spaced)
         /\ Around(t, spaced) = Around(t, named)
    BY <2>7, <2>17, <2>18, <2>21, SkipWhiteAround
  <2>24. /\ colon.stack = p.stack /\ Between(t, colon)
         /\ \E unit \in Unit : IsColon(unit) /\ Around(t, colon) = Open1(Around(t, named), unit)
    <3>1. PICK unit : IsColon(unit) /\ colon = Expect(t, spaced, unit)
      BY <2>9
    <3>2. unit # "quote" /\ unit \notin White
      BY <3>1, ColonFacts
    <3>3. /\ colon.stack = p.stack /\ Between(t, colon) /\ unit \in Unit
          /\ Around(t, colon) = Open1(Around(t, spaced), unit)
      BY <2>17, <2>18, <2>23, <3>1, <3>2, ExpectAround
    <3> QED
      BY <2>23, <3>1, <3>3
  <2>25. /\ Within(Around(t, colon), "value")
         /\ PathOf(Around(t, colon)) = p.stack
         /\ SameDepth(Around(t, named), Around(t, colon))
    <3>1. PICK unit \in Unit : /\ IsColon(unit)
                               /\ Around(t, colon) = Open1(Around(t, named), unit)
      BY <2>24
    <3>2. unit \in Token /\ Plain(unit) /\ Suits("colon", unit)
      BY <3>1, ColonFacts DEF Token
    <3>3. Then(Innermost(Around(t, named)), "colon") = "value"
      BY DEF Then
    <3> QED
      BY <2>22, <3>1, <3>2, <3>3, TakeToken
  <2>26. /\ Tracks(t, before) /\ Within(Around(t, before), "value")
         /\ Around(t, before) = Around(t, colon)
    BY <2>11, <2>17, <2>18, <2>24, <2>25, SkipWhiteAround DEF Tracks
  <2>27. /\ Tracks(t, valued) /\ Took(t, before, valued)
         /\ valued.kind \in Containers => AtItem(t, valued)
         /\ valued.kind \notin Containers => Within(Around(t, valued), "next")
    BY <2>13, <2>17, <2>18, <2>26, ValueTaken
  <2>28. /\ Tracks(t, known)
         /\ known.kind \in Containers => AtItem(t, known)
         /\ known.kind \notin Containers => Within(Around(t, known), "next")
    BY <2>14, <2>27 DEF Tracks, Between, Around, AtItem
  <2>29. /\ Sound(t, ended) /\ ended.kind = known.kind /\ ended.value = known.value
         /\ SameDepth(Around(t, known), Around(t, ended))
    BY <2>14, <2>17, <2>28, ItemEnded DEF ended
  <2>30. SameDepth(Around(t, p), Around(t, before))
    <3>1. /\ Around(t, p) \in Opens /\ Around(t, named) \in Opens
          /\ Around(t, before) \in Opens
      BY <2>18, <2>19, <2>22, AroundTyped
    <3>2. SameDepth(Around(t, named), Around(t, before))
      BY <2>25, <2>26
    <3> QED
      BY <2>22, <3>1, <3>2, DepthFacts
  <2>31. Took(t, before, known) /\ Inside(t, ended)
    BY <2>14, <2>15, <2>27 DEF Took, Around, Follows
  <2> QED
    BY <2>14, <2>18, <2>29, <2>30, <2>31, TookMore
<1> QED
  BY <1>4, <1>5

LEMMA SkipItemKeeps ==
  ASSUME NEW t \in Seq(Unit), NEW p, Inside(t, p), p.result = "OK", Sound(t, p)
  PROVE  Keeps(t, SkipItem(t, p)) /\ Walks(t, p, SkipItem(t, p))
BY ParseTokenMemberKeeps, ParseArrayItemKeeps DEF SkipItem

\* A value that is read, or a failure.
LEMMA ParseTokenKeeps ==
  ASSUME NEW t \in Seq(Unit), NEW p, Inside(t, p), p.result = "OK", Sound(t, p)
  PROVE  /\ Keeps(t, ParseToken(t, p))
         /\ ParseToken(t, p).result = "OK" =>
              Took(t, p, ParseToken(t, p)) /\ Outside(Around(t, p))
<1> DEFINE space == SkipWhite(t, p)
           read  == GetValueSpace(t, space)
           over  == read.at > Len(t)
           q     == ParseToken(t, p)
<1>1. Follows(t, p, space)
  BY SkipWhiteFollows
<1>2. Gains(t, space, read) /\ Follows(t, space, read)
  BY <1>1, GetValueSpaceGains DEF Gains, Follows
<1>3. q = IF p.stack # 1             THEN Fail(p, "ERROR_JSON_INVALID_STATE")
          ELSE IF read.result # "OK" THEN read
          ELSE IF read.kind \in Containers /\ over THEN Fail(read, "ERROR_EOF")
          ELSE IF read.kind \notin Containers /\ ~ over
                                     THEN Fail(read, "ERROR_PARSER_UNEXPECTED_CHAR")
          ELSE read
  BY DEF ParseToken
<1>4. ASSUME NEW r, r \in Chained(t)
      PROVE  /\ Fail(r, "ERROR_JSON_INVALID_STATE").result \notin Fine
             /\ Fail(r, "ERROR_EOF").result \notin Fine
             /\ Fail(r, "ERROR_PARSER_UNEXPECTED_CHAR").result \notin Fine
  BY <1>4 DEF Fail, Fine, Chained
<1>5. p \in Chained(t) /\ read \in Chained(t) /\ read.result # "ERROR_ITEM_NOT_FOUND"
  BY <1>1, <1>2 DEF Follows, Inside
<1>6. space = SkipWhite(t, p) /\ read = GetValueSpace(t, space)
  OBVIOUS
<1> HIDE DEF space, read, q
<1> SUFFICES ASSUME p.stack = 1, read.result = "OK",
                    read.kind \notin Containers => over, q = read
             PROVE  Sound(t, read) /\ Took(t, p, read) /\ Outside(Around(t, p))
  <2>1. CASE p.stack = 1 /\ read.result = "OK" /\ (read.kind \notin Containers => over) /\ q = read
    BY <2>1 DEF Keeps, q
  <2>2. CASE q.result \notin Fine
    BY <2>2 DEF Keeps, Fine, q
  <2>3. \/ p.stack = 1 /\ read.result = "OK" /\ (read.kind \notin Containers => over) /\ q = read
        \/ q.result \notin Fine
    BY <1>3, <1>4, <1>5 DEF Fine
  <2> QED
    BY <2>1, <2>2, <2>3
<1>7. ~ (AtItem(t, p) \/ AtEnd(t, p))
  BY InContainer
<1>8. space.result = "OK" /\ Inside(t, space)
  BY <1>1, <1>2 DEF Follows
<1>9. ~ AtLast(t, p)
  <2> SUFFICES ASSUME p.at > Len(t)
               PROVE  FALSE
    BY DEF AtLast
  <2>1. space.at > Len(t)
    BY <1>1, LenProperties DEF Follows, Inside, Chained
  <2>2. GetValue(t, space) = Fail(space, "ERROR_EOF")
    BY <1>8, <2>1, Zenon DEF GetValue
  <2>3. Fail(space, "ERROR_EOF").result = "ERROR_EOF"
    BY <1>8 DEF Fail, Inside, Chained
  <2>4. SkipWhite(t, GetValue(t, space)) = GetValue(t, space)
    BY <2>2, <2>3, StepsAfterFailure
  <2>5. read.result = "ERROR_EOF"
    BY <1>6, <2>2, <2>3, <2>4 DEF GetValueSpace
  <2> QED
    BY <2>5
<1>10. Tracks(t, p) /\ Outside(Around(t, p))
  BY <1>7, <1>9 DEF Sound, AtTop
<1>11. Tracks(t, space) /\ Outside(Around(t, space)) /\ Around(t, space) = Around(t, p)
  BY <1>6, <1>10, SkipWhiteAround DEF Tracks
<1>12. /\ Tracks(t, read) /\ Took(t, space, read) /\ Inside(t, read)
       /\ read.kind \in Containers => AtItem(t, read)
       /\ read.kind \notin Containers => Len(Around(t, read)) = 1 /\ Whole(Around(t, read)[1])
  BY <1>6, <1>8, <1>11, ValueTaken
<1>13. Took(t, p, read)
  <2>1. /\ SameDepth(Around(t, p), Around(t, space))
        /\ SameDepth(Around(t, read), Around(t, read))
    BY <1>11, <1>12, AroundTyped, DepthFacts
  <2> QED
    BY <1>8, <1>12, <2>1, TookMore
<1> QED
  BY <1>10, <1>12, <1>13 DEF Sound, AtLast

\* Nothing moves when the application asks whether the text is complete.
LEMMA DoneKeeps ==
  ASSUME NEW t \in Seq(Unit), NEW p, Inside(t, p), p.result = "OK", Sound(t, p)
  PROVE  /\ Keeps(t, Done(t, p))
         /\ Done(t, p).result \in Fine =>
              Done(t, p) = p /\ p.at > Len(t) /\ p.stack = 1
<1>1. CASE p.at <= Len(t) \/ p.stack # 1
  <2>1. Done(t, p) = Fail(p, "ERROR_JSON_INVALID_STATE")
    BY <1>1 DEF Done
  <2>2. Done(t, p).result \notin Fine
    BY <2>1 DEF Fail, Fine, Inside, Chained
  <2> QED
    BY <2>2 DEF Keeps
<1>2. CASE ~ (p.at <= Len(t) \/ p.stack # 1)
  <2>1. Done(t, p) = p
    BY <1>2 DEF Done
  <2>2. p.at > Len(t)
    BY <1>2, LenProperties DEF Inside, Chained
  <2> QED
    BY <1>2, <2>1, <2>2 DEF Keeps
<1> QED
  BY <1>1, <1>2
------------------------------------------------------------------------------
(***************************************************************************)
(* The parser.                                                             *)
(***************************************************************************)
(***************************************************************************)
(* The inductive invariant: the types, and a parser that stands inside of  *)
(* the text.                                                               *)
(***************************************************************************)
ParserInv ==
  /\ TypeOK
  /\ Ended(text) => at <= Len(text)
  /\ ReadsOnlyText

LEMMA ParserInvInside ==
  ASSUME ParserInv
  PROVE  Inside(text, Now) /\ Now.result = "OK"
BY ParserInside DEF ParserInv, TypeOK, Now

LEMMA ParserInvText == ParserInv => text \in Seq(Unit)
BY DEF ParserInv, TypeOK

LEMMA InitParserInv == Init => ParserInv
<1> SUFFICES ASSUME Init
             PROVE  ParserInv
  OBVIOUS
<1>1. text \in Seq(Unit) /\ Len(text) \in Nat
  BY JsonCursorAssumption DEF Init, CursorInit
<1>2. 1 \in 1 .. 2 * Top - 1 /\ 1 \in 1 .. Top
  BY TopIsPositive
<1>3. Parser(1, 1) \in Parsers
  <2>1. Nowhere \in Views
    BY DEF Nowhere, Views
  <2>2. 1 \in 1 .. Len(text) + 1
    BY <1>1
  <2> QED
    BY <1>2, <2>1, <2>2
    DEF Parser, Parsers, AzResults, AzError, Kind, Containers
<1>4. TypeOK
  BY <1>1, <1>2, <1>3 DEF Init, CursorInit, TypeOK
<1>5. Ended(text) => at <= Len(text)
  BY <1>1 DEF Init, CursorInit, Ended
<1>6. ReadsOnlyText
  BY DEF Init, CursorInit, ReadsOnlyText, Parser, ReadBehind
<1> QED
  BY <1>4, <1>5, <1>6 DEF ParserInv

\* A call of the application.
LEMMA ReturnsParserInv ==
  ASSUME ParserInv, NEW p, Inside(text, p),
         NEW of \in {"token", "member", "item", "done", "skip nothing", "skip"},
         Returns(of, p)
  PROVE  ParserInv'
<1>1. p \in Parsers /\ p.at \in 1 .. Len(text) + 1 /\ p.stack \in 1 .. 2 * Top - 1
  BY DEF Inside, Chained, Parsers
<1>2. text' = text /\ Parsers' = Parsers
  BY DEF Returns, Parsers
<1>3. TypeOK'
  BY <1>1, <1>2 DEF Returns, ParserInv, TypeOK
<1>4. (Ended(text) => at <= Len(text))'
  BY <1>2 DEF Returns, Inside, Ended
<1>5. ReadsOnlyText'
  BY <1>2 DEF Returns, ReadsOnlyText, Inside, Ended
<1> QED
  BY <1>3, <1>4, <1>5 DEF ParserInv

LEMMA SkipChildrenParserInv ==
  ASSUME ParserInv, SkipChildren
  PROVE  ParserInv'
<1>1. text' = text /\ Parsers' = Parsers
  BY DEF SkipChildren, Parsers
<1>2. target' \in 1 .. Top
  <2>1. stack \in 1 .. 2 * Top - 1
    BY DEF ParserInv, TypeOK
  <2>2. stack > 1 /\ target' = stack \div 2
    BY DEF SkipChildren
  <2> QED
    BY <2>1, <2>2, TopIsPositive
<1>3. TypeOK'
  BY <1>1, <1>2 DEF SkipChildren, ParserInv, TypeOK
<1>4. (Ended(text) => at <= Len(text))' /\ ReadsOnlyText'
  BY <1>1 DEF SkipChildren, ParserInv, ReadsOnlyText, Ended
<1> QED
  BY <1>3, <1>4 DEF ParserInv

\* A pass of the loop of skip_children.
LEMMA SkipPassParserInv ==
  ASSUME ParserInv, SkipPass
  PROVE  ParserInv' /\ (user' = "none" \/ at' > at)
<1> DEFINE p  == SkipItem(text, Now)
           ok == [p EXCEPT !.result = "OK"]
<1>1. Calls(text, Now, p)
  BY ParserInvInside, ParserInvText, SkipItemCalls
<1>2. /\ p \in Parsers /\ p.at \in 1 .. Len(text) + 1 /\ p.stack \in 1 .. 2 * Top - 1
      /\ ok \in Parsers
      /\ ok.result = "OK"
  BY <1>1 DEF Calls, Inside, Chained, Parsers, AzResults, AzError
<1>3. text' = text /\ Parsers' = Parsers
  BY DEF SkipPass, Parsers
<1>4. /\ at' = p.at /\ stack' = p.stack /\ target' = target /\ from' = from
      /\ sound' = (sound /\ p.result \in Fine)
  BY DEF SkipPass
<1>5. \/ /\ p.result \in Fine /\ user' = user /\ answer' = answer
      \/ /\ user' = "none"
         /\ answer' = [of |-> "skip", token |-> ok]
      \/ /\ user' = "none" /\ answer' = [of |-> "skip", token |-> p]
  BY DEF SkipPass
<1>6. Ended(text) => p.at <= Len(text) /\ p.result # ReadBehind
  BY <1>1 DEF Calls, Inside
<1>7. p.result \in Fine => p.at > at
  BY <1>1 DEF Calls, Now, Parser
<1> HIDE DEF p, ok
<1>8. sound' \in BOOLEAN
  BY <1>4 DEF ParserInv, TypeOK
<1>9. TypeOK'
  <2>1. user' \in {"none", "skip"}
    BY <1>5 DEF ParserInv, TypeOK
  <2>2. answer' \in [of: {"nothing", "token", "member", "item", "done",
                           "skip nothing", "skip"}, token: Parsers]
    <3> DEFINE answers == [of: {"nothing", "token", "member", "item", "done",
                                "skip nothing", "skip"}, token: Parsers]
    <3>1. answer \in answers
      BY DEF ParserInv, TypeOK
    <3>2. \A q \in Parsers : [of |-> "skip", token |-> q] \in answers
      OBVIOUS
    <3> HIDE DEF answers
    <3>3. answer' \in answers
      BY <1>2, <1>5, <3>1, <3>2
    <3> QED
      BY <3>3 DEF answers
  <2> QED
    BY <1>2, <1>3, <1>4, <1>8, <2>1, <2>2 DEF ParserInv, TypeOK
<1>10. (Ended(text) => at <= Len(text))'
  BY <1>3, <1>4, <1>6 DEF Ended
<1>11. ReadsOnlyText'
  <2> SUFFICES ASSUME Ended(text)
               PROVE  answer'.token.result # ReadBehind
    BY <1>3 DEF ReadsOnlyText, Ended
  <2>1. answer.token.result # ReadBehind /\ p.result # ReadBehind
    BY <1>6 DEF ParserInv, ReadsOnlyText, Ended
  <2>2. "OK" # ReadBehind
    BY DEF ReadBehind
  <2> QED
    BY <1>2, <1>5, <2>1, <2>2
<1> QED
  BY <1>4, <1>5, <1>7, <1>9, <1>10, <1>11 DEF ParserInv

LEMMA NextParserInv == ParserInv /\ [Next]_vars => ParserInv'
<1> SUFFICES ASSUME ParserInv, [Next]_vars
             PROVE  ParserInv'
  OBVIOUS
<1>1. Inside(text, Now) /\ Now.result = "OK"
  BY ParserInvInside
<1>2. CASE ReadToken
  BY <1>1, <1>2, ParseTokenCalls, ReturnsParserInv, ParserInvText DEF ReadToken, Calls
<1>3. CASE ReadMember
  BY <1>1, <1>3, ParseTokenMemberCalls, ReturnsParserInv, ParserInvText DEF ReadMember, Calls
<1>4. CASE ReadItem
  BY <1>1, <1>4, ParseArrayItemCalls, ReturnsParserInv, ParserInvText DEF ReadItem, Calls
<1>5. CASE AskDone
  BY <1>1, <1>5, DoneInside, ReturnsParserInv, ParserInvText DEF AskDone
<1>6. CASE SkipNothing
  BY <1>1, <1>6, ReturnsParserInv DEF SkipNothing
<1>7. CASE SkipRefused
  <2>1. Inside(text, Fail(Now, "ERROR_JSON_INVALID_STATE"))
    BY <1>1, FailFollows, ParserInvText DEF Follows, AzResults, AzError
  <2> QED
    BY <1>7, <2>1, ReturnsParserInv DEF SkipRefused
<1>8. CASE SkipChildren
  BY <1>8, SkipChildrenParserInv
<1>9. CASE SkipPass
  BY <1>9, SkipPassParserInv
<1>10. CASE UNCHANGED vars
  <2>1. Parsers' = Parsers
    BY <1>10 DEF vars, Parsers
  <2> QED
    BY <1>10, <2>1 DEF vars, ParserInv, TypeOK, ReadsOnlyText, Ended
<1> QED
  BY <1>2, <1>3, <1>4, <1>5, <1>6, <1>7, <1>8, <1>9, <1>10 DEF Next

\* The parser stays inside of its text and its stack inside of its word,
\* whatever is read and asked for (az_json_parser.c).
THEOREM ParserTypeCorrect == Spec => []TypeOK
<1>1. ParserInv => TypeOK
  BY DEF ParserInv
<1> QED
  BY InitParserInv, NextParserInv, <1>1, PTL DEF Spec

\* The look at the unit behind a value, az_json_parser.c:351, is a look at the
\* text, for every text that ends with a zero byte.
THEOREM ParserReadsOnlyText == Spec => []ReadsOnlyText
<1>1. ParserInv => ReadsOnlyText
  BY DEF ParserInv
<1> QED
  BY InitParserInv, NextParserInv, <1>1, PTL DEF Spec

\* Every pass of the loop of skip_children but the last reads something, so
\* that the loop ends, for every text (az_json_parser.c:451).
THEOREM SkippingAdvances == Spec => SkipAdvances
<1>1. ParserInv /\ [Next]_vars
        => (user = "skip" => user' = "none" \/ at' > at) \/ UNCHANGED vars
  <2> SUFFICES ASSUME ParserInv, [Next]_vars, user = "skip", ~ UNCHANGED vars
               PROVE  user' = "none" \/ at' > at
    OBVIOUS
  <2>1. SkipPass
    BY DEF Next, ReadToken, ReadMember, ReadItem, AskDone, SkipNothing, SkipRefused,
           SkipChildren, Returns
  <2> QED
    BY <2>1, SkipPassParserInv
<1>2. ParserInv /\ [Next]_vars
        => [user = "skip" => user' = "none" \/ at' > at]_vars
  BY <1>1
<1> QED
  BY InitParserInv, NextParserInv, <1>2, PTL DEF Spec, SkipAdvances

(***************************************************************************)
(* What holds while no call has failed: the parser stands in one of the    *)
(* four places, and what the application was told last when it asked       *)
(* whether the text is complete is still so.                               *)
(***************************************************************************)
PlaceInv ==
  /\ ParserInv
  /\ sound => Sound(text, Now)
  /\ sound /\ answer.of = "done" => user = "none" /\ at > Len(text) /\ stack = 1

\* A parser that has just been given a text.
LEMMA StartSound ==
  ASSUME text \in Seq(Unit), at = 1, stack = 1
  PROVE  Sound(text, Now) /\ Len(Around(text, Now)) = 1
<1>1. Now.at = 1 /\ Now.stack = 1
  BY DEF Now, Parser
<1>2. ~ InString(text, 0) /\ Opened(text, 0) = OpenStart /\ 1 - 1 = 0
  BY OpenedStart
<1>3. Between(text, Now) /\ Around(text, Now) = OpenStart
  BY <1>1, <1>2 DEF Between, Around
<1>4. Outside(OpenStart) /\ OpenStart \in Opens
  <2>1. OpenStart[1] = <<>> /\ Len(OpenStart) = 1
    BY DEF OpenStart
  <2> QED
    BY <2>1, OpenStartTyped DEF Outside, AllClosed
<1>5. PathOf(OpenStart) = 1
  BY <1>4, PathTyped DEF Outside
<1>6. AtTop(text, Now)
  BY <1>1, <1>3, <1>4, <1>5 DEF AtTop, Tracks
<1> QED
  BY <1>3, <1>4, <1>6 DEF Sound, Outside

LEMMA InitPlaceInv == Init => PlaceInv
<1> SUFFICES ASSUME Init
             PROVE  PlaceInv
  OBVIOUS
<1>1. ParserInv
  BY InitParserInv
<1>2. text \in Seq(Unit) /\ at = 1 /\ stack = 1 /\ answer.of = "nothing"
  BY <1>1, ParserInvText DEF Init, CursorInit
<1> QED
  BY <1>1, <1>2, StartSound DEF PlaceInv

\* Where a call leaves the parser.
LEMMA LeftSound ==
  ASSUME NEW p, Sound(text, p), at' = p.at, stack' = p.stack, text' = text
  PROVE  Sound(text, Now)'
<1>1. Now' = Parser(p.at, p.stack)
  BY DEF Now, Parser
<1>2. Now'.at = p.at /\ Now'.stack = p.stack
  BY <1>1 DEF Parser
<1>3. Sound(text, Now')
  BY <1>2, SoundSame
<1>4. (Sound(text, Now))' <=> Sound(text', Now')
  BY DEF Sound, AtItem, AtEnd, AtTop, AtLast, Tracks, Between, Around
<1> QED
  BY <1>3, <1>4

LEMMA ReturnsPlaceInv ==
  ASSUME PlaceInv, ParserInv', NEW p, NEW of, Returns(of, p),
         sound => Keeps(text, p),
         of = "done" /\ sound /\ p.result \in Fine => p.at > Len(text) /\ p.stack = 1
  PROVE  PlaceInv'
<1>1. /\ at' = p.at /\ stack' = p.stack /\ text' = text /\ user' = user /\ user = "none"
      /\ answer'.of = of /\ sound' = (sound /\ p.result \in Fine)
  BY DEF Returns
<1>2. ASSUME sound'
      PROVE  Sound(text, Now)'
  <2>1. Sound(text, p)
    BY <1>1, <1>2 DEF Keeps
  <2> QED
    BY <1>1, <2>1, LeftSound
<1>3. ASSUME sound', answer'.of = "done"
      PROVE  user' = "none" /\ at' > Len(text') /\ stack' = 1
  BY <1>1, <1>3
<1> QED
  BY <1>2, <1>3 DEF PlaceInv

LEMMA SkipPassPlaceInv ==
  ASSUME PlaceInv, ParserInv', SkipPass
  PROVE  PlaceInv'
<1> DEFINE p == SkipItem(text, Now)
<1>1. sound => Keeps(text, p)
  BY ParserInvInside, ParserInvText, SkipItemKeeps DEF PlaceInv
<1>2. /\ user = "skip"
      /\ at' = p.at /\ stack' = p.stack /\ text' = text
      /\ sound' = (sound /\ p.result \in Fine)
      /\ answer' = answer \/ answer'.of = "skip"
  BY DEF SkipPass
<1> HIDE DEF p
<1>3. ASSUME sound'
      PROVE  Sound(text, Now)'
  <2>1. Sound(text, p)
    BY <1>1, <1>2, <1>3 DEF Keeps
  <2> QED
    BY <1>2, <2>1, LeftSound
<1>4. ASSUME sound'
      PROVE  answer'.of # "done"
  <2>1. sound
    BY <1>2, <1>4
  <2>2. answer.of # "done"
    BY <1>2, <2>1 DEF PlaceInv
  <2> QED
    BY <1>2, <2>2
<1> QED
  BY <1>3, <1>4 DEF PlaceInv

LEMMA NextPlaceInv == PlaceInv /\ [Next]_vars => PlaceInv'
<1> SUFFICES ASSUME PlaceInv, [Next]_vars
             PROVE  PlaceInv'
  OBVIOUS
<1>1. ParserInv /\ ParserInv'
  BY NextParserInv DEF PlaceInv
<1>2. Inside(text, Now) /\ Now.result = "OK" /\ text \in Seq(Unit)
  BY <1>1, ParserInvInside, ParserInvText
<1>3. sound => Sound(text, Now)
  BY DEF PlaceInv
<1>4. CASE ReadToken
  <2>1. sound => Keeps(text, ParseToken(text, Now))
    BY <1>2, <1>3, ParseTokenKeeps
  <2> QED
    BY <1>1, <1>4, <2>1, ReturnsPlaceInv DEF ReadToken
<1>5. CASE ReadMember
  <2>1. sound => Keeps(text, ParseTokenMember(text, Now))
    BY <1>2, <1>3, ParseTokenMemberKeeps
  <2> QED
    BY <1>1, <1>5, <2>1, ReturnsPlaceInv DEF ReadMember
<1>6. CASE ReadItem
  <2>1. sound => Keeps(text, ParseArrayItem(text, Now))
    BY <1>2, <1>3, ParseArrayItemKeeps
  <2> QED
    BY <1>1, <1>6, <2>1, ReturnsPlaceInv DEF ReadItem
<1>7. CASE AskDone
  <2> DEFINE p == Done(text, Now)
  <2>1. /\ sound => Keeps(text, p)
        /\ sound /\ p.result \in Fine => p = Now /\ Now.at > Len(text) /\ Now.stack = 1
    BY <1>2, <1>3, DoneKeeps
  <2>2. Returns("done", p)
    BY <1>7 DEF AskDone
  <2> HIDE DEF p
  <2>3. sound /\ p.result \in Fine => p.at > Len(text) /\ p.stack = 1
    BY <2>1
  <2> QED
    BY <1>1, <2>1, <2>2, <2>3, ReturnsPlaceInv
<1>8. CASE SkipNothing
  <2>1. sound => Keeps(text, Now)
    BY <1>3 DEF Keeps
  <2> QED
    BY <1>1, <1>8, <2>1, ReturnsPlaceInv DEF SkipNothing
<1>9. CASE SkipRefused
  <2> DEFINE p == Fail(Now, "ERROR_JSON_INVALID_STATE")
  <2>1. p.result \notin Fine
    BY <1>2 DEF Fail, Fine, Inside, Chained
  <2>2. Returns("skip", p)
    BY <1>9 DEF SkipRefused
  <2> HIDE DEF p
  <2>3. Keeps(text, p)
    BY <2>1 DEF Keeps
  <2> QED
    BY <1>1, <2>2, <2>3, ReturnsPlaceInv
<1>10. CASE SkipChildren
  <2>1. /\ at' = at /\ stack' = stack /\ text' = text /\ answer' = answer
        /\ sound' = sound /\ stack > 1
    BY <1>10 DEF SkipChildren
  <2>2. ASSUME sound'
        PROVE  Sound(text, Now)' /\ answer'.of # "done"
    <3>1. Now.at = at /\ Now.stack = stack
      BY DEF Now, Parser
    <3>2. Sound(text, Now)'
      BY <1>3, <2>1, <2>2, <3>1, LeftSound
    <3>3. stack # 1
      BY <2>1
    <3>4. answer.of # "done"
      BY <2>1, <2>2, <3>3 DEF PlaceInv
    <3> QED
      BY <2>1, <3>2, <3>4
  <2> QED
    BY <1>1, <2>2 DEF PlaceInv
<1>11. CASE SkipPass
  BY <1>1, <1>11, SkipPassPlaceInv
<1>12. CASE UNCHANGED vars
  <2>1. /\ at' = at /\ stack' = stack /\ text' = text /\ answer' = answer
        /\ sound' = sound /\ user' = user
    BY <1>12 DEF vars
  <2>2. ASSUME sound'
        PROVE  Sound(text, Now)'
    <3>1. Now.at = at /\ Now.stack = stack
      BY DEF Now, Parser
    <3> QED
      BY <1>3, <2>1, <2>2, <3>1, LeftSound
  <2> QED
    BY <1>1, <2>1, <2>2 DEF PlaceInv
<1> QED
  BY <1>4, <1>5, <1>6, <1>7, <1>8, <1>9, <1>10, <1>11, <1>12 DEF Next

\* Where the parser stands, the stack is the path.
LEMMA PlacePath == PlaceInv => StackIsPath
<1> SUFFICES ASSUME PlaceInv, sound
             PROVE  stack = Path(SubSeq(text, 1, at - 1))
  BY DEF StackIsPath
<1>1. Inside(text, Now) /\ text \in Seq(Unit) /\ Sound(text, Now)
  BY ParserInvInside, ParserInvText DEF PlaceInv
<1>2. Now.at = at /\ Now.stack = stack
  BY DEF Now, Parser
<1>3. Between(text, Now) /\ stack = PathOf(Around(text, Now))
  BY <1>1, <1>2 DEF Sound, AtItem, AtEnd, AtTop, AtLast, Tracks
<1>4. at - 1 \in 0 .. Len(text)
  BY <1>1, <1>2, AroundTyped
<1>5. OpenIn(Lexed(SubSeq(text, 1, at - 1))) = Around(text, Now)
  BY <1>1, <1>2, <1>3, <1>4, OpenedMeans DEF Between, Around
<1> QED
  BY <1>3, <1>5, PathIs

\* Behind the end, with nothing open, the text is complete.
LEMMA PlaceDone == PlaceInv => DoneMeansJson
<1> SUFFICES ASSUME PlaceInv, answer.of = "done", sound, at > 1
             PROVE  IsJson(text)
  BY DEF DoneMeansJson
<1> DEFINE open == Around(text, Now)
<1>1. Inside(text, Now) /\ text \in Seq(Unit) /\ Sound(text, Now)
  BY ParserInvInside, ParserInvText DEF PlaceInv
<1>2. Now.at = at /\ Now.stack = stack
  BY DEF Now, Parser
<1>3. at > Len(text) /\ stack = 1
  BY DEF PlaceInv
<1>4. at - 1 \in 0 .. Len(text) /\ open \in Opens
  BY <1>1, <1>2, AroundTyped
<1>5. Len(text) \in Nat /\ at \in Nat /\ at - 1 = Len(text)
  BY <1>1, <1>2, <1>3, <1>4, LenProperties DEF Inside, Chained
<1>6. AtTop(text, Now) \/ AtLast(text, Now)
  BY <1>1, <1>2, <1>3, InContainer DEF Sound
<1>7. Len(open) = 1 /\ Whole(open[1])
  <2>1. CASE AtLast(text, Now)
    BY <2>1 DEF AtLast
  <2>2. CASE AtTop(text, Now)
    <3>1. Outside(open) /\ open[1] # <<>>
      <4>1. at # 1
        BY <1>5
      <4> QED
        BY <1>2, <2>2, <4>1 DEF AtTop
    <3> QED
      BY <1>4, <3>1, ClosedIsWhole DEF Outside
  <2> QED
    BY <1>6, <2>1, <2>2
<1>8. OpenIn(Lexed(text)) = open
  <2>1. Between(text, Now)
    BY <1>6 DEF AtTop, AtLast, Tracks
  <2>2. OpenIn(Lexed(SubSeq(text, 1, at - 1))) = open
    BY <1>1, <1>2, <1>4, <2>1, OpenedMeans DEF Between, Around
  <2>3. SubSeq(text, 1, Len(text)) = text
    BY <1>1, SubSeqFull
  <2> QED
    BY <1>5, <2>2, <2>3
<1> HIDE DEF open
<1> QED
  BY <1>7, <1>8 DEF IsJson, Whole

\* While no call has failed, the stack holds the containers that are open where
\* the parser stands, for every text, every order of calls and every word
\* (az_json_parser.c:55, 64, 328).
THEOREM StackHoldsPath == Spec => []StackIsPath
BY InitPlaceInv, NextPlaceInv, PlacePath, PTL DEF Spec

\* When az_json_parser_done says that the text is complete, it is JSON, for
\* every text and every order of calls that has not failed.
THEOREM DoneIsJson == Spec => []DoneMeansJson
BY InitPlaceInv, NextPlaceInv, PlaceDone, PTL DEF Spec
------------------------------------------------------------------------------
(***************************************************************************)
(* The search by pointer.                                                  *)
(***************************************************************************)
\* The inductive invariant.
SearchInv ==
  /\ text \in Seq(Unit)
  /\ pointer \in Seq(Unit)
  /\ next \in 1 .. Len(pointer) + 1
  /\ Inside(text, Now)
  /\ SearchStaysInText

LEMMA NowIs == Now.result = "OK" /\ Now.at = at /\ Now.stack = stack
BY DEF Now, Parser

\* A call that has left the parser at p leaves a parser.
LEMMA MovedInside ==
  ASSUME NEW p, text \in Seq(Unit), Inside(text, p), Inside(text, Now),
         at' = p.at, stack' = p.stack, text' = text
  PROVE  Inside(text, Now)'
<1>1. p.at \in 1 .. Len(text) + 1 /\ p.stack \in 1 .. 2 * Top - 1
  BY DEF Inside, Chained
<1>2. Ended(text) => p.at <= Len(text)
  BY DEF Inside
<1>3. Inside(text, Parser(p.at, p.stack))
  BY <1>1, <1>2, ParserInside
<1>4. Now' = Parser(p.at, p.stack)
  BY DEF Now, Parser
<1>5. Inside(text, Now')
  BY <1>3, <1>4
<1> QED
  BY <1>5 DEF Inside, Chained, Ended

\* A call on the text.
LEMMA MovedSearchInv ==
  ASSUME NEW p, SearchInv, Inside(text, p), at' = p.at, stack' = p.stack,
         UNCHANGED <<text, pointer, next>>,
         result' = result \/ result' = p.result
  PROVE  SearchInv'
<1>1. Inside(text, Now)'
  BY MovedInside DEF SearchInv
<1>2. SearchStaysInText'
  BY DEF SearchInv, SearchStaysInText, Inside, Ended
<1> QED
  BY <1>1, <1>2 DEF SearchInv

LEMMA InitSearchInv == SearchInit => SearchInv
<1> SUFFICES ASSUME SearchInit
             PROVE  SearchInv
  OBVIOUS
<1>1. text \in Seq(Unit) /\ pointer \in Seq(Unit) /\ Len(pointer) \in Nat
  BY JsonPointerAssumption, JsonCursorAssumption DEF SearchInit, CursorInit
<1>2. Inside(text, Now)
  <2>1. 1 \in 1 .. Len(text) + 1 /\ 1 \in 1 .. 2 * Top - 1 /\ (Ended(text) => 1 <= Len(text))
    BY <1>1, TopIsPositive DEF Ended
  <2> QED
    BY <1>1, <2>1, ParserInside DEF SearchInit, CursorInit, Now
<1>3. next \in 1 .. Len(pointer) + 1
  BY <1>1 DEF SearchInit, CursorInit
<1>4. SearchStaysInText
  BY DEF SearchInit, CursorInit, SearchStaysInText, ReadBehind
<1> QED
  BY <1>1, <1>2, <1>3, <1>4 DEF SearchInv

LEMMA ParseRootStep ==
  ASSUME SearchInv, ParseRoot
  PROVE  SearchInv' /\ (step' = "returned" \/ at' > at)
<1> DEFINE p == ParseToken(text, Now)
<1>1. Calls(text, Now, p)
  BY NowIs, ParseTokenCalls DEF SearchInv
<1>2. /\ at' = p.at /\ stack' = p.stack /\ UNCHANGED <<text, pointer, next>>
      /\ result' = result \/ result' = p.result
      /\ p.result # "OK" => step' = "returned"
  BY DEF ParseRoot, Moved, Return
<1> HIDE DEF p
<1>3. SearchInv'
  BY <1>1, <1>2, MovedSearchInv DEF Calls
<1>4. p.result = "OK" => p.at > at
  BY <1>1, NowIs DEF Calls, Fine
<1> QED
  BY <1>2, <1>3, <1>4

LEMMA EndOfPointerStep ==
  ASSUME SearchInv, EndOfPointer
  PROVE  SearchInv'
<1>1. result' # ReadBehind
  BY DEF EndOfPointer, Return, PointerToken, ReadBehind
<1> QED
  BY <1>1 DEF EndOfPointer, SearchInv, Inside, Chained, Ended, Now, Parser, SearchStaysInText

\* A token of the pointer is at least its '/'.
LEMMA LookForStep ==
  ASSUME SearchInv, LookFor
  PROVE  SearchInv' /\ next' > next
<1>1. next \in Nat \ {0} /\ next <= Len(pointer) /\ Len(pointer) \in Nat
  BY DEF SearchInv, LookFor, PointerToken
<1>2. TokenEnd(next + 1) \in next + 1 .. Len(pointer) + 1
  <2> DEFINE stop == FirstIn(pointer, next + 1, {"/"})
  <2>1. stop \in Nat /\ (stop # 0 => stop \in next + 1 .. Len(pointer))
    BY <1>1, FirstInFacts DEF SearchInv
  <2> HIDE DEF stop
  <2>2. TokenEnd(next + 1) = IF stop = 0 THEN Len(pointer) + 1 ELSE stop
    BY DEF TokenEnd, stop
  <2> QED
    BY <1>1, <2>1, <2>2
<1>3. next' \in 1 .. Len(pointer) + 1 /\ next' > next
  BY <1>1, <1>2 DEF LookFor
<1>4. result' = result \/ result' # ReadBehind
  <2>1. \A t : Number(t).result # ReadBehind
    BY DEF Number, ReadBehind
  <2> QED
    BY <2>1 DEF LookFor, Return, ReadBehind
<1> QED
  BY <1>3, <1>4 DEF LookFor, SearchInv, Inside, Chained, Ended, Now, Parser, SearchStaysInText

LEMMA TryItemStep ==
  ASSUME SearchInv, TryItem
  PROVE  SearchInv' /\ (step' = "returned" \/ at' > at)
<1> DEFINE p == ParseArrayItem(text, Now)
<1>1. Calls(text, Now, p)
  BY NowIs, ParseArrayItemCalls DEF SearchInv
<1>2. /\ at' = p.at /\ stack' = p.stack /\ UNCHANGED <<text, pointer, next>>
      /\ result' = result \/ result' = p.result
      /\ p.result # "OK" => step' = "returned"
  BY DEF TryItem, Moved, Return, StepOver
<1> HIDE DEF p
<1>3. SearchInv'
  BY <1>1, <1>2, MovedSearchInv DEF Calls
<1>4. p.result = "OK" => p.at > at
  BY <1>1, NowIs DEF Calls, Fine
<1> QED
  BY <1>2, <1>3, <1>4

LEMMA TryMemberStep ==
  ASSUME SearchInv, TryMember
  PROVE  SearchInv' /\ (step' = "returned" \/ at' > at)
<1> DEFINE p == ParseTokenMember(text, Now)
<1>1. Calls(text, Now, p)
  BY NowIs, ParseTokenMemberCalls DEF SearchInv
<1>2. /\ at' = p.at /\ stack' = p.stack /\ UNCHANGED <<text, pointer, next>>
      /\ result' = result \/ result' = p.result
      /\ p.result # "OK" => step' = "returned"
  BY DEF TryMember, Moved, Return, StepOver
<1> HIDE DEF p
<1>3. SearchInv'
  BY <1>1, <1>2, MovedSearchInv DEF Calls
<1>4. p.result = "OK" => p.at > at
  BY <1>1, NowIs DEF Calls, Fine
<1> QED
  BY <1>2, <1>3, <1>4

LEMMA SearchPassStep ==
  ASSUME SearchInv, SearchPass
  PROVE  SearchInv' /\ (step' = "returned" \/ at' > at)
<1> DEFINE p == SkipItem(text, Now)
<1>1. Calls(text, Now, p)
  BY NowIs, SkipItemCalls DEF SearchInv
<1>2. /\ at' = p.at /\ stack' = p.stack /\ UNCHANGED <<text, pointer, next>>
      /\ result' = result \/ result' = p.result
      /\ p.result \notin Fine => step' = "returned"
  BY DEF SearchPass, Moved, Return
<1> HIDE DEF p
<1>3. SearchInv'
  BY <1>1, <1>2, MovedSearchInv DEF Calls
<1>4. p.result \in Fine => p.at > at
  BY <1>1, NowIs DEF Calls
<1> QED
  BY <1>2, <1>3, <1>4

LEMMA SearchNextStep ==
  SearchInv /\ [SearchNext]_searchVars
    => /\ SearchInv'
       /\ [step' = "returned" \/ at' > at \/ next' > next]_searchVars
<1> SUFFICES ASSUME SearchInv, [SearchNext]_searchVars
             PROVE  /\ SearchInv'
                    /\ (step' = "returned" \/ at' > at \/ next' > next) \/ UNCHANGED searchVars
  OBVIOUS
<1>1. CASE ParseRoot
  BY <1>1, ParseRootStep
<1>2. CASE EndOfPointer
  BY <1>2, EndOfPointerStep DEF EndOfPointer, Return
<1>3. CASE LookFor
  BY <1>3, LookForStep
<1>4. CASE TryItem
  BY <1>4, TryItemStep
<1>5. CASE TryMember
  BY <1>5, TryMemberStep
<1>6. CASE SearchPass
  BY <1>6, SearchPassStep
<1>7. CASE UNCHANGED searchVars
  BY <1>7 DEF searchVars, SearchInv, Inside, Chained, Ended, Now, Parser, SearchStaysInText
<1> QED
  BY <1>1, <1>2, <1>3, <1>4, <1>5, <1>6, <1>7 DEF SearchNext

\* Whatever the text and the pointer are, every step of the search but the last
\* reads something of one of them (az_json_get.c:41, 51; az_json_parser.c:451).
THEOREM SearchGetsAhead == SearchSpec => SearchAdvances
BY InitSearchInv, SearchNextStep, PTL DEF SearchSpec, SearchAdvances

\* Whatever a text holds that ends with a zero byte, and wherever the pointer
\* leads, the search looks at nothing behind the end (az_json_parser.c:351).
THEOREM SearchReadsOnlyText == SearchSpec => []SearchStaysInText
<1>1. SearchInv => SearchStaysInText
  BY DEF SearchInv
<1>2. SearchInv /\ [SearchNext]_searchVars => SearchInv'
  BY SearchNextStep
<1> QED
  BY InitSearchInv, <1>1, <1>2, PTL DEF SearchSpec
(***************************************************************************)
(* How deep the search is in the text.                                     *)
(***************************************************************************)
Slash == {"/"}

\* How many tokens of the pointer begin in front of position i.
Before(i) == Cardinality({k \in Solidi : k < i})

\* The value that has been reached is as deep as that many tokens lead.
Reaches(n) ==
  /\ token.value \in 1 .. Len(text) /\ ~ InString(text, token.value - 1)
  /\ Len(Opened(text, token.value - 1)) = n + 1

\* The inductive invariant: if the value is a container, the parser is in it
\* when the search turns to it, and in it again whenever its next item is
\* looked at; in between it is somewhere inside of an item, and the stack with
\* which skip_children ends is that of the container.
DepthInv ==
  /\ SearchInv
  /\ step \in {"begin", "pointer", "item", "member", "skip", "returned"}
  /\ step # "returned" => Sound(text, Now)
  /\ step = "begin" => next = 1
  /\ step = "pointer" =>
       /\ Reaches(Before(next))
       /\ token.kind \in Containers => Len(Around(text, Now)) = Before(next) + 2
  /\ step \in {"item", "member"} => Len(Around(text, Now)) = Before(next) + 1
  /\ step = "skip" =>
       \E home \in Opens : /\ Len(home) = Before(next) + 1 /\ PathOf(home) = goal
                           /\ Above(home, Around(text, Now))
  /\ StandsAtDepth

\* The tokens of the pointer are counted one by one.
LEMMA BeforeFacts ==
  ASSUME pointer \in Seq(Unit)
  PROVE  /\ \A i : Before(i) \in Nat
         /\ Before(1) = 0
         /\ \A i \in Nat : i > Len(pointer) => Before(i) = Cardinality(Solidi)
<1>1. Solidi \subseteq DOMAIN pointer
  BY Zenon DEF Solidi
<1>2. DOMAIN pointer = 1 .. Len(pointer) /\ Len(pointer) \in Nat
  BY LenProperties
<1>3. IsFiniteSet(1 .. Len(pointer))
  BY <1>2, FS_Interval
<1>4. ASSUME NEW i
      PROVE  Before(i) \in Nat
  <2>1. {k \in Solidi : k < i} \in SUBSET (1 .. Len(pointer))
    BY <1>1, <1>2
  <2> QED
    BY <1>3, <2>1, FS_Subset, FS_CardinalityType DEF Before
<1>5. Before(1) = 0
  <2>1. {k \in Solidi : k < 1} = {}
    BY <1>1, <1>2
  <2> QED
    BY <2>1, FS_EmptySet DEF Before
<1>6. ASSUME NEW i \in Nat, i > Len(pointer)
      PROVE  Before(i) = Cardinality(Solidi)
  <2>1. \A k \in Solidi : k < i
    BY <1>1, <1>2, <1>6
  <2>2. {k \in Solidi : k < i} = Solidi
    BY <2>1
  <2> QED
    BY <2>2 DEF Before
<1> QED
  BY <1>4, <1>5, <1>6

LEMMA TokenPassed ==
  ASSUME pointer \in Seq(Unit), next \in 1 .. Len(pointer) + 1, PointerToken = "OK"
  PROVE  Before(TokenEnd(next + 1)) = Before(next) + 1
<1> DEFINE behind == TokenEnd(next + 1)
           stop   == FirstIn(pointer, next + 1, Slash)
           S      == {k \in Solidi : k < next}
           T      == {k \in Solidi : k < behind}
<1>1. DOMAIN pointer = 1 .. Len(pointer) /\ Len(pointer) \in Nat
  BY LenProperties
<1>2. Solidi = {k \in DOMAIN pointer : pointer[k] \in Slash}
  BY Zenon DEF Solidi, Slash
<1>3. ~ next > Len(pointer) /\ pointer[next] \in Slash
  BY Zenon DEF PointerToken, Slash
<1>4. behind = IF stop = 0 THEN Len(pointer) + 1 ELSE stop
  BY Zenon DEF TokenEnd, Slash
<1>5. /\ stop \in Nat
      /\ stop # 0 => stop \in next + 1 .. Len(pointer)
      /\ \A k \in next + 1 .. Len(pointer) : pointer[k] \in Slash => stop # 0
      /\ stop # 0 => \A k \in next + 1 .. stop - 1 : pointer[k] \notin Slash
  <2>1. next + 1 \in Nat \ {0}
    BY <1>1
  <2> QED
    BY <2>1, FirstInFacts
<1> HIDE DEF behind, stop
<1>6. next \in Solidi /\ next < behind
  BY <1>1, <1>2, <1>3, <1>4, <1>5
<1>7. \A k \in Solidi : k > next => ~ k < behind
  BY <1>1, <1>2, <1>4, <1>5
<1>8. Solidi \subseteq 1 .. Len(pointer)
  BY <1>1, <1>2
<1>9. T = S \cup {next}
  <2>1. \A k \in T : k \in S \cup {next}
    BY <1>1, <1>7, <1>8
  <2>2. \A k \in S \cup {next} : k \in T
    <3>1. behind \in Nat
      BY <1>1, <1>4, <1>5
    <3> QED
      BY <1>1, <1>6, <1>8, <3>1
  <2> QED
    BY <2>1, <2>2
<1>10. next \notin S /\ IsFiniteSet(S)
  <2>1. S \in SUBSET (1 .. Len(pointer))
    <3>1. S \subseteq Solidi
      OBVIOUS
    <3> HIDE DEF S
    <3> QED
      BY <1>8, <3>1
  <2>2. next \notin S
    <3>1. ~ next < next
      BY <1>1
    <3> QED
      BY <3>1
  <2>3. IsFiniteSet(1 .. Len(pointer))
    BY <1>1, FS_Interval
  <2> QED
    BY <2>1, <2>2, <2>3, FS_Subset
<1> HIDE DEF S, T
<1>11. Cardinality(T) = Cardinality(S) + 1
  BY <1>9, <1>10, FS_AddElement
<1> QED
  BY <1>11 DEF Before, S, T, behind

\* A step that returns without a value shows nothing,
LEMMA DepthFailed ==
  ASSUME SearchInv', step' = "returned", result' # "OK"
  PROVE  DepthInv'
<1>1. StandsAtDepth'
  BY DEF StandsAtDepth
<1> QED
  BY <1>1 DEF DepthInv

\* and one that goes on, with the parser p, shows how deep it is.
LEMMA DepthGoesOn ==
  ASSUME SearchInv', NEW p, Sound(text, p),
         at' = p.at, stack' = p.stack, UNCHANGED <<text, pointer, next>>,
         step' \in {"pointer", "item", "member", "skip"},
         step' = "pointer" =>
           /\ token'.value \in 1 .. Len(text) /\ ~ InString(text, token'.value - 1)
           /\ Len(Opened(text, token'.value - 1)) = Before(next) + 1
           /\ token'.kind \in Containers => Len(Around(text, p)) = Before(next) + 2,
         step' \in {"item", "member"} => Len(Around(text, p)) = Before(next) + 1,
         step' = "skip" =>
           \E home \in Opens : /\ Len(home) = Before(next) + 1 /\ PathOf(home) = goal'
                               /\ Above(home, Around(text, p))
  PROVE  DepthInv'
<1>1. (Sound(text, Now))'
  BY LeftSound
<1>2. (Around(text, Now))' = Around(text, p)
  <2>1. Now'.at = p.at
    BY DEF Now, Parser
  <2> QED
    BY <2>1 DEF Around
<1>3. (Before(next))' = Before(next)
  <2>1. Solidi' = Solidi
    BY Zenon DEF Solidi
  <2> QED
    BY <2>1 DEF Before
<1>4. step' = "pointer" => (Reaches(Before(next)))'
  BY <1>3 DEF Reaches
<1>5. StandsAtDepth'
  BY DEF StandsAtDepth
<1> QED
  BY <1>1, <1>2, <1>3, <1>4, <1>5 DEF DepthInv

\* A lookup begins at the root, which nothing surrounds.
LEMMA InitDepthInv == SearchInit => DepthInv
<1> SUFFICES ASSUME SearchInit
             PROVE  DepthInv
  OBVIOUS
<1>1. SearchInv
  BY InitSearchInv
<1>2. step = "begin" /\ next = 1 /\ at = 1 /\ stack = 1
  BY DEF SearchInit, CursorInit
<1>3. Sound(text, Now)
  BY <1>1, <1>2, StartSound DEF SearchInv
<1> QED
  BY <1>1, <1>2, <1>3 DEF DepthInv, StandsAtDepth

\* What a value that has just been read tells of itself.
LEMMA TookTells ==
  ASSUME NEW p, NEW n, Took(text, Now, p), Len(Around(text, Now)) = n
  PROVE  /\ p.kind # "none" /\ p.value \in 1 .. Len(text)
         /\ ~ InString(text, p.value - 1) /\ Len(Opened(text, p.value - 1)) = n
         /\ p.kind \in Containers =>
              Deeper(Around(text, Now), Around(text, p)) /\ Len(Around(text, p)) = n + 1
         /\ p.kind \notin Containers => Len(Around(text, p)) = n
BY DEF Took, SameDepth, Deeper

\* A token is what the parser has read.
LEMMA TokenTells ==
  ASSUME NEW p
  PROVE  TokenOf(p).kind = p.kind /\ TokenOf(p).value = p.value
BY DEF TokenOf

\* The root is parsed.
LEMMA RootDepth ==
  ASSUME DepthInv, SearchInv', ParseRoot
  PROVE  DepthInv'
<1> DEFINE p == ParseToken(text, Now)
<1>1. /\ text \in Seq(Unit) /\ pointer \in Seq(Unit) /\ Inside(text, Now)
      /\ Now.result = "OK"
  BY NowIs DEF DepthInv, SearchInv
<1>2. next = 1 /\ Sound(text, Now)
  BY DEF DepthInv, ParseRoot
<1>3. /\ Keeps(text, p)
      /\ p.result = "OK" => Took(text, Now, p) /\ Outside(Around(text, Now))
  BY <1>1, <1>2, ParseTokenKeeps
<1>4. /\ at' = p.at /\ stack' = p.stack /\ UNCHANGED <<text, pointer, next>>
      /\ token' = IF p.kind = "none" THEN token ELSE TokenOf(p)
      /\ p.result = "OK" => step' = "pointer"
      /\ p.result # "OK" => step' = "returned" /\ result' = p.result
  BY DEF ParseRoot, Moved, Reads, Return
<1> HIDE DEF p
<1>5. CASE p.result = "OK"
  <2>1. Len(Around(text, Now)) = 1 /\ Took(text, Now, p) /\ Sound(text, p)
    BY <1>3, <1>5 DEF Outside, Keeps, Fine
  <2>2. Before(next) = 0
    BY <1>1, <1>2, BeforeFacts
  <2>3. /\ p.kind # "none" /\ p.value \in 1 .. Len(text)
        /\ ~ InString(text, p.value - 1) /\ Len(Opened(text, p.value - 1)) = 1
        /\ p.kind \in Containers => Len(Around(text, p)) = 1 + 1
    BY <2>1, TookTells, Zenon
  <2>4. token'.kind = p.kind /\ token'.value = p.value
    BY <1>4, <2>3, TokenTells
  <2>5. step' = "pointer"
    BY <1>4, <1>5
  <2> QED
    BY <1>4, <2>1, <2>2, <2>3, <2>4, <2>5, DepthGoesOn
<1>6. CASE p.result # "OK"
  BY <1>4, <1>6, DepthFailed
<1> QED
  BY <1>5, <1>6

\* At the end of the pointer, all of it has led to the value.
LEMMA EndDepth ==
  ASSUME DepthInv, SearchInv', EndOfPointer
  PROVE  DepthInv'
<1>1. /\ step' = "returned"
      /\ PointerToken = "ERROR_ITEM_NOT_FOUND" => result' = "OK"
      /\ PointerToken # "ERROR_ITEM_NOT_FOUND" => result' = PointerToken
      /\ PointerToken # "OK" /\ step = "pointer"
      /\ UNCHANGED <<text, pointer, token>>
  BY DEF EndOfPointer, Return
<1>2. CASE PointerToken # "ERROR_ITEM_NOT_FOUND"
  BY <1>1, <1>2, DepthFailed
<1>3. CASE PointerToken = "ERROR_ITEM_NOT_FOUND"
  <2>1. text \in Seq(Unit) /\ pointer \in Seq(Unit) /\ next \in 1 .. Len(pointer) + 1
    BY DEF DepthInv, SearchInv
  <2>2. next > Len(pointer)
    BY <1>3, Zenon DEF PointerToken
  <2>3. Before(next) = Cardinality(Solidi) /\ Before(next) \in Nat
    BY <2>1, <2>2, BeforeFacts
  <2> DEFINE k == token.value - 1
  <2>4. /\ token.value \in 1 .. Len(text) /\ ~ InString(text, k)
        /\ Len(Opened(text, k)) = Cardinality(Solidi) + 1
    BY <1>1, <2>3 DEF DepthInv, Reaches
  <2>5. k \in 0 .. Len(text)
    BY <2>1, <2>4, LenProperties
  <2> HIDE DEF k
  <2>6. Nesting(SubSeq(text, 1, k)) = Cardinality(Solidi)
    BY <2>1, <2>3, <2>4, <2>5, OpenedMeans DEF Nesting
  <2>7. Solidi' = Solidi
    BY <1>1, Zenon DEF Solidi
  <2>8. StandsAtDepth'
    BY <1>1, <2>6, <2>7 DEF StandsAtDepth, k
  <2> QED
    BY <1>1, <2>8 DEF DepthInv
<1> QED
  BY <1>2, <1>3

\* A token of the pointer leads one container deeper.
LEMMA LookDepth ==
  ASSUME DepthInv, SearchInv', LookFor
  PROVE  DepthInv'
<1>1. /\ step = "pointer" /\ PointerToken = "OK" /\ next' = TokenEnd(next + 1)
      /\ UNCHANGED <<text, pointer, token, at, stack>>
  BY DEF LookFor
<1>2. \/ step' \in {"item", "member"} /\ token.kind \in Containers
      \/ step' = "returned" /\ result' # "OK"
  BY DEF LookFor, Return, Containers
<1>3. CASE step' = "returned" /\ result' # "OK"
  BY <1>3, DepthFailed
<1>4. CASE step' \in {"item", "member"} /\ token.kind \in Containers
  <2>1. pointer \in Seq(Unit) /\ next \in 1 .. Len(pointer) + 1
    BY DEF DepthInv, SearchInv
  <2>2. Before(TokenEnd(next + 1)) = Before(next) + 1 /\ Before(next) \in Nat
    BY <1>1, <2>1, TokenPassed, BeforeFacts
  <2>3. (Before(next))' = Before(next) + 1
    <3>1. Solidi' = Solidi
      BY <1>1, Zenon DEF Solidi
    <3>2. (Before(next))' = Before(TokenEnd(next + 1))
      BY <1>1, <3>1 DEF Before
    <3> QED
      BY <2>2, <3>2
  <2>4. Len(Around(text, Now)) = Before(next) + 2 /\ Sound(text, Now)
    BY <1>1, <1>4 DEF DepthInv
  <2>5. (Around(text, Now))' = Around(text, Now) /\ Now' = Now
    BY <1>1 DEF Around, Now
  <2>6. (Sound(text, Now))'
    <3>1. Now.at = at' /\ Now.stack = stack'
      BY <1>1, NowIs
    <3> QED
      BY <1>1, <2>4, <3>1, LeftSound
  <2>7. (Len(Around(text, Now)))' = (Before(next))' + 1
    BY <2>2, <2>3, <2>4, <2>5
  <2>8. StandsAtDepth'
    BY <1>4 DEF StandsAtDepth
  <2> QED
    BY <1>4, <2>6, <2>7, <2>8 DEF DepthInv
<1> QED
  BY <1>2, <1>3, <1>4

\* An item or a member that has been read, and is the one or is stepped over.
LEMMA ItemDepth ==
  ASSUME DepthInv, SearchInv', NEW p, NEW loop \in {"item", "member"}, step = loop,
         Sound(text, p), Inside(text, p), Took(text, Now, p),
         at' = p.at, stack' = p.stack, UNCHANGED <<text, pointer, next>>,
         (step' = "pointer" /\ token' = TokenOf(p)) \/ StepOver(p, loop)
  PROVE  DepthInv'
<1> DEFINE n    == Before(next)
           home == Around(text, Now)
           more == Around(text, p)
<1>1. Len(home) = n + 1 /\ home \in Opens /\ more \in Opens /\ n \in Nat
  BY AroundTyped, BeforeFacts DEF DepthInv, SearchInv
<1>2. /\ p.value \in 1 .. Len(text)
      /\ ~ InString(text, p.value - 1) /\ Len(Opened(text, p.value - 1)) = n + 1
      /\ p.kind \in Containers => Deeper(home, more) /\ Len(more) = (n + 1) + 1
      /\ p.kind \notin Containers => Len(more) = n + 1
  BY <1>1, TookTells
<1>3. CASE step' = "pointer" /\ token' = TokenOf(p)
  <2>1. token'.kind = p.kind /\ token'.value = p.value
    BY <1>3, TokenTells
  <2>2. (n + 1) + 1 = n + 2
    BY <1>1
  <2> HIDE DEF n, more
  <2>3. /\ token'.value \in 1 .. Len(text) /\ ~ InString(text, token'.value - 1)
        /\ Len(Opened(text, token'.value - 1)) = n + 1
        /\ token'.kind \in Containers => Len(more) = n + 2
    BY <1>2, <2>1, <2>2
  <2> QED
    BY <1>3, <2>3, DepthGoesOn DEF n, more
<1>4. CASE StepOver(p, loop) /\ p.kind \notin Containers
  <2>1. step' = loop /\ Len(more) = n + 1
    BY <1>2, <1>4 DEF StepOver
  <2> QED
    BY <2>1, DepthGoesOn
<1>5. CASE StepOver(p, loop) /\ p.kind \in Containers
  <2>1. step' = "skip" /\ goal' = p.stack \div 2 /\ Deeper(home, more)
    BY <1>2, <1>5 DEF StepOver
  <2>2. p.stack = PathOf(more)
    BY DEF Sound, AtItem, AtEnd, AtTop, AtLast, Tracks
  <2>3. PathOf(more) = 2 * PathOf(home) + Bit(more[Len(more)])
    <3> HIDE DEF home, more
    <3>1. Len(more) = Len(home) + 1 /\ \A d \in 2 .. Len(home) : Bit(home[d]) = Bit(more[d])
      BY <2>1 DEF Deeper, Alike
    <3> QED
      BY <1>1, <3>1, PathGrows
  <2>4. PathOf(home) = goal'
    <3>1. PathOf(home) \in Nat /\ Bit(more[Len(more)]) \in {0, 1}
      BY <1>1, PathTyped, BitTyped
    <3>2. \A x \in Nat : \A y \in {0, 1} : (2 * x + y) \div 2 = x
      OBVIOUS
    <3> QED
      BY <2>1, <2>2, <2>3, <3>1, <3>2
  <2>5. Above(home, more)
    BY <1>1, <2>1, AboveFacts
  <2>6. \E open \in Opens : /\ Len(open) = n + 1 /\ PathOf(open) = goal'
                            /\ Above(open, more)
    BY <1>1, <2>4, <2>5
  <2> HIDE DEF home
  <2> QED
    BY <2>1, <2>6, DepthGoesOn
<1> QED
  BY <1>3, <1>4, <1>5

\* The next item of an array.
LEMMA TryItemDepth ==
  ASSUME DepthInv, SearchInv', TryItem
  PROVE  DepthInv'
<1> DEFINE p == ParseArrayItem(text, Now)
<1>1. /\ text \in Seq(Unit) /\ Inside(text, Now) /\ Now.result = "OK"
      /\ step = "item" /\ Sound(text, Now)
  BY NowIs DEF DepthInv, SearchInv, TryItem
<1>2. Keeps(text, p) /\ Walks(text, Now, p) /\ Inside(text, p)
  BY <1>1, ParseArrayItemKeeps, ParseArrayItemCalls DEF Calls
<1>3. /\ at' = p.at /\ stack' = p.stack /\ UNCHANGED <<text, pointer, next>>
      /\ token' = IF p.kind = "none" THEN token ELSE TokenOf(p)
      /\ p.result = "OK" => step' = "pointer" \/ StepOver(p, "item")
      /\ p.result # "OK" => step' = "returned" /\ result' = p.result
  BY DEF TryItem, Moved, Reads, Return
<1> HIDE DEF p
<1>4. CASE p.result = "OK"
  <2>1. Took(text, Now, p) /\ Sound(text, p)
    BY <1>2, <1>4 DEF Keeps, Walks, Fine
  <2>2. token' = TokenOf(p)
    BY <1>3, <2>1 DEF Took
  <2> QED
    BY <1>1, <1>2, <1>3, <1>4, <2>1, <2>2, ItemDepth
<1>5. CASE p.result # "OK"
  BY <1>3, <1>5, DepthFailed
<1> QED
  BY <1>4, <1>5

\* The next member of an object.
LEMMA TryMemberDepth ==
  ASSUME DepthInv, SearchInv', TryMember
  PROVE  DepthInv'
<1> DEFINE p == ParseTokenMember(text, Now)
<1>1. /\ text \in Seq(Unit) /\ Inside(text, Now) /\ Now.result = "OK"
      /\ step = "member" /\ Sound(text, Now)
  BY NowIs DEF DepthInv, SearchInv, TryMember
<1>2. Keeps(text, p) /\ Walks(text, Now, p) /\ Inside(text, p)
  BY <1>1, ParseTokenMemberKeeps, ParseTokenMemberCalls DEF Calls
<1>3. /\ at' = p.at /\ stack' = p.stack /\ UNCHANGED <<text, pointer, next>>
      /\ p.result = "OK" =>
           (step' = "pointer" /\ token' = TokenOf(p)) \/ StepOver(p, "member")
      /\ p.result # "OK" => step' = "returned" /\ result' = p.result
  BY DEF TryMember, Moved, Return
<1> HIDE DEF p
<1>4. CASE p.result = "OK"
  <2>1. Took(text, Now, p) /\ Sound(text, p)
    BY <1>2, <1>4 DEF Keeps, Walks, Fine
  <2> QED
    BY <1>1, <1>2, <1>3, <1>4, <2>1, ItemDepth
<1>5. CASE p.result # "OK"
  BY <1>3, <1>5, DepthFailed
<1> QED
  BY <1>4, <1>5

\* Skipping ends in the container in which it began, and nowhere else.
LEMMA SearchPassDepth ==
  ASSUME DepthInv, SearchInv', SearchPass
  PROVE  DepthInv'
<1> DEFINE p == SkipItem(text, Now)
<1>1. /\ text \in Seq(Unit) /\ Inside(text, Now) /\ Now.result = "OK"
      /\ step = "skip" /\ Sound(text, Now)
  BY NowIs DEF DepthInv, SearchInv, SearchPass
<1>2. Keeps(text, p) /\ Walks(text, Now, p) /\ Inside(text, p)
  BY <1>1, SkipItemKeeps, SkipItemCalls DEF Calls
<1>3. /\ at' = p.at /\ stack' = p.stack /\ UNCHANGED <<text, pointer, next, goal>>
      /\ p.result \notin Fine => step' = "returned" /\ result' = p.result
      /\ p.result \in Fine /\ p.stack # goal => step' = "skip"
      /\ p.result \in Fine /\ p.stack = goal => step' \in {"item", "member"}
  BY <1>1 DEF SearchPass, Moved, Return
<1> HIDE DEF p
<1>4. CASE p.result \notin Fine
  BY <1>3, <1>4, DepthFailed DEF Fine
<1>5. CASE p.result \in Fine
  <2> DEFINE open == Around(text, Now)
             new  == Around(text, p)
  <2>1. PICK home \in Opens : /\ Len(home) = Before(next) + 1 /\ PathOf(home) = goal
                              /\ Above(home, open)
    BY <1>1 DEF DepthInv
  <2>2. open \in Opens /\ new \in Opens
    BY <1>1, <1>2, AroundTyped
  <2>3. Sound(text, p) /\ p.stack = PathOf(new)
    BY <1>2, <1>5 DEF Keeps, Sound, AtItem, AtEnd, AtTop, AtLast, Tracks
  <2>4. SameDepth(open, new) \/ Deeper(open, new) \/ Deeper(new, open)
    BY <1>2, <1>5 DEF Walks, Took, Fine
  <2> HIDE DEF open, new
  <2>5. Above(home, new) \/ SameDepth(home, new)
    BY <2>1, <2>2, <2>4, AboveFacts
  <2>6. CASE Above(home, new)
    <3>1. PathOf(new) # PathOf(home)
      BY <2>2, <2>6, AbovePath
    <3>2. step' = "skip" /\ goal' = goal
      BY <1>3, <1>5, <2>1, <2>3, <3>1
    <3>3. \E o \in Opens : /\ Len(o) = Before(next) + 1 /\ PathOf(o) = goal'
                           /\ Above(o, new)
      BY <2>1, <2>6, <3>2
    <3> QED
      BY <1>3, <2>3, <3>2, <3>3, DepthGoesOn DEF new
  <2>7. CASE SameDepth(home, new)
    <3>1. Len(new) = Len(home) /\ PathOf(new) = PathOf(home)
      BY <2>2, <2>7, PathSame DEF SameDepth, Alike
    <3>2. step' \in {"item", "member"} /\ Len(new) = Before(next) + 1
      BY <1>3, <1>5, <2>1, <2>3, <3>1
    <3> QED
      BY <1>3, <2>3, <3>2, DepthGoesOn DEF new
  <2> QED
    BY <2>5, <2>6, <2>7
<1> QED
  BY <1>4, <1>5

\* Every step of a lookup.
LEMMA NextDepthInv == DepthInv /\ [SearchNext]_searchVars => DepthInv'
<1> SUFFICES ASSUME DepthInv, [SearchNext]_searchVars
             PROVE  DepthInv'
  OBVIOUS
<1>1. SearchInv'
  BY SearchNextStep DEF DepthInv
<1>2. CASE ParseRoot
  BY <1>1, <1>2, RootDepth
<1>3. CASE EndOfPointer
  BY <1>1, <1>3, EndDepth
<1>4. CASE LookFor
  BY <1>1, <1>4, LookDepth
<1>5. CASE TryItem
  BY <1>1, <1>5, TryItemDepth
<1>6. CASE TryMember
  BY <1>1, <1>6, TryMemberDepth
<1>7. CASE SearchPass
  BY <1>1, <1>7, SearchPassDepth
<1>8. CASE UNCHANGED searchVars
  <2>1. Solidi' = Solidi
    BY <1>8, Zenon DEF searchVars, Solidi
  <2>2. Now' = Now
    BY <1>8 DEF searchVars, Now
  <2>3. (Sound(text, Now))' <=> Sound(text, Now)
    BY <1>8, <2>2 DEF searchVars, Sound, AtItem, AtEnd, AtTop, AtLast, Tracks, Between, Around
  <2>4. (Around(text, Now))' = Around(text, Now)
    BY <1>8, <2>2 DEF searchVars, Around
  <2>5. (Before(next))' = Before(next)
    BY <1>8, <2>1 DEF searchVars, Before
  <2>6. (Reaches(Before(next)))' <=> Reaches(Before(next))
    BY <1>8, <2>5 DEF searchVars, Reaches
  <2>7. StandsAtDepth' <=> StandsAtDepth
    BY <1>8, <2>1 DEF searchVars, StandsAtDepth
  <2> QED
    BY <1>1, <1>8, <2>3, <2>4, <2>5, <2>6, <2>7 DEF searchVars, DepthInv
<1> QED
  BY <1>2, <1>3, <1>4, <1>5, <1>6, <1>7, <1>8 DEF SearchNext

\* For every text, every pointer and every word: what the search returns is as
\* deep in the text as the pointer has tokens, whatever was skipped on the way
\* (az_json_get.c:43, 58; az_json_parser.c:448).
THEOREM FoundAtDepth == SearchSpec => []StandsAtDepth
<1>1. DepthInv => StandsAtDepth
  BY DEF DepthInv
<1> QED
  BY InitDepthInv, NextDepthInv, <1>1, PTL DEF SearchSpec
------------------------------------------------------------------------------
(***************************************************************************)
(* The builder.  What it writes is read by the grammar token by token, and *)
(* each token is one that the innermost container waits for; the flag that *)
(* asks for a comma tells what that is.  So a text that no call has failed *)
(* lacks nothing but closing brackets.                                     *)
(***************************************************************************)

\* What the grammar has read at the end of a text.
LexEnd(t) == LexOf(t)[Len(t)]

\* A text is read on from where its beginning ends.
LEMMA LexConcat ==
  ASSUME NEW t \in Seq(Unit), NEW s \in Seq(Unit)
  PROVE  LET all == t \o s
             f   == LexOf(all)
         IN  /\ all \in Seq(Unit) /\ Len(all) = Len(t) + Len(s)
             /\ Len(t) \in Nat /\ Len(s) \in Nat
             /\ \A i \in 0 .. Len(all) : f[i] \in LexState
             /\ f[Len(t)] = LexEnd(t) /\ LexEnd(all) = f[Len(t) + Len(s)]
             /\ \A i \in 1 .. Len(s) : f[Len(t) + i] = Lex1(f[Len(t) + i - 1], s[i])
<1> DEFINE all == t \o s
           f   == LexOf(all)
           g   == LexOf(t)
<1>1. /\ all \in Seq(Unit) /\ Len(all) = Len(t) + Len(s)
      /\ \A i \in 1 .. Len(t) : all[i] = t[i]
      /\ \A i \in 1 .. Len(s) : all[Len(t) + i] = s[i]
  <2>1. all \in Seq(Unit) /\ Len(all) = Len(t) + Len(s)
    BY ConcatProperties
  <2>2. \A i \in 1 .. Len(all) : all[i] = IF i <= Len(t) THEN t[i] ELSE s[i - Len(t)]
    BY ConcatProperties
  <2>3. Len(t) \in Nat /\ Len(s) \in Nat
    BY LenProperties
  <2>4. \A i \in 1 .. Len(t) : all[i] = t[i]
    BY <2>1, <2>2, <2>3
  <2>5. ASSUME NEW i \in 1 .. Len(s)
        PROVE  all[Len(t) + i] = s[i]
    <3>1. Len(t) + i \in 1 .. Len(all) /\ ~ (Len(t) + i <= Len(t))
          /\ (Len(t) + i) - Len(t) = i
      BY <2>1, <2>3
    <3> QED
      BY <2>2, <3>1
  <2> QED
    BY <2>1, <2>4, <2>5
<1>2. Len(t) \in Nat /\ Len(s) \in Nat
  BY LenProperties
<1>3. IsLexOf(g, t)
  BY LexedUnfolds DEF LexOf
<1> HIDE DEF all, g
<1>4. IsLexOf(f, all)
  BY <1>1, LexedUnfolds DEF LexOf
<1> HIDE DEF f
<1>5. f[Len(t)] = LexEnd(t)
  <2>1. Len(t) <= Len(all)
    BY <1>1, <1>2
  <2>2. g[Len(t)] = f[Len(t)]
    BY <1>1, <1>3, <1>4, <2>1, LexAgree
  <2> QED
    BY <2>2 DEF LexEnd, g
<1>6. LexEnd(all) = f[Len(t) + Len(s)]
  BY <1>1 DEF LexEnd, f
<1>7. ASSUME NEW i \in 1 .. Len(s)
      PROVE  f[Len(t) + i] = Lex1(f[Len(t) + i - 1], s[i])
  <2>1. Len(t) + i \in 1 .. Len(all)
    BY <1>1, <1>2
  <2>2. f[Len(t) + i] = Lex1(f[Len(t) + i - 1], all[Len(t) + i])
    BY <1>4, <2>1 DEF IsLexOf
  <2> QED
    BY <1>1, <2>2
<1>8. \A i \in 0 .. Len(all) : f[i] \in LexState
  BY <1>4 DEF IsLexOf
<1> QED
  BY <1>1, <1>2, <1>5, <1>6, <1>7, <1>8 DEF all, f

\* One unit more.
LEMMA LexUnit ==
  ASSUME NEW t \in Seq(Unit), NEW u \in Unit
  PROVE  LET all == t \o <<u>>
         IN  /\ all \in Seq(Unit) /\ LexEnd(t) \in LexState
             /\ LexEnd(all) = Lex1(LexEnd(t), u)
<1> DEFINE s == <<u>>
<1>1. s \in Seq(Unit) /\ Len(s) = 1 /\ s[1] = u
  OBVIOUS
<1> HIDE DEF s
<1> DEFINE n == Len(t)
           f == LexOf(t \o s)
<1>2. /\ t \o s \in Seq(Unit) /\ n \in Nat /\ Len(t \o s) = n + Len(s)
      /\ \A i \in 0 .. Len(t \o s) : f[i] \in LexState
      /\ f[n] = LexEnd(t) /\ LexEnd(t \o s) = f[n + Len(s)]
      /\ \A i \in 1 .. Len(s) : f[n + i] = Lex1(f[n + i - 1], s[i])
  BY <1>1, LexConcat
<1> HIDE DEF n, f
<1>3. n \in 0 .. Len(t \o s) /\ 1 \in 1 .. Len(s) /\ n + 1 - 1 = n
  BY <1>1, <1>2
<1> QED
  BY <1>1, <1>2, <1>3 DEF s

\* Inside of a string, nothing but a quote or a control character is noticed.
LEMMA LexRun ==
  ASSUME NEW t \in Seq(Unit), NEW s \in Seq(Unit), LexEnd(t).inside,
         \A i \in 1 .. Len(s) : s[i] # "quote" /\ s[i] \notin Control
  PROVE  t \o s \in Seq(Unit) /\ LexEnd(t \o s) = LexEnd(t)
<1> DEFINE n == Len(t)
           m == Len(s)
           f == LexOf(t \o s)
           Good == {i \in 0 .. m : f[n + i] = LexEnd(t)}
<1>1. /\ t \o s \in Seq(Unit) /\ n \in Nat /\ m \in Nat
      /\ f[n] = LexEnd(t) /\ LexEnd(t \o s) = f[n + m]
      /\ \A i \in 1 .. m : f[n + i] = Lex1(f[n + i - 1], s[i])
  BY LexConcat
<1> HIDE DEF n, m, f
<1>2. 0 \in Good
  BY <1>1
<1>3. ASSUME NEW i \in 0 .. m - 1, i \in Good
      PROVE  i + 1 \in Good
  <2>1. i + 1 \in 1 .. m /\ i + 1 \in 0 .. m /\ n + (i + 1) - 1 = n + i
    BY <1>1
  <2>2. f[n + (i + 1)] = Lex1(LexEnd(t), s[i + 1])
    BY <1>1, <1>3, <2>1
  <2>3. Lex1(LexEnd(t), s[i + 1]) = LexEnd(t)
    BY <2>1 DEF Lex1, m
  <2> QED
    BY <2>1, <2>2, <2>3
<1>4. 0 .. m \subseteq Good
  <2> HIDE DEF Good
  <2> QED
    BY <1>1, <1>2, <1>3, UpTo
<1>5. m \in Good
  <2> HIDE DEF Good
  <2> QED
    BY <1>1, <1>4
<1> QED
  BY <1>1, <1>5

\* What a unit does.
LEMMA LexCases ==
  ASSUME NEW before \in LexState, NEW unit \in Unit
  PROVE  /\ ~ before.inside /\ unit = "quote" =>
              Lex1(before, unit) = [inside |-> TRUE, tokens |-> before.tokens]
         /\ ~ before.inside /\ unit # "quote" /\ unit \notin White =>
              Lex1(before, unit) = [inside |-> FALSE, tokens |-> Append(before.tokens, unit)]
         /\ before.inside /\ unit = "quote" =>
              Lex1(before, unit) = [inside |-> FALSE, tokens |-> Append(before.tokens, "string")]
<1>1. "quote" \notin White /\ "quote" \notin Control
  BY Zenon DEF White, Control
<1>2. before = [inside |-> before.inside, tokens |-> before.tokens]
  BY DEF LexState
<1>3. CASE ~ before.inside /\ unit = "quote"
  BY <1>1, <1>2, <1>3 DEF Lex1
<1>4. CASE ~ before.inside /\ unit # "quote" /\ unit \notin White
  BY <1>4 DEF Lex1
<1>5. CASE before.inside /\ unit = "quote"
  BY <1>1, <1>5 DEF Lex1
<1> QED
  BY <1>3, <1>4, <1>5

\* The units that strings and scalars are written with.
LEMMA UnitFacts ==
  /\ "quote" \in Unit /\ "escape" \in Unit /\ "scalar" \in Unit /\ "part" \in Unit
  /\ <<"quote">> \in Seq(Unit)
<1>1. "quote" \in Unit /\ "escape" \in Unit /\ "scalar" \in Unit /\ "part" \in Unit
  BY JsonTextAssumption, Zenon
<1> QED
  BY <1>1
------------------------------------------------------------------------------
(***************************************************************************)
(* What the builder writes, as tokens.                                     *)
(***************************************************************************)
\* The types of a builder.
Builders == [json: SpanOf(Unit), needComma: BOOLEAN, result: AzResults]

\* A write that does not fail leaves the text longer by what it writes.
LEMMA WriteGrows ==
  ASSUME NEW b \in Builders, NEW units \in Seq(Unit)
  PROVE  LET c == Write(b, units)
         IN  /\ c \in Builders /\ c.needComma = b.needComma
             /\ c.result = "OK" =>
                  b.result = "OK" /\ c.json.items = b.json.items \o units
<1> DEFINE new == b.json.items \o units
<1>1. /\ b.json.items \in Seq(Unit) /\ b.json.capacity \in Nat
      /\ Len(b.json.items) <= b.json.capacity
      /\ b.json \in [items: Seq(Unit), capacity: Nat]
      /\ b.json \in SpanOf(Unit)
  BY DEF Builders, SpanOf
<1>2. new \in Seq(Unit) /\ Len(new) = Len(b.json.items) + Len(units)
  BY <1>1, ConcatProperties
<1> HIDE DEF new
<1> DEFINE Changed(json, r) == [b EXCEPT !.json = json, !.result = r]
<1>3. \A json \in SpanOf(Unit), r \in AzResults :
        /\ Changed(json, r) \in Builders
        /\ Changed(json, r).json = json /\ Changed(json, r).result = r
        /\ Changed(json, r).needComma = b.needComma
  BY DEF Builders
<1>4. CASE b.result # "OK"
  BY <1>4 DEF Write
<1>5. CASE b.result = "OK" /\ Len(b.json.items) + Len(units) <= b.json.capacity
  <2> DEFINE json == [b.json EXCEPT !.items = new]
  <2>1. json \in SpanOf(Unit) /\ json.items = new
    BY <1>1, <1>2, <1>5 DEF SpanOf
  <2>2. SpanAppend(b.json, units) = [result |-> "OK", object |-> json]
    BY <1>5 DEF SpanAppend, SpanLength, Success, new
  <2> HIDE DEF json
  <2>3. Write(b, units) = Changed(json, "OK")
    BY <1>5, <2>2 DEF Write
  <2>4. "OK" \in AzResults
    BY DEF AzResults
  <2> HIDE DEF Changed
  <2> QED
    BY <1>3, <1>5, <2>1, <2>3, <2>4 DEF new
<1>6. CASE b.result = "OK" /\ ~ (Len(b.json.items) + Len(units) <= b.json.capacity)
  <2>1. SpanAppend(b.json, units) = [result |-> "ERROR_BUFFER_OVERFLOW", object |-> b.json]
    BY <1>6 DEF SpanAppend, SpanLength, Failure
  <2>2. Write(b, units) = Changed(b.json, "ERROR_BUFFER_OVERFLOW")
    BY <1>6, <2>1 DEF Write
  <2>3. "ERROR_BUFFER_OVERFLOW" \in AzResults /\ "ERROR_BUFFER_OVERFLOW" # "OK"
    BY DEF AzResults, AzError
  <2> HIDE DEF Changed
  <2> QED
    BY <1>1, <1>3, <2>2, <2>3
<1> QED
  BY <1>4, <1>5, <1>6

\* How the pieces of a string are written: w is the builder in front of them,
\* behind the first, and so on.
IsWriting(w, b, pieces) ==
  /\ w \in [0 .. Len(pieces) -> Builders]
  /\ w[0] = Write(b, <<"quote">>)
  /\ \A i \in 1 .. Len(pieces) : w[i] = Write(w[i - 1], pieces[i])

\* The recursive function of WriteQuoted is what it is defined by.
LEMMA WriteQuotedUnfolds ==
  ASSUME NEW b \in Builders, NEW pieces \in Seq(Seq(Unit))
  PROVE  \E w : /\ IsWriting(w, b, pieces)
                /\ WriteQuoted(b, pieces) = Write(w[Len(pieces)], <<"quote">>)
<1> DEFINE n == Len(pieces)
           first == Write(b, <<"quote">>)
           write[i \in 0 .. Len(pieces)] ==
             IF i = 0 THEN Write(b, <<"quote">>) ELSE Write(write[i - 1], pieces[i])
           grow == [i \in 1 .. n |-> [c \in Builders |-> Write(c, pieces[i])]]
<1>1. WriteQuoted(b, pieces) = Write(write[n], <<"quote">>)
  BY DEF WriteQuoted
<1>2. n \in Nat /\ \A i \in 1 .. n : pieces[i] \in Seq(Unit)
  BY LenProperties, ElementOfSeq
<1>3. first \in Builders
  <2>1. <<"quote">> \in Seq(Unit)
    BY UnitFacts
  <2> QED
    BY <2>1, WriteGrows
<1> HIDE DEF n
<1>4. grow \in [1 .. n -> [Builders -> Builders]]
  BY <1>2, WriteGrows
<1>5. PICK f \in Recursive(n, Builders, first, grow) : TRUE
  <2> HIDE DEF grow, first
  <2> QED
    BY <1>2, <1>3, <1>4, NatRecursion
<1>6. /\ f \in [0 .. n -> Builders] /\ f[0] = first
      /\ \A i \in 1 .. n : f[i] = Write(f[i - 1], pieces[i])
  <2>1. /\ f \in [0 .. n -> Builders] /\ f[0] = first
        /\ \A i \in 1 .. n : f[i] = grow[i][f[i - 1]]
    <3> HIDE DEF grow, first
    <3> QED
      BY <1>5 DEF Recursive
  <2>2. \A i \in 1 .. n : f[i - 1] \in Builders
    BY <1>2, <2>1
  <2> QED
    BY <2>1, <2>2
<1>7. f = [i \in 0 .. n |-> IF i = 0 THEN first ELSE Write(f[i - 1], pieces[i])]
  BY <1>6
<1>8. \E g : g = [i \in 0 .. n |-> IF i = 0 THEN first ELSE Write(g[i - 1], pieces[i])]
  BY <1>7
<1>9. write = [i \in 0 .. n |-> IF i = 0 THEN first ELSE Write(write[i - 1], pieces[i])]
  BY <1>8 DEF n
<1> HIDE DEF write
<1>10. IsWriting(write, b, pieces)
  <2> DEFINE Good == {i \in 0 .. n : write[i] \in Builders}
  <2>1. write[0] = first /\ \A i \in 1 .. n : write[i] = Write(write[i - 1], pieces[i])
    <3>1. 0 \in 0 .. n /\ \A i \in 1 .. n : i \in 0 .. n /\ i # 0
      BY <1>2
    <3> QED
      BY <1>9, <3>1, Zenon
  <2>2. 0 \in Good
    BY <1>2, <1>3, <2>1
  <2>3. ASSUME NEW k \in 0 .. n - 1, k \in Good
        PROVE  k + 1 \in Good
    <3>1. k + 1 \in 1 .. n /\ k + 1 \in 0 .. n /\ (k + 1) - 1 = k
      BY <1>2
    <3>2. write[k + 1] = Write(write[k], pieces[k + 1])
      BY <2>1, <3>1
    <3> QED
      BY <1>2, <2>3, <3>1, <3>2, WriteGrows
  <2>4. 0 .. n \subseteq Good
    <3> HIDE DEF Good
    <3> QED
      BY <1>2, <2>2, <2>3, UpTo
  <2> QED
    BY <1>9, <2>1, <2>4 DEF IsWriting, n
<1> QED
  BY <1>1, <1>10 DEF n

\* A string is read as one token, whatever it holds.
LEMMA QuotedReads ==
  ASSUME NEW b \in Builders, NEW pieces \in Seq(Seq(Unit)),
         \A i \in DOMAIN pieces : \A j \in DOMAIN pieces[i] :
           pieces[i][j] # "quote" /\ pieces[i][j] \notin Control
  PROVE  LET c == WriteQuoted(b, pieces)
         IN  /\ c \in Builders /\ c.needComma = b.needComma
             /\ c.result = "OK" =>
                  /\ b.result = "OK"
                  /\ ~ LexEnd(b.json.items).inside =>
                       LexEnd(c.json.items) =
                         [inside |-> FALSE,
                          tokens |-> Append(LexEnd(b.json.items).tokens, "string")]
<1> DEFINE n == Len(pieces)
           begun == LexEnd(b.json.items)
           c == WriteQuoted(b, pieces)
           Quoted(w) ==
             /\ w.needComma = b.needComma
             /\ w.result = "OK" =>
                  /\ b.result = "OK"
                  /\ ~ begun.inside =>
                       LexEnd(w.json.items) = [inside |-> TRUE, tokens |-> begun.tokens]
<1>1. PICK w : IsWriting(w, b, pieces) /\ c = Write(w[n], <<"quote">>)
  BY WriteQuotedUnfolds
<1>2. /\ w \in [0 .. n -> Builders] /\ w[0] = Write(b, <<"quote">>)
      /\ \A i \in 1 .. n : w[i] = Write(w[i - 1], pieces[i])
  BY <1>1 DEF IsWriting
<1>3. n \in Nat /\ DOMAIN pieces = 1 .. n /\ \A i \in 1 .. n : pieces[i] \in Seq(Unit)
  BY LenProperties, ElementOfSeq
<1>4. "quote" \in Unit /\ <<"quote">> \in Seq(Unit)
  BY UnitFacts
<1>5. \A x \in Builders : x.json.items \in Seq(Unit)
  BY DEF Builders, SpanOf
<1>6. begun \in LexState /\ begun = [inside |-> begun.inside, tokens |-> begun.tokens]
  BY <1>4, <1>5, LexUnit DEF LexState
<1> HIDE DEF n, c
<1>7. Quoted(w[0])
  <2>1. LexEnd(b.json.items \o <<"quote">>) = Lex1(begun, "quote")
    BY <1>4, <1>5, LexUnit
  <2>2. ~ begun.inside => Lex1(begun, "quote") = [inside |-> TRUE, tokens |-> begun.tokens]
    BY <1>4, <1>6, LexCases
  <2>3. /\ w[0].needComma = b.needComma
        /\ w[0].result = "OK" =>
             b.result = "OK" /\ w[0].json.items = b.json.items \o <<"quote">>
    BY <1>2, <1>4, WriteGrows
  <2> HIDE DEF begun
  <2> QED
    BY <2>1, <2>2, <2>3
<1> DEFINE Good == {i \in 0 .. n : Quoted(w[i])}
<1>8. ASSUME NEW k \in 0 .. n - 1, k \in Good
      PROVE  k + 1 \in Good
  <2> DEFINE piece == pieces[k + 1]
  <2>1. k + 1 \in 1 .. n /\ k + 1 \in 0 .. n /\ (k + 1) - 1 = k /\ k \in 0 .. n
    BY <1>3
  <2>2. w[k + 1] = Write(w[k], piece) /\ piece \in Seq(Unit) /\ w[k] \in Builders
    BY <1>2, <1>3, <2>1
  <2>3. \A j \in 1 .. Len(piece) : piece[j] # "quote" /\ piece[j] \notin Control
    <3>1. DOMAIN piece = 1 .. Len(piece)
      BY <2>2, LenProperties
    <3> QED
      BY <1>3, <2>1, <3>1
  <2> HIDE DEF piece
  <2>4. /\ w[k + 1].needComma = w[k].needComma
        /\ w[k + 1].result = "OK" =>
             w[k].result = "OK" /\ w[k + 1].json.items = w[k].json.items \o piece
    <3> DEFINE x == w[k]
    <3>1. x \in Builders /\ w[k + 1] = Write(x, piece)
      BY <2>2
    <3> HIDE DEF x, Good, Quoted
    <3>2. /\ Write(x, piece).needComma = x.needComma
          /\ Write(x, piece).result = "OK" =>
               x.result = "OK" /\ Write(x, piece).json.items = x.json.items \o piece
      BY <2>2, <3>1, WriteGrows
    <3> QED
      BY <3>1, <3>2 DEF x
  <2>5. LexEnd(w[k].json.items).inside =>
          LexEnd(w[k].json.items \o piece) = LexEnd(w[k].json.items)
    BY <1>5, <2>2, <2>3, LexRun
  <2> HIDE DEF begun
  <2>6. Quoted(w[k])
    BY <1>8
  <2>7. Quoted(w[k + 1])
    <3>1. w[k + 1].needComma = b.needComma
      BY <2>4, <2>6
    <3>2. ASSUME w[k + 1].result = "OK"
          PROVE  b.result = "OK"
      BY <2>4, <2>6, <3>2
    <3>3. ASSUME w[k + 1].result = "OK", ~ begun.inside
          PROVE  LexEnd(w[k + 1].json.items) = [inside |-> TRUE, tokens |-> begun.tokens]
      <4>1. LexEnd(w[k].json.items) = [inside |-> TRUE, tokens |-> begun.tokens]
        BY <2>4, <2>6, <3>3
      <4>2. LexEnd(w[k].json.items).inside
        BY <4>1
      <4> QED
        BY <2>4, <2>5, <3>3, <4>1, <4>2
    <3> QED
      BY <3>1, <3>2, <3>3
  <2> QED
    BY <2>1, <2>7
<1>9. Quoted(w[n]) /\ w[n] \in Builders
  <2>1. 0 \in Good
    BY <1>3, <1>7
  <2> HIDE DEF Good
  <2>2. 0 .. n \subseteq Good
    BY <1>3, <1>8, <2>1, UpTo
  <2>3. n \in 0 .. n
    BY <1>3
  <2> QED
    BY <1>2, <2>2, <2>3 DEF Good
<1> DEFINE last == w[n].json.items
<1>10. /\ c \in Builders /\ c.needComma = w[n].needComma
       /\ c.result = "OK" => w[n].result = "OK" /\ c.json.items = last \o <<"quote">>
  BY <1>1, <1>4, <1>9, WriteGrows
<1>11. LexEnd(last \o <<"quote">>) = Lex1(LexEnd(last), "quote") /\ LexEnd(last) \in LexState
  BY <1>4, <1>5, <1>9, LexUnit
<1>12. LexEnd(last).inside =>
         Lex1(LexEnd(last), "quote") =
           [inside |-> FALSE, tokens |-> Append(LexEnd(last).tokens, "string")]
  BY <1>4, <1>11, LexCases
<1> HIDE DEF begun, last
<1>13. LexEnd(last) = [inside |-> TRUE, tokens |-> begun.tokens] =>
         LexEnd(last).inside /\ LexEnd(last).tokens = begun.tokens
  OBVIOUS
<1> QED
  BY <1>9, <1>10, <1>11, <1>12, <1>13 DEF begun, last, c

\* A comma, or a bracket that closes: what may not follow a comma.
IsBreak(lexeme) == lexeme \in {"}", "]", ","}

EndsInComma(tokens) == tokens # <<>> /\ IsComma(tokens[Len(tokens)])

\* No comma is followed by what may not follow it.
Tidy(tokens) ==
  /\ tokens \in Seq(Token)
  /\ \A i \in 1 .. Len(tokens) - 1 : IsComma(tokens[i]) => ~ IsBreak(tokens[i + 1])

\* One token more, unless it breaks off behind a comma.
LEMMA TidyAppend ==
  ASSUME NEW tokens, Tidy(tokens), NEW lexeme \in Token,
         EndsInComma(tokens) => ~ IsBreak(lexeme)
  PROVE  LET more == Append(tokens, lexeme)
         IN  Tidy(more) /\ (EndsInComma(more) <=> IsComma(lexeme))
<1> DEFINE more == Append(tokens, lexeme)
           n == Len(tokens)
<1>1. tokens \in Seq(Token) /\ n \in Nat /\ (tokens = <<>> <=> n = 0)
  BY LenProperties, EmptySeq DEF Tidy
<1>2. /\ more \in Seq(Token) /\ Len(more) = n + 1 /\ more[n + 1] = lexeme /\ more # <<>>
      /\ \A i \in 1 .. n : more[i] = tokens[i]
  BY <1>1, AppendProperties
<1> HIDE DEF more, n
<1>3. ASSUME NEW i \in 1 .. Len(more) - 1, IsComma(more[i])
      PROVE  ~ IsBreak(more[i + 1])
  <2>1. i \in 1 .. n /\ more[i] = tokens[i]
    BY <1>1, <1>2
  <2>2. CASE i = n
    <3>1. EndsInComma(tokens)
      BY <1>1, <1>3, <2>1, <2>2 DEF EndsInComma, n
    <3> QED
      BY <1>2, <2>2, <3>1
  <2>3. CASE i # n
    <3>1. i \in 1 .. n - 1 /\ i + 1 \in 1 .. n
      BY <1>1, <2>1, <2>3
    <3>2. IsComma(tokens[i]) /\ more[i + 1] = tokens[i + 1]
      BY <1>2, <1>3, <2>1, <3>1
    <3> QED
      BY <3>1, <3>2 DEF Tidy, n
  <2> QED
    BY <2>2, <2>3
<1>4. EndsInComma(more) <=> IsComma(lexeme)
  BY <1>2 DEF EndsInComma
<1> QED
  BY <1>2, <1>3, <1>4 DEF Tidy, more

\* A text that does not end in a string, and what is open at its end.
Legible(t)  == t \in Seq(Unit) /\ ~ LexEnd(t).inside /\ Tidy(LexEnd(t).tokens)
Unclosed(t) == OpenIn(LexEnd(t).tokens)
Pending(t)  == EndsInComma(LexEnd(t).tokens)

\* The text t becomes s by one token more.
Lexes(t, lexeme, s) ==
  /\ Legible(s)
  /\ Unclosed(t) \in Opens /\ Unclosed(s) = Open1(Unclosed(t), lexeme)
  /\ Pending(s) <=> IsComma(lexeme)

\* What the grammar makes of a token behind a text is what it makes of its tokens.
LEMMA OneMoreReads ==
  ASSUME NEW t, Legible(t), NEW s \in Seq(Unit), NEW lexeme \in Token,
         Pending(t) => ~ IsBreak(lexeme),
         LexEnd(s) = [inside |-> FALSE, tokens |-> Append(LexEnd(t).tokens, lexeme)]
  PROVE  Lexes(t, lexeme, s)
<1> DEFINE tokens == LexEnd(t).tokens
           more   == Append(tokens, lexeme)
<1>1. tokens \in Seq(Token) /\ Tidy(tokens) /\ (EndsInComma(tokens) => ~ IsBreak(lexeme))
  BY DEF Legible, Tidy, Pending
<1>2. LexEnd(s).inside = FALSE /\ LexEnd(s).tokens = more
  OBVIOUS
<1> HIDE DEF tokens, more
<1>3. Tidy(more) /\ (EndsInComma(more) <=> IsComma(lexeme))
  BY <1>1, TidyAppend DEF more
<1>4. OpenIn(tokens) \in Opens /\ OpenIn(more) = Open1(OpenIn(tokens), lexeme)
  BY <1>1, OpenInAppend DEF more
<1> QED
  BY <1>2, <1>3, <1>4 DEF Lexes, Legible, Unclosed, Pending, tokens

\* A unit that is a token is written,
LEMMA UnitReads ==
  ASSUME NEW b \in Builders, Legible(b.json.items),
         NEW unit \in Unit, unit # "quote", unit \notin White,
         Pending(b.json.items) => ~ IsBreak(unit),
         Write(b, <<unit>>).result = "OK"
  PROVE  LET c == Write(b, <<unit>>)
         IN  /\ c \in Builders /\ c.needComma = b.needComma /\ b.result = "OK"
             /\ Lexes(b.json.items, unit, c.json.items)
<1> DEFINE c == Write(b, <<unit>>)
           t == b.json.items
           s == c.json.items
<1>1. <<unit>> \in Seq(Unit) /\ unit \in Token
  BY DEF Token
<1>2. /\ c \in Builders /\ c.needComma = b.needComma /\ b.result = "OK"
      /\ s = t \o <<unit>>
  BY <1>1, WriteGrows
<1>3. t \in Seq(Unit) /\ ~ LexEnd(t).inside
  BY DEF Legible
<1> HIDE DEF c, t, s
<1>4. s \in Seq(Unit) /\ LexEnd(t) \in LexState /\ LexEnd(s) = Lex1(LexEnd(t), unit)
  BY <1>2, <1>3, LexUnit
<1>5. LexEnd(s) = [inside |-> FALSE, tokens |-> Append(LexEnd(t).tokens, unit)]
  BY <1>3, <1>4, LexCases
<1>6. Lexes(t, unit, s)
  BY <1>1, <1>4, <1>5, OneMoreReads DEF t
<1> QED
  BY <1>2, <1>6 DEF c, t, s

\* and so is a string.
StringReads(b, c) ==
  /\ c \in Builders /\ c.needComma = b.needComma
  /\ c.result = "OK" =>
       /\ b.result = "OK"
       /\ Legible(b.json.items) => Lexes(b.json.items, "string", c.json.items)

\* Whatever a string holds, if nothing in it ends it: one token.
LEMMA QuotedIsString ==
  ASSUME NEW b \in Builders, NEW pieces \in Seq(Seq(Unit)),
         \A i \in DOMAIN pieces : \A j \in DOMAIN pieces[i] :
           pieces[i][j] # "quote" /\ pieces[i][j] \notin Control
  PROVE  StringReads(b, WriteQuoted(b, pieces))
<1> DEFINE c == WriteQuoted(b, pieces)
           t == b.json.items
           s == c.json.items
<1>1. /\ c \in Builders /\ c.needComma = b.needComma
      /\ c.result = "OK" =>
           /\ b.result = "OK"
           /\ ~ LexEnd(t).inside =>
                LexEnd(s) = [inside |-> FALSE, tokens |-> Append(LexEnd(t).tokens, "string")]
  BY QuotedReads
<1>2. s \in Seq(Unit)
  BY <1>1 DEF Builders, SpanOf
<1>3. "string" \in Token /\ ~ IsBreak("string")
  <2>1. "string" \in Token
    BY DEF Token
  <2>2. ~ IsBreak("string")
    BY Zenon DEF IsBreak
  <2> QED
    BY <2>1, <2>2
<1> HIDE DEF c, s
<1>4. ASSUME c.result = "OK", Legible(t)
      PROVE  Lexes(t, "string", s)
  <2>1. ~ LexEnd(t).inside
    BY <1>4 DEF Legible
  <2> HIDE DEF t
  <2> QED
    BY <1>1, <1>2, <1>3, <1>4, <2>1, OneMoreReads
<1> QED
  BY <1>1, <1>4 DEF StringReads, c, s

\* The two kinds of strings: as they are, and escaped.
LEMMA AppendStrReads ==
  ASSUME NEW b \in Builders, NEW string \in Seq(Unit), Escapeless(string)
  PROVE  StringReads(b, AppendStr(b, string))
<1> DEFINE pieces == <<string>>
<1>1. pieces \in Seq(Seq(Unit)) /\ DOMAIN pieces = {1} /\ pieces[1] = string
  OBVIOUS
<1>2. \A j \in DOMAIN string : string[j] # "quote" /\ string[j] \notin Control
  BY DEF Escapeless, Control
<1> HIDE DEF pieces
<1>3. \A i \in DOMAIN pieces : \A j \in DOMAIN pieces[i] :
        pieces[i][j] # "quote" /\ pieces[i][j] \notin Control
  BY <1>1, <1>2
<1>4. AppendStr(b, string) = WriteQuoted(b, pieces)
  <2>1. PICK w : /\ IsWriting(w, b, pieces)
                 /\ WriteQuoted(b, pieces) = Write(w[Len(pieces)], <<"quote">>)
    BY <1>1, WriteQuotedUnfolds
  <2>2. w[0] = Write(b, <<"quote">>) /\ w[1] = Write(w[0], string) /\ Len(pieces) = 1
    BY <1>1, <2>1 DEF IsWriting
  <2> QED
    BY <2>1, <2>2, Zenon DEF AppendStr
<1> QED
  BY <1>1, <1>3, <1>4, QuotedIsString

\* What ends a string is escaped in a span.
LEMMA WriteSpanReads ==
  ASSUME NEW b \in Builders, NEW units \in Seq(Unit)
  PROVE  StringReads(b, WriteSpan(b, units))
<1> DEFINE pieces == [i \in DOMAIN units |-> Escaped(units[i])]
<1>1. ASSUME NEW i \in DOMAIN units
      PROVE  /\ Escaped(units[i]) \in Seq(Unit)
             /\ \A j \in DOMAIN Escaped(units[i]) :
                  /\ Escaped(units[i])[j] # "quote"
                  /\ Escaped(units[i])[j] \notin Control
  <2>1. units[i] \in Unit /\ "escape" \in Unit
    BY UnitFacts
  <2>2. "escape" # "quote" /\ "escape" \notin Control
    BY DEF Control
  <2>3. CASE units[i] \in Control \cup {"quote", "escape"}
    <3>1. Escaped(units[i]) = <<"escape">>
      BY <2>3 DEF Escaped
    <3> QED
      BY <2>1, <2>2, <3>1
  <2>4. CASE units[i] \notin Control \cup {"quote", "escape"}
    <3>1. Escaped(units[i]) = <<units[i]>>
      BY <2>4 DEF Escaped
    <3> QED
      BY <2>1, <2>4, <3>1
  <2> QED
    BY <2>3, <2>4
<1>2. Len(units) \in Nat /\ DOMAIN units = 1 .. Len(units)
  BY LenProperties
<1>3. pieces \in Seq(Seq(Unit)) /\ DOMAIN pieces = DOMAIN units
  <2>1. pieces \in [1 .. Len(units) -> Seq(Unit)]
    BY <1>1, <1>2
  <2> QED
    BY <1>2, <2>1, SeqDef
<1>4. \A i \in DOMAIN pieces : pieces[i] = Escaped(units[i])
  OBVIOUS
<1>5. WriteSpan(b, units) = WriteQuoted(b, pieces)
  BY DEF WriteSpan
<1> HIDE DEF pieces
<1>6. \A i \in DOMAIN pieces : \A j \in DOMAIN pieces[i] :
        pieces[i][j] # "quote" /\ pieces[i][j] \notin Control
  BY <1>1, <1>3, <1>4
<1> QED
  BY <1>3, <1>5, <1>6, QuotedIsString

MayBegin(open) == Within(open, "value") \/ Outside(open)

\* What a scalar or a string makes of the containers that are open.
LEMMA SingleTaken ==
  ASSUME NEW open \in Opens, MayBegin(open), NEW single \in {"scalar", "string"}
  PROVE  LET new == Open1(open, single)
         IN  /\ new \in Opens /\ SameDepth(open, new)
             /\ Within(open, "value") => Within(new, "next")
             /\ Outside(open) => Whole(new[1])
<1> DEFINE new == Open1(open, single)
<1>1. CASE Outside(open)
  <2>1. new \in Opens /\ Whole(new[1]) /\ SameDepth(open, new)
    BY <1>1, TakeLast
  <2>2. ~ Within(open, "value")
    BY <1>1, OutsideOrWithin
  <2> QED
    BY <2>1, <2>2
<1>2. CASE Within(open, "value")
  <2>1. single \in Token
    BY UnitFacts DEF Token
  <2>2. Plain(single)
    BY Zenon DEF Plain, IsOpening, IsClosing
  <2>3. Suits("value", single)
    BY DEF Suits, Values
  <2>4. new \in Opens /\ Within(new, Then(Innermost(open), "value")) /\ SameDepth(open, new)
    BY <1>2, <2>1, <2>2, <2>3, TakeToken
  <2>5. Then(Innermost(open), "value") = "next"
    BY DEF Then
  <2>6. ~ Outside(open)
    BY <1>2, OutsideOrWithin
  <2> QED
    BY <2>4, <2>5, <2>6
<1> QED
  BY <1>1, <1>2 DEF MayBegin

\* What the builder may be given: tokens whose strings are JSON already.
IsToken(x) ==
  /\ x.kind \in Containers \cup Scalars \cup Texts /\ x.value \in Seq(Unit)
  /\ x.kind = "string" => Escapeless(x.value)

BitOf(kind) == IF kind = "object" THEN Object ELSE Array

\* What a token makes of a text that waits for a value.
Holds(b, kind, c) ==
  LET open == Unclosed(b.json.items)
      new  == Unclosed(c.json.items)
  IN  /\ c \in Builders /\ b.result = "OK"
      /\ Legible(c.json.items) /\ ~ Pending(c.json.items) /\ open \in Opens /\ new \in Opens
      /\ kind \notin Containers =>
           /\ c.needComma /\ SameDepth(open, new)
           /\ Within(open, "value") => Within(new, "next")
           /\ Outside(open) => Whole(new[1])
      /\ kind \in Containers =>
           /\ ~ c.needComma /\ Deeper(open, new) /\ Lower(new) /\ Begins(Innermost(new))
           /\ Bit(Innermost(new)) = BitOf(kind)

\* The flag says whether a value is complete with its token.
LEMMA MarkedFacts ==
  ASSUME NEW b \in Builders, NEW x, IsToken(x)
  PROVE  LET m == Marked(b, x)
         IN  /\ m \in Builders /\ m.json = b.json /\ m.result = b.result
             /\ b.result = "OK" => (m.needComma <=> x.kind \notin Containers)
BY DEF Marked, Builders

\* A scalar or a string has been written.
LEMMA SingleHolds ==
  ASSUME NEW b \in Builders, NEW single \in {"scalar", "string"},
         NEW c \in Builders, c.needComma, b.result = "OK",
         Lexes(b.json.items, single, c.json.items), MayBegin(Unclosed(b.json.items)),
         NEW kind, kind \notin Containers
  PROVE  Holds(b, kind, c)
<1> DEFINE open == Unclosed(b.json.items)
           new  == Unclosed(c.json.items)
<1>1. ~ IsComma(single)
  BY Zenon DEF IsComma
<1>2. /\ Legible(c.json.items) /\ ~ Pending(c.json.items)
      /\ open \in Opens /\ new = Open1(open, single)
  BY <1>1 DEF Lexes
<1> HIDE DEF open, new
<1>3. /\ new \in Opens /\ SameDepth(open, new)
      /\ Within(open, "value") => Within(new, "next")
      /\ Outside(open) => Whole(new[1])
  BY <1>2, SingleTaken DEF open
<1> QED
  BY <1>2, <1>3 DEF Holds, open, new

\* An opening bracket has been written.
LEMMA OpeningHolds ==
  ASSUME NEW b \in Builders, NEW bracket \in Unit, IsOpening(bracket),
         NEW c \in Builders, ~ c.needComma, b.result = "OK",
         Lexes(b.json.items, bracket, c.json.items), MayBegin(Unclosed(b.json.items)),
         NEW kind \in Containers, IsObject(<<bracket>>) <=> kind = "object"
  PROVE  Holds(b, kind, c)
<1> DEFINE open == Unclosed(b.json.items)
           new  == Unclosed(c.json.items)
<1>1. ~ IsComma(bracket)
  BY Zenon DEF IsComma, IsOpening
<1>2. /\ Legible(c.json.items) /\ ~ Pending(c.json.items)
      /\ open \in Opens /\ new = Open1(open, bracket) /\ bracket \in Token
  BY <1>1 DEF Lexes, Token
<1> HIDE DEF open, new
<1>3. /\ new \in Opens /\ Deeper(open, new) /\ Lower(new) /\ Begins(Innermost(new))
      /\ Innermost(new)[1] = bracket
  BY <1>2, TakeOpening DEF open, MayBegin
<1>4. Bit(Innermost(new)) = BitOf(kind)
  <2>1. <<bracket>>[1] = bracket
    OBVIOUS
  <2>2. IsObject(Innermost(new)) <=> kind = "object"
    BY <1>3, <2>1, BitOfSame
  <2>3. Bit(Innermost(new)) = IF IsObject(Innermost(new)) THEN Object ELSE Array
    BY Zenon DEF Bit, IsObject
  <2> QED
    BY <2>2, <2>3 DEF BitOf
<1> QED
  BY <1>2, <1>3, <1>4 DEF Holds, open, new

\* The bracket that a container begins with.
LEMMA BracketFor ==
  ASSUME NEW b, NEW x, x.kind \in Containers
  PROVE  \E bracket \in Unit : /\ AppendToken(b, x) = Write(Marked(b, x), <<bracket>>)
                               /\ IsOpening(bracket) /\ ~ IsBreak(bracket)
                               /\ IsObject(<<bracket>>) <=> x.kind = "object"
<1> DEFINE m == Marked(b, x)
<1>1. "{" \in Unit /\ "[" \in Unit
  BY JsonTextAssumption, Zenon
<1>2. /\ x.kind = "object" => AppendToken(b, x) = Write(m, <<"{">>)
      /\ x.kind = "array" => AppendToken(b, x) = Write(m, <<"[">>)
  BY Zenon DEF AppendToken
<1>3. /\ IsOpening("{") /\ ~ IsBreak("{") /\ IsOpening("[") /\ ~ IsBreak("[")
  BY Zenon DEF IsOpening, IsBreak
<1>4. \A u : <<u>>[1] = u
  OBVIOUS
<1>5. IsObject(<<"{">>) /\ ~ IsObject(<<"[">>)
  BY <1>4, Zenon DEF IsObject
<1>6. CASE x.kind = "object"
  BY <1>1, <1>2, <1>3, <1>5, <1>6, Zenon
<1>7. CASE x.kind = "array"
  <2>1. x.kind # "object"
    BY <1>7
  <2> QED
    BY <1>1, <1>2, <1>3, <1>5, <1>7, <2>1, Zenon
<1> QED
  BY <1>6, <1>7 DEF Containers

\* A token is appended.
LEMMA AppendTokenHolds ==
  ASSUME NEW b \in Builders, NEW x, IsToken(x), AppendToken(b, x).result = "OK"
  PROVE  /\ b.result = "OK"
         /\ Legible(b.json.items) /\ MayBegin(Unclosed(b.json.items)) =>
              Holds(b, x.kind, AppendToken(b, x))
<1> DEFINE m == Marked(b, x)
           t == b.json.items
           c == AppendToken(b, x)
           ready == Legible(t) /\ MayBegin(Unclosed(t))
<1> SUFFICES b.result = "OK" /\ (ready => Holds(b, x.kind, c))
  OBVIOUS
<1>1. /\ m \in Builders /\ m.json.items = t /\ m.result = b.result
      /\ b.result = "OK" => (m.needComma <=> x.kind \notin Containers)
  BY MarkedFacts
<1>2. x.kind \in Containers \cup Scalars \cup Texts /\ x.value \in Seq(Unit)
      /\ (x.kind = "string" => Escapeless(x.value))
  BY DEF IsToken
<1>3. x.kind \in {"scalar", "fraction", "string", "span", "object", "array"}
  BY <1>2 DEF Containers, Scalars, Texts
<1>4. /\ "scalar" \notin Containers /\ "string" \notin Containers /\ "span" \notin Containers
      /\ "object" \in Containers /\ "array" \in Containers
  BY DEF Containers
<1>5. \E bracket \in Unit : x.kind \in Containers =>
         /\ c = Write(m, <<bracket>>)
         /\ IsOpening(bracket) /\ ~ IsBreak(bracket)
         /\ IsObject(<<bracket>>) <=> x.kind = "object"
  BY BracketFor, UnitFacts
<1> HIDE DEF m
<1>6. /\ x.kind = "scalar"   => c = Write(m, <<"scalar">>)
      /\ x.kind = "fraction" => c = Refuse(m)
      /\ x.kind = "string"   => c = AppendStr(m, x.value)
      /\ x.kind = "span"     => c = WriteSpan(m, x.value)
  BY Zenon DEF AppendToken, m
<1>7. c.result = "OK"
  OBVIOUS
<1> HIDE DEF c, t
<1>8. ASSUME NEW unit \in Unit, c = Write(m, <<unit>>),
             unit # "quote", unit \notin White, ~ IsBreak(unit)
      PROVE  /\ c \in Builders /\ c.needComma = m.needComma /\ b.result = "OK"
             /\ Legible(t) => Lexes(t, unit, c.json.items)
  <2>1. <<unit>> \in Seq(Unit)
    OBVIOUS
  <2>2. c \in Builders /\ c.needComma = m.needComma /\ b.result = "OK"
    BY <1>1, <1>7, <1>8, <2>1, WriteGrows
  <2>3. ASSUME Legible(t)
        PROVE  Lexes(t, unit, c.json.items)
    BY <1>1, <1>7, <1>8, <2>3, UnitReads
  <2> QED
    BY <2>2, <2>3
<1>9. ASSUME StringReads(m, c), x.kind \notin Containers
      PROVE  b.result = "OK" /\ (ready => Holds(b, x.kind, c))
  <2>1. /\ c \in Builders /\ c.needComma = m.needComma /\ b.result = "OK"
        /\ Legible(t) => Lexes(t, "string", c.json.items)
    BY <1>1, <1>7, <1>9 DEF StringReads
  <2>2. c.needComma
    BY <1>1, <1>9, <2>1
  <2> QED
    BY <1>9, <2>1, <2>2, SingleHolds DEF t
<1>10. CASE x.kind = "scalar"
  <2>1. "scalar" \in Unit /\ "scalar" # "quote" /\ "scalar" \notin White
    BY UnitFacts, Zenon DEF White
  <2>2. ~ IsBreak("scalar")
    BY Zenon DEF IsBreak
  <2>3. /\ c \in Builders /\ c.needComma = m.needComma /\ b.result = "OK"
        /\ Legible(t) => Lexes(t, "scalar", c.json.items)
    BY <1>6, <1>8, <1>10, <2>1, <2>2
  <2>4. c.needComma
    BY <1>1, <1>4, <1>10, <2>3
  <2> QED
    BY <1>4, <1>10, <2>3, <2>4, SingleHolds DEF t
<1>11. CASE x.kind = "fraction"
  <2>1. Refuse(m).result # "OK"
    <3> DEFINE w == Write(m, <<"part">>)
    <3>1. w \in Builders
      <4>1. <<"part">> \in Seq(Unit)
        BY UnitFacts
      <4> QED
        BY <1>1, <4>1, WriteGrows
    <3>2. Refuse(m) = IF w.result = "OK" THEN [w EXCEPT !.result = "ERROR_NOT_IMPLEMENTED"]
                      ELSE w
      BY DEF Refuse
    <3> HIDE DEF w
    <3> QED
      BY <3>1, <3>2 DEF Builders
  <2> QED
    BY <1>6, <1>7, <1>11, <2>1
<1>12. CASE x.kind = "string"
  BY <1>1, <1>2, <1>4, <1>6, <1>9, <1>12, AppendStrReads
<1>13. CASE x.kind = "span"
  BY <1>1, <1>2, <1>4, <1>6, <1>9, <1>13, WriteSpanReads
<1>14. CASE x.kind \in Containers
  <2>1. PICK bracket \in Unit : /\ c = Write(m, <<bracket>>)
                                /\ IsOpening(bracket) /\ ~ IsBreak(bracket)
                                /\ IsObject(<<bracket>>) <=> x.kind = "object"
    BY <1>5, <1>14
  <2>2. bracket # "quote" /\ bracket \notin White
    BY <2>1, BracketFacts
  <2>3. /\ c \in Builders /\ c.needComma = m.needComma /\ b.result = "OK"
        /\ Legible(t) => Lexes(t, bracket, c.json.items)
    BY <1>8, <2>1, <2>2
  <2>4. ~ c.needComma
    BY <1>1, <1>14, <2>3
  <2> QED
    BY <1>14, <2>1, <2>3, <2>4, OpeningHolds DEF t
<1> QED
  BY <1>3, <1>4, <1>10, <1>11, <1>12, <1>13, <1>14

\* The kinds of the containers that are open, outermost first.
Nests == Seq({Object, Array})

\* The containers that are open are of the first of these kinds.
Agree(open, kinds, left) ==
  Len(open) = left + 1 /\ \A d \in 1 .. left : Bit(open[d + 1]) = kinds[d]

\* A token of a container that stays leaves the others as they are, and so does
\* one that closes it.
LEMMA AgreeFacts ==
  ASSUME NEW open \in Opens, NEW new \in Opens, NEW kinds, NEW left \in Nat,
         Agree(open, kinds, left)
  PROVE  /\ SameDepth(open, new) => Agree(new, kinds, left)
         /\ Deeper(new, open) => left > 0 /\ Agree(new, kinds, left - 1)
<1>1. Len(open) \in Nat \ {0} /\ Len(new) \in Nat \ {0} /\ Len(open) = left + 1
  BY OpensFacts DEF Agree
<1>2. ASSUME SameDepth(open, new)
      PROVE  Agree(new, kinds, left)
  <2>1. Len(new) = left + 1 /\ \A d \in 2 .. Len(open) : Bit(new[d]) = Bit(open[d])
    BY <1>1, <1>2 DEF SameDepth, Alike
  <2>2. ASSUME NEW d \in 1 .. left
        PROVE  Bit(new[d + 1]) = kinds[d]
    <3>1. d + 1 \in 2 .. Len(open)
      BY <1>1
    <3> QED
      BY <2>1, <3>1 DEF Agree
  <2> QED
    BY <2>1, <2>2 DEF Agree
<1>3. ASSUME Deeper(new, open)
      PROVE  left > 0 /\ Agree(new, kinds, left - 1)
  <2>1. left = Len(new) /\ \A d \in 2 .. Len(new) : Bit(open[d]) = Bit(new[d])
    BY <1>1, <1>3 DEF Deeper, Alike
  <2>2. ASSUME NEW d \in 1 .. left - 1
        PROVE  Bit(new[d + 1]) = kinds[d]
    <3>1. d + 1 \in 2 .. Len(new) /\ d \in 1 .. left
      BY <1>1, <2>1
    <3> QED
      BY <2>1, <3>1 DEF Agree
  <2>3. left > 0 /\ Len(new) = (left - 1) + 1
    BY <1>1, <2>1
  <2> QED
    BY <2>2, <2>3 DEF Agree
<1> QED
  BY <1>2, <1>3

\* An opening bracket is one kind more.
LEMMA AgreeDeeper ==
  ASSUME NEW open \in Opens, NEW new \in Opens, NEW kinds \in Nests,
         Agree(open, kinds, Len(kinds)), Deeper(open, new),
         NEW kind \in {Object, Array}, Bit(Innermost(new)) = kind
  PROVE  Agree(new, Append(kinds, kind), Len(kinds) + 1)
<1> DEFINE n == Len(kinds)
           more == Append(kinds, kind)
<1>1. n \in Nat /\ Len(open) = n + 1
  BY LenProperties DEF Agree, Nests
<1>2. /\ \A d \in 1 .. n : more[d] = kinds[d]
      /\ more[n + 1] = kind
  BY AppendProperties DEF Nests
<1> HIDE DEF more
<1>3. Len(new) = n + 2 /\ \A d \in 2 .. n + 1 : Bit(new[d]) = Bit(open[d])
  BY <1>1 DEF Deeper, Alike
<1>4. \A d \in 1 .. n : Bit(open[d + 1]) = kinds[d]
  BY DEF Agree
<1> HIDE DEF n
<1>5. ASSUME NEW d \in 1 .. n + 1
      PROVE  Bit(new[d + 1]) = more[d]
  <2>1. CASE d = n + 1
    <3>1. d + 1 = Len(new)
      BY <1>1, <1>3, <2>1
    <3> QED
      BY <1>2, <2>1, <3>1 DEF Innermost
  <2>2. CASE d # n + 1
    <3>1. d \in 1 .. n /\ d + 1 \in 2 .. n + 1
      BY <1>1, <2>2
    <3> QED
      BY <1>2, <1>3, <1>4, <3>1
  <2> QED
    BY <2>1, <2>2
<1>6. Len(new) = (n + 1) + 1
  BY <1>1, <1>3
<1> QED
  BY <1>5, <1>6 DEF Agree, more, n

\* The tokens lack nothing but the brackets that close the first of these kinds.
Shape(tokens, kinds, left) ==
  LET open == OpenIn(tokens)
  IN  /\ Tidy(tokens) /\ ~ EndsInComma(tokens)
      /\ open \in Opens /\ Agree(open, kinds, left)
      /\ left = 0 => Whole(open[1])
      /\ left > 0 => /\ Lower(open)
                     /\ Begins(Innermost(open)) \/ Awaits(Innermost(open), "next")

\* The brackets that close.
LEMMA ClosingFacts ==
  ASSUME NEW item
  PROVE  /\ Close(item) \in Unit /\ Close(item) \in Token
         /\ Close(item) # "quote" /\ Close(item) \notin White /\ ~ IsComma(Close(item))
<1>1. Close(item) \in {"}", "]"}
  BY Zenon DEF Close
<1>2. "}" \in Unit /\ "]" \in Unit
  BY JsonTextAssumption, Zenon
<1>3. Close(item) \in Unit
  BY <1>1, <1>2, Zenon
<1>4. ~ IsComma(Close(item))
  BY <1>1, Zenon DEF IsComma
<1>5. IsClosing(Close(item))
  BY <1>1, Zenon DEF IsClosing
<1> QED
  BY <1>3, <1>4, <1>5, BracketFacts DEF Token

\* The innermost of them is closed.
LEMMA ShapeCloses ==
  ASSUME NEW tokens, NEW kinds \in Nests, NEW left \in 1 .. Len(kinds),
         Shape(tokens, kinds, left)
  PROVE  LET more == Append(tokens, Close(kinds[left]))
         IN  /\ Shape(more, kinds, left - 1)
             /\ left > 1 => Awaits(Innermost(OpenIn(more)), "next")
<1> DEFINE bracket == Close(kinds[left])
           more == Append(tokens, bracket)
           open == OpenIn(tokens)
           new  == OpenIn(more)
<1>1. /\ Tidy(tokens) /\ ~ EndsInComma(tokens) /\ open \in Opens /\ Agree(open, kinds, left)
      /\ left \in Nat /\ left > 0 /\ Len(open) = left + 1 /\ Len(open) > 1 /\ Lower(open)
      /\ Begins(Innermost(open)) \/ Awaits(Innermost(open), "next")
  <2>1. left \in Nat /\ left > 0
    BY LenProperties DEF Nests
  <2> QED
    BY <2>1 DEF Shape, Agree
<1>2. Bit(Innermost(open)) = kinds[left]
  <2>1. Len(open) = left + 1 /\ \A d \in 1 .. left : Bit(open[d + 1]) = kinds[d]
    BY <1>1 DEF Agree
  <2>2. left \in 1 .. left
    BY <1>1
  <2> QED
    BY <2>1, <2>2 DEF Innermost
<1>3. bracket \in Token /\ ~ IsComma(bracket)
  BY ClosingFacts
<1> HIDE DEF bracket
<1>4. Tidy(more) /\ ~ EndsInComma(more)
  BY <1>1, <1>3, TidyAppend
<1>5. new = Open1(open, bracket)
  BY <1>1, <1>3, OpenInAppend DEF Tidy
<1> HIDE DEF open, new, more
<1>6. /\ new \in Opens /\ Deeper(new, open)
      /\ \/ Outside(new) /\ new[1] # <<>>
         \/ Within(new, "next")
  <2>1. bracket = Close(Bit(Innermost(open)))
    BY <1>2 DEF bracket
  <2> QED
    BY <1>1, <1>5, <2>1, TakeClosing
<1>7. Agree(new, kinds, left - 1)
  BY <1>1, <1>6, AgreeFacts
<1>8. left - 1 = 0 => Whole(new[1])
  <2>1. left - 1 = 0 => Len(new) = 1
    BY <1>7 DEF Agree
  <2>2. Len(new) = 1 => Outside(new) /\ new[1] # <<>>
    BY <1>6 DEF Within
  <2> QED
    BY <1>6, <2>1, <2>2, ClosedIsWhole
<1>9. left > 1 => Lower(new) /\ Awaits(Innermost(new), "next")
  <2>2. left > 1 => Len(new) # 1
    <3>1. Len(new) = left
      BY <1>1, <1>7 DEF Agree
    <3> QED
      BY <1>1, <3>1
  <2>3. left > 1 => Within(new, "next")
    BY <1>6, <2>2 DEF Outside
  <2> QED
    BY <2>3 DEF Within
<1>10. Shape(more, kinds, left - 1)
  <2>1. left - 1 > 0 => left > 1
    BY <1>1
  <2> QED
    BY <1>4, <1>6, <1>7, <1>8, <1>9, <2>1 DEF Shape, new
<1> QED
  BY <1>9, <1>10 DEF bracket, more, new

\* A builder that no call has failed: its flag tells what the innermost
\* container waits for.
Stands(b, kinds) ==
  LET t == b.json.items
  IN  /\ b \in Builders /\ Legible(t) /\ Shape(LexEnd(t).tokens, kinds, Len(kinds))
      /\ kinds # <<>> =>
           IF b.needComma THEN Awaits(Innermost(Unclosed(t)), "next")
           ELSE Begins(Innermost(Unclosed(t)))

\* What that says of the containers that are open.
LEMMA StandsMeans ==
  ASSUME NEW b, NEW kinds \in Nests, Stands(b, kinds)
  PROVE  LET open == Unclosed(b.json.items)
         IN  /\ open \in Opens /\ Agree(open, kinds, Len(kinds)) /\ ~ Pending(b.json.items)
             /\ Len(kinds) \in Nat /\ Len(open) = Len(kinds) + 1
             /\ kinds # <<>> =>
                  /\ Len(open) > 1 /\ Lower(open) /\ Len(kinds) > 0
                  /\ Bit(Innermost(open)) = kinds[Len(kinds)]
<1> DEFINE open == Unclosed(b.json.items)
           n == Len(kinds)
<1>1. /\ open \in Opens /\ Agree(open, kinds, n) /\ ~ Pending(b.json.items)
      /\ n > 0 => Lower(open)
  BY DEF Stands, Shape, Unclosed, Pending
<1>2. n \in Nat /\ (kinds # <<>> => n > 0)
  BY LenProperties, EmptySeq DEF Nests
<1> HIDE DEF open, n
<1>3. Len(open) = n + 1 /\ \A d \in 1 .. n : Bit(open[d + 1]) = kinds[d]
  BY <1>1 DEF Agree
<1>4. kinds # <<>> => Len(open) > 1 /\ Lower(open) /\ Bit(Innermost(open)) = kinds[n]
  <2>1. n > 0 => n \in 1 .. n
    BY <1>2
  <2> QED
    BY <1>1, <1>2, <1>3, <2>1 DEF Innermost
<1> QED
  BY <1>1, <1>2, <1>3, <1>4 DEF open, n

\* A value that has been written where one may stand.
LEMMA HoldsStands ==
  ASSUME NEW b, NEW kinds \in Nests, Stands(b, kinds), kinds # <<>>,
         NEW m, SameDepth(Unclosed(b.json.items), Unclosed(m.json.items)),
         Within(Unclosed(m.json.items), "value"),
         NEW kind, NEW c, Holds(m, kind, c)
  PROVE  Stands(c, IF kind \in Containers THEN Append(kinds, BitOf(kind)) ELSE kinds)
<1> DEFINE old  == Unclosed(b.json.items)
           open == Unclosed(m.json.items)
           new  == Unclosed(c.json.items)
           n    == Len(kinds)
           tokens == LexEnd(c.json.items).tokens
<1>1. /\ old \in Opens /\ Agree(old, kinds, n) /\ n \in Nat /\ n > 0
  BY StandsMeans
<1>2. /\ c \in Builders /\ Legible(c.json.items) /\ ~ Pending(c.json.items)
      /\ open \in Opens /\ new \in Opens
  BY DEF Holds
<1>3. /\ new = OpenIn(tokens) /\ Tidy(tokens) /\ ~ EndsInComma(tokens)
  BY <1>2 DEF Legible, Pending, Unclosed
<1>4. Agree(open, kinds, n)
  BY <1>1, <1>2, AgreeFacts
<1> HIDE DEF old
<1>5. CASE kind \notin Containers
  <2>1. c.needComma /\ SameDepth(open, new) /\ Within(new, "next")
    BY <1>5 DEF Holds
  <2> HIDE DEF open, new, tokens
  <2>2. Agree(new, kinds, n)
    BY <1>1, <1>2, <1>4, <2>1, AgreeFacts
  <2>3. Lower(new) /\ Awaits(Innermost(new), "next")
    BY <2>1 DEF Within
  <2>4. Shape(tokens, kinds, n)
    BY <1>1, <1>2, <1>3, <2>2, <2>3 DEF Shape
  <2> QED
    BY <1>2, <1>5, <2>1, <2>3, <2>4 DEF Stands, tokens, new
<1>6. CASE kind \in Containers
  <2> DEFINE more == Append(kinds, BitOf(kind))
  <2>1. /\ ~ c.needComma /\ Deeper(open, new) /\ Lower(new) /\ Begins(Innermost(new))
        /\ Bit(Innermost(new)) = BitOf(kind)
    BY <1>6 DEF Holds
  <2> HIDE DEF open, new, tokens
  <2>2. BitOf(kind) \in {Object, Array}
    BY DEF BitOf
  <2>3. Len(more) = n + 1
    BY <2>2, AppendProperties DEF Nests
  <2>4. Agree(new, more, n + 1)
    BY <1>2, <1>4, <2>1, <2>2, AgreeDeeper
  <2> HIDE DEF more
  <2>5. Shape(tokens, more, n + 1)
    <3>1. n + 1 # 0
      BY <1>1
    <3> QED
      BY <1>2, <1>3, <2>1, <2>4, <3>1 DEF Shape
  <2>6. Stands(c, more)
    BY <1>2, <2>1, <2>3, <2>5 DEF Stands, tokens, new
  <2> QED
    BY <1>6, <2>6 DEF more
<1> QED
  BY <1>5, <1>6

\* The first value is the text.
LEMMA HoldsFirst ==
  ASSUME NEW b, Unclosed(b.json.items) = OpenStart,
         NEW kind, NEW c, Holds(b, kind, c)
  PROVE  Stands(c, IF kind \in Containers THEN <<BitOf(kind)>> ELSE <<>>)
<1> DEFINE new  == Unclosed(c.json.items)
           tokens == LexEnd(c.json.items).tokens
<1>1. /\ c \in Builders /\ Legible(c.json.items) /\ ~ Pending(c.json.items)
      /\ new \in Opens
  BY DEF Holds
<1>2. /\ new = OpenIn(tokens) /\ Tidy(tokens) /\ ~ EndsInComma(tokens)
  BY <1>1 DEF Legible, Pending, Unclosed
<1>3. /\ OpenStart \in Opens /\ Len(OpenStart) = 1 /\ Outside(OpenStart)
      /\ Agree(OpenStart, <<>>, 0) /\ <<>> \in Nests /\ Len(<<>>) = 0
  BY OpenStartTyped DEF Outside, AllClosed, Agree, Nests
<1>4. CASE kind \notin Containers
  <2>1. SameDepth(OpenStart, new) /\ Whole(new[1])
    BY <1>3, <1>4 DEF Holds
  <2> HIDE DEF new, tokens
  <2>2. Agree(new, <<>>, 0)
    BY <1>1, <1>3, <2>1, AgreeFacts
  <2>3. Shape(tokens, <<>>, 0)
    BY <1>1, <1>2, <2>1, <2>2 DEF Shape
  <2> QED
    BY <1>1, <1>3, <1>4, <2>3 DEF Stands, tokens
<1>5. CASE kind \in Containers
  <2> DEFINE more == Append(<<>>, BitOf(kind))
  <2>1. /\ ~ c.needComma /\ Deeper(OpenStart, new) /\ Lower(new) /\ Begins(Innermost(new))
        /\ Bit(Innermost(new)) = BitOf(kind)
    BY <1>5 DEF Holds
  <2> HIDE DEF new, tokens
  <2>2. BitOf(kind) \in {Object, Array}
    BY DEF BitOf
  <2>3. Len(more) = 1 /\ more = <<BitOf(kind)>>
    OBVIOUS
  <2>4. Agree(new, more, 0 + 1)
    BY <1>1, <1>3, <2>1, <2>2, AgreeDeeper
  <2> HIDE DEF more
  <2>5. Shape(tokens, more, 1)
    BY <1>1, <1>2, <2>1, <2>4 DEF Shape
  <2>6. Stands(c, more)
    BY <1>1, <2>1, <2>3, <2>5 DEF Stands, tokens, new
  <2> QED
    BY <1>5, <2>3, <2>6
<1> QED
  BY <1>4, <1>5

\* A comma in front, when one is due.
LEMMA CommaWritten ==
  ASSUME NEW b, NEW kinds \in Nests, Stands(b, kinds), kinds # <<>>,
         WriteComma(b).result = "OK"
  PROVE  LET c    == WriteComma(b)
             open == Unclosed(b.json.items)
             new  == Unclosed(c.json.items)
         IN  /\ c \in Builders /\ Legible(c.json.items) /\ b.result = "OK"
             /\ open \in Opens /\ new \in Opens /\ SameDepth(open, new)
             /\ Within(new, IF IsObject(Innermost(open)) THEN "name" ELSE "value")
<1> DEFINE c    == WriteComma(b)
           open == Unclosed(b.json.items)
           new  == Unclosed(c.json.items)
<1>1. /\ b \in Builders /\ Legible(b.json.items)
      /\ IF b.needComma THEN Awaits(Innermost(open), "next") ELSE Begins(Innermost(open))
  BY DEF Stands
<1>2. open \in Opens /\ Len(open) > 1 /\ Lower(open) /\ ~ Pending(b.json.items)
  BY StandsMeans
<1>3. CASE ~ b.needComma
  <2>1. c = b
    BY <1>3 DEF WriteComma
  <2>2. Within(open, IF IsObject(Innermost(open)) THEN "name" ELSE "value")
    BY <1>1, <1>2, <1>3 DEF Within, Begins
  <2> QED
    BY <1>1, <1>2, <2>1, <2>2, DepthFacts
<1>4. CASE b.needComma
  <2>1. PICK comma : IsComma(comma) /\ comma \in Unit /\ c = Write(b, <<comma>>)
    <3>1. "," \in Unit
      BY JsonTextAssumption, Zenon
    <3>2. IsComma(",")
      BY Zenon DEF IsComma
    <3>3. c = Write(b, <<",">>)
      BY <1>4, Zenon DEF WriteComma
    <3> QED
      BY <3>1, <3>2, <3>3, Zenon
  <2>2. comma # "quote" /\ comma \notin White /\ Plain(comma) /\ Suits("next", comma)
        /\ comma \in Token
    BY <2>1, CommaFacts DEF Token
  <2>3. /\ c \in Builders /\ b.result = "OK" /\ Lexes(b.json.items, comma, c.json.items)
    BY <1>1, <1>2, <2>1, <2>2, UnitReads
  <2>4. Legible(c.json.items) /\ new = Open1(open, comma)
    BY <2>3 DEF Lexes
  <2>5. Within(open, "next")
    BY <1>1, <1>2, <1>4 DEF Within
  <2> HIDE DEF c, open, new
  <2>6. new \in Opens /\ Within(new, Then(Innermost(open), "next")) /\ SameDepth(open, new)
    BY <1>2, <2>2, <2>4, <2>5, TakeToken
  <2>7. Then(Innermost(open), "next") = IF IsObject(Innermost(open)) THEN "name" ELSE "value"
    BY Zenon DEF Then
  <2> QED
    BY <1>2, <2>3, <2>4, <2>6, <2>7 DEF c, open, new
<1> QED
  BY <1>3, <1>4

\* Whatever the flag says.
LEMMA CommaTyped ==
  ASSUME NEW b \in Builders
  PROVE  WriteComma(b) \in Builders
<1>1. \E comma \in Unit : WriteComma(b) = IF b.needComma THEN Write(b, <<comma>>) ELSE b
  <2>1. "," \in Unit
    BY JsonTextAssumption, Zenon
  <2> QED
    BY <2>1, Zenon DEF WriteComma
<1>2. PICK comma \in Unit : WriteComma(b) = IF b.needComma THEN Write(b, <<comma>>) ELSE b
  BY <1>1
<1>3. <<comma>> \in Seq(Unit)
  OBVIOUS
<1> QED
  BY <1>2, <1>3, WriteGrows

\* What a call makes of a builder that none has failed, when it does not fail.
LEMMA ItemStands ==
  ASSUME NEW b, NEW kinds \in Nests, Stands(b, kinds), kinds # <<>>,
         kinds[Len(kinds)] = Array, NEW x, IsToken(x),
         AppendArrayItem(b, x).result = "OK"
  PROVE  Stands(AppendArrayItem(b, x),
                IF x.kind \in Containers THEN Append(kinds, BitOf(x.kind)) ELSE kinds)
<1> DEFINE m    == WriteComma(b)
           c    == AppendToken(m, x)
           open == Unclosed(b.json.items)
           new  == Unclosed(m.json.items)
<1>1. AppendArrayItem(b, x) = c
  BY DEF AppendArrayItem
<1>2. m.result = "OK"
  <2>1. b \in Builders
    BY DEF Stands
  <2>2. m \in Builders
    BY <2>1, CommaTyped
  <2> HIDE DEF m
  <2> QED
    BY <1>1, <2>2, AppendTokenHolds
<1>3. /\ m \in Builders /\ Legible(m.json.items)
      /\ open \in Opens /\ new \in Opens /\ SameDepth(open, new)
      /\ Within(new, IF IsObject(Innermost(open)) THEN "name" ELSE "value")
  BY <1>2, CommaWritten
<1>4. ~ IsObject(Innermost(open))
  <2>1. Bit(Innermost(open)) = Array
    BY StandsMeans
  <2>2. IsObject(Innermost(open)) => Bit(Innermost(open)) = Object
    BY Zenon DEF Bit, IsObject
  <2> QED
    BY <2>1, <2>2 DEF Object, Array
<1>5. Within(new, "value") /\ MayBegin(new)
  BY <1>3, <1>4 DEF MayBegin
<1> HIDE DEF m
<1>6. Holds(m, x.kind, c)
  BY <1>1, <1>3, <1>5, AppendTokenHolds
<1> HIDE DEF c
<1> QED
  BY <1>1, <1>3, <1>5, <1>6, HoldsStands

\* A member behind what is written: comma, name, colon and token.
LEMMA MemberStands ==
  ASSUME NEW b, NEW kinds \in Nests, Stands(b, kinds), kinds # <<>>,
         kinds[Len(kinds)] = Object, NEW x, IsToken(x),
         NEW string \in Seq(Unit), Escapeless(string),
         AppendObject(b, string, x).result = "OK"
  PROVE  Stands(AppendObject(b, string, x),
                IF x.kind \in Containers THEN Append(kinds, BitOf(x.kind)) ELSE kinds)
<1> DEFINE l    == WriteComma(b)
           n    == AppendStr(l, string)
           open == Unclosed(b.json.items)
           one  == Unclosed(l.json.items)
           two  == Unclosed(n.json.items)
<1>1. PICK colon : /\ IsColon(colon) /\ colon \in Unit
                   /\ AppendObject(b, string, x) = AppendToken(Write(n, <<colon>>), x)
  <2>1. ":" \in Unit
    BY JsonTextAssumption, Zenon
  <2>2. IsColon(":")
    BY Zenon DEF IsColon
  <2>3. AppendObject(b, string, x) = AppendToken(Write(n, <<":">>), x)
    BY Zenon DEF AppendObject
  <2> QED
    BY <2>1, <2>2, <2>3, Zenon
<1> DEFINE m     == Write(n, <<colon>>)
           c     == AppendToken(m, x)
           three == Unclosed(m.json.items)
<1>2. <<colon>> \in Seq(Unit)
  BY <1>1
<1>3. b \in Builders /\ l \in Builders /\ n \in Builders /\ m \in Builders
  <2>1. b \in Builders
    BY DEF Stands
  <2>2. l \in Builders
    BY <2>1, CommaTyped
  <2> HIDE DEF l
  <2>3. n \in Builders
    BY <2>2, AppendStrReads DEF StringReads
  <2> HIDE DEF n
  <2> QED
    BY <1>2, <2>1, <2>2, <2>3, WriteGrows
<1>4. m.result = "OK"
  <2> HIDE DEF m
  <2> QED
    BY <1>1, <1>3, AppendTokenHolds DEF m
<1>5. n.result = "OK"
  <2> HIDE DEF n
  <2> QED
    BY <1>2, <1>3, <1>4, WriteGrows
<1>6. l.result = "OK"
  <2> HIDE DEF l
  <2> QED
    BY <1>3, <1>5, AppendStrReads DEF StringReads
<1>7. /\ Legible(l.json.items) /\ open \in Opens /\ one \in Opens /\ SameDepth(open, one)
      /\ Within(one, IF IsObject(Innermost(open)) THEN "name" ELSE "value")
  BY <1>6, CommaWritten
<1>8. IsObject(Innermost(open))
  <2>1. Bit(Innermost(open)) = Object
    BY StandsMeans
  <2>2. ~ IsObject(Innermost(open)) => Bit(Innermost(open)) = Array
    BY Zenon DEF Bit, IsObject
  <2> QED
    BY <2>1, <2>2 DEF Object, Array
<1>9. Within(one, "name")
  BY <1>7, <1>8
<1> HIDE DEF open, l
<1>10. Lexes(l.json.items, "string", n.json.items)
  BY <1>3, <1>5, <1>7, AppendStrReads DEF StringReads
<1>11. /\ Legible(n.json.items) /\ two = Open1(one, "string") /\ ~ Pending(n.json.items)
  <2>1. ~ IsComma("string")
    BY Zenon DEF IsComma
  <2> QED
    BY <1>10, <2>1 DEF Lexes
<1> HIDE DEF n
<1>12. two \in Opens /\ Within(two, "colon") /\ SameDepth(one, two)
  <2>1. "string" \in Token
    BY DEF Token
  <2>2. Plain("string")
    BY Zenon DEF Plain, IsOpening, IsClosing
  <2>3. Suits("name", "string")
    BY DEF Suits
  <2>4. Then(Innermost(one), "name") = "colon"
    BY DEF Then
  <2> HIDE DEF one, two
  <2> QED
    BY <1>7, <1>9, <1>11, <2>1, <2>2, <2>3, <2>4, TakeToken
<1>13. /\ colon # "quote" /\ colon \notin White /\ Plain(colon) /\ Suits("colon", colon)
       /\ colon \in Token
  BY <1>1, ColonFacts DEF Token
<1>14. Lexes(n.json.items, colon, m.json.items)
  BY <1>1, <1>3, <1>4, <1>11, <1>13, UnitReads
<1>15. Legible(m.json.items) /\ three = Open1(two, colon)
  BY <1>14 DEF Lexes
<1> HIDE DEF m
<1>16. three \in Opens /\ Within(three, "value") /\ SameDepth(two, three)
  <2>1. Then(Innermost(two), "colon") = "value"
    BY DEF Then
  <2> HIDE DEF two, three
  <2> QED
    BY <1>12, <1>13, <1>15, <2>1, TakeToken
<1>17. SameDepth(open, three)
  <2> HIDE DEF one, two, three
  <2>1. SameDepth(open, two)
    BY <1>7, <1>12, DepthFacts
  <2> QED
    BY <1>7, <1>12, <1>16, <2>1, DepthFacts
<1>18. AppendObject(b, string, x) = c
  BY <1>1 DEF m
<1>19. Holds(m, x.kind, c)
  <2>1. MayBegin(three)
    BY <1>16 DEF MayBegin
  <2> QED
    BY <1>3, <1>15, <1>18, <2>1, AppendTokenHolds
<1> HIDE DEF c
<1> QED
  BY <1>16, <1>17, <1>18, <1>19, HoldsStands DEF open

\* All kinds but the last.
LEMMA FrontFacts ==
  ASSUME NEW kinds \in Nests, Len(kinds) > 0
  PROVE  /\ Front(kinds) \in Nests /\ Len(Front(kinds)) = Len(kinds) - 1
         /\ \A d \in 1 .. Len(kinds) - 1 : Front(kinds)[d] = kinds[d]
<1>1. Len(kinds) - 1 \in 0 .. Len(kinds)
  BY LenProperties DEF Nests
<1> QED
  BY <1>1, PrefixFacts DEF Front, Nests

\* A sequence up to its end.
LEMMA SubSeqAll ==
  ASSUME NEW S, NEW s \in Seq(S)
  PROVE  SubSeq(s, 1, Len(s)) = s
<1>1. Len(s) \in Nat /\ Len(s) \in 0 .. Len(s)
  BY LenProperties
<1>2. /\ SubSeq(s, 1, Len(s)) \in Seq(S) /\ Len(SubSeq(s, 1, Len(s))) = Len(s)
      /\ \A i \in 1 .. Len(s) : SubSeq(s, 1, Len(s))[i] = s[i]
  BY <1>1, PrefixFacts
<1> QED
  BY <1>2, SeqEqual

\* A container is closed.
LEMMA CloseStands ==
  ASSUME NEW b, NEW kinds \in Nests, Stands(b, kinds), kinds # <<>>,
         WriteClose(b, Close(kinds[Len(kinds)])).result = "OK"
  PROVE  Stands(WriteClose(b, Close(kinds[Len(kinds)])), Front(kinds))
<1> DEFINE n == Len(kinds)
           bracket == Close(kinds[n])
           w == Write(b, <<bracket>>)
           c == WriteClose(b, bracket)
           tokens == LexEnd(b.json.items).tokens
           more   == LexEnd(w.json.items).tokens
<1>1. n \in Nat /\ n \in 1 .. n /\ n > 0
  BY StandsMeans
<1>2. b \in Builders /\ Legible(b.json.items) /\ Shape(tokens, kinds, n)
      /\ ~ Pending(b.json.items)
  BY StandsMeans DEF Stands
<1>3. bracket \in Unit /\ bracket \in Token /\ bracket # "quote" /\ bracket \notin White
      /\ ~ IsComma(bracket) /\ <<bracket>> \in Seq(Unit)
  BY ClosingFacts
<1> HIDE DEF bracket
<1>4. c = IF w.result = "OK" THEN [w EXCEPT !.needComma = TRUE] ELSE w
  BY DEF WriteClose
<1>5. c.result = "OK"
  BY DEF bracket
<1>6. w \in Builders
  BY <1>2, <1>3, WriteGrows
<1>7. w.result = "OK"
  BY <1>4, <1>5
<1>8. /\ c \in Builders /\ c.needComma = TRUE /\ c.json = w.json
  <2> HIDE DEF w, c
  <2> QED
    BY <1>4, <1>6, <1>7 DEF Builders
<1>9. w.json.items = b.json.items \o <<bracket>>
  BY <1>2, <1>3, <1>7, WriteGrows
<1>10. /\ LexEnd(b.json.items) \in LexState
       /\ LexEnd(w.json.items) = Lex1(LexEnd(b.json.items), bracket)
       /\ w.json.items \in Seq(Unit)
  <2> HIDE DEF w
  <2> QED
    BY <1>2, <1>3, <1>9, LexUnit DEF Legible
<1>11. LexEnd(w.json.items) = [inside |-> FALSE, tokens |-> Append(tokens, bracket)]
  BY <1>2, <1>3, <1>10, LexCases DEF Legible
<1>12. more = Append(tokens, bracket) /\ ~ LexEnd(w.json.items).inside
  <2> HIDE DEF tokens
  <2> QED
    BY <1>11
<1> HIDE DEF c, w, tokens, more
<1>13. Shape(more, kinds, n - 1) /\ (n > 1 => Awaits(Innermost(OpenIn(more)), "next"))
  BY <1>1, <1>2, <1>12, ShapeCloses DEF bracket
<1>14. /\ Front(kinds) \in Nests /\ Len(Front(kinds)) = n - 1
       /\ \A d \in 1 .. n - 1 : Front(kinds)[d] = kinds[d]
  BY <1>1, FrontFacts DEF n
<1>15. Shape(more, Front(kinds), n - 1)
  BY <1>13, <1>14 DEF Shape, Agree
<1>16. Legible(c.json.items)
  BY <1>8, <1>10, <1>12, <1>15 DEF Legible, Shape, more
<1>17. Front(kinds) # <<>> => n > 1
  <2>1. Front(kinds) # <<>> => Len(Front(kinds)) # 0
    BY <1>14, EmptySeq DEF Nests
  <2> QED
    BY <1>1, <1>14, <2>1
<1>18. Stands(c, Front(kinds))
  BY <1>8, <1>13, <1>14, <1>15, <1>16, <1>17 DEF Stands, Unclosed, more
<1> QED
  BY <1>18 DEF c, bracket

\* The brackets that close everything.
LEMMA ClosingWorks ==
  ASSUME NEW t, Legible(t), NEW kinds \in Nests, NEW closing \in Seq(Unit),
         Len(closing) = Len(kinds),
         \A i \in 1 .. Len(kinds) : closing[i] = Close(kinds[Len(kinds) - i + 1]),
         Shape(LexEnd(t).tokens, kinds, Len(kinds))
  PROVE  LET tokens == Lexed(t \o closing)
         IN  /\ IsJson(t \o closing) /\ Tidy(tokens)
<1> DEFINE n == Len(kinds)
           m == Len(t)
           all == t \o closing
           f == LexOf(all)
           Good == {k \in 0 .. n : /\ ~ f[m + k].inside
                                   /\ Shape(f[m + k].tokens, kinds, n - k)}
<1>1. t \in Seq(Unit) /\ ~ LexEnd(t).inside /\ n \in Nat
  BY LenProperties DEF Legible, Nests
<1>2. /\ all \in Seq(Unit) /\ Len(all) = m + n /\ m \in Nat
      /\ \A i \in 0 .. Len(all) : f[i] \in LexState
      /\ f[m] = LexEnd(t) /\ LexEnd(all) = f[m + n]
      /\ \A i \in 1 .. n : f[m + i] = Lex1(f[m + i - 1], closing[i])
  BY <1>1, LexConcat
<1> HIDE DEF n, m, all, f
<1>3. 0 \in Good
  <2>1. m + 0 = m /\ n - 0 = n /\ 0 \in 0 .. n
    BY <1>1, <1>2
  <2> QED
    BY <1>1, <1>2, <2>1 DEF n
<1>4. ASSUME NEW k \in 0 .. n - 1, k \in Good
      PROVE  k + 1 \in Good
  <2> DEFINE left == n - k
             bracket == Close(kinds[left])
             before == f[m + k]
  <2>1. /\ left \in 1 .. n /\ k + 1 \in 1 .. n /\ k + 1 \in 0 .. n /\ m + (k + 1) - 1 = m + k
        /\ n - (k + 1) = left - 1 /\ n - (k + 1) + 1 = left /\ m + k \in 0 .. Len(all)
    BY <1>1, <1>2
  <2>2. closing[k + 1] = bracket
    <3>1. closing[k + 1] = Close(kinds[n - (k + 1) + 1])
      BY <2>1 DEF n
    <3> QED
      BY <2>1, <3>1
  <2>3. ~ before.inside /\ Shape(before.tokens, kinds, left) /\ before \in LexState
    BY <1>2, <1>4, <2>1
  <2>4. bracket \in Unit /\ bracket # "quote" /\ bracket \notin White
    BY ClosingFacts
  <2>5. f[m + (k + 1)] = Lex1(before, bracket)
    BY <1>2, <2>1, <2>2
  <2> HIDE DEF before, left
  <2>6. Shape(Append(before.tokens, bracket), kinds, left - 1)
    BY <2>1, <2>3, ShapeCloses DEF n
  <2> HIDE DEF bracket
  <2>7. f[m + (k + 1)] = [inside |-> FALSE, tokens |-> Append(before.tokens, bracket)]
    BY <2>3, <2>4, <2>5, LexCases
  <2>8. ~ f[m + (k + 1)].inside /\ f[m + (k + 1)].tokens = Append(before.tokens, bracket)
    BY <2>7
  <2> QED
    BY <2>1, <2>6, <2>8
<1>5. n \in Good
  <2> HIDE DEF Good
  <2>1. 0 .. n \subseteq Good
    BY <1>1, <1>3, <1>4, UpTo
  <2>2. n \in 0 .. n
    BY <1>1
  <2> QED
    BY <2>1, <2>2
<1> DEFINE tokens == LexEnd(all).tokens
           open   == OpenIn(tokens)
<1>6. ~ LexEnd(all).inside /\ Shape(tokens, kinds, 0)
  <2>1. n - n = 0
    BY <1>1
  <2> QED
    BY <1>2, <1>5, <2>1
<1>7. Lexed(all) = tokens
  <2>1. Lexed(SubSeq(all, 1, Len(all))) =
          IF f[Len(all)].inside THEN Append(f[Len(all)].tokens, "junk") ELSE f[Len(all)].tokens
    BY <1>1, <1>2, LexedPrefix DEF f
  <2>2. SubSeq(all, 1, Len(all)) = all
    BY <1>2, SubSeqAll
  <2>3. f[Len(all)] = LexEnd(all)
    BY DEF LexEnd, f
  <2> QED
    BY <1>6, <2>1, <2>2, <2>3
<1> HIDE DEF tokens
<1>8. Tidy(tokens) /\ Len(open) = 1 /\ Whole(open[1])
  BY <1>6 DEF Shape, Agree
<1>9. IsJson(all)
  BY <1>7, <1>8 DEF IsJson, Whole
<1> QED
  BY <1>7, <1>8, <1>9 DEF all

\* What the history holds: the events of a text.
Told == [is: Containers \cup {"scalar", "string", "end"}, name: Seq(Unit),
         value: Seq(Unit)]

\* As long as no call has failed, the builder stands where the history says.
BuildInv ==
  /\ nested \in Nests /\ written \in Seq(Told)
  /\ unbroken =>
       IF written = <<>> THEN builder \in Builders /\ Items = <<>> /\ nested = <<>>
       ELSE Stands(builder, nested)

\* Where nothing is written, nothing is open.
LEMMA EmptyIsLegible ==
  Legible(<<>>) /\ Unclosed(<<>>) = OpenStart
<1> DEFINE t == <<>>
<1>1. t \in Seq(Unit) /\ Len(t) = 0
  OBVIOUS
<1> HIDE DEF t
<1>2. LexEnd(t) = LexStart
  <2>1. IsLexOf(LexOf(t), t)
    BY <1>1, LexedUnfolds DEF LexOf
  <2> QED
    BY <1>1, <2>1 DEF IsLexOf, LexEnd
<1>3. LexEnd(t).inside = FALSE /\ LexEnd(t).tokens = <<>>
  BY <1>2 DEF LexStart
<1>4. Tidy(<<>>)
  BY DEF Tidy
<1> QED
  BY <1>1, <1>3, <1>4, OpenInStart DEF Legible, Unclosed, t

\* A new builder.
LEMMA InitBuildInv == BuildInit => BuildInv
<1> SUFFICES ASSUME BuildInit
             PROVE  BuildInv
  OBVIOUS
<1>1. PICK capacity \in Capacities : builder = NewBuilder(capacity)
  BY DEF BuildInit
<1>2. capacity \in Nat
  BY JsonBuildingAssumption
<1>3. NewBuilder(capacity) \in Builders /\ NewBuilder(capacity).json.items = <<>>
  BY <1>2 DEF NewBuilder, EmptySpan, Builders, SpanOf, AzResults
<1>4. nested = <<>> /\ written = <<>> /\ nested \in Nests /\ written \in Seq(Told)
  BY DEF BuildInit, Nests
<1> QED
  BY <1>1, <1>3, <1>4 DEF BuildInv, Items

\* A call that begins is not told of failures.
LEMMA FreshFacts ==
  /\ builder \in Builders => Fresh \in Builders /\ Fresh.json = builder.json
  /\ \A kinds \in Nests : Stands(builder, kinds) => Stands(Fresh, kinds)
<1>1. ASSUME builder \in Builders
      PROVE  /\ Fresh \in Builders /\ Fresh.json = builder.json
             /\ Fresh.needComma = builder.needComma
  BY <1>1 DEF Fresh, Builders, AzResults
<1> QED
  BY <1>1 DEF Stands

\* What a call keeps: the rest is what becomes of the builder.
LEMMA BuildsKeeps ==
  ASSUME BuildInv, NEW b, NEW event \in Told, NEW kinds \in Nests,
         Builds(b, event, kinds),
         unbroken /\ b.result = "OK" => Stands(b, kinds)
  PROVE  BuildInv'
<1>1. unbroken' => unbroken /\ b.result = "OK"
  BY DEF Builds
<1>2. nested' \in Nests /\ written' \in Seq(Told)
  BY AppendProperties DEF Builds, BuildInv
<1>3. ASSUME unbroken'
      PROVE  written' # <<>> /\ builder' = b /\ nested' = kinds
  <2>1. written' = Append(written, event) /\ builder' = b /\ nested' = kinds
    BY <1>1, <1>3 DEF Builds
  <2>2. written \in Seq(Told)
    BY DEF BuildInv
  <2>3. Len(Append(written, event)) = Len(written) + 1 /\ Len(written) \in Nat
    BY <2>2, AppendProperties, LenProperties
  <2>4. Append(written, event) # <<>>
    BY <2>3
  <2> QED
    BY <2>1, <2>4
<1> QED
  BY <1>1, <1>2, <1>3 DEF BuildInv

\* What an application appends, and what it notes of it.
LEMMA TokenFacts ==
  ASSUME NEW x \in Tokens
  PROVE  /\ IsToken(x)
         /\ OpenWith(x) = IF x.kind \in Containers THEN Append(nested, BitOf(x.kind)) ELSE nested
         /\ \A string \in Seq(Unit) : ReadAs(x, string) \in Told
         /\ nested \in Nests => OpenWith(x) \in Nests
<1>1. IsToken(x)
  BY JsonBuildingAssumption DEF IsToken
<1>2. x.kind \in Containers \cup Scalars \cup Texts
  BY <1>1 DEF IsToken
<1>3. OpenWith(x) = IF x.kind \in Containers THEN Append(nested, BitOf(x.kind)) ELSE nested
  BY DEF OpenWith, Containers, BitOf
<1>4. ASSUME NEW string \in Seq(Unit)
      PROVE  ReadAs(x, string) \in Told
  <2>1. x.value \in Seq(Unit)
    BY JsonBuildingAssumption
  <2>2. ShownSpan(x.value) \in Seq(Unit)
    <3> DEFINE v == x.value
    <3>1. v \in Seq(Unit) /\ DOMAIN v = 1 .. Len(v) /\ Len(v) \in Nat
      BY <2>1
    <3>2. "escape" \in Unit
      BY Zenon, JsonTextAssumption
    <3> HIDE DEF v
    <3>3. ASSUME NEW i \in 1 .. Len(v)
          PROVE  ShownSpan(v)[i] \in Unit
      BY <3>1, <3>2, <3>3 DEF ShownSpan
    <3>4. ShownSpan(v) = [i \in 1 .. Len(v) |-> ShownSpan(v)[i]]
      BY <3>1 DEF ShownSpan
    <3>5. ShownSpan(v) \in [1 .. Len(v) -> Unit]
      BY <3>3, <3>4
    <3> QED
      BY <3>1, <3>5 DEF v
  <2>3. ReadAs(x, string).is \in Containers \cup {"scalar", "string", "end"}
    BY <1>2 DEF ReadAs, Containers, Scalars, Texts
  <2>4. ReadAs(x, string).value \in Seq(Unit)
    BY <2>1, <2>2 DEF ReadAs
  <2> HIDE DEF Told
  <2> QED
    BY <1>4, <2>3, <2>4 DEF ReadAs, Told
<1>5. nested \in Nests => OpenWith(x) \in Nests
  <2>1. BitOf(x.kind) \in {Object, Array}
    BY DEF BitOf
  <2> QED
    BY <1>3, <2>1, AppendProperties DEF Nests
<1> QED
  BY <1>1, <1>3, <1>4, <1>5

\* Where a call is made in a container, something has been written.
LEMMA InsideStands ==
  ASSUME BuildInv, NEW item, StandsIn(item)
  PROVE  /\ nested \in Nests /\ nested # <<>> /\ nested[Len(nested)] = item
         /\ unbroken => Stands(Fresh, nested)
<1>1. nested \in Nests /\ nested # <<>> /\ nested[Len(nested)] = item
  BY DEF BuildInv, StandsIn, Last
<1>2. unbroken => Stands(builder, nested)
  BY <1>1 DEF BuildInv
<1> QED
  BY <1>1, <1>2, FreshFacts

\* Every call of the builder, whatever room is left.
LEMMA NextBuildInv == BuildInv /\ [BuildNext]_buildVars => BuildInv'
<1> SUFFICES ASSUME BuildInv, [BuildNext]_buildVars
             PROVE  BuildInv'
  OBVIOUS
<1>1. <<>> \in Seq(Unit)
  OBVIOUS
<1>2. ASSUME NEW x \in Tokens, BuildValue(x)
      PROVE  BuildInv'
  <2> DEFINE c == AppendToken(Fresh, x)
             kinds == IF x.kind \in Containers THEN <<BitOf(x.kind)>> ELSE <<>>
  <2>1. Builds(c, ReadAs(x, <<>>), OpenWith(x)) /\ written = <<>>
    BY <1>2 DEF BuildValue
  <2>2. ASSUME unbroken, c.result = "OK"
        PROVE  Stands(c, OpenWith(x))
    <3>1. /\ Fresh \in Builders /\ Fresh.json.items = <<>> /\ nested = <<>>
      BY <2>1, <2>2, FreshFacts DEF BuildInv, Items
    <3>2. Legible(Fresh.json.items) /\ Unclosed(Fresh.json.items) = OpenStart
      BY <3>1, EmptyIsLegible
    <3>3. MayBegin(OpenStart)
      BY OpenStartTyped DEF MayBegin, Outside, AllClosed
    <3>4. Holds(Fresh, x.kind, c)
      BY <2>2, <3>1, <3>2, <3>3, TokenFacts, AppendTokenHolds
    <3> HIDE DEF c
    <3>5. Stands(c, kinds)
      BY <3>2, <3>4, HoldsFirst
    <3>6. OpenWith(x) = kinds
      <4>1. Append(<<>>, BitOf(x.kind)) = <<BitOf(x.kind)>>
        OBVIOUS
      <4> QED
        BY <3>1, <4>1, TokenFacts
    <3> QED
      BY <3>5, <3>6
  <2> HIDE DEF c
  <2>3. ReadAs(x, <<>>) \in Told /\ OpenWith(x) \in Nests
    BY <1>1, TokenFacts DEF BuildInv
  <2> QED
    BY <2>1, <2>2, <2>3, BuildsKeeps
<1>3. ASSUME NEW x \in Tokens, BuildItem(x)
      PROVE  BuildInv'
  <2> DEFINE c == AppendArrayItem(Fresh, x)
  <2>1. Builds(c, ReadAs(x, <<>>), OpenWith(x)) /\ StandsIn(Array)
    BY <1>3 DEF BuildItem
  <2>2. /\ nested \in Nests /\ nested # <<>> /\ nested[Len(nested)] = Array
        /\ unbroken => Stands(Fresh, nested)
    BY <2>1, InsideStands
  <2>3. ASSUME unbroken, c.result = "OK"
        PROVE  Stands(c, OpenWith(x))
    <3>1. IsToken(x)
      BY TokenFacts
    <3>2. Stands(c, IF x.kind \in Containers THEN Append(nested, BitOf(x.kind)) ELSE nested)
      BY <2>2, <2>3, <3>1, ItemStands
    <3> QED
      BY <3>2, TokenFacts
  <2> HIDE DEF c
  <2>4. ReadAs(x, <<>>) \in Told /\ OpenWith(x) \in Nests
    BY <1>1, <2>2, TokenFacts
  <2> QED
    BY <2>1, <2>3, <2>4, BuildsKeeps
<1>4. ASSUME NEW x \in Tokens, NEW string \in MemberNames, BuildMember(string, x)
      PROVE  BuildInv'
  <2> DEFINE c == AppendObject(Fresh, string, x)
  <2>1. Builds(c, ReadAs(x, string), OpenWith(x)) /\ StandsIn(Object)
    BY <1>4 DEF BuildMember
  <2>2. /\ nested \in Nests /\ nested # <<>> /\ nested[Len(nested)] = Object
        /\ unbroken => Stands(Fresh, nested)
    BY <2>1, InsideStands
  <2>3. string \in Seq(Unit) /\ Escapeless(string)
    BY JsonBuildingAssumption
  <2>4. ASSUME unbroken, c.result = "OK"
        PROVE  Stands(c, OpenWith(x))
    <3>1. IsToken(x)
      BY TokenFacts
    <3>2. Stands(c, IF x.kind \in Containers THEN Append(nested, BitOf(x.kind)) ELSE nested)
      BY <2>2, <2>3, <2>4, <3>1, MemberStands
    <3> QED
      BY <3>2, TokenFacts
  <2> HIDE DEF c
  <2>5. ReadAs(x, string) \in Told /\ OpenWith(x) \in Nests
    BY <2>2, <2>3, TokenFacts
  <2> QED
    BY <2>1, <2>4, <2>5, BuildsKeeps
<1>5. ASSUME NEW item \in {Object, Array}, StandsIn(item), NEW c, c = WriteClose(Fresh, Close(item)),
             Builds(c, EndEvent, Front(nested))
      PROVE  BuildInv'
  <2>1. /\ nested \in Nests /\ nested # <<>> /\ nested[Len(nested)] = item
        /\ unbroken => Stands(Fresh, nested)
    BY <1>5, InsideStands
  <2>2. ASSUME unbroken, c.result = "OK"
        PROVE  Stands(c, Front(nested))
    BY <1>5, <2>1, <2>2, CloseStands
  <2>3. EndEvent \in Told
    BY <1>1 DEF EndEvent, Told
  <2>4. Front(nested) \in Nests
    <3>1. Len(nested) > 0
      BY <2>1, LenProperties, EmptySeq DEF Nests
    <3> QED
      BY <2>1, <3>1, FrontFacts
  <2> QED
    BY <1>5, <2>2, <2>3, <2>4, BuildsKeeps
<1>6. CASE CloseObject
  BY <1>5, <1>6 DEF CloseObject, AppendObjectClose
<1>7. CASE CloseArray
  BY <1>5, <1>7 DEF CloseArray, AppendArrayClose
<1>8. CASE UNCHANGED buildVars
  BY <1>8 DEF buildVars, BuildInv, Items
<1> QED
  BY <1>2, <1>3, <1>4, <1>6, <1>7, <1>8 DEF BuildNext

\* The closing brackets, innermost first, are those that Reverse gives.
LEMMA BuiltCanBeClosed == BuildInv => CanBeClosed
<1> SUFFICES ASSUME BuildInv, unbroken, written # <<>>
             PROVE  LET closing == Reverse([i \in DOMAIN nested |-> Close(nested[i])])
                        tokens  == Lexed(Items \o closing)
                    IN  /\ IsJson(Items \o closing)
                        /\ \A i \in 1 .. Len(tokens) - 1 :
                             tokens[i] = "," => tokens[i + 1] \notin {"}", "]", ","}
  BY Zenon DEF CanBeClosed
<1> DEFINE brackets == [i \in DOMAIN nested |-> Close(nested[i])]
           closing == Reverse(brackets)
           n == Len(nested)
<1>1. /\ nested \in Nests /\ Legible(Items) /\ Shape(LexEnd(Items).tokens, nested, n)
  BY DEF BuildInv, Stands, Items
<1>2. n \in Nat /\ DOMAIN nested = 1 .. n
  BY <1>1, LenProperties DEF Nests
<1>3. \A i \in 1 .. n : Close(nested[i]) \in Unit
  BY ClosingFacts
<1> HIDE DEF n
<1>4. /\ brackets \in Seq(Unit) /\ Len(brackets) = n
      /\ \A i \in 1 .. n : brackets[i] = Close(nested[i])
  <2>1. brackets \in [1 .. n -> Unit]
    BY <1>2, <1>3
  <2>2. \A i \in 1 .. n : brackets[i] = Close(nested[i])
    BY <1>2
  <2> HIDE DEF brackets
  <2> QED
    BY <1>2, <2>1, <2>2, SeqDef
<1> HIDE DEF brackets
<1>5. closing = [i \in 1 .. n |-> brackets[n - i + 1]]
  BY <1>4 DEF Reverse
<1> HIDE DEF closing
<1>6. \A i \in 1 .. n : n - i + 1 \in 1 .. n
  BY <1>2
<1>7. /\ closing \in Seq(Unit) /\ Len(closing) = n
      /\ \A i \in 1 .. n : closing[i] = Close(nested[n - i + 1])
  <2>1. \A i \in 1 .. n : brackets[n - i + 1] \in Unit
    BY <1>3, <1>4, <1>6
  <2>2. closing \in [1 .. n -> Unit]
    BY <1>5, <2>1
  <2>3. \A i \in 1 .. n : closing[i] = Close(nested[n - i + 1])
    BY <1>4, <1>5, <1>6
  <2> QED
    BY <1>2, <2>2, <2>3, SeqDef
<1> DEFINE tokens == Lexed(Items \o closing)
<1>8. IsJson(Items \o closing) /\ Tidy(tokens)
  BY <1>1, <1>7, ClosingWorks DEF n
<1> HIDE DEF tokens
<1>9. \A i \in 1 .. Len(tokens) - 1 : IsComma(tokens[i]) => ~ IsBreak(tokens[i + 1])
  BY <1>8 DEF Tidy
<1>10. \A i \in 1 .. Len(tokens) - 1 :
         tokens[i] = "," => tokens[i + 1] \notin {"}", "]", ","}
  BY <1>9, Zenon DEF IsComma, IsBreak
<1> QED
  BY <1>8, <1>10, Zenon DEF tokens, closing, brackets

\* Whatever values, names and containers an application appends, in whatever
\* order the nesting allows and whatever room its buffer has: as long as no call
\* of the builder has failed, the text becomes JSON with the closing brackets of
\* what is open, and no comma is left in front of one (az_json_builder.c:58-144,
\* where one flag has to know what stands before the next token).
THEOREM BuiltTextCanBeClosed == BuildSpec => []CanBeClosed
<1>1. BuildSpec => []BuildInv
  BY InitBuildInv, NextBuildInv, PTL DEF BuildSpec
<1> QED
  BY <1>1, BuiltCanBeClosed, PTL
=============================================================================
