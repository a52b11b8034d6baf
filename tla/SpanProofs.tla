----------------------------- MODULE SpanProofs -----------------------------
(***************************************************************************)
(* What the operations of Span return, for every span and argument of the  *)
(* right type; and what the proofs need that speak of recursive functions. *)
(***************************************************************************)
EXTENDS Span, TLAPS, SequenceTheorems, WellFoundedInduction

\* az_span_append yields a span of the same capacity: the items behind what
\* was there, or no change at all.
THEOREM SpanAppendFacts ==
  ASSUME NEW Item, NEW span \in SpanOf(Item), NEW items \in Seq(Item)
  PROVE  LET appended == SpanAppend(span, items)
         IN  /\ appended.object \in SpanOf(Item)
             /\ appended.object.capacity = span.capacity
             /\ appended.result \in {"OK", "ERROR_BUFFER_OVERFLOW"}
             /\ appended.result = "OK" => appended.object.items = span.items \o items
             /\ appended.result # "OK" => appended.object = span
<1> DEFINE longer == [span EXCEPT !.items = @ \o items]
<1>1. CASE SpanLength(span) + Len(items) <= span.capacity
  <2>1. /\ span.items \o items \in Seq(Item)
        /\ Len(span.items \o items) = Len(span.items) + Len(items)
    BY ConcatProperties DEF SpanOf
  <2>2. /\ longer.items = span.items \o items
        /\ longer.capacity = span.capacity
        /\ longer \in [items: Seq(Item), capacity: Nat]
    BY <2>1 DEF SpanOf
  <2>3. longer \in SpanOf(Item)
    BY <1>1, <2>1, <2>2 DEF SpanOf, SpanLength
  <2> QED
    BY <1>1, <2>2, <2>3 DEF SpanAppend, Success
<1>2. CASE ~ (SpanLength(span) + Len(items) <= span.capacity)
  BY <1>2 DEF SpanAppend, Failure
<1> QED
  BY <1>1, <1>2

\* _az_span_replace keeps the span within its capacity, or refuses and changes
\* nothing.
THEOREM SpanReplaceFacts ==
  ASSUME NEW Item, NEW span \in SpanOf(Item), NEW items \in Seq(Item),
         NEW start \in Nat, NEW end \in Nat
  PROVE  LET replaced == SpanReplace(span, start, end, items)
         IN  /\ replaced.object \in SpanOf(Item)
             /\ replaced.object.capacity = span.capacity
             /\ replaced.result \in {"OK", "ERROR_ARG"}
             /\ replaced.result = "OK" =>
                  Len(replaced.object.items)
                    = (start + Len(items)) + (Len(span.items) - end)
             /\ replaced.result # "OK" => replaced.object = span
<1> DEFINE front   == SubSeq(span.items, 1, start)
           back    == SubSeq(span.items, end + 1, Len(span.items))
           spliced == front \o items \o back
           changed == [span EXCEPT !.items = SubSeq(@, 1, start) \o items
                                                \o SubSeq(@, end + 1, Len(@))]
<1>1. CASE ReplaceContracts(span, start, end, items)
  <2>1. /\ span.items \in Seq(Item) /\ Len(span.items) \in Nat
        /\ span.capacity \in Nat /\ Len(items) \in Nat
    BY LenProperties DEF SpanOf
  <2>2. /\ start <= Len(span.items) /\ end <= Len(span.items) /\ start <= end
        /\ Len(span.items) - (end - start) + Len(items) <= span.capacity
    BY <1>1 DEF ReplaceContracts, SpanLength
  <2>3. front \in Seq(Item) /\ Len(front) = start
    BY <2>1, <2>2, SubSeqProperties
  <2>4. back \in Seq(Item) /\ Len(back) = Len(span.items) - end
    BY <2>1, <2>2, SubSeqProperties
  <2> HIDE DEF front, back
  <2>5. front \o items \in Seq(Item) /\ Len(front \o items) = start + Len(items)
    BY <2>3, ConcatProperties
  <2>6. /\ spliced \in Seq(Item)
        /\ Len(spliced) = Len(front \o items) + Len(back)
    BY <2>4, <2>5, ConcatProperties
  <2>7. /\ Len(spliced) = (start + Len(items)) + (Len(span.items) - end)
        /\ Len(spliced) <= span.capacity
    <3>1. Len(spliced) = (start + Len(items)) + (Len(span.items) - end)
      BY <2>4, <2>5, <2>6, Zenon
    <3>2. \A m, n, room \in Nat :
            m - (end - start) + n <= room => (start + n) + (m - end) <= room
      OBVIOUS
    <3> QED
      BY <2>1, <2>2, <3>1, <3>2, Zenon
  <2>8. /\ changed.items = spliced
        /\ changed.capacity = span.capacity
        /\ changed \in [items: Seq(Item), capacity: Nat]
    BY <2>1, <2>6 DEF SpanOf, front, back
  <2> HIDE DEF spliced, changed
  <2>9. changed \in SpanOf(Item)
    BY <2>7, <2>8 DEF SpanOf
  <2>10. SpanReplace(span, start, end, items) = [result |-> "OK", object |-> changed]
    BY <1>1 DEF SpanReplace, Success, changed
  <2>11. /\ SpanReplace(span, start, end, items).result = "OK"
         /\ SpanReplace(span, start, end, items).object = changed
    BY <2>10
  <2> QED
    BY <2>7, <2>8, <2>9, <2>11, Zenon
<1>2. CASE ~ ReplaceContracts(span, start, end, items)
  BY <1>2 DEF SpanReplace, Failure
<1> QED
  BY <1>1, <1>2

\* Every set of naturals that is not empty has a least element.
LEMMA LeastNatural ==
  ASSUME NEW S \in SUBSET Nat, S # {}
  PROVE  \E n \in S : \A m \in S : n <= m
<1> DEFINE R == {pair \in Nat \X Nat : pair[1] < pair[2]}
<1>1. IsWellFoundedOn(R, Nat)
  BY NatLessThanWellFounded DEF OpToRel
<1>2. PICK n \in S : \A m \in S : ~ (<<m, n>> \in R)
  BY <1>1, WFMin
<1>3. ASSUME NEW m \in S, m < n
      PROVE  FALSE
  <2>1. <<m, n>> \in R
    BY <1>3
  <2> QED
    BY <1>2, <2>1
<1> QED
  BY <1>3

\* FirstIn finds a unit of the set, at p or behind it and inside the text, if
\* there is one; what is in front of it is not of the set.
LEMMA FirstInFacts ==
  ASSUME NEW Item, NEW t \in Seq(Item), NEW p \in Nat \ {0}, NEW S
  PROVE  LET f == FirstIn(t, p, S)
         IN  /\ f \in Nat
             /\ f # 0 => f \in p .. Len(t) /\ t[f] \in S
             /\ \A q \in p .. Len(t) : t[q] \in S => f # 0
             /\ f # 0 => \A q \in p .. f - 1 : t[q] \notin S
<1> DEFINE Hits == {q \in p .. Len(t) : t[q] \in S}
<1>1. CASE Hits = {}
  BY <1>1 DEF FirstIn
<1>2. CASE Hits # {}
  <2>1. Hits \in SUBSET Nat
    OBVIOUS
  <2>2. PICK q \in Hits : \A m \in Hits : q <= m
    BY <1>2, <2>1, LeastNatural
  <2>3. q \in p .. Len(t) /\ t[q] \in S /\ \A r \in p .. q - 1 : t[r] \notin S
    BY <2>2
  <2>4. /\ FirstIn(t, p, S) \in p .. Len(t)
        /\ t[FirstIn(t, p, S)] \in S
        /\ \A r \in p .. FirstIn(t, p, S) - 1 : t[r] \notin S
    BY <2>3 DEF FirstIn
  <2> QED
    BY <2>4
<1> QED
  BY <1>1, <1>2
------------------------------------------------------------------------------
(***************************************************************************)
(* Functions that are defined by recursion over the natural numbers.       *)
(***************************************************************************)
\* Induction up to n, over the set of the numbers that are reached.
LEMMA UpTo ==
  ASSUME NEW n \in Nat, NEW S, 0 \in S, \A k \in 0 .. n - 1 : k \in S => k + 1 \in S
  PROVE  0 .. n \subseteq S
<1> DEFINE Missing == {k \in 0 .. n : k \notin S}
<1>1. Missing \in SUBSET Nat
  OBVIOUS
<1>2. Missing = {}
  <2> SUFFICES ASSUME Missing # {}
               PROVE  FALSE
    OBVIOUS
  <2>1. PICK k \in Missing : \A m \in Missing : k <= m
    BY <1>1, LeastNatural
  <2>2. k \in 0 .. n /\ k \notin S /\ k # 0
    BY <2>1
  <2>3. k - 1 \in 0 .. n - 1 /\ k - 1 \notin Missing
    BY <2>1, <2>2
  <2> QED
    BY <2>2, <2>3
<1> QED
  BY <1>2

\* The beginning of a sequence.
LEMMA PrefixFacts ==
  ASSUME NEW S, NEW s \in Seq(S), NEW k \in 0 .. Len(s)
  PROVE  /\ SubSeq(s, 1, k) \in Seq(S)
         /\ Len(SubSeq(s, 1, k)) = k
         /\ \A i \in 1 .. k : SubSeq(s, 1, k)[i] = s[i]
<1>1. Len(s) \in Nat /\ k \in Nat /\ \A i \in 1 .. k : s[i] \in S
  BY LenProperties
<1> QED
  BY <1>1, SubSeqProperties

\* The functions on 0 .. n that begin with first and go on by step.
Recursive(n, S, first, step) ==
  {f \in [0 .. n -> S] : f[0] = first /\ \A i \in 1 .. n : f[i] = step[i][f[i - 1]]}

\* There is one.
LEMMA NatRecursion ==
  ASSUME NEW n \in Nat, NEW S, NEW first \in S, NEW step \in [1 .. n -> [S -> S]]
  PROVE  Recursive(n, S, first, step) # {}
<1> DEFINE Grows(f, k) == f[0] = first /\ \A i \in 1 .. k : f[i] = step[i][f[i - 1]]
           Reached == {k \in 0 .. n : \E f \in [0 .. k -> S] : Grows(f, k)}
<1>1. 0 \in Reached
  <2> DEFINE f == [i \in 0 .. 0 |-> first]
  <2>1. f \in [0 .. 0 -> S] /\ f[0] = first
    OBVIOUS
  <2> HIDE DEF f
  <2>2. Grows(f, 0)
    BY <2>1
  <2> HIDE DEF Grows
  <2> QED
    BY <2>1, <2>2
<1>2. ASSUME NEW k \in 0 .. n - 1, k \in Reached
      PROVE  k + 1 \in Reached
  <2>1. PICK f \in [0 .. k -> S] : Grows(f, k)
    BY <1>2
  <2> DEFINE last == step[k + 1][f[k]]
             g    == [i \in 0 .. k + 1 |-> IF i = k + 1 THEN last ELSE f[i]]
  <2>2. last \in S
    <3>1. k + 1 \in 1 .. n /\ k \in 0 .. k
      OBVIOUS
    <3>2. f[k] \in S
      BY <3>1
    <3>3. step[k + 1] \in [S -> S]
      BY <3>1
    <3> QED
      BY <3>2, <3>3
  <2>3. g \in [0 .. k + 1 -> S]
    <3> HIDE DEF last
    <3> QED
      BY <2>2
  <2>4. Grows(g, k + 1)
    <3>1. g[0] = first
      BY <2>1
    <3>2. ASSUME NEW i \in 1 .. k + 1
          PROVE  g[i] = step[i][g[i - 1]]
      <4>1. CASE i = k + 1
        <5>1. g[i] = last /\ g[i - 1] = f[k]
          BY <4>1
        <5> HIDE DEF g
        <5> QED
          BY <4>1, <5>1
      <4>2. CASE i # k + 1
        <5>1. i \in 1 .. k /\ g[i] = f[i] /\ g[i - 1] = f[i - 1]
          BY <4>2
        <5> HIDE DEF g
        <5> QED
          BY <2>1, <5>1
      <4> QED
        BY <4>1, <4>2
    <3> HIDE DEF g
    <3> QED
      BY <3>1, <3>2
  <2>5. k + 1 \in 0 .. n
    OBVIOUS
  <2> HIDE DEF g, Grows
  <2> QED
    BY <2>3, <2>4, <2>5
<1> HIDE DEF Reached
<1>3. n \in Reached
  <2>1. 0 .. n \subseteq Reached
    BY <1>1, <1>2, UpTo
  <2> QED
    BY <2>1
<1> QED
  BY <1>3 DEF Reached, Recursive
=============================================================================
