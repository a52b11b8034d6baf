-------------------------- MODULE SpanCallsProofs --------------------------
(***************************************************************************)
(* Theorems about NumberReading and SpanCalls, for every text and every    *)
(* size of the words, the buffers and the rooms: a number that is returned *)
(* is the number that was read, only numbers that a word cannot hold are   *)
(* refused, and no call on spans writes outside of its room.               *)
(***************************************************************************)
EXTENDS SpanCalls, SpanProofs


(***************************************************************************)
(* Remainders.                                                             *)
(***************************************************************************)
LEMMA DivMod ==
  ASSUME NEW a \in Int, NEW m \in Nat \ {0}
  PROVE  /\ a = m * (a \div m) + (a % m)
         /\ a % m \in 0 .. m - 1
         /\ a \div m \in Int
OBVIOUS

\* Two remainders that differ by a multiple do not differ.
LEMMA SameRemainder ==
  ASSUME NEW m \in Nat \ {0}, NEW z \in Int,
         NEW r \in 0 .. m - 1, NEW s \in 0 .. m - 1,
         r - s = m * z
  PROVE  r = s
<1>1. CASE z >= 1
  <2>1. m * z >= m
    BY <1>1
  <2> QED
    BY <2>1
<1>2. CASE z <= -1
  <2>1. m * z <= - m
    BY <1>2
  <2> QED
    BY <2>1
<1>3. CASE z = 0
  BY <1>3
<1> QED
  BY <1>1, <1>2, <1>3

LEMMA Congruent ==
  ASSUME NEW a \in Int, NEW m \in Nat \ {0}, NEW k \in Int
  PROVE  (a + m * k) % m = a % m
<1> DEFINE b == a + m * k
           r == b % m
           s == a % m
           z == (a \div m) - (b \div m) + k
<1>1. b = m * (b \div m) + r /\ r \in 0 .. m - 1 /\ b \div m \in Int
  BY DivMod
<1>2. a = m * (a \div m) + s /\ s \in 0 .. m - 1 /\ a \div m \in Int
  BY DivMod
<1>3. z \in Int /\ r - s = m * z
  BY <1>1, <1>2
<1> HIDE DEF r, s, z
<1>4. r = s
  BY <1>1, <1>2, <1>3, SameRemainder
<1> QED
  BY <1>4 DEF r, s

\* A word keeps what it can hold.
LEMMA WordHolds ==
  ASSUME NEW x \in 0 .. MaxWord
  PROVE  Word(x) = x
BY NumberAssumption DEF Word

(***************************************************************************)
(* Exponents in 16 bits differ from the true ones by a multiple of 2^16,   *)
(* and sums and products of such exponents by another.                     *)
(***************************************************************************)
LEMMA Int16Near ==
  ASSUME NEW x \in Int
  PROVE  /\ Int16(x) \in Int
         /\ \E k \in Int : Int16(x) = x + (2 * HalfExp) * k
<1> DEFINE m == 2 * HalfExp
           b == x + HalfExp
<1>1. m \in Nat \ {0} /\ b \in Int
  BY NumberAssumption
<1>2. Int16(x) = (b % m) - HalfExp
  BY DEF Int16
<1> HIDE DEF m
<1>3. b = m * (b \div m) + (b % m) /\ b % m \in 0 .. m - 1 /\ b \div m \in Int
  BY <1>1, DivMod
<1>4. Int16(x) = x + m * (- (b \div m)) /\ Int16(x) \in Int
  BY <1>1, <1>2, <1>3, NumberAssumption
<1>5. - (b \div m) \in Int
  BY <1>3
<1> QED
  BY <1>4, <1>5 DEF m

LEMMA Int16Around ==
  ASSUME NEW x \in Int, NEW k \in Int
  PROVE  Int16(x + (2 * HalfExp) * k) = Int16(x)
<1> DEFINE m == 2 * HalfExp
           b == x + HalfExp
<1>1. m \in Nat \ {0} /\ b \in Int
  BY NumberAssumption
<1>2. Int16(x) = (b % m) - HalfExp /\ Int16(x + m * k) = ((x + m * k + HalfExp) % m) - HalfExp
  BY DEF Int16
<1> HIDE DEF m
<1>3. x + m * k + HalfExp = b + m * k
  BY <1>1, NumberAssumption
<1>4. (b + m * k) % m = b % m
  BY <1>1, Congruent
<1> QED
  BY <1>2, <1>3, <1>4 DEF m

LEMMA Int16Linear ==
  ASSUME NEW x \in Int, NEW y \in Int, NEW c \in Int
  PROVE  Int16(Int16(x) * c + y) = Int16(x * c + y)
<1>1. PICK k \in Int : Int16(x) = x + (2 * HalfExp) * k
  BY Int16Near
<1>2. Int16(x) * c + y = (x * c + y) + (2 * HalfExp) * (k * c)
  BY <1>1, NumberAssumption
<1>3. x * c + y \in Int /\ k * c \in Int
  OBVIOUS
<1>4. Int16((x * c + y) + (2 * HalfExp) * (k * c)) = Int16(x * c + y)
  BY <1>3, Int16Around
<1> QED
  BY <1>2, <1>4

LEMMA Int16Sum ==
  ASSUME NEW x \in Int, NEW y \in Int
  PROVE  Int16(Int16(x) + y) = Int16(x + y)
<1>1. Int16(Int16(x) * 1 + y) = Int16(x * 1 + y)
  BY Int16Linear
<1>2. Int16(x) \in Int
  BY Int16Near
<1> QED
  BY <1>1, <1>2

LEMMA Int16OfBoth ==
  ASSUME NEW x \in Int, NEW y \in Int, NEW c \in {1, -1}
  PROVE  Int16(Int16(x) + Int16(y) * c) = Int16(x + c * y)
<1>1. Int16(x) \in Int /\ Int16(y) \in Int
  BY Int16Near
<1>2. Int16(Int16(y) * c + Int16(x)) = Int16(y * c + Int16(x))
  BY <1>1, Int16Linear
<1>3. Int16(Int16(x) + y * c) = Int16(x + y * c)
  BY Int16Sum
<1>4. /\ Int16(y) * c + Int16(x) = Int16(x) + Int16(y) * c
      /\ y * c + Int16(x) = Int16(x) + y * c
      /\ x + y * c = x + c * y
  BY <1>1
<1> QED
  BY <1>2, <1>3, <1>4

(***************************************************************************)
(* Digits that are kept and digits that are left out: v is what was kept   *)
(* of the digits, s ten to the power of how many were left out.            *)
(***************************************************************************)
CutOff(v, s, digits, dropped) ==
  /\ v * s <= digits /\ digits < (v + 1) * s
  /\ dropped > 0 => v > MaxNumber \div 10
  /\ dropped = 0 => s = 1

LEMMA LimitIsRound ==
  ASSUME NEW d \in 0 .. 9
  PROVE  (MaxNumber - d) \div 10 = MaxNumber \div 10
BY NumberAssumption

LEMMA DigitKept ==
  ASSUME NEW v \in 0 .. MaxNumber, NEW s \in Nat \ {0}, NEW digits \in Nat,
         NEW dropped \in Nat, NEW d \in 0 .. 9,
         CutOff(v, s, digits, dropped), v <= (MaxNumber - d) \div 10
  PROVE  /\ v * 10 + d \in 0 .. MaxNumber
         /\ v * s = digits /\ s = 1 /\ dropped = 0
         /\ CutOff(v * 10 + d, s, digits * 10 + d, dropped)
<1>1. dropped = 0 /\ s = 1
  BY LimitIsRound, NumberAssumption DEF CutOff
<1>2. v = digits
  BY <1>1 DEF CutOff
<1>3. v * 10 + d \in 0 .. MaxNumber
  BY NumberAssumption
<1> QED
  BY <1>1, <1>2, <1>3 DEF CutOff

LEMMA DigitLeftOut ==
  ASSUME NEW v \in 0 .. MaxNumber, NEW s \in Nat \ {0}, NEW digits \in Nat,
         NEW dropped \in Nat, NEW d \in 0 .. 9,
         CutOff(v, s, digits, dropped), ~ (v <= (MaxNumber - d) \div 10)
  PROVE  /\ CutOff(v, s * 10, digits * 10 + d, dropped + 1)
         /\ v * (s * 10) # digits * 10 + d <=> v * s # digits \/ d # 0
<1> DEFINE low  == v * s
           high == (v + 1) * s
<1>1. low \in Int /\ high \in Int /\ low <= digits /\ digits < high
  BY DEF CutOff
<1>2. v * (s * 10) = low * 10 /\ (v + 1) * (s * 10) = high * 10
  OBVIOUS
<1> HIDE DEF low, high
<1>3. low * 10 <= digits * 10 + d /\ digits * 10 + d < high * 10
  BY <1>1
<1>4. low * 10 # digits * 10 + d <=> low # digits \/ d # 0
  BY <1>1
<1>5. v > MaxNumber \div 10
  BY LimitIsRound, NumberAssumption
<1>6. CutOff(v, s * 10, digits * 10 + d, dropped + 1)
  BY <1>2, <1>3, <1>5 DEF CutOff
<1> QED
  BY <1>2, <1>4, <1>6 DEF low

(***************************************************************************)
(* The inductive invariant.                                                *)
(***************************************************************************)
JsonPhase == {"sign", "integer", "point", "fraction", "e", "exponent"}

Types ==
  /\ text \in Seq(Byte)
  /\ reader \in {"none", "uint64", "json"}
  /\ phase \in JsonPhase \cup {"uint64", "done"}
  /\ at \in Nat
  /\ n \in [value: 0 .. MaxWord, exp: Int, remainder: BOOLEAN, e_int: Int,
            e_sign: {1, -1}]
  /\ said \in [digits: Nat, places: Nat, dropped: Nat, scale: Nat \ {0}, power: Nat]

\* What is read next is there, and belongs to the reader.
InPlace ==
  /\ phase \in JsonPhase => reader = "json"
  /\ phase = "uint64" => reader = "uint64" /\ at >= 1
  /\ phase \in {"point", "e"} => at >= 1
  /\ phase \in {"integer", "fraction", "exponent"} => at >= 1 /\ DigitAt(at)

WordInv == reader = "uint64" => n.value = said.digits

ValueInv ==
  reader = "json" =>
    /\ n.value <= MaxNumber
    /\ CutOff(n.value, said.scale, said.digits, said.dropped)

RemainderInv ==
  reader = "json" => (n.remainder <=> n.value * said.scale # said.digits)

\* The exponent is put together at the end.
ExponentInv ==
  /\ phase \in JsonPhase => /\ n.exp = Int16(said.dropped - said.places)
                            /\ n.e_int = Int16(said.power)
  /\ phase \in JsonPhase \ {"exponent"} => said.power = 0
  /\ phase = "done" /\ reader = "json" /\ result = "OK" =>
       n.exp = Int16(said.dropped - said.places + n.e_sign * said.power)

IInv == /\ Types /\ InPlace /\ WordInv /\ ValueInv /\ RemainderInv /\ ExponentInv
        /\ RefusesOnlyTooLarge

\* The types after a step within a text.
LEMMA TypesKept ==
  ASSUME Types, UNCHANGED <<text, reader>>, at' \in Nat,
         phase' \in JsonPhase \cup {"uint64", "done"},
         n' \in [value: 0 .. MaxWord, exp: Int, remainder: BOOLEAN, e_int: Int,
                 e_sign: {1, -1}],
         said' \in [digits: Nat, places: Nat, dropped: Nat, scale: Nat \ {0}, power: Nat]
  PROVE  Types'
BY DEF Types

LEMMA Int16OfZero == Int16(0) = 0
<1>1. HalfExp \in 0 .. 2 * HalfExp - 1 /\ 2 * HalfExp \in Nat \ {0}
  BY NumberAssumption
<1>2. HalfExp % (2 * HalfExp) = HalfExp
  BY <1>1
<1> QED
  BY <1>1, <1>2, NumberAssumption DEF Int16

LEMMA DigitRange ==
  ASSUME NEW c, IsDigit(c)
  PROVE  DigitOf(c) \in 0 .. 9
BY DEF IsDigit, DigitOf, Zero

\* The state in which a number begins to be read.
LEMMA NothingRead ==
  ASSUME n = Nothing, said = NoDigits
  PROVE  /\ n \in [value: 0 .. MaxWord, exp: Int, remainder: BOOLEAN, e_int: Int,
                   e_sign: {1, -1}]
         /\ said \in [digits: Nat, places: Nat, dropped: Nat, scale: Nat \ {0}, power: Nat]
         /\ WordInv /\ ValueInv /\ RemainderInv
         /\ n.exp = Int16(said.dropped - said.places) /\ n.e_int = Int16(said.power)
         /\ said.power = 0
<1>1. CutOff(0, 1, 0, 0)
  BY DEF CutOff
<1>2. n.value * said.scale = said.digits /\ n.remainder = FALSE
  BY DEF Nothing, NoDigits
<1> QED
  BY <1>1, <1>2, Int16OfZero, NumberAssumption
     DEF Nothing, NoDigits, WordInv, ValueInv, RemainderInv

LEMMA InitIInv == NumberInit => IInv
<1> SUFFICES ASSUME NumberInit
             PROVE  IInv
  OBVIOUS
<1> USE DEF NumberInit
<1>1. Types
  BY NothingRead DEF Types
<1>2. WordInv /\ ValueInv /\ RemainderInv
  BY NothingRead
<1>3. InPlace /\ ExponentInv /\ RefusesOnlyTooLarge
  BY DEF InPlace, ExponentInv, RefusesOnlyTooLarge, JsonPhase
<1> QED
  BY <1>1, <1>2, <1>3 DEF IInv

(***************************************************************************)
(* The steps.                                                              *)
(***************************************************************************)
LEMMA BeginIInv ==
  ASSUME IInv, NEW chars \in Seq(Byte), BeginUint64(chars) \/ BeginJsonNumber(chars)
  PROVE  IInv'
<1> USE DEF BeginUint64, BeginJsonNumber, BeginReading
<1>1. n' = Nothing /\ said' = NoDigits /\ text' = chars /\ at' = 1 /\ result' = "OK"
  OBVIOUS
<1>2. \/ reader' = "uint64" /\ phase' = "uint64"
      \/ reader' = "json" /\ phase' = "sign"
  OBVIOUS
<1>3. /\ n' \in [value: 0 .. MaxWord, exp: Int, remainder: BOOLEAN, e_int: Int,
                 e_sign: {1, -1}]
      /\ said' \in [digits: Nat, places: Nat, dropped: Nat, scale: Nat \ {0}, power: Nat]
      /\ WordInv' /\ ValueInv' /\ RemainderInv'
      /\ n'.exp = Int16(said'.dropped - said'.places) /\ n'.e_int = Int16(said'.power)
      /\ said'.power = 0
  <2>1. CutOff(0, 1, 0, 0)
    BY DEF CutOff
  <2>2. n'.value * said'.scale = said'.digits /\ n'.remainder = FALSE
    BY <1>1 DEF Nothing, NoDigits
  <2> QED
    BY <1>1, <2>1, <2>2, Int16OfZero, NumberAssumption
       DEF Nothing, NoDigits, WordInv, ValueInv, RemainderInv
<1>4. Types'
  BY <1>1, <1>2, <1>3 DEF Types, JsonPhase
<1>5. InPlace' /\ ExponentInv' /\ RefusesOnlyTooLarge'
  BY <1>1, <1>2, <1>3 DEF InPlace, ExponentInv, RefusesOnlyTooLarge, JsonPhase
<1> QED
  BY <1>3, <1>4, <1>5 DEF IInv

LEMMA Uint64DigitIInv ==
  ASSUME IInv, Uint64Digit
  PROVE  IInv'
<1> DEFINE d == DigitOf(text[at])
<1>1. Types /\ n.value = said.digits /\ reader = "uint64" /\ phase = "uint64" /\ at >= 1
  BY DEF IInv, WordInv, InPlace, Uint64Digit
<1>2. /\ n.value \in 0 .. MaxWord /\ said.digits \in Nat /\ MaxWord \in Nat
      /\ IsDigit(text[at]) => d \in 0 .. 9
  BY <1>1, DigitRange, NumberAssumption DEF Types
<1>3. FitsWord(n.value, d) <=> n.value <= (MaxWord - d) \div 10
  BY DEF FitsWord
<1>4. CASE IsDigit(text[at]) /\ FitsWord(n.value, d)
  <2> HIDE DEF d
  <2>1. d \in 0 .. 9
    BY <1>2, <1>4
  <2>2. n.value * 10 + d \in 0 .. MaxWord
    BY <1>2, <1>3, <1>4, <2>1
  <2>3. n' = [n EXCEPT !.value = n.value * 10 + d]
    BY <1>4, <2>2, WordHolds DEF Uint64Digit, d
  <2>4. /\ said' = [said EXCEPT !.digits = said.digits * 10 + d, !.places = said.places + 0]
        /\ phase' = "uint64" /\ at' = at + 1 /\ UNCHANGED <<text, reader, result>>
    BY <1>4 DEF Uint64Digit, SayDigit, ReadsOn, d
  <2>5. n'.value = n.value * 10 + d /\ said'.digits = said.digits * 10 + d
    BY <1>1, <2>3, <2>4 DEF Types
  <2>6. Types'
    <3>1. n' \in [value: 0 .. MaxWord, exp: Int, remainder: BOOLEAN, e_int: Int,
                   e_sign: {1, -1}]
      BY <1>1, <2>2, <2>3 DEF Types
    <3>2. said' \in [digits: Nat, places: Nat, dropped: Nat, scale: Nat \ {0},
                      power: Nat]
      <4>1. said \in [digits: Nat, places: Nat, dropped: Nat, scale: Nat \ {0},
                      power: Nat]
        BY <1>1 DEF Types
      <4>2. said.digits * 10 + d \in Nat /\ said.places + 0 \in Nat
        BY <2>1, <4>1
      <4> QED
        BY <2>4, <4>1, <4>2
    <3>3. at' \in Nat /\ phase' \in JsonPhase \cup {"uint64", "done"}
      BY <1>1, <2>4 DEF Types
    <3> QED
      BY <1>1, <2>4, <3>1, <3>2, <3>3, TypesKept
  <2>7. WordInv' /\ ValueInv' /\ RemainderInv'
    BY <1>1, <2>4, <2>5 DEF WordInv, ValueInv, RemainderInv
  <2>8. InPlace' /\ ExponentInv' /\ RefusesOnlyTooLarge'
    BY <1>1, <2>4 DEF InPlace, ExponentInv, RefusesOnlyTooLarge, JsonPhase, Types
  <2> QED
    BY <2>6, <2>7, <2>8 DEF IInv
<1>5. CASE ~ (IsDigit(text[at]) /\ FitsWord(n.value, d))
  <2>1. /\ phase' = "done" /\ result' = "ERROR_PARSER_UNEXPECTED_CHAR"
        /\ UNCHANGED <<text, reader, at, n, said>>
    BY <1>5 DEF Uint64Digit, Returns
  <2>2. IsDigit(text[at]) => said.digits * 10 + d > MaxWord
    <3> HIDE DEF d
    <3> QED
      BY <1>1, <1>2, <1>3, <1>5
  <2>3. RefusesOnlyTooLarge'
    BY <1>1, <2>1, <2>2 DEF RefusesOnlyTooLarge
  <2>4. Types' /\ WordInv' /\ ValueInv' /\ RemainderInv'
    BY <1>1, <2>1 DEF IInv, Types, WordInv, ValueInv, RemainderInv
  <2>5. InPlace' /\ ExponentInv'
    BY <1>1, <2>1 DEF InPlace, ExponentInv, JsonPhase
  <2> QED
    BY <2>3, <2>4, <2>5 DEF IInv
<1> QED
  BY <1>4, <1>5

LEMMA Uint64EndIInv ==
  ASSUME IInv, Uint64End
  PROVE  IInv'
<1>1. /\ phase' = "done" /\ result' \in {"ERROR_EOF", "OK"}
      /\ UNCHANGED <<text, reader, at, n, said>> /\ reader = "uint64"
  BY DEF Uint64End, Returns, IInv, InPlace
<1>2. Types' /\ WordInv' /\ ValueInv' /\ RemainderInv'
  BY <1>1 DEF IInv, Types, WordInv, ValueInv, RemainderInv
<1>3. InPlace' /\ ExponentInv' /\ RefusesOnlyTooLarge'
  BY <1>1 DEF InPlace, ExponentInv, RefusesOnlyTooLarge, JsonPhase
<1> QED
  BY <1>2, <1>3 DEF IInv

LEMMA JsonSignIInv ==
  ASSUME IInv, JsonSign
  PROVE  IInv'
<1>1. /\ Types /\ WordInv /\ ValueInv /\ RemainderInv /\ ExponentInv
      /\ reader = "json" /\ phase = "sign"
  BY DEF IInv, InPlace, JsonSign, JsonPhase
<1>2. PICK p \in {1, 2} :
        \/ /\ ~ DigitAt(p) /\ Returns(NoDigit(p)) /\ at' = p
        \/ /\ DigitAt(p) /\ (ReadsOn("point", p + 1) \/ ReadsOn("integer", p))
  BY DEF JsonSign
<1>3. NoDigit(p) # "OK"
  BY DEF NoDigit
<1>4. UNCHANGED <<text, reader, n, said>> /\ at' \in {p, p + 1}
  BY <1>2 DEF JsonSign, Returns, ReadsOn
<1>5. \/ phase' = "done" /\ result' # "OK"
      \/ phase' = "point" /\ at' = p + 1
      \/ phase' = "integer" /\ at' = p /\ DigitAt(p)
  BY <1>2, <1>3 DEF Returns, ReadsOn
<1>6. Types'
  BY <1>1, <1>4, <1>5 DEF Types, JsonPhase
<1>7. WordInv' /\ ValueInv' /\ RemainderInv' /\ ExponentInv'
  BY <1>1, <1>4, <1>5 DEF WordInv, ValueInv, RemainderInv, ExponentInv, JsonPhase
<1>8. InPlace' /\ RefusesOnlyTooLarge'
  BY <1>1, <1>4, <1>5 DEF InPlace, RefusesOnlyTooLarge, JsonPhase, DigitAt
<1> QED
  BY <1>6, <1>7, <1>8 DEF IInv

LEMMA JsonPointIInv ==
  ASSUME IInv, JsonPoint
  PROVE  IInv'
<1>1. /\ Types /\ WordInv /\ ValueInv /\ RemainderInv /\ ExponentInv
      /\ reader = "json" /\ phase = "point" /\ at >= 1
  BY DEF IInv, InPlace, JsonPoint, JsonPhase
<1>2. NoDigit(at + 1) # "OK"
  BY DEF NoDigit
<1>3. UNCHANGED <<text, reader, n, said>> /\ at' \in {at, at + 1}
  BY DEF JsonPoint, Returns, ReadsOn
<1>4. \/ phase' = "done"
      \/ phase' = "e" /\ at' = at
      \/ phase' = "fraction" /\ at' = at + 1 /\ DigitAt(at + 1)
  BY DEF JsonPoint, Returns, ReadsOn
<1>5. Types'
  BY <1>1, <1>3, <1>4 DEF Types, JsonPhase
<1>6. WordInv' /\ ValueInv' /\ RemainderInv'
  BY <1>1, <1>3 DEF WordInv, ValueInv, RemainderInv
<1>7. InPlace' /\ RefusesOnlyTooLarge'
  BY <1>1, <1>3, <1>4 DEF InPlace, RefusesOnlyTooLarge, JsonPhase, DigitAt, Types
<1>8. ExponentInv'
  BY <1>1, <1>3, <1>4 DEF ExponentInv, JsonPhase, Types
<1> QED
  BY <1>5, <1>6, <1>7, <1>8 DEF IInv

LEMMA JsonEIInv ==
  ASSUME IInv, JsonE
  PROVE  IInv'
<1>1. /\ Types /\ WordInv /\ ValueInv /\ RemainderInv /\ ExponentInv
      /\ reader = "json" /\ phase = "e" /\ at >= 1
  BY DEF IInv, InPlace, JsonE, JsonPhase
<1>2. CASE at > Len(text) \/ text[at] \notin {SmallE, BigE}
  <2>1. phase' = "done" /\ UNCHANGED <<text, reader, at, n, said>>
    BY <1>2 DEF JsonE, Returns
  <2>2. Types' /\ WordInv' /\ ValueInv' /\ RemainderInv'
    BY <1>1, <2>1 DEF Types, WordInv, ValueInv, RemainderInv
  <2>3. InPlace' /\ RefusesOnlyTooLarge'
    BY <1>1, <2>1 DEF InPlace, RefusesOnlyTooLarge, JsonPhase
  <2>4. ExponentInv'
    BY <1>1, <2>1 DEF ExponentInv, JsonPhase, Types
  <2> QED
    BY <2>2, <2>3, <2>4 DEF IInv
<1>3. CASE ~ (at > Len(text) \/ text[at] \notin {SmallE, BigE})
  <2>1. PICK p \in {at + 1, at + 2} :
          IF DigitAt(p) THEN ReadsOn("exponent", p) ELSE Returns(NoDigit(p)) /\ at' = p
    BY <1>3 DEF JsonE
  <2>2. PICK sign \in {1, -1} : n' = [n EXCEPT !.e_sign = sign]
    BY <1>3 DEF JsonE
  <2>3. UNCHANGED <<text, reader, said>> /\ at' = p
    BY <2>1 DEF JsonE, Returns, ReadsOn
  <2>4. \/ phase' = "done" /\ result' # "OK"
        \/ phase' = "exponent" /\ DigitAt(p)
    BY <2>1 DEF Returns, ReadsOn, NoDigit
  <2>5. /\ n'.value = n.value /\ n'.remainder = n.remainder
        /\ n'.exp = n.exp /\ n'.e_int = n.e_int
        /\ n' \in [value: 0 .. MaxWord, exp: Int, remainder: BOOLEAN, e_int: Int,
                   e_sign: {1, -1}]
    BY <1>1, <2>2 DEF Types
  <2>6. Types'
    BY <1>1, <2>1, <2>3, <2>4, <2>5 DEF Types, JsonPhase
  <2>7. WordInv' /\ ValueInv' /\ RemainderInv'
    BY <1>1, <2>3, <2>5 DEF WordInv, ValueInv, RemainderInv
  <2>8. InPlace' /\ RefusesOnlyTooLarge'
    BY <1>1, <2>1, <2>3, <2>4 DEF InPlace, RefusesOnlyTooLarge, JsonPhase, DigitAt, Types
  <2>9. ExponentInv'
    BY <1>1, <2>3, <2>4, <2>5 DEF ExponentInv, JsonPhase
  <2> QED
    BY <2>6, <2>7, <2>8, <2>9 DEF IInv
<1> QED
  BY <1>2, <1>3

\* A digit before or behind the point.
LEMMA JsonDigitsIInv ==
  ASSUME IInv, NEW part \in {"integer", "fraction"}, NEW e_offset \in {0, -1},
         NEW next \in {"point", "e"}, JsonDigits(part, e_offset, next)
  PROVE  IInv'
<1> DEFINE d == DigitOf(text[at])
           kept == n.value <= (MaxNumber - d) \div 10
           nType == [value: 0 .. MaxWord, exp: Int, remainder: BOOLEAN, e_int: Int,
                     e_sign: {1, -1}]
           saidType == [digits: Nat, places: Nat, dropped: Nat, scale: Nat \ {0},
                        power: Nat]
<1>1. /\ Types /\ WordInv /\ ValueInv /\ RemainderInv /\ ExponentInv
      /\ reader = "json" /\ phase = part /\ at >= 1 /\ DigitAt(at) /\ d \in 0 .. 9
  BY DigitRange DEF IInv, InPlace, JsonDigits, JsonPhase, DigitAt
<1>2. /\ n' = KeepDigit(d, e_offset)
      /\ said' = IF kept THEN SayDigit(d, - e_offset) ELSE DropDigit(SayDigit(d, - e_offset))
      /\ at' = at + 1 /\ phase' = IF DigitAt(at + 1) THEN part ELSE next
      /\ UNCHANGED <<text, reader, result>>
  BY DEF JsonDigits, ReadsOn
<1>3. /\ n.value \in 0 .. MaxNumber /\ n.exp = Int16(said.dropped - said.places)
      /\ n.e_int = Int16(said.power) /\ said.power = 0
      /\ CutOff(n.value, said.scale, said.digits, said.dropped)
      /\ n.remainder <=> n.value * said.scale # said.digits
      /\ n \in nType /\ said \in saidType
  BY <1>1 DEF Types, ValueInv, RemainderInv, ExponentInv, JsonPhase
<1> HIDE DEF d
<1>4. /\ SayDigit(d, - e_offset) =
           [said EXCEPT !.digits = said.digits * 10 + d, !.places = said.places + (- e_offset)]
      /\ said.digits * 10 + d \in Nat /\ said.places + (- e_offset) \in Nat
  BY <1>1, <1>3 DEF SayDigit
<1>5. /\ n' \in nType /\ said' \in saidType /\ n'.value <= MaxNumber
      /\ CutOff(n'.value, said'.scale, said'.digits, said'.dropped)
      /\ n'.remainder <=> n'.value * said'.scale # said'.digits
      /\ n'.exp = Int16(said'.dropped - said'.places)
      /\ n'.e_int = n.e_int /\ said'.power = said.power
  <2>1. CASE kept
    <3>1. /\ n.value * 10 + d \in 0 .. MaxNumber
          /\ n.value * said.scale = said.digits /\ said.scale = 1 /\ said.dropped = 0
          /\ CutOff(n.value * 10 + d, said.scale, said.digits * 10 + d, said.dropped)
      BY <1>1, <1>3, <2>1, DigitKept
    <3>2. Word(n.value * 10 + d) = n.value * 10 + d /\ n.value * 10 + d \in 0 .. MaxWord
      BY <3>1, WordHolds, NumberAssumption
    <3>3. n' = [n EXCEPT !.value = n.value * 10 + d, !.exp = Int16(n.exp + e_offset)]
      BY <1>2, <2>1, <3>2 DEF KeepDigit
    <3>4. said' = [said EXCEPT !.digits = said.digits * 10 + d,
                               !.places = said.places + (- e_offset)]
      BY <1>2, <1>4, <2>1
    <3>5. /\ Int16(n.exp + e_offset) = Int16(said.dropped - (said.places + (- e_offset)))
          /\ Int16(n.exp + e_offset) \in Int
      <4>1. said.dropped - said.places \in Int /\ e_offset \in Int
        BY <1>3
      <4>2. Int16(Int16(said.dropped - said.places) + e_offset)
              = Int16((said.dropped - said.places) + e_offset)
        BY <4>1, Int16Sum
      <4>3. (said.dropped - said.places) + e_offset
              = said.dropped - (said.places + (- e_offset))
        BY <1>3
      <4>4. (said.dropped - said.places) + e_offset \in Int
        BY <4>1
      <4> QED
        BY <1>3, <4>2, <4>3, <4>4, Int16Near
    <3>6. /\ n'.value = n.value * 10 + d /\ n'.remainder = n.remainder
          /\ n'.exp = Int16(n.exp + e_offset) /\ n'.e_int = n.e_int /\ n' \in nType
      BY <1>3, <3>2, <3>3, <3>5
    <3>7. /\ said'.digits = said.digits * 10 + d /\ said'.scale = said.scale
          /\ said'.dropped = said.dropped /\ said'.power = said.power
          /\ said'.places = said.places + (- e_offset) /\ said' \in saidType
      BY <1>3, <1>4, <3>4
    <3>8. n'.remainder <=> n'.value * said'.scale # said'.digits
      <4>1. ~ n.remainder
        BY <1>3, <3>1
      <4>2. n'.value * said'.scale = said'.digits
        BY <1>1, <1>3, <3>1, <3>6, <3>7
      <4> QED
        BY <3>6, <4>1, <4>2
    <3> QED
      BY <3>1, <3>5, <3>6, <3>7, <3>8
  <2>2. CASE ~ kept
    <3>1. /\ CutOff(n.value, said.scale * 10, said.digits * 10 + d, said.dropped + 1)
          /\ n.value * (said.scale * 10) # said.digits * 10 + d
               <=> n.value * said.scale # said.digits \/ d # 0
      <4>1. /\ said.scale \in Nat \ {0} /\ said.digits \in Nat /\ said.dropped \in Nat
            /\ ~ (n.value <= (MaxNumber - d) \div 10)
            /\ n.value \in 0 .. MaxNumber /\ d \in 0 .. 9
            /\ CutOff(n.value, said.scale, said.digits, said.dropped)
        BY <1>1, <1>3, <2>2
      <4> DEFINE v == n.value  s == said.scale  g == said.digits  o == said.dropped
      <4> HIDE DEF v, s, g, o
      <4>2. /\ v \in 0 .. MaxNumber /\ s \in Nat \ {0} /\ g \in Nat /\ o \in Nat
            /\ ~ (v <= (MaxNumber - d) \div 10) /\ d \in 0 .. 9 /\ CutOff(v, s, g, o)
        BY <4>1 DEF v, s, g, o
      <4>3. CutOff(v, s * 10, g * 10 + d, o + 1)
        BY <4>2, DigitLeftOut
      <4>4. v * (s * 10) # g * 10 + d <=> v * s # g \/ d # 0
        BY <4>2, DigitLeftOut
      <4> QED
        BY <4>3, <4>4 DEF v, s, g, o
    <3>2. n' = [n EXCEPT !.remainder = n.remainder \/ d # 0,
                         !.exp = Int16(n.exp + e_offset + 1)]
      BY <1>2, <2>2 DEF KeepDigit
    <3>3. said' = [said EXCEPT !.digits = said.digits * 10 + d,
                               !.places = said.places + (- e_offset),
                               !.dropped = said.dropped + 1, !.scale = said.scale * 10]
      BY <1>2, <1>3, <1>4, <2>2 DEF DropDigit
    <3>4. /\ Int16(n.exp + e_offset + 1)
               = Int16((said.dropped + 1) - (said.places + (- e_offset)))
          /\ Int16(n.exp + e_offset + 1) \in Int
      <4>1. said.dropped - said.places \in Int /\ e_offset + 1 \in Int /\ n.exp \in Int
        BY <1>3
      <4>2. Int16(Int16(said.dropped - said.places) + (e_offset + 1))
              = Int16((said.dropped - said.places) + (e_offset + 1))
        BY <4>1, Int16Sum
      <4>3. /\ (said.dropped - said.places) + (e_offset + 1)
                 = (said.dropped + 1) - (said.places + (- e_offset))
            /\ n.exp + e_offset + 1 = n.exp + (e_offset + 1)
        BY <1>3
      <4>4. (said.dropped - said.places) + (e_offset + 1) \in Int
        BY <4>1
      <4> QED
        BY <1>3, <4>2, <4>3, <4>4, Int16Near
    <3>5. (n.remainder \/ d # 0) \in BOOLEAN
      OBVIOUS
    <3>6. /\ n'.value = n.value /\ n'.remainder = (n.remainder \/ d # 0)
          /\ n'.exp = Int16(n.exp + e_offset + 1) /\ n'.e_int = n.e_int /\ n' \in nType
      BY <1>3, <3>2, <3>4, <3>5
    <3>7. /\ said'.digits = said.digits * 10 + d /\ said'.scale = said.scale * 10
          /\ said'.dropped = said.dropped + 1 /\ said'.power = said.power
          /\ said'.places = said.places + (- e_offset) /\ said' \in saidType
      <4>1. said.dropped + 1 \in Nat /\ said.scale * 10 \in Nat \ {0}
        BY <1>3
      <4> QED
        BY <1>3, <1>4, <3>3, <4>1
    <3>8. n'.remainder <=> n'.value * said'.scale # said'.digits
      BY <1>3, <3>1, <3>6, <3>7
    <3> QED
      BY <1>3, <3>1, <3>4, <3>6, <3>7, <3>8
  <2> QED
    BY <2>1, <2>2
<1>6. Types'
  <2>1. at' \in Nat /\ phase' \in JsonPhase \cup {"uint64", "done"}
    BY <1>1, <1>2 DEF Types, JsonPhase
  <2> QED
    BY <1>1, <1>2, <1>5, <2>1, TypesKept
<1>7. WordInv' /\ ValueInv' /\ RemainderInv'
  BY <1>1, <1>2, <1>5 DEF WordInv, ValueInv, RemainderInv
<1>8. InPlace' /\ RefusesOnlyTooLarge'
  BY <1>1, <1>2 DEF InPlace, RefusesOnlyTooLarge, JsonPhase, DigitAt, Types
<1>9. ExponentInv'
  BY <1>1, <1>2, <1>3, <1>5 DEF ExponentInv, JsonPhase
<1> QED
  BY <1>6, <1>7, <1>8, <1>9 DEF IInv

\* A digit of the exponent.
LEMMA JsonExponentIInv ==
  ASSUME IInv, JsonExponent
  PROVE  IInv'
<1> DEFINE d == DigitOf(text[at])
           e == Int16(n.e_int * 10 + d)
           power == said.power * 10 + d
           moved == said.dropped - said.places
           total == Int16(n.exp + e * n.e_sign)
           nType == [value: 0 .. MaxWord, exp: Int, remainder: BOOLEAN, e_int: Int,
                     e_sign: {1, -1}]
           saidType == [digits: Nat, places: Nat, dropped: Nat, scale: Nat \ {0},
                        power: Nat]
<1>1. /\ Types /\ WordInv /\ ValueInv /\ RemainderInv /\ ExponentInv
      /\ reader = "json" /\ phase = "exponent" /\ at >= 1 /\ DigitAt(at) /\ d \in 0 .. 9
  BY DigitRange DEF IInv, InPlace, JsonExponent, JsonPhase, DigitAt
<1>2. /\ n.exp = Int16(moved) /\ n.e_int = Int16(said.power)
      /\ n \in nType /\ said \in saidType
  BY <1>1 DEF Types, ExponentInv, JsonPhase
<1>3. /\ said' = [said EXCEPT !.power = power] /\ at' = at + 1 /\ UNCHANGED <<text, reader>>
      /\ \/ ~ DigitAt(at + 1) /\ phase' = "done"
            /\ n' = [n EXCEPT !.e_int = e, !.exp = total]
         \/ /\ DigitAt(at + 1) /\ phase' = phase
            /\ n' = [n EXCEPT !.e_int = e]
  BY <1>2 DEF JsonExponent, Returns
<1> HIDE DEF d
<1>4. power \in Nat /\ moved \in Int /\ n.e_sign \in {1, -1} /\ said.power \in Int
  BY <1>1, <1>2
<1>5. e = Int16(power) /\ e \in Int
  <2>1. Int16(Int16(said.power) * 10 + d) = Int16(said.power * 10 + d)
    <3> DEFINE before == said.power
    <3> HIDE DEF before
    <3>1. before \in Int /\ d \in Int /\ 10 \in Int
      BY <1>1, <1>4 DEF before
    <3>2. Int16(Int16(before) * 10 + d) = Int16(before * 10 + d)
      BY <3>1, Int16Linear
    <3> QED
      BY <3>2 DEF before
  <2>2. Int16(power) \in Int
    BY <1>4, Int16Near
  <2> QED
    BY <1>2, <2>1, <2>2
<1>6. total = Int16(moved + n.e_sign * power) /\ total \in Int
  <2> DEFINE sign == n.e_sign
  <2> HIDE DEF sign, power, moved, e
  <2>1. sign \in {1, -1} /\ power \in Int /\ moved \in Int
    BY <1>4 DEF sign
  <2>2. Int16(Int16(moved) + Int16(power) * sign) = Int16(moved + sign * power)
    BY <2>1, Int16OfBoth
  <2>3. moved + sign * power \in Int
    BY <2>1
  <2>4. Int16(moved + sign * power) \in Int
    BY <2>3, Int16Near
  <2> QED
    BY <1>2, <1>5, <2>2, <2>4 DEF sign
<1> HIDE DEF e, total, power
<1>7. /\ n'.value = n.value /\ n'.remainder = n.remainder /\ n'.e_sign = n.e_sign
      /\ n'.e_int = Int16(power) /\ n' \in nType
      /\ phase' = "done" => n'.exp = total
      /\ phase' # "done" => n'.exp = n.exp
  BY <1>1, <1>2, <1>3, <1>5, <1>6
<1>8. /\ said'.power = power /\ said' \in saidType /\ said'.digits = said.digits
      /\ said'.scale = said.scale /\ said'.dropped = said.dropped
      /\ said'.places = said.places
  BY <1>2, <1>3, <1>4
<1>9. Types'
  <2>1. at' \in Nat /\ phase' \in JsonPhase \cup {"uint64", "done"}
    BY <1>1, <1>3 DEF Types, JsonPhase
  <2> QED
    BY <1>1, <1>3, <1>7, <1>8, <2>1, TypesKept
<1>10. WordInv' /\ ValueInv' /\ RemainderInv'
  BY <1>1, <1>3, <1>7, <1>8 DEF WordInv, ValueInv, RemainderInv
<1>11. InPlace' /\ RefusesOnlyTooLarge'
  BY <1>1, <1>3 DEF InPlace, RefusesOnlyTooLarge, JsonPhase, DigitAt, Types
<1>12. ExponentInv'
  BY <1>1, <1>2, <1>3, <1>6, <1>7, <1>8 DEF ExponentInv, JsonPhase
<1> QED
  BY <1>9, <1>10, <1>11, <1>12 DEF IInv

(***************************************************************************)
(* The invariant, and what follows from it.                                *)
(***************************************************************************)
LEMMA NextIInv ==
  ASSUME IInv, [NumberNext]_numberVars
  PROVE  IInv'
<1>1. CASE NumberNext
  <2>1. CASE \E chars \in Seq(Byte) : BeginUint64(chars) \/ BeginJsonNumber(chars)
    BY <2>1, BeginIInv
  <2>2. CASE Uint64Digit \/ Uint64End
    BY <2>2, Uint64DigitIInv, Uint64EndIInv
  <2>3. CASE JsonSign \/ JsonPoint \/ JsonE \/ JsonExponent
    BY <2>3, JsonSignIInv, JsonPointIInv, JsonEIInv, JsonExponentIInv
  <2>4. CASE JsonDigits("integer", 0, "point") \/ JsonDigits("fraction", -1, "e")
    BY <2>4, JsonDigitsIInv
  <2> QED
    BY <1>1, <2>1, <2>2, <2>3, <2>4 DEF NumberNext, ReadNumber
<1>2. CASE UNCHANGED numberVars
  BY <1>2 DEF numberVars, IInv, Types, InPlace, WordInv, ValueInv, RemainderInv,
              ExponentInv, RefusesOnlyTooLarge, DigitAt
<1> QED
  BY <1>1, <1>2

LEMMA IInvExact == IInv => ReadsExactly
<1> SUFFICES ASSUME IInv, phase = "done", result = "OK"
             PROVE  /\ reader = "uint64" => n.value = said.digits
                    /\ reader = "json" =>
                         /\ n.value * said.scale <= said.digits
                         /\ said.digits < (n.value + 1) * said.scale
                         /\ n.remainder <=> n.value * said.scale # said.digits
                         /\ said.dropped > 0 => n.value > MaxNumber \div 10
                         /\ n.exp = Int16(said.dropped - said.places
                                            + n.e_sign * said.power)
  BY DEF ReadsExactly
<1>1. WordInv /\ ValueInv /\ RemainderInv /\ ExponentInv
  BY DEF IInv
<1>2. reader = "json" => CutOff(n.value, said.scale, said.digits, said.dropped)
  BY <1>1 DEF ValueInv
<1> QED
  BY <1>1, <1>2 DEF WordInv, RemainderInv, ExponentInv, CutOff

LEMMA Invariant == NumberSpec => []IInv
<1>1. NumberInit => IInv
  BY InitIInv
<1>2. IInv /\ [NumberNext]_numberVars => IInv'
  BY NextIInv
<1> QED
  BY <1>1, <1>2, PTL DEF NumberSpec

\* A number that az_span_to_uint64 or the JSON parser returns is the number in
\* the text: whole in the one, and in the other cut off behind the digits that
\* fit, with the right exponent but for multiples of 2^16.
THEOREM NumbersReadExactly == NumberSpec => []ReadsExactly
<1>1. IInv => ReadsExactly
  BY IInvExact
<1> QED
  BY <1>1, Invariant, PTL

\* az_span_to_uint64 refuses no number of digits that a word of 64 bits holds.
THEOREM OnlyTooLargeRefused == NumberSpec => []RefusesOnlyTooLarge
<1>1. IInv => RefusesOnlyTooLarge
  BY DEF IInv
<1> QED
  BY <1>1, Invariant, PTL
------------------------------------------------------------------------------

(***************************************************************************)
(* Spans, and what is left of them.                                        *)
(***************************************************************************)
Whole(s) == s \in [ptr: Nat, length: Nat, capacity: Nat] /\ s.length <= s.capacity

\* A span whose room is memory.
Placed(s, m) == Whole(s) /\ Room(s) \subseteq DOMAIN m

LEMMA PointedFacts ==
  ASSUME NEW p, NEW l, NEW c
  PROVE  /\ Pointed(p, l, c).ptr = p /\ Pointed(p, l, c).length = l
         /\ Pointed(p, l, c).capacity = c
         /\ p \in Nat /\ l \in Nat /\ c \in Nat /\ l <= c => Whole(Pointed(p, l, c))
BY DEF Pointed, Whole

LEMMA TakeFacts ==
  ASSUME NEW s, Whole(s), NEW k \in Nat
  PROVE  /\ Whole(Take(s, k)) /\ Take(s, k).ptr = s.ptr
         /\ Take(s, k).capacity = IF s.capacity <= k THEN s.capacity ELSE k
BY DEF Take, Pointed, Whole

LEMMA DropFacts ==
  ASSUME NEW s, Whole(s), NEW k \in Nat
  PROVE  /\ Whole(Drop(s, k))
         /\ Drop(s, k).capacity = IF s.capacity <= k THEN 0 ELSE s.capacity - k
         /\ s.capacity > k => Drop(s, k).ptr = s.ptr + k
BY DEF Drop, Pointed, NullSpan, Whole

LEMMA RoomFacts ==
  ASSUME NEW s, Whole(s), NEW t, Whole(t), NEW k \in Nat,
         t.capacity > 0 => t.ptr = s.ptr + k /\ t.capacity + k <= s.capacity
  PROVE  Room(t) \subseteq Room(s) /\ Used(t) \subseteq Room(t)
BY DEF Room, Used, Whole

\* What is taken from a span, dropped from it or cut out of it lies in its room.
LEMMA TakePlaced ==
  ASSUME NEW m, NEW s, Placed(s, m), NEW k \in Nat
  PROVE  Placed(Take(s, k), m) /\ Room(Take(s, k)) \subseteq Room(s)
<1> DEFINE t == Take(s, k)
<1>1. /\ Whole(s) /\ Whole(t) /\ t.ptr = s.ptr
      /\ t.capacity = IF s.capacity <= k THEN s.capacity ELSE k
  BY TakeFacts DEF Placed
<1> HIDE DEF t
<1>2. t.ptr = s.ptr + 0 /\ t.capacity + 0 <= s.capacity
  BY <1>1 DEF Whole
<1>3. Room(t) \subseteq Room(s)
  BY <1>1, <1>2, RoomFacts
<1> QED
  BY <1>1, <1>3 DEF Placed, t

LEMMA DropPlaced ==
  ASSUME NEW m, NEW s, Placed(s, m), NEW k \in Nat
  PROVE  Placed(Drop(s, k), m) /\ Room(Drop(s, k)) \subseteq Room(s)
<1> DEFINE t == Drop(s, k)
<1>1. /\ Whole(s) /\ Whole(t)
      /\ t.capacity = IF s.capacity <= k THEN 0 ELSE s.capacity - k
      /\ s.capacity > k => t.ptr = s.ptr + k
  BY DropFacts DEF Placed
<1> HIDE DEF t
<1>2. t.capacity > 0 => t.ptr = s.ptr + k /\ t.capacity + k <= s.capacity
  BY <1>1 DEF Whole
<1>3. Room(t) \subseteq Room(s)
  BY <1>1, <1>2, RoomFacts
<1> QED
  BY <1>1, <1>3 DEF Placed, t

LEMMA SlicePlaced ==
  ASSUME NEW m, NEW s, Placed(s, m), NEW low \in Nat, NEW high \in Int
  PROVE  Placed(Slice(s, low, high), m)
<1> DEFINE left  == IF high >= 0 THEN Take(s, high) ELSE s
           right == Drop(left, low)
           cut   == Pointed(right.ptr, right.length, right.length)
<1>1. Slice(s, low, high) = cut
  BY DEF Slice
<1>2. Placed(left, m)
  BY TakePlaced
<1> HIDE DEF left
<1>3. Placed(right, m)
  BY <1>2, DropPlaced
<1> HIDE DEF right
<1>4. Whole(cut) /\ cut.ptr = right.ptr + 0 /\ cut.capacity + 0 <= right.capacity
  BY <1>3, PointedFacts DEF Placed, Whole
<1> HIDE DEF cut
<1>5. Room(cut) \subseteq Room(right)
  BY <1>3, <1>4, RoomFacts DEF Placed
<1> QED
  BY <1>1, <1>3, <1>4, <1>5 DEF Placed

(***************************************************************************)
(* What a function may hand back: the memory it was given, changed only in *)
(* the room of the span it was given, and this span with another length.   *)
(***************************************************************************)
Memories(m) == [DOMAIN m -> Byte]

Outcomes(m, s, least) ==
  {d \in [result: AzResults,
          object: [mem: Memories(m),
                   span: [ptr: {s.ptr}, length: least .. s.capacity,
                          capacity: {s.capacity}]]] :
     \A a \in DOMAIN m : a \notin Room(s) => d.object.mem[a] = m[a]}

LEMMA OutcomeFacts ==
  ASSUME NEW m, NEW s, NEW least \in Nat, NEW d \in Outcomes(m, s, least)
  PROVE  /\ d.object.mem \in Memories(m) /\ DOMAIN d.object.mem = DOMAIN m
         /\ d.object.span.ptr = s.ptr /\ d.object.span.capacity = s.capacity
         /\ d.object.span.length \in least .. s.capacity
         /\ \A a \in DOMAIN m : a \notin Room(s) => d.object.mem[a] = m[a]
         /\ d.result \in AzResults
         /\ Whole(s) => Whole(d.object.span) /\ Room(d.object.span) = Room(s)
BY DEF Outcomes, Memories, Whole, Room

LEMMA OutcomeMade ==
  ASSUME NEW m, NEW s, NEW least \in Nat, NEW r \in AzResults,
         NEW w \in Memories(m), NEW t,
         t \in [ptr: {s.ptr}, length: least .. s.capacity, capacity: {s.capacity}],
         \A a \in DOMAIN m : a \notin Room(s) => w[a] = m[a]
  PROVE  [result |-> r, object |-> [mem |-> w, span |-> t]] \in Outcomes(m, s, least)
BY DEF Outcomes

LEMMA OutcomeRefused ==
  ASSUME NEW m, m \in Memories(m), NEW s, Whole(s), NEW least \in Nat,
         least <= s.length, NEW r \in AzResults
  PROVE  Refused(r, m, s) \in Outcomes(m, s, least)
<1>1. s \in [ptr: {s.ptr}, length: least .. s.capacity, capacity: {s.capacity}]
  BY DEF Whole
<1> QED
  BY <1>1, OutcomeMade DEF Refused, Failure

\* One function after the other.
LEMMA OutcomeOfBoth ==
  ASSUME NEW m, NEW s, Whole(s), NEW least \in Nat, NEW d \in Outcomes(m, s, least),
         NEW e \in Outcomes(d.object.mem, d.object.span, least)
  PROVE  e \in Outcomes(m, s, least)
<1> DEFINE w == d.object.mem
           t == d.object.span
<1>1. /\ DOMAIN w = DOMAIN m /\ t.ptr = s.ptr /\ t.capacity = s.capacity
      /\ Room(t) = Room(s)
      /\ \A a \in DOMAIN m : a \notin Room(s) => w[a] = m[a]
  BY OutcomeFacts
<1> HIDE DEF w, t
<1>2. Memories(w) = Memories(m)
  BY <1>1 DEF Memories
<1>3. e \in Outcomes(w, t, least)
  BY DEF w, t
<1> QED
  BY <1>1, <1>2, <1>3 DEF Outcomes
(***************************************************************************)
(* Functions that move bytes.                                              *)
(***************************************************************************)
LEMMA PlacedUsed ==
  ASSUME NEW m, NEW s, Placed(s, m)
  PROVE  Whole(s) /\ Used(s) \subseteq DOMAIN m /\ Used(s) \subseteq Room(s)
BY DEF Placed, Whole, Used, Room

LEMMA MovedFacts ==
  ASSUME NEW m, m \in Memories(m), NEW to \in Nat, NEW from, Placed(from, m)
  PROVE  /\ Moved(m, to, from) \in Memories(m)
         /\ \A a \in DOMAIN m : a \notin to .. to + from.length - 1 =>
              Moved(m, to, from)[a] = m[a]
<1>1. Whole(from) /\ Used(from) \subseteq DOMAIN m
  BY PlacedUsed
<1>2. ASSUME NEW a \in DOMAIN m, a \in to .. to + from.length - 1
      PROVE  m[from.ptr + (a - to)] \in Byte
  <2>1. from.ptr + (a - to) \in Used(from)
    BY <1>1, <1>2 DEF Used, Whole
  <2> QED
    BY <1>1, <2>1 DEF Memories
<1>3. \A a \in DOMAIN m : m[a] \in Byte
  BY DEF Memories
<1> QED
  BY <1>2, <1>3 DEF Moved, Memories

LEMMA CopyFacts ==
  ASSUME NEW m, m \in Memories(m), NEW dst, Whole(dst), NEW src, Placed(src, m)
  PROVE  /\ Copy(m, dst, src) \in Outcomes(m, dst, 0)
         /\ Failing(Copy(m, dst, src)) <=> dst.capacity < src.length
         /\ ~ Failing(Copy(m, dst, src)) =>
              Copy(m, dst, src).object.span.length = src.length
<1> DEFINE w == Moved(m, dst.ptr, src)
           t == Pointed(dst.ptr, src.length, dst.capacity)
<1>1. Whole(dst) /\ Whole(src) /\ dst.ptr \in Nat
  BY DEF Placed, Whole
<1>2. CASE dst.capacity < src.length
  <2>1. Copy(m, dst, src) = Refused("ERROR_BUFFER_OVERFLOW", m, dst)
    BY <1>2 DEF Copy
  <2>2. Refused("ERROR_BUFFER_OVERFLOW", m, dst) \in Outcomes(m, dst, 0)
    BY OutcomeRefused DEF Whole, AzResults, AzError
  <2> QED
    BY <1>2, <2>1, <2>2 DEF Refused, Failure, Failing, Failed
<1>3. CASE ~ (dst.capacity < src.length)
  <2>1. Copy(m, dst, src) = [result |-> "OK", object |-> [mem |-> w, span |-> t]]
    BY <1>3 DEF Copy, Ok, Success
  <2>2. /\ w \in Memories(m)
        /\ \A a \in DOMAIN m : a \notin dst.ptr .. dst.ptr + src.length - 1 => w[a] = m[a]
    BY <1>1, MovedFacts
  <2>3. t \in [ptr: {dst.ptr}, length: 0 .. dst.capacity, capacity: {dst.capacity}]
    BY <1>1, <1>3 DEF Pointed, Whole
  <2>4. t.length = src.length
    BY PointedFacts
  <2> HIDE DEF w, t
  <2>5. \A a \in DOMAIN m : a \notin Room(dst) => w[a] = m[a]
    <3>1. dst.ptr .. dst.ptr + src.length - 1 \subseteq Room(dst)
      BY <1>1, <1>3 DEF Room, Whole
    <3> QED
      BY <2>2, <3>1
  <2>6. [result |-> "OK", object |-> [mem |-> w, span |-> t]] \in Outcomes(m, dst, 0)
    BY <2>2, <2>3, <2>5, OutcomeMade DEF AzResults
  <2> QED
    BY <1>3, <2>1, <2>4, <2>6 DEF Failing, Failed
<1> QED
  BY <1>2, <1>3

\* What is written to a part of a room is written to the room.
LEMMA PartWritten ==
  ASSUME NEW m, NEW s, NEW t, Room(t) \subseteq Room(s),
         NEW d \in Outcomes(m, t, 0), NEW least \in Nat, NEW r \in AzResults,
         NEW u, u \in [ptr: {s.ptr}, length: least .. s.capacity, capacity: {s.capacity}]
  PROVE  [result |-> r, object |-> [mem |-> d.object.mem, span |-> u]]
           \in Outcomes(m, s, least)
<1>1. /\ d.object.mem \in Memories(m)
      /\ \A a \in DOMAIN m : a \notin Room(t) => d.object.mem[a] = m[a]
  BY OutcomeFacts
<1>2. \A a \in DOMAIN m : a \notin Room(s) => d.object.mem[a] = m[a]
  BY <1>1
<1> QED
  BY <1>1, <1>2, OutcomeMade

\* The span with another length.
LEMMA LengthSet ==
  ASSUME NEW s, Whole(s), NEW least \in Nat, NEW k \in least .. s.capacity
  PROVE  [s EXCEPT !.length = k]
           \in [ptr: {s.ptr}, length: least .. s.capacity, capacity: {s.capacity}]
BY DEF Whole

LEMMA AppendSpanFacts ==
  ASSUME NEW m, m \in Memories(m), NEW s, Whole(s), NEW src, Placed(src, m)
  PROVE  AppendSpan(m, s, src) \in Outcomes(m, s, s.length)
<1> DEFINE rest == Drop(s, s.length)
           copy == Copy(m, rest, src)
           u    == [s EXCEPT !.length = @ + src.length]
<1>1. /\ s.length \in Nat /\ s.capacity \in Nat /\ s.length <= s.capacity
      /\ src.length \in Nat
  BY DEF Placed, Whole
<1>2. /\ Whole(rest)
      /\ rest.capacity = IF s.capacity <= s.length THEN 0 ELSE s.capacity - s.length
      /\ s.capacity > s.length => rest.ptr = s.ptr + s.length
  BY <1>1, DropFacts
<1>3. Room(rest) \subseteq Room(s)
  <2> HIDE DEF rest
  <2>1. rest.capacity > 0 => rest.ptr = s.ptr + s.length
                             /\ rest.capacity + s.length <= s.capacity
    BY <1>1, <1>2
  <2> QED
    BY <1>1, <1>2, <2>1, RoomFacts
<1> HIDE DEF rest
<1>4. /\ copy \in Outcomes(m, rest, 0)
      /\ Failing(copy) <=> rest.capacity < src.length
  BY <1>2, CopyFacts
<1>5. AppendSpan(m, s, src) = IF Failing(copy) THEN Refused(copy.result, m, s)
                              ELSE Ok(copy.object.mem, u)
  BY DEF AppendSpan, rest
<1> HIDE DEF copy
<1>6. CASE Failing(copy)
  <2>1. copy.result \in AzResults
    BY <1>4, OutcomeFacts
  <2> QED
    BY <1>1, <1>5, <1>6, <2>1, OutcomeRefused
<1>7. CASE ~ Failing(copy)
  <2>1. s.length + src.length \in s.length .. s.capacity
    BY <1>1, <1>2, <1>4, <1>7
  <2>2. u \in [ptr: {s.ptr}, length: s.length .. s.capacity, capacity: {s.capacity}]
    BY <1>1, <2>1, LengthSet
  <2> HIDE DEF u
  <2>3. [result |-> "OK", object |-> [mem |-> copy.object.mem, span |-> u]]
          \in Outcomes(m, s, s.length)
    BY <1>1, <1>3, <1>4, <2>2, PartWritten DEF AzResults
  <2> QED
    BY <1>5, <1>7, <2>3 DEF Ok, Success
<1> QED
  BY <1>6, <1>7

LEMMA AppendBytesFacts ==
  ASSUME NEW m, m \in Memories(m), DOMAIN m \subseteq Nat, NEW s, Whole(s), NEW b \in Seq(Byte)
  PROVE  AppendBytes(m, s, b) \in Outcomes(m, s, s.length)
<1> DEFINE Index(a) == a - (s.ptr + s.length) + 1
           w == [a \in DOMAIN m |-> IF Index(a) \in 1 .. Len(b) THEN b[Index(a)] ELSE m[a]]
           u == [s EXCEPT !.length = @ + Len(b)]
<1>1. /\ s.ptr \in Nat /\ s.length \in Nat /\ s.capacity \in Nat
      /\ s.length <= s.capacity /\ Len(b) \in Nat
      /\ \A i \in 1 .. Len(b) : b[i] \in Byte
  BY LenProperties, ElementOfSeq DEF Whole
<1>2. CASE s.capacity - s.length < Len(b)
  <2>1. AppendBytes(m, s, b) = Refused("ERROR_BUFFER_OVERFLOW", m, s)
    BY <1>2 DEF AppendBytes
  <2> QED
    BY <1>1, <2>1, OutcomeRefused DEF AzResults, AzError
<1>3. CASE ~ (s.capacity - s.length < Len(b))
  <2>1. AppendBytes(m, s, b) = [result |-> "OK", object |-> [mem |-> w, span |-> u]]
    BY <1>3 DEF AppendBytes, Ok, Success
  <2>2. w \in Memories(m)
    <3>1. \A a \in DOMAIN m : m[a] \in Byte
      BY DEF Memories
    <3> HIDE DEF Index
    <3> QED
      BY <1>1, <3>1 DEF Memories
  <2>3. \A a \in DOMAIN m : a \notin Room(s) => w[a] = m[a]
    <3>1. \A a : a \in DOMAIN m /\ Index(a) \in 1 .. Len(b) => a \in Room(s)
      <4> SUFFICES ASSUME NEW a \in DOMAIN m, Index(a) \in 1 .. Len(b)
                   PROVE  a \in Room(s)
        OBVIOUS
      <4> QED
        <5>1. a \in Nat
          OBVIOUS
        <5> QED
          BY <1>1, <1>3, <5>1 DEF Room
    <3> HIDE DEF Index
    <3> QED
      BY <3>1
  <2>4. s.length + Len(b) \in s.length .. s.capacity
    BY <1>1, <1>3
  <2>5. u \in [ptr: {s.ptr}, length: s.length .. s.capacity, capacity: {s.capacity}]
    BY <1>1, <2>4, LengthSet
  <2> HIDE DEF w, u
  <2> QED
    BY <1>1, <2>1, <2>2, <2>3, <2>5, OutcomeMade DEF AzResults
<1> QED
  BY <1>2, <1>3

LEMMA AppendZerosFacts ==
  ASSUME NEW m, m \in Memories(m), NEW s, Whole(s), NEW k \in Nat
  PROVE  AppendZeros(m, s, k) \in Outcomes(m, s, s.length)
<1> DEFINE drop == Drop(s, s.length)
           rest == Take(drop, k)
           w == Set(m, rest, 0)
           u == [s EXCEPT !.length = @ + k]
<1>1. s.length \in Nat /\ s.capacity \in Nat /\ s.length <= s.capacity
  BY DEF Whole
<1>2. /\ Whole(drop)
      /\ drop.capacity = IF s.capacity <= s.length THEN 0 ELSE s.capacity - s.length
      /\ s.capacity > s.length => drop.ptr = s.ptr + s.length
  BY <1>1, DropFacts
<1> HIDE DEF drop
<1>3. /\ Whole(rest) /\ rest.ptr = drop.ptr
      /\ rest.capacity = IF drop.capacity <= k THEN drop.capacity ELSE k
  BY <1>2, TakeFacts
<1>4. AppendZeros(m, s, k) =
        IF rest.capacity < k THEN Refused("ERROR_BUFFER_OVERFLOW", m, s) ELSE Ok(w, u)
  BY DEF AppendZeros, drop
<1> HIDE DEF rest
<1>5. Room(rest) \subseteq Room(s)
  <2>1. drop.capacity \in Nat
    BY <1>2 DEF Whole
  <2>2. rest.capacity > 0 => rest.ptr = s.ptr + s.length
                             /\ rest.capacity + s.length <= s.capacity
    BY <1>1, <1>2, <1>3, <2>1
  <2> QED
    BY <1>1, <1>3, <2>2, RoomFacts
<1>6. CASE rest.capacity < k
  BY <1>1, <1>4, <1>6, OutcomeRefused DEF AzResults, AzError
<1>7. CASE ~ (rest.capacity < k)
  <2>1. w \in Memories(m) /\ \A a \in DOMAIN m : a \notin Room(s) => w[a] = m[a]
    BY <1>5 DEF Set, Memories, Byte
  <2>2. s.length + k \in s.length .. s.capacity
    <3>1. rest.capacity = k /\ k <= drop.capacity
      BY <1>2, <1>3, <1>7 DEF Whole
    <3> QED
      BY <1>1, <1>2, <3>1
  <2>3. u \in [ptr: {s.ptr}, length: s.length .. s.capacity, capacity: {s.capacity}]
    BY <1>1, <2>2, LengthSet
  <2> HIDE DEF w, u
  <2> QED
    BY <1>1, <1>4, <1>7, <2>1, <2>3, OutcomeMade DEF Ok, Success, AzResults
<1> QED
  BY <1>6, <1>7

LEMMA ReplaceFacts ==
  ASSUME NEW m, m \in Memories(m), NEW s, Placed(s, m), NEW src, Placed(src, m),
         NEW start \in Nat, NEW end \in Nat
  PROVE  Replace(m, s, start, end, src) \in Outcomes(m, s, 0)
<1> DEFINE size == s.length - (end - start) + src.length
           gap  == Drop(s, start + src.length)
           back == Drop(s, end)
           move == Copy(m, gap, back)
           head == Drop(s, start)
           put  == Copy(move.object.mem, head, src)
           u    == [s EXCEPT !.length = size]
           Contracts == /\ end - start <= s.length
                        /\ start <= s.length /\ end <= s.length
                        /\ start <= end
                        /\ size <= s.capacity
<1>1. /\ Whole(s) /\ s.length \in Nat /\ s.capacity \in Nat /\ s.length <= s.capacity
      /\ src.length \in Nat /\ start + src.length \in Nat
  BY DEF Placed, Whole
<1>2. /\ Placed(gap, m) /\ Room(gap) \subseteq Room(s)
      /\ Placed(back, m) /\ Placed(head, m) /\ Room(head) \subseteq Room(s)
  BY <1>1, DropPlaced
<1>3. Replace(m, s, start, end, src) =
        IF ~ Contracts         THEN Refused("ERROR_ARG", m, s)
        ELSE IF Failing(move)  THEN Refused(move.result, m, s)
        ELSE IF Failing(put)   THEN Refused(put.result, put.object.mem, s)
        ELSE Ok(put.object.mem, u)
  BY DEF Replace
<1> HIDE DEF gap, back, head
<1>4. move \in Outcomes(m, gap, 0)
  BY <1>2, CopyFacts DEF Placed
<1> HIDE DEF move
<1>5. /\ move.object.mem \in Memories(m) /\ DOMAIN move.object.mem = DOMAIN m
      /\ \A a \in DOMAIN m : a \notin Room(gap) => move.object.mem[a] = m[a]
      /\ move.result \in AzResults
  BY <1>4, OutcomeFacts
<1> DEFINE w == move.object.mem
<1>6. put \in Outcomes(w, head, 0)
  <2>1. w \in Memories(w) /\ Placed(src, w) /\ Whole(head)
    BY <1>2, <1>5 DEF Placed, Memories
  <2> HIDE DEF w
  <2> QED
    BY <2>1, CopyFacts DEF w
<1> HIDE DEF put
<1>7. /\ put.object.mem \in Memories(w)
      /\ \A a \in DOMAIN w : a \notin Room(head) => put.object.mem[a] = w[a]
      /\ put.result \in AzResults
  <2> HIDE DEF w
  <2> QED
    BY <1>6, OutcomeFacts
<1>8. /\ put.object.mem \in Memories(m)
      /\ \A a \in DOMAIN m : a \notin Room(s) => put.object.mem[a] = m[a]
  BY <1>2, <1>5, <1>7 DEF Memories
<1>9. s \in [ptr: {s.ptr}, length: 0 .. s.capacity, capacity: {s.capacity}]
  BY <1>1 DEF Whole
<1>10. CASE ~ Contracts
  BY <1>1, <1>3, <1>10, OutcomeRefused DEF AzResults, AzError
<1>11. CASE Contracts /\ Failing(move)
  BY <1>1, <1>3, <1>5, <1>11, OutcomeRefused
<1>12. CASE Contracts /\ ~ Failing(move) /\ Failing(put)
  <2>1. Replace(m, s, start, end, src) =
          [result |-> put.result, object |-> [mem |-> put.object.mem, span |-> s]]
    BY <1>3, <1>12 DEF Refused, Failure
  <2> QED
    BY <1>7, <1>8, <1>9, <2>1, OutcomeMade
<1>13. CASE Contracts /\ ~ Failing(move) /\ ~ Failing(put)
  <2>1. Replace(m, s, start, end, src) =
          [result |-> "OK", object |-> [mem |-> put.object.mem, span |-> u]]
    BY <1>3, <1>13 DEF Ok, Success
  <2>2. size \in 0 .. s.capacity
    BY <1>1, <1>13
  <2>3. u \in [ptr: {s.ptr}, length: 0 .. s.capacity, capacity: {s.capacity}]
    BY <1>1, <2>2, LengthSet
  <2> HIDE DEF u
  <2> QED
    BY <1>8, <2>1, <2>3, OutcomeMade DEF AzResults
<1> QED
  BY <1>10, <1>11, <1>12, <1>13
LEMMA ToStrFacts ==
  ASSUME NEW m, m \in Memories(m), NEW to \in Nat, NEW k \in Nat, NEW s, Placed(s, m)
  PROVE  LET done == ToStr(m, to, k, s)
         IN  /\ done.object.mem \in Memories(m)
             /\ \A a \in DOMAIN m : a \notin to .. to + k - 1 => done.object.mem[a] = m[a]
<1> DEFINE moved == Moved(m, to, s)
           w == [moved EXCEPT ![to + s.length] = 0]
<1>1. s.length \in Nat
  BY DEF Placed, Whole
<1>2. CASE s.length + 1 > k
  BY <1>2 DEF ToStr, Refused, Failure
<1>3. CASE ~ (s.length + 1 > k)
  <2>1. ToStr(m, to, k, s) = [result |-> "OK", object |-> [mem |-> w, span |-> s]]
    BY <1>3 DEF ToStr, Ok, Success
  <2>2. /\ moved \in Memories(m)
        /\ \A a \in DOMAIN m : a \notin to .. to + s.length - 1 => moved[a] = m[a]
    BY MovedFacts
  <2> HIDE DEF moved
  <2>3. /\ w \in Memories(m)
        /\ \A a \in DOMAIN m : a # to + s.length => w[a] = moved[a]
    <3>1. moved \in [DOMAIN m -> Byte] /\ 0 \in Byte
      BY <2>2 DEF Memories, Byte
    <3>2. w \in [DOMAIN m -> Byte]
      BY <3>1
    <3>3. \A a \in DOMAIN m : a # to + s.length => w[a] = moved[a]
      BY <3>1
    <3> QED
      BY <3>2, <3>3 DEF Memories
  <2>4. /\ to .. to + s.length - 1 \subseteq to .. to + k - 1
        /\ to + s.length \in to .. to + k - 1
    BY <1>1, <1>3
  <2> HIDE DEF w
  <2>5. \A a \in DOMAIN m : a \notin to .. to + k - 1 => w[a] = m[a]
    BY <2>2, <2>3, <2>4
  <2> QED
    BY <2>1, <2>3, <2>5
<1> QED
  BY <1>2, <1>3

\* Memories that are changed only in the content of the two spans.
Swapped(m, s, t) ==
  {w \in Memories(m) : \A a \in DOMAIN m : a \notin Used(s) \cup Used(t) => w[a] = m[a]}

LEMMA SwapFacts ==
  ASSUME NEW m, m \in Memories(m), NEW s, Placed(s, m), NEW t, Placed(t, m)
  PROVE  Swap(m, s, t) \in Swapped(m, s, t)
<1> DEFINE count == IF s.length < t.length THEN s.length ELSE t.length
           S == Swapped(m, s, t)
           After(w, i) == [w EXCEPT ![s.ptr + i - 1] = w[t.ptr + i - 1],
                                    ![t.ptr + i - 1] = w[s.ptr + i - 1]]
           swapped[i \in 0 .. count] ==
             IF i = 0 THEN m
             ELSE [swapped[i - 1] EXCEPT ![s.ptr + i - 1] = swapped[i - 1][t.ptr + i - 1],
                                         ![t.ptr + i - 1] = swapped[i - 1][s.ptr + i - 1]]
           step == [i \in 1 .. count |-> [w \in S |-> After(w, i)]]
<1>1. Swap(m, s, t) = swapped[count]
  BY DEF Swap
<1>2. /\ Whole(s) /\ Used(s) \subseteq DOMAIN m /\ Whole(t) /\ Used(t) \subseteq DOMAIN m
      /\ count \in Nat /\ count <= s.length /\ count <= t.length
  <2>1. /\ Whole(s) /\ Used(s) \subseteq DOMAIN m /\ Whole(t) /\ Used(t) \subseteq DOMAIN m
    BY PlacedUsed
  <2> QED
    BY <2>1 DEF Whole
<1>3. m \in S
  BY DEF Swapped
<1>4. ASSUME NEW i \in 1 .. count, NEW w \in S
      PROVE  After(w, i) \in S
  <2> DEFINE p == s.ptr + i - 1
             q == t.ptr + i - 1
  <2>1. p \in Used(s) /\ q \in Used(t)
    BY <1>2 DEF Used, Whole
  <2>2. p \in DOMAIN m /\ q \in DOMAIN m
    BY <1>2, <2>1
  <2> HIDE DEF p, q
  <2>3. [w EXCEPT ![p] = w[q], ![q] = w[p]] \in S
    BY <2>1, <2>2 DEF Swapped, Memories
  <2> QED
    BY <2>3 DEF p, q
<1> HIDE DEF count, S, After
<1>5. step \in [1 .. count -> [S -> S]]
  BY <1>4
<1>6. PICK f \in Recursive(count, S, m, step) : TRUE
  <2> HIDE DEF step
  <2> QED
    BY <1>2, <1>3, <1>5, NatRecursion
<1>7. /\ f \in [0 .. count -> S] /\ f[0] = m
      /\ \A i \in 1 .. count : f[i] = After(f[i - 1], i)
  <2>1. /\ f \in [0 .. count -> S] /\ f[0] = m
        /\ \A i \in 1 .. count : f[i] = step[i][f[i - 1]]
    <3> HIDE DEF step
    <3> QED
      BY <1>6 DEF Recursive
  <2>2. \A i \in 1 .. count : f[i - 1] \in S
    BY <1>2, <2>1
  <2> QED
    BY <2>1, <2>2
<1>8. f = [i \in 0 .. count |-> IF i = 0 THEN m ELSE After(f[i - 1], i)]
  <2>1. \A i \in 0 .. count : i # 0 => i \in 1 .. count
    BY <1>2
  <2>2. \A i \in 0 .. count : f[i] = IF i = 0 THEN m ELSE After(f[i - 1], i)
    BY <1>7, <2>1, Zenon
  <2> QED
    BY <1>7, <2>2
<1>9. swapped = [i \in 0 .. count |-> IF i = 0 THEN m ELSE After(swapped[i - 1], i)]
  <2>1. \E g : g = [i \in 0 .. count |-> IF i = 0 THEN m ELSE After(g[i - 1], i)]
    BY <1>8
  <2> QED
    BY <2>1 DEF count, After
<1> HIDE DEF swapped
<1>10. 0 .. count \subseteq {i \in 0 .. count : swapped[i] \in S}
  <2> DEFINE Good == {i \in 0 .. count : swapped[i] \in S}
  <2>1. 0 \in Good
    BY <1>2, <1>3, <1>9
  <2>2. ASSUME NEW k \in 0 .. count - 1, k \in Good
        PROVE  k + 1 \in Good
    <3>1. k + 1 \in 1 .. count /\ k + 1 \in 0 .. count /\ k + 1 # 0 /\ (k + 1) - 1 = k
      BY <1>2
    <3>2. swapped[k + 1] = After(swapped[(k + 1) - 1], k + 1)
      BY <1>9, <3>1
    <3>3. After(swapped[k], k + 1) \in S
      BY <1>4, <2>2, <3>1
    <3> QED
      BY <3>1, <3>2, <3>3
  <2> HIDE DEF Good
  <2> QED
    BY <1>2, <2>1, <2>2, UpTo DEF Good
<1>11. swapped[count] \in S
  BY <1>2, <1>10
<1> QED
  BY <1>1, <1>11 DEF S
(***************************************************************************)
(* Encoding for URLs: the source is counted, read and written.             *)
(***************************************************************************)
LEMMA EncodedByteFacts ==
  ASSUME NEW c \in Byte
  PROVE  /\ EncodedByte(c) \in Seq(Byte)
         /\ Len(EncodedByte(c)) \in Nat
         /\ DOMAIN EncodedByte(c) = 1 .. Len(EncodedByte(c))
<1>1. c \div 16 \in 0 .. 15 /\ c % 16 \in 0 .. 15
  BY DEF Byte
<1>2. \A k \in 0 .. 15 : UpperHex(k) \in Byte
  BY DEF UpperHex, Byte
<1>3. UpperHex(c \div 16) \in Byte /\ UpperHex(c % 16) \in Byte /\ 37 \in Byte
  BY <1>1, <1>2 DEF Byte
<1>4. <<37, UpperHex(c \div 16), UpperHex(c % 16)>> \in Seq(Byte) /\ <<c>> \in Seq(Byte)
  BY <1>3
<1>5. EncodedByte(c) \in Seq(Byte)
  BY <1>4 DEF EncodedByte
<1> QED
  BY <1>5, LenProperties

\* The bytes at p and behind it.
PutAt(m, p, b) == [a \in DOMAIN m |-> IF a - p + 1 \in DOMAIN b THEN b[a - p + 1] ELSE m[a]]

LEMMA PutFacts ==
  ASSUME NEW m, DOMAIN m \subseteq Nat, NEW w \in Memories(m), NEW p \in Int,
         NEW b \in Seq(Byte)
  PROVE  /\ PutAt(w, p, b) \in Memories(m)
         /\ \A a \in DOMAIN m : a \notin p .. p + Len(b) - 1 => PutAt(w, p, b)[a] = w[a]
<1>1. /\ DOMAIN b = 1 .. Len(b) /\ Len(b) \in Nat
      /\ \A i \in 1 .. Len(b) : b[i] \in Byte
  BY LenProperties, ElementOfSeq
<1>2. w \in [DOMAIN m -> Byte] /\ DOMAIN w = DOMAIN m
  BY DEF Memories
<1>3. ASSUME NEW a \in DOMAIN m
      PROVE  /\ a - p + 1 \in DOMAIN b => b[a - p + 1] \in Byte
             /\ a \notin p .. p + Len(b) - 1 => ~ (a - p + 1 \in DOMAIN b)
  <2>1. a \in Nat
    OBVIOUS
  <2>2. a - p + 1 \in DOMAIN b => a \in p .. p + Len(b) - 1
    BY <1>1, <2>1
  <2>3. a - p + 1 \in DOMAIN b => b[a - p + 1] \in Byte
    BY <1>1, Zenon
  <2> QED
    BY <2>2, <2>3
<1>4. PutAt(w, p, b) = [a \in DOMAIN m |-> IF a - p + 1 \in DOMAIN b
                                           THEN b[a - p + 1] ELSE w[a]]
  BY <1>2 DEF PutAt
<1>5. PutAt(w, p, b) \in [DOMAIN m -> Byte]
  <2>1. \A a \in DOMAIN m : (IF a - p + 1 \in DOMAIN b THEN b[a - p + 1] ELSE w[a]) \in Byte
    BY <1>2, <1>3, Zenon
  <2> QED
    BY <1>4, <2>1, Zenon
<1>6. \A a \in DOMAIN m : a \notin p .. p + Len(b) - 1 => PutAt(w, p, b)[a] = w[a]
  <2>1. \A a \in DOMAIN m : PutAt(w, p, b)[a] = IF a - p + 1 \in DOMAIN b
                                                THEN b[a - p + 1] ELSE w[a]
    BY <1>4, Zenon
  <2> QED
    BY <1>3, <2>1, Zenon
<1> QED
  BY <1>5, <1>6 DEF Memories

LEMMA SourceByte ==
  ASSUME NEW m, m \in Memories(m), NEW src, Placed(src, m), NEW i \in 1 .. src.length
  PROVE  src.ptr + i - 1 \in Used(src) /\ m[src.ptr + i - 1] \in Byte
<1>1. src.ptr + i - 1 \in Used(src) /\ Used(src) \subseteq DOMAIN m
  BY PlacedUsed DEF Used, Whole
<1> QED
  BY <1>1 DEF Memories

\* How long the text in front of a position gets.
IsSize(f, m, src) ==
  /\ f \in [0 .. src.length -> Nat] /\ f[0] = 0
  /\ \A i \in 1 .. src.length : f[i] = f[i - 1] + Len(EncodedByte(m[src.ptr + i - 1]))

LEMMA SizeExists ==
  ASSUME NEW m, m \in Memories(m), NEW src, Placed(src, m)
  PROVE  \E f : IsSize(f, m, src)
<1> DEFINE k == src.length
           More(i) == Len(EncodedByte(m[src.ptr + i - 1]))
           grow == [i \in 1 .. k |-> [x \in Nat |-> x + More(i)]]
<1>1. k \in Nat
  BY DEF Placed, Whole
<1>2. \A i \in 1 .. k : More(i) \in Nat
  BY SourceByte, EncodedByteFacts
<1> HIDE DEF k, More
<1>3. grow \in [1 .. k -> [Nat -> Nat]] /\ 0 \in Nat
  BY <1>2
<1>4. PICK f \in Recursive(k, Nat, 0, grow) : TRUE
  <2> HIDE DEF grow
  <2> QED
    BY <1>1, <1>3, NatRecursion
<1>5. f \in [0 .. k -> Nat] /\ f[0] = 0 /\ \A i \in 1 .. k : f[i] = grow[i][f[i - 1]]
  <2> HIDE DEF grow
  <2> QED
    BY <1>4 DEF Recursive
<1>6. \A i \in 1 .. k : f[i - 1] \in Nat
  BY <1>1, <1>5
<1>7. \A i \in 1 .. k : f[i] = f[i - 1] + More(i)
  BY <1>5, <1>6
<1> QED
  BY <1>5, <1>7 DEF IsSize, k, More

\* No part of the text gets longer than the whole.
LEMMA SizeGrows ==
  ASSUME NEW m, m \in Memories(m), NEW src, Placed(src, m), NEW f, IsSize(f, m, src)
  PROVE  \A i \in 0 .. src.length : f[i] <= f[src.length]
<1> DEFINE k == src.length
           More(i) == Len(EncodedByte(m[src.ptr + i - 1]))
<1>1. k \in Nat
  BY DEF Placed, Whole
<1>2. \A i \in 1 .. k : More(i) \in Nat
  BY SourceByte, EncodedByteFacts
<1>3. /\ f \in [0 .. k -> Nat]
      /\ \A i \in 1 .. k : f[i] = f[i - 1] + More(i)
  BY DEF IsSize
<1> HIDE DEF k, More
<1> DEFINE Good == {j \in 0 .. k : \A i \in 0 .. j : f[i] <= f[j]}
<1>4. 0 \in Good
  BY <1>1, <1>3
<1>5. ASSUME NEW j \in 0 .. k - 1, j \in Good
      PROVE  j + 1 \in Good
  <2>1. j + 1 \in 1 .. k /\ (j + 1) - 1 = j /\ j \in 0 .. k /\ j + 1 \in 0 .. k
    BY <1>1
  <2>2. f[j + 1] = f[j] + More(j + 1)
    BY <1>3, <2>1
  <2>3. f[j] <= f[j + 1] /\ f[j] \in Nat /\ f[j + 1] \in Nat
    BY <1>2, <1>3, <2>1, <2>2
  <2>4. ASSUME NEW i \in 0 .. j + 1
        PROVE  f[i] <= f[j + 1]
    <3>1. CASE i = j + 1
      BY <2>3, <3>1
    <3>2. CASE i # j + 1
      <4>1. i \in 0 .. j /\ i \in 0 .. k
        BY <1>1, <2>1, <3>2
      <4>2. f[i] <= f[j] /\ f[i] \in Nat
        BY <1>3, <1>5, <4>1
      <4> QED
        BY <2>3, <4>2
    <3> QED
      BY <3>1, <3>2
  <2> QED
    BY <2>1, <2>4
<1> HIDE DEF Good
<1>6. k \in Good
  <2>1. 0 .. k \subseteq Good
    BY <1>1, <1>4, <1>5, UpTo
  <2> QED
    BY <1>1, <2>1
<1> QED
  BY <1>6 DEF Good, k

\* What is encoded is written to the room it is given, and nothing else, if the
\* source stands elsewhere.
LEMMA UrlEncodeFacts ==
  ASSUME NEW m, m \in Memories(m), DOMAIN m \subseteq Nat, NEW dst, Whole(dst),
         NEW src, Placed(src, m), Used(src) \cap Room(dst) = {}
  PROVE  /\ UrlEncode(m, dst, src) \in Outcomes(m, dst, 0)
         /\ Failing(UrlEncode(m, dst, src)) =>
              UrlEncode(m, dst, src).result = "ERROR_BUFFER_OVERFLOW"
<1> DEFINE k == src.length
           Code(w, i) == EncodedByte(w[src.ptr + i - 1])
           Put(w, p, bytes) == [a \in DOMAIN w |-> IF a - p + 1 \in DOMAIN bytes
                                                   THEN bytes[a - p + 1] ELSE w[a]]
           size[i \in 0 .. src.length] ==
             IF i = 0 THEN 0 ELSE size[i - 1] + Len(EncodedByte(m[src.ptr + i - 1]))
           encoded[i \in 0 .. src.length] ==
             IF i = 0 THEN [mem |-> m, p_d |-> dst.ptr]
             ELSE LET before == encoded[i - 1]
                      bytes  == EncodedByte(before.mem[src.ptr + i - 1])
                  IN  [mem |-> Put(before.mem, before.p_d, bytes),
                       p_d |-> before.p_d + Len(bytes)]
           first == [mem |-> m, p_d |-> dst.ptr]
           Written(x, i) == [mem |-> PutAt(x.mem, x.p_d, Code(x.mem, i)),
                             p_d |-> x.p_d + Len(Code(x.mem, i))]
<1>1. UrlEncode(m, dst, src) =
        IF dst.capacity < size[k] THEN Refused("ERROR_BUFFER_OVERFLOW", m, dst)
        ELSE Ok(encoded[k].mem, Pointed(dst.ptr, encoded[k].p_d - dst.ptr, dst.capacity))
  BY DEF UrlEncode
<1>2. k \in Nat /\ dst.ptr \in Nat /\ dst.capacity \in Nat
  BY DEF Placed, Whole
<1>3. IsSize(size, m, src)
  <2>1. PICK f : IsSize(f, m, src)
    BY SizeExists
  <2>2. f = [i \in 0 .. src.length |->
               IF i = 0 THEN 0 ELSE f[i - 1] + Len(EncodedByte(m[src.ptr + i - 1]))]
    <3>1. f \in [0 .. k -> Nat] /\ f[0] = 0
          /\ \A i \in 1 .. k : f[i] = f[i - 1] + Len(EncodedByte(m[src.ptr + i - 1]))
      BY <2>1 DEF IsSize
    <3>2. \A i \in 0 .. k : i # 0 => i \in 1 .. k
      BY <1>2
    <3>3. \A i \in 0 .. k :
            f[i] = IF i = 0 THEN 0 ELSE f[i - 1] + Len(EncodedByte(m[src.ptr + i - 1]))
      <4> HIDE DEF k
      <4> QED
        BY <3>1, <3>2, Zenon
    <3> QED
      BY <3>1, <3>3
  <2>3. size = [i \in 0 .. src.length |->
                  IF i = 0 THEN 0 ELSE size[i - 1] + Len(EncodedByte(m[src.ptr + i - 1]))]
    BY <2>2
  <2> HIDE DEF size
  <2>4. size[0] = 0 /\ \A i \in 1 .. k :
          size[i] = size[i - 1] + Len(EncodedByte(m[src.ptr + i - 1]))
    <3>1. 0 \in 0 .. k /\ \A i \in 1 .. k : i \in 0 .. k /\ i # 0
      BY <1>2
    <3> QED
      BY <2>3, <3>1, Zenon
  <2>5. size \in [0 .. k -> Nat]
    <3> DEFINE Good == {i \in 0 .. k : size[i] \in Nat}
    <3>1. 0 \in Good
      BY <1>2, <2>4
    <3>2. ASSUME NEW j \in 0 .. k - 1, j \in Good
          PROVE  j + 1 \in Good
      <4>1. j + 1 \in 1 .. k /\ (j + 1) - 1 = j /\ j + 1 \in 0 .. k
        BY <1>2
      <4>2. Len(EncodedByte(m[src.ptr + (j + 1) - 1])) \in Nat
        BY <4>1, SourceByte, EncodedByteFacts
      <4>3. size[j + 1] = size[(j + 1) - 1] + Len(EncodedByte(m[src.ptr + (j + 1) - 1]))
        BY <2>4, <4>1
      <4> HIDE DEF k
      <4> QED
        BY <3>2, <4>1, <4>2, <4>3
    <3> HIDE DEF Good, k
    <3>3. 0 .. k \subseteq Good
      BY <1>2, <3>1, <3>2, UpTo
    <3>4. \A i \in 0 .. k : size[i] \in Nat
      BY <3>3 DEF Good
    <3> QED
      BY <2>3, <3>4 DEF k
  <2> QED
    BY <2>4, <2>5 DEF IsSize
<1> HIDE DEF size
<1>4. /\ size \in [0 .. k -> Nat] /\ size[0] = 0
      /\ \A i \in 1 .. k : size[i] = size[i - 1] + Len(Code(m, i))
      /\ \A i \in 0 .. k : size[i] <= size[k]
  BY <1>3, SizeGrows DEF IsSize
<1> DEFINE S == [mem: Memories(m), p_d: Int]
           step == [i \in 1 .. k |-> [x \in S |-> Written(x, i)]]
<1>5. first \in S
  BY <1>2
<1>6. ASSUME NEW i \in 1 .. k, NEW x \in S
      PROVE  /\ Code(x.mem, i) \in Seq(Byte) /\ Len(Code(x.mem, i)) \in Nat
             /\ Written(x, i) \in S
  <2> DEFINE w == x.mem
             b == Code(w, i)
  <2>1. w \in Memories(m) /\ x.p_d \in Int
    OBVIOUS
  <2>2. w \in Memories(w) /\ Placed(src, w)
    BY <2>1 DEF Memories, Placed
  <2> HIDE DEF w
  <2>3. w[src.ptr + i - 1] \in Byte
    BY <2>2, SourceByte
  <2>4. b \in Seq(Byte) /\ Len(b) \in Nat
    BY <2>3, EncodedByteFacts
  <2> HIDE DEF b
  <2>5. PutAt(w, x.p_d, b) \in Memories(m)
    BY <2>1, <2>4, PutFacts
  <2>6. x.p_d + Len(b) \in Int
    BY <2>1, <2>4
  <2> QED
    BY <2>4, <2>5, <2>6 DEF w, b
<1>7. step \in [1 .. k -> [S -> S]]
  <2> HIDE DEF S, Written, k
  <2> QED
    BY <1>6
<1>8. PICK f \in Recursive(k, S, first, step) : TRUE
  <2> HIDE DEF step, S, first, k
  <2> QED
    BY <1>2, <1>5, <1>7, NatRecursion
<1>9. /\ f \in [0 .. k -> S] /\ f[0] = first
      /\ \A i \in 1 .. k : f[i] = Written(f[i - 1], i)
  <2> HIDE DEF S, first, Written, k
  <2>1. /\ f \in [0 .. k -> S] /\ f[0] = first
        /\ \A i \in 1 .. k : f[i] = step[i][f[i - 1]]
    <3> HIDE DEF step
    <3> QED
      BY <1>8 DEF Recursive
  <2>2. \A i \in 1 .. k : f[i - 1] \in S
    BY <1>2, <2>1
  <2> QED
    BY <2>1, <2>2
<1>10. f = [i \in 0 .. k |-> IF i = 0 THEN first ELSE Written(f[i - 1], i)]
  <2> HIDE DEF S, first, Written, k
  <2>1. \A i \in 0 .. k : i # 0 => i \in 1 .. k
    BY <1>2
  <2>2. \A i \in 0 .. k : f[i] = IF i = 0 THEN first ELSE Written(f[i - 1], i)
    BY <1>9, <2>1, Zenon
  <2> QED
    BY <1>9, <2>2
<1>11. encoded = [i \in 0 .. k |-> IF i = 0 THEN first ELSE Written(encoded[i - 1], i)]
  <2>1. \E g : g = [i \in 0 .. k |-> IF i = 0 THEN first ELSE Written(g[i - 1], i)]
    <3> HIDE DEF first, Written, k
    <3> QED
      BY <1>10
  <2> QED
    BY <2>1 DEF PutAt
<1> HIDE DEF encoded
<1>12. encoded[0] = first /\ \A i \in 1 .. k : encoded[i] = Written(encoded[i - 1], i)
  <2>1. 0 \in 0 .. k /\ \A i \in 1 .. k : i \in 0 .. k /\ i # 0
    BY <1>2
  <2> HIDE DEF first, Written, k
  <2> QED
    BY <1>11, <2>1, Zenon
<1> DEFINE Until(i) == dst.ptr .. dst.ptr + size[i] - 1
           So(x, i) == /\ x.mem \in Memories(m) /\ x.p_d = dst.ptr + size[i]
                       /\ \A a \in DOMAIN m : a \notin Until(i) => x.mem[a] = m[a]
<1>13. So(first, 0)
  BY <1>2, <1>4
<1>14. ASSUME size[k] <= dst.capacity, NEW i \in 1 .. k, NEW x, So(x, i - 1), x \in S
       PROVE  So(Written(x, i), i)
  <2> DEFINE w == x.mem
             b == Code(w, i)
             p == src.ptr + i - 1
  <2>1. p \in Used(src) /\ p \in DOMAIN m
    BY SourceByte, PlacedUsed
  <2>2. /\ size[i - 1] \in Nat /\ size[i] \in Nat /\ size[k] \in Nat
        /\ size[i - 1] <= size[k] /\ size[i] <= size[k]
    <3>1. i - 1 \in 0 .. k /\ i \in 0 .. k /\ k \in 0 .. k
      BY <1>2
    <3> HIDE DEF k, Code
    <3> QED
      BY <1>4, <3>1
  <2>3. p \notin Until(i - 1)
    <3>1. p \notin dst.ptr .. dst.ptr + dst.capacity - 1
      BY <2>1 DEF Room
    <3> DEFINE part == size[i - 1]
               whole == size[k]
    <3>2. part \in Nat /\ whole \in Nat /\ part <= whole /\ whole <= dst.capacity
      BY <1>14, <2>2
    <3> HIDE DEF p, part, whole
    <3>3. p \notin dst.ptr .. dst.ptr + part - 1
      BY <1>2, <3>1, <3>2
    <3> QED
      BY <3>3 DEF part
  <2>4. w[p] = m[p]
    BY <1>14, <2>1, <2>3
  <2>5. b = Code(m, i) /\ b \in Seq(Byte) /\ Len(b) \in Nat
    BY <1>6, <1>14, <2>4
  <2>6. size[i] = size[i - 1] + Len(b)
    BY <1>4, <2>5
  <2>7. w \in Memories(m) /\ x.p_d = dst.ptr + size[i - 1] /\ x.p_d \in Int
        /\ \A a \in DOMAIN m : a \notin Until(i - 1) => w[a] = m[a]
    BY <1>14
  <2>8. Written(x, i) = [mem |-> PutAt(w, x.p_d, b), p_d |-> x.p_d + Len(b)]
    OBVIOUS
  <2> HIDE DEF w, b, p, Written, Code
  <2>9. /\ PutAt(w, x.p_d, b) \in Memories(m)
        /\ \A a \in DOMAIN m : a \notin x.p_d .. x.p_d + Len(b) - 1 =>
             PutAt(w, x.p_d, b)[a] = w[a]
    BY <2>5, <2>7, PutFacts
  <2>10. x.p_d + Len(b) = dst.ptr + size[i]
    BY <1>2, <2>2, <2>5, <2>6, <2>7
  <2>11. /\ Until(i - 1) \subseteq Until(i)
         /\ x.p_d .. x.p_d + Len(b) - 1 \subseteq Until(i)
    <3> DEFINE part == size[i - 1]
               more == Len(b)
               p_d  == x.p_d
    <3>1. part \in Nat /\ more \in Nat /\ size[i] = part + more /\ p_d = dst.ptr + part
      BY <2>2, <2>5, <2>6, <2>7
    <3> HIDE DEF part, more, p_d
    <3>2. dst.ptr .. dst.ptr + part - 1 \subseteq dst.ptr .. dst.ptr + (part + more) - 1
      BY <1>2, <3>1
    <3>3. p_d .. p_d + more - 1 \subseteq dst.ptr .. dst.ptr + (part + more) - 1
      <4> DEFINE begin == dst.ptr
      <4>1. begin \in Nat /\ p_d = begin + part
        BY <1>2, <3>1
      <4> HIDE DEF begin
      <4>2. (begin + part) .. (begin + part) + more - 1 \subseteq begin .. begin + (part + more) - 1
        BY <3>1, <4>1
      <4> QED
        BY <4>1, <4>2, Zenon DEF begin
    <3> QED
      BY <3>1, <3>2, <3>3, Zenon DEF part, more, p_d
  <2> HIDE DEF Until
  <2>12. \A a \in DOMAIN m : a \notin Until(i) => PutAt(w, x.p_d, b)[a] = m[a]
    BY <2>7, <2>9, <2>11
  <2> QED
    BY <2>8, <2>9, <2>10, <2>12
<1> HIDE DEF So
<1> DEFINE Good == {i \in 0 .. k : encoded[i] \in S /\ So(encoded[i], i)}
<1>15. CASE size[k] <= dst.capacity
  <2>1. 0 \in Good
    BY <1>2, <1>5, <1>12, <1>13
  <2>2. ASSUME NEW j \in 0 .. k - 1, j \in Good
        PROVE  j + 1 \in Good
    <3>1. j + 1 \in 1 .. k /\ (j + 1) - 1 = j /\ j + 1 \in 0 .. k
      BY <1>2
    <3> HIDE DEF k, S, Written, first
    <3>2. encoded[j + 1] = Written(encoded[j], j + 1)
      BY <1>12, <3>1
    <3>3. encoded[j] \in S /\ So(encoded[j], (j + 1) - 1)
      BY <2>2, <3>1
    <3>4. Written(encoded[j], j + 1) \in S
      BY <1>6, <3>1, <3>3
    <3>5. So(Written(encoded[j], j + 1), j + 1)
      BY <1>14, <1>15, <3>1, <3>3
    <3> QED
      BY <3>1, <3>2, <3>4, <3>5
  <2> HIDE DEF Good
  <2>3. k \in Good
    <3>1. 0 .. k \subseteq Good
      BY <1>2, <2>1, <2>2, UpTo
    <3> QED
      BY <1>2, <3>1
  <2>4. /\ encoded[k].mem \in Memories(m) /\ encoded[k].p_d = dst.ptr + size[k]
        /\ \A a \in DOMAIN m : a \notin Until(k) => encoded[k].mem[a] = m[a]
    BY <2>3 DEF Good, So
  <2>5. size[k] \in 0 .. dst.capacity /\ size[k] \in Nat
    BY <1>2, <1>4, <1>15
  <2>6. encoded[k].p_d - dst.ptr = size[k]
    BY <1>2, <2>4, <2>5
  <2> DEFINE t == Pointed(dst.ptr, encoded[k].p_d - dst.ptr, dst.capacity)
  <2>7. t \in [ptr: {dst.ptr}, length: 0 .. dst.capacity, capacity: {dst.capacity}]
    BY <2>5, <2>6 DEF Pointed
  <2>8. \A a \in DOMAIN m : a \notin Room(dst) => encoded[k].mem[a] = m[a]
    <3>1. Until(k) \subseteq Room(dst)
      BY <1>2, <1>15, <2>5 DEF Room
    <3> HIDE DEF Until
    <3> QED
      BY <2>4, <3>1
  <2>9. UrlEncode(m, dst, src) = [result |-> "OK", object |-> [mem |-> encoded[k].mem, span |-> t]]
    <3>1. ~ (dst.capacity < size[k])
      BY <1>2, <1>15, <2>5
    <3> QED
      BY <1>1, <3>1 DEF Ok, Success
  <2> HIDE DEF t
  <2>10. UrlEncode(m, dst, src) \in Outcomes(m, dst, 0)
    <3> DEFINE w == encoded[k].mem
    <3>1. "OK" \in AzResults /\ 0 \in Nat
      BY DEF AzResults
    <3>2. w \in Memories(m) /\ \A a \in DOMAIN m : a \notin Room(dst) => w[a] = m[a]
      BY <2>4, <2>8
    <3> HIDE DEF w
    <3>3. [result |-> "OK", object |-> [mem |-> w, span |-> t]] \in Outcomes(m, dst, 0)
      BY <2>7, <3>1, <3>2, OutcomeMade
    <3> QED
      BY <2>9, <3>3 DEF w
  <2> QED
    BY <2>9, <2>10 DEF Failing, Failed
<1>16. CASE ~ (size[k] <= dst.capacity)
  <2>1. dst.capacity < size[k]
    BY <1>2, <1>4, <1>16
  <2>2. UrlEncode(m, dst, src) = Refused("ERROR_BUFFER_OVERFLOW", m, dst)
    BY <1>1, <2>1
  <2>3. Refused("ERROR_BUFFER_OVERFLOW", m, dst) \in Outcomes(m, dst, 0)
    BY OutcomeRefused DEF Whole, AzResults, AzError
  <2> QED
    BY <2>2, <2>3 DEF Refused, Failure
<1> QED
  BY <1>15, <1>16

\* Behind the content of a span.
Rest(s) == Pointed(s.ptr + s.length, 0, s.capacity - s.length)

LEMMA AppendUrlEncodedFacts ==
  ASSUME NEW m, m \in Memories(m), DOMAIN m \subseteq Nat, NEW s, Whole(s),
         NEW src, Placed(src, m), Used(src) \cap Room(Rest(s)) = {}
  PROVE  AppendUrlEncoded(m, s, src) \in Outcomes(m, s, s.length)
<1> DEFINE rest == Rest(s)
           done == UrlEncode(m, rest, src)
           u    == [s EXCEPT !.length = @ + done.object.span.length]
<1>1. s.ptr \in Nat /\ s.length \in Nat /\ s.capacity \in Nat /\ s.length <= s.capacity
  BY DEF Whole
<1>2. /\ Whole(rest) /\ rest.capacity = s.capacity - s.length
      /\ rest.ptr = s.ptr + s.length
  BY <1>1, PointedFacts DEF Rest
<1>3. AppendUrlEncoded(m, s, src) = IF Failing(done) THEN Refused(done.result, m, s)
                                    ELSE Ok(done.object.mem, u)
  BY DEF AppendUrlEncoded, Rest
<1>4. Used(src) \cap Room(rest) = {}
  OBVIOUS
<1> HIDE DEF rest
<1>5. Room(rest) \subseteq Room(s)
  BY <1>1, <1>2, RoomFacts
<1>6. done \in Outcomes(m, rest, 0)
  BY <1>2, <1>4, UrlEncodeFacts
<1> HIDE DEF done
<1>7. done.object.span.length \in 0 .. s.capacity - s.length /\ done.result \in AzResults
  BY <1>2, <1>6, OutcomeFacts
<1>8. CASE Failing(done)
  BY <1>1, <1>3, <1>7, <1>8, OutcomeRefused
<1>9. CASE ~ Failing(done)
  <2>1. s.length + done.object.span.length \in s.length .. s.capacity
    BY <1>1, <1>7
  <2>2. u \in [ptr: {s.ptr}, length: s.length .. s.capacity, capacity: {s.capacity}]
    BY <1>1, <2>1, LengthSet
  <2> HIDE DEF u
  <2>3. [result |-> "OK", object |-> [mem |-> done.object.mem, span |-> u]]
          \in Outcomes(m, s, s.length)
    BY <1>1, <1>5, <1>6, <2>2, PartWritten DEF AzResults
  <2> QED
    BY <1>3, <1>9, <2>3 DEF Ok, Success
<1> QED
  BY <1>8, <1>9
(***************************************************************************)
(* Texts of pieces.                                                        *)
(***************************************************************************)
Fits(piece, m, s) ==
  \/ piece.how = "bytes" /\ piece.bytes \in Seq(Byte)
  \/ piece.how = "plain" /\ Placed(piece.span, m)
  \/ piece.how = "encoded" /\ Placed(piece.span, m)
       /\ Used(piece.span) \cap Room(Rest(s)) = {}

LEMMA AppendPieceFacts ==
  ASSUME NEW m, m \in Memories(m), DOMAIN m \subseteq Nat, NEW s, Whole(s),
         NEW piece, Fits(piece, m, s)
  PROVE  AppendPiece(m, s, piece) \in Outcomes(m, s, s.length)
<1>1. CASE piece.how = "bytes"
  <2>1. piece.bytes \in Seq(Byte) /\ AppendPiece(m, s, piece) = AppendBytes(m, s, piece.bytes)
    BY <1>1 DEF Fits, AppendPiece
  <2> QED
    BY <2>1, AppendBytesFacts
<1>2. CASE piece.how = "plain"
  <2>1. Placed(piece.span, m) /\ AppendPiece(m, s, piece) = AppendSpan(m, s, piece.span)
    BY <1>2 DEF Fits, AppendPiece
  <2> QED
    BY <2>1, AppendSpanFacts
<1>3. CASE piece.how = "encoded"
  <2>1. /\ Placed(piece.span, m) /\ Used(piece.span) \cap Room(Rest(s)) = {}
        /\ AppendPiece(m, s, piece) = AppendUrlEncoded(m, s, piece.span)
    BY <1>3 DEF Fits, AppendPiece
  <2> QED
    BY <2>1, AppendUrlEncodedFacts
<1> QED
  BY <1>1, <1>2, <1>3 DEF Fits

\* What fits still fits when something has been appended.
LEMMA StillFits ==
  ASSUME NEW m, NEW s, Whole(s), NEW d \in Outcomes(m, s, s.length),
         NEW piece, Fits(piece, m, s)
  PROVE  Fits(piece, d.object.mem, d.object.span)
<1> DEFINE w == d.object.mem
           t == d.object.span
<1>1. /\ s.ptr \in Nat /\ s.length \in Nat /\ s.capacity \in Nat
      /\ s.length <= s.capacity
  BY DEF Whole
<1>2. /\ DOMAIN w = DOMAIN m /\ t.ptr = s.ptr /\ t.capacity = s.capacity
      /\ t.length \in s.length .. s.capacity
  BY <1>1, OutcomeFacts
<1> HIDE DEF w, t
<1>3. Room(Rest(t)) \subseteq Room(Rest(s))
  BY <1>1, <1>2 DEF Room, Rest, Pointed
<1>4. \A u : Placed(u, m) => Placed(u, w)
  BY <1>2 DEF Placed
<1>5. Fits(piece, w, t)
  BY <1>3, <1>4 DEF Fits
<1> QED
  BY <1>5 DEF w, t

LEMMA OneMore ==
  ASSUME NEW m, m \in Memories(m), DOMAIN m \subseteq Nat, NEW s, Whole(s),
         NEW d \in Outcomes(m, s, s.length), NEW piece, Fits(piece, m, s)
  PROVE  AppendPiece(d.object.mem, d.object.span, piece) \in Outcomes(m, s, s.length)
<1> DEFINE w == d.object.mem
           t == d.object.span
           e == AppendPiece(w, t, piece)
<1>1. s.length \in Nat
  BY DEF Whole
<1>2. /\ w \in Memories(m) /\ DOMAIN w = DOMAIN m /\ Whole(t)
      /\ t.capacity = s.capacity /\ t.length \in s.length .. s.capacity
  BY <1>1, OutcomeFacts
<1>3. Fits(piece, w, t)
  BY StillFits
<1> HIDE DEF w, t
<1>4. e \in Outcomes(w, t, t.length)
  <2>1. w \in Memories(w) /\ DOMAIN w \subseteq Nat
    BY <1>2 DEF Memories
  <2> QED
    BY <1>2, <1>3, <2>1, AppendPieceFacts
<1>5. e \in Outcomes(w, t, s.length)
  <2> HIDE DEF e
  <2>1. t.length .. t.capacity \subseteq s.length .. t.capacity
    BY <1>1, <1>2
  <2> QED
    BY <1>4, <2>1 DEF Outcomes
<1> HIDE DEF e
<1>6. e \in Outcomes(m, s, s.length)
  BY <1>1, <1>5, OutcomeOfBoth DEF w, t
<1> QED
  BY <1>6 DEF e, w, t

\* Pieces are written to the room of the span, all of them or the first of them.
LEMMA AppendPiecesFacts ==
  ASSUME NEW m, m \in Memories(m), DOMAIN m \subseteq Nat, NEW s, Whole(s),
         NEW pieces, Len(pieces) \in Nat,
         \A i \in 1 .. Len(pieces) : Fits(pieces[i], m, s)
  PROVE  AppendPieces(m, s, pieces) \in Outcomes(m, s, s.length)
<1> DEFINE k == Len(pieces)
           S == Outcomes(m, s, s.length)
           first == Ok(m, s)
           Then(d, i) == IF Failing(d) THEN d
                         ELSE AppendPiece(d.object.mem, d.object.span, pieces[i])
           done[i \in 0 .. Len(pieces)] ==
             IF i = 0 THEN Ok(m, s)
             ELSE IF Failing(done[i - 1]) THEN done[i - 1]
             ELSE AppendPiece(done[i - 1].object.mem, done[i - 1].object.span, pieces[i])
           step == [i \in 1 .. k |-> [d \in S |-> Then(d, i)]]
<1>1. AppendPieces(m, s, pieces) = done[k]
  BY DEF AppendPieces
<1>2. k \in Nat
  OBVIOUS
<1>3. first \in S
  <2>1. /\ s.length \in Nat
        /\ s \in [ptr: {s.ptr}, length: s.length .. s.capacity, capacity: {s.capacity}]
    BY DEF Whole
  <2> QED
    BY <2>1, OutcomeMade DEF Ok, Success, AzResults
<1>4. ASSUME NEW i \in 1 .. k, NEW d \in S
      PROVE  Then(d, i) \in S
  <2>1. AppendPiece(d.object.mem, d.object.span, pieces[i]) \in S
    BY OneMore
  <2> QED
    BY <2>1
<1> HIDE DEF S, k, Then, first
<1>5. step \in [1 .. k -> [S -> S]]
  BY <1>4
<1>6. PICK f \in Recursive(k, S, first, step) : TRUE
  <2> HIDE DEF step
  <2> QED
    BY <1>2, <1>3, <1>5, NatRecursion
<1>7. /\ f \in [0 .. k -> S] /\ f[0] = first
      /\ \A i \in 1 .. k : f[i] = Then(f[i - 1], i)
  <2>1. /\ f \in [0 .. k -> S] /\ f[0] = first
        /\ \A i \in 1 .. k : f[i] = step[i][f[i - 1]]
    <3> HIDE DEF step
    <3> QED
      BY <1>6 DEF Recursive
  <2>2. \A i \in 1 .. k : f[i - 1] \in S
    BY <1>2, <2>1
  <2> QED
    BY <2>1, <2>2
<1>8. f = [i \in 0 .. k |-> IF i = 0 THEN first ELSE Then(f[i - 1], i)]
  <2>1. \A i \in 0 .. k : i # 0 => i \in 1 .. k
    BY <1>2
  <2>2. \A i \in 0 .. k : f[i] = IF i = 0 THEN first ELSE Then(f[i - 1], i)
    BY <1>7, <2>1, Zenon
  <2> QED
    BY <1>7, <2>2
<1>9. done = [i \in 0 .. k |-> IF i = 0 THEN first ELSE Then(done[i - 1], i)]
  <2>1. \E g : g = [i \in 0 .. k |-> IF i = 0 THEN first ELSE Then(g[i - 1], i)]
    BY <1>8
  <2> QED
    BY <2>1 DEF k, first, Then
<1> HIDE DEF done
<1> DEFINE Good == {i \in 0 .. k : done[i] \in S}
<1>10. 0 \in Good
  BY <1>2, <1>3, <1>9
<1>11. ASSUME NEW j \in 0 .. k - 1, j \in Good
       PROVE  j + 1 \in Good
  <2>1. j + 1 \in 1 .. k /\ j + 1 \in 0 .. k /\ j + 1 # 0 /\ (j + 1) - 1 = j
    BY <1>2
  <2>2. done[j + 1] = Then(done[(j + 1) - 1], j + 1)
    BY <1>9, <2>1
  <2>3. Then(done[j], j + 1) \in S
    BY <1>4, <1>11, <2>1
  <2> QED
    BY <2>1, <2>2, <2>3
<1> HIDE DEF Good
<1>12. k \in Good
  <2>1. 0 .. k \subseteq Good
    BY <1>2, <1>10, <1>11, UpTo
  <2> QED
    BY <1>2, <2>1
<1> QED
  BY <1>1, <1>12 DEF Good, S
(***************************************************************************)
(* The digits of numbers, from the highest power of ten down.              *)
(***************************************************************************)
\* A power of ten but 1 is ten times another.
LEMMA LowerPower ==
  ASSUME NEW p \in Powers, p # 1
  PROVE  \E q \in Powers : p = 10 * q
<1>1. p \in Nat /\ p % 10 = 0 /\ p \div 10 \in Powers
  BY WritingAssumption
<1>2. p = 10 * (p \div 10)
  BY <1>1
<1> QED
  BY <1>1, <1>2

\* Between two powers of ten there is none missing.
LEMMA HigherPower ==
  \A q \in Powers : \A p \in Powers : p < q => 10 * p \in Powers /\ 10 * p <= q
<1> DEFINE Steps(q) == \A p \in Powers : p < q => 10 * p \in Powers /\ 10 * p <= q
           Bad == {q \in Powers : ~ Steps(q)}
<1>1. Powers \subseteq Nat \ {0}
  BY WritingAssumption
<1> HIDE DEF Steps
<1>2. SUFFICES ASSUME Bad # {}
               PROVE  FALSE
  BY DEF Steps
<1>3. PICK q \in Bad : \A b \in Bad : q <= b
  <2>1. Bad \in SUBSET Nat
    BY <1>1
  <2> HIDE DEF Bad
  <2> QED
    BY <1>2, <2>1, LeastNatural
<1>4. q \in Powers /\ q \in Nat /\ q >= 1 /\ ~ Steps(q)
  BY <1>1
<1>5. ASSUME NEW p \in Powers, p < q
      PROVE  10 * p \in Powers /\ 10 * p <= q
  <2>1. p \in Nat /\ p >= 1 /\ q # 1
    BY <1>1, <1>4, <1>5
  <2>2. PICK r \in Powers : q = 10 * r
    BY <1>4, <2>1, LowerPower
  <2>3. r \in Nat /\ r >= 1 /\ r < q
    BY <1>1, <2>2
  <2>4. Steps(r)
    BY <1>3, <1>4, <2>3
  <2>5. CASE p < r
    <3>1. 10 * p \in Powers /\ 10 * p <= r
      BY <2>4, <2>5 DEF Steps
    <3> QED
      BY <2>1, <2>3, <3>1
  <2>6. CASE p = r
    BY <1>4, <2>2, <2>6
  <2>7. CASE p > r
    <3>1. p # 1
      BY <2>1, <2>3, <2>7
    <3>2. PICK t \in Powers : p = 10 * t
      BY <3>1, LowerPower
    <3>3. t \in Nat /\ t < r
      BY <1>1, <1>5, <2>2, <2>3, <3>2
    <3>4. 10 * t <= r
      BY <2>4, <3>3 DEF Steps
    <3> QED
      BY <2>1, <2>3, <2>7, <3>2, <3>4
  <2> QED
    BY <2>1, <2>3, <2>5, <2>6, <2>7
<1> QED
  BY <1>4, <1>5 DEF Steps

\* The powers from low to top, and functions that go down from top.
PowersFrom(low, top) == {p \in Powers : low <= p /\ p <= top}

GoesDown(f, low, top, first, step) ==
  /\ f[top] = first
  /\ \A p \in PowersFrom(low, top) : p # top => f[p] = step[p][f[p * 10]]

LEMMA PowersRecursion ==
  ASSUME NEW top \in Powers, NEW S, NEW first \in S, NEW step \in [Powers -> [S -> S]]
  PROVE  \E f \in [PowersFrom(0, top) -> S] : GoesDown(f, 0, top, first, step)
<1>1. top \in Nat /\ top >= 1 /\ Powers \subseteq Nat \ {0}
  BY WritingAssumption
<1> DEFINE Part(j) == PowersFrom(top - j, top)
           Reached == {j \in 0 .. top : \E f \in [Part(j) -> S] :
                                          GoesDown(f, top - j, top, first, step)}
<1>2. 0 \in Reached
  <2>1. Part(0) = {top}
    <3>1. \A p \in Powers : top - 0 <= p /\ p <= top <=> p = top
      BY <1>1
    <3> QED
      BY <3>1 DEF PowersFrom
  <2> DEFINE f == [p \in Part(0) |-> first]
  <2>2. f \in [Part(0) -> S] /\ f[top] = first
    BY <2>1
  <2> HIDE DEF f
  <2>3. GoesDown(f, top - 0, top, first, step)
    BY <2>1, <2>2 DEF GoesDown
  <2>4. 0 \in 0 .. top
    BY <1>1
  <2> HIDE DEF Part
  <2> QED
    BY <2>2, <2>3, <2>4
<1>3. ASSUME NEW k \in 0 .. top - 1, k \in Reached
      PROVE  k + 1 \in Reached
  <2>1. PICK f \in [Part(k) -> S] : GoesDown(f, top - k, top, first, step)
    BY <1>3
  <2> DEFINE q == top - (k + 1)
  <2>2. q \in Nat /\ q < top /\ k \in Nat /\ k + 1 \in 0 .. top /\ top \in Part(k)
    BY <1>1 DEF PowersFrom
  <2>3. CASE q \notin Powers
    <3>1. Part(k + 1) = Part(k)
      <4>1. \A p \in Powers : top - (k + 1) <= p <=> top - k <= p
        BY <1>1, <2>2, <2>3
      <4> QED
        BY <4>1 DEF PowersFrom
    <3>2. GoesDown(f, top - (k + 1), top, first, step)
      BY <2>1, <3>1 DEF GoesDown
    <3> HIDE DEF Part
    <3> QED
      BY <2>2, <3>1, <3>2
  <2>4. CASE q \in Powers
    <3> DEFINE g == [p \in Part(k + 1) |-> IF p = q THEN step[q][f[q * 10]] ELSE f[p]]
    <3>1. /\ \A p \in Part(k + 1) : p # q => p \in Part(k)
          /\ q \in Part(k + 1) /\ q \notin Part(k) /\ Part(k) \subseteq Part(k + 1)
      <4>1. /\ \A p \in Powers : top - (k + 1) <= p /\ p # q => top - k <= p
            /\ \A p \in Powers : top - k <= p => top - (k + 1) <= p
            /\ top - (k + 1) <= q /\ q <= top /\ ~ (top - k <= q)
        BY <1>1, <2>2
      <4> QED
        BY <2>4, <4>1, Zenon DEF PowersFrom
    <3>2. q * 10 \in Part(k)
      <4>1. 10 * q \in Powers /\ 10 * q <= top /\ q >= 1
        BY <1>1, <2>2, <2>4, HigherPower
      <4> QED
        BY <1>1, <2>2, <4>1 DEF PowersFrom
    <3>3. \A p \in Part(k) : p # top => p * 10 \in Part(k)
      <4> SUFFICES ASSUME NEW p \in Part(k), p # top
                   PROVE  p * 10 \in Part(k)
        OBVIOUS
      <4>1. p \in Powers /\ p \in Nat /\ top - k <= p /\ p < top
        BY <1>1, <2>2 DEF PowersFrom
      <4>2. 10 * p \in Powers /\ 10 * p <= top
        BY <4>1, HigherPower
      <4> QED
        BY <1>1, <2>2, <4>1, <4>2 DEF PowersFrom
    <3> HIDE DEF Part, q
    <3>4. f[q * 10] \in S /\ step[q] \in [S -> S]
      BY <2>4, <3>2
    <3>5. step[q][f[q * 10]] \in S
      BY <3>4
    <3>6. g \in [Part(k + 1) -> S]
      BY <3>1, <3>5
    <3>7. g[q] = step[q][f[q * 10]] /\ \A p \in Part(k) : g[p] = f[p]
      BY <3>1
    <3> HIDE DEF g
    <3>8. g[top] = first
      BY <2>1, <2>2, <3>7 DEF GoesDown
    <3>9. ASSUME NEW p \in Part(k + 1), p # top
          PROVE  g[p] = step[p][g[p * 10]]
      <4>1. CASE p = q
        BY <3>2, <3>7, <4>1
      <4>2. CASE p # q
        <5>1. p \in Part(k) /\ p * 10 \in Part(k)
          BY <3>1, <3>3, <3>9, <4>2
        <5>2. f[p] = step[p][f[p * 10]]
          BY <2>1, <3>9, <5>1 DEF GoesDown, Part
        <5> QED
          BY <3>7, <5>1, <5>2
      <4> QED
        BY <4>1, <4>2
    <3>10. GoesDown(g, top - (k + 1), top, first, step)
      BY <3>8, <3>9 DEF GoesDown, Part
    <3> QED
      BY <2>2, <3>6, <3>10
  <2> QED
    BY <2>3, <2>4
<1> HIDE DEF Reached
<1>4. top \in Reached
  <2>1. 0 .. top \subseteq Reached
    BY <1>1, <1>2, <1>3, UpTo
  <2> QED
    BY <1>1, <2>1
<1>5. top - top = 0
  BY <1>1
<1> QED
  BY <1>4, <1>5 DEF Reached

\* What holds at top and goes down holds for every power.
LEMMA PowersInduction ==
  ASSUME NEW top \in Powers, NEW G, top \in G,
         \A p \in PowersFrom(0, top) : p # top /\ p * 10 \in G => p \in G
  PROVE  PowersFrom(0, top) \subseteq G
<1>1. top \in Nat /\ Powers \subseteq Nat \ {0}
  BY WritingAssumption
<1> DEFINE Bad == {j \in 0 .. top : \E p \in PowersFrom(0, top) : j = top - p /\ p \notin G}
<1>2. SUFFICES ASSUME NEW q \in PowersFrom(0, top), q \notin G
               PROVE  FALSE
  OBVIOUS
<1>3. q \in Nat /\ q <= top /\ top - q \in Bad
  BY <1>1, <1>2 DEF PowersFrom
<1>4. PICK j \in Bad : \A i \in Bad : j <= i
  <2>1. Bad \in SUBSET Nat /\ Bad # {}
    <3>1. 0 .. top \subseteq Nat
      BY <1>1
    <3> QED
      BY <1>3, <3>1, Zenon
  <2> HIDE DEF Bad
  <2> QED
    BY <2>1, LeastNatural
<1>5. PICK p \in PowersFrom(0, top) : j = top - p /\ p \notin G
  BY <1>4
<1>6. p \in Powers /\ p \in Nat /\ p >= 1 /\ p # top /\ p < top
  BY <1>1, <1>5 DEF PowersFrom
<1>7. 10 * p \in Powers /\ 10 * p <= top
  BY <1>6, HigherPower
<1>8. p * 10 \in PowersFrom(0, top) /\ top - p * 10 \in 0 .. top /\ top - p * 10 < j
  BY <1>1, <1>5, <1>6, <1>7 DEF PowersFrom
<1>9. p * 10 \notin G
  BY <1>5, <1>6
<1>10. top - p * 10 \in Bad
  BY <1>8, <1>9
<1> HIDE DEF Bad
<1> QED
  BY <1>1, <1>4, <1>5, <1>6, <1>8, <1>10
Literals == {Bytes(b) : b \in Seq(Byte)}

LEMMA LiteralByte ==
  ASSUME NEW b \in Byte
  PROVE  <<Bytes(<<b>>)>> \in Seq(Literals)
<1>1. <<b>> \in Seq(Byte)
  OBVIOUS
<1>2. Bytes(<<b>>) \in Literals
  BY <1>1 DEF Literals
<1> HIDE DEF Literals
<1> QED
  BY <1>2

LEMMA LiteralDigit ==
  ASSUME NEW d \in 0 .. 9
  PROVE  <<Digit(d)>> \in Seq(Literals)
<1>1. 48 + d \in Byte
  BY DEF Byte
<1> QED
  BY <1>1, LiteralByte DEF Digit

\* What remains of a number has one digit in front of the next power of ten.
LEMMA NextDigit ==
  ASSUME NEW a \in Nat, NEW p \in Nat \ {0}
  PROVE  (a % (p * 10)) \div p \in 0 .. 9
<1> DEFINE m == p * 10
           r == a % m
           d == r \div p
<1>1. m \in Nat \ {0} /\ m = p * 10
  OBVIOUS
<1> HIDE DEF m
<1>2. r \in 0 .. m - 1
  BY <1>1, DivMod
<1> HIDE DEF r
<1>3. r \in Int /\ r = p * d + (r % p) /\ r % p \in 0 .. p - 1 /\ d \in Int
  BY <1>1, <1>2, DivMod
<1> HIDE DEF d
<1>4. d >= 0
  <2> SUFFICES ASSUME d <= -1
               PROVE  FALSE
    BY <1>3
  <2>1. p * d <= - p
    BY <1>3
  <2> QED
    BY <1>1, <1>2, <1>3, <2>1
<1>5. d <= 9
  <2> SUFFICES ASSUME d >= 10
               PROVE  FALSE
    BY <1>3
  <2>1. p * d >= p * 10
    BY <1>3
  <2> QED
    BY <1>1, <1>2, <1>3, <2>1
<1>6. d \in 0 .. 9
  BY <1>3, <1>4, <1>5
<1> QED
  BY <1>6 DEF d, r, m

LEMMA Uint64PiecesFacts ==
  ASSUME NEW number \in Nat,
         number # 0 => \E div \in Powers : number \div div \in 1 .. 9
  PROVE  Uint64Pieces(number) \in Seq(Literals)
<1> DEFINE first == CHOOSE div \in Powers : number \div div # 0 /\ number \div div < 10
           D == {p \in Powers : p <= first}
           nn[div \in {p \in Powers : p <= first}] ==
             IF div = first THEN number ELSE nn[div * 10] % (div * 10)
           digits[div \in {p \in Powers : p <= first}] ==
             (IF div = first THEN <<>> ELSE digits[div * 10]) \o <<Digit(nn[div] \div div)>>
<1>1. Uint64Pieces(number) = IF number = 0 THEN <<Digit(0)>> ELSE digits[1]
  BY DEF Uint64Pieces
<1>2. CASE number = 0
  BY <1>1, <1>2, LiteralDigit
<1>3. CASE number # 0
  <2>1. first \in Powers /\ number \div first \in 0 .. 9
    <3>1. PICK div \in Powers : number \div div \in 1 .. 9
      BY <1>3
    <3>2. number \div div # 0 /\ number \div div < 10
      BY <3>1
    <3>3. first \in Powers /\ number \div first # 0 /\ number \div first < 10
      BY <3>1, <3>2
    <3> HIDE DEF first
    <3>4. first \in Nat \ {0}
      BY <3>3, WritingAssumption
    <3>5. number \div first \in Nat
      BY <3>4
    <3> QED
      BY <3>3, <3>5
  <2> HIDE DEF first
  <2>2. Powers \subseteq Nat \ {0} /\ 1 \in Powers
    BY WritingAssumption
  <2>3. D = PowersFrom(0, first) /\ first \in D /\ 1 \in D
    <3>1. (\A p \in Powers : 0 <= p) /\ 1 <= first /\ first <= first
      BY <2>1, <2>2
    <3>2. D = PowersFrom(0, first)
      BY <3>1, Zenon DEF PowersFrom
    <3> QED
      BY <2>1, <2>2, <3>1, <3>2
  <2>4. nn = [div \in D |-> IF div = first THEN number ELSE nn[div * 10] % (div * 10)]
    <3> DEFINE step == [p \in Powers |-> [x \in Nat |-> x % (p * 10)]]
    <3>1. step \in [Powers -> [Nat -> Nat]]
      <4>1. \A p \in Powers, x \in Nat : x % (p * 10) \in Nat
        BY <2>2
      <4> QED
        BY <4>1
    <3>2. PICK f \in [PowersFrom(0, first) -> Nat] : GoesDown(f, 0, first, number, step)
      <4> HIDE DEF step
      <4> QED
        BY <2>1, <3>1, PowersRecursion
    <3>3. ASSUME NEW p \in D, p # first
          PROVE  f[p] = f[p * 10] % (p * 10)
      <4>1. p \in Powers /\ p < first
        BY <2>1, <2>2, <3>3
      <4>2. p * 10 \in D
        <5>1. 10 * p \in Powers /\ 10 * p <= first
          BY <2>1, <4>1, HigherPower
        <5> QED
          BY <2>2, <4>1, <5>1
      <4>3. f[p * 10] \in Nat
        BY <2>3, <3>2, <4>2
      <4>4. f[p] = step[p][f[p * 10]]
        BY <2>3, <3>2, <3>3 DEF GoesDown
      <4> QED
        BY <4>1, <4>3, <4>4
    <3>4. f[first] = number /\ f \in [D -> Nat]
      BY <2>3, <3>2 DEF GoesDown
    <3> HIDE DEF D
    <3>5. f = [div \in D |-> IF div = first THEN number ELSE f[div * 10] % (div * 10)]
      BY <3>3, <3>4
    <3> QED
      BY <3>5 DEF D
  <2> HIDE DEF nn
  <2>5. \A p \in D : nn[p] \in Nat /\ nn[p] \div p \in 0 .. 9
    <3> DEFINE G == {p \in D : nn[p] \in Nat /\ nn[p] \div p \in 0 .. 9}
    <3>1. nn[first] = number
      BY <2>3, <2>4
    <3>2. first \in G
      BY <2>1, <2>3, <3>1
    <3>3. ASSUME NEW p \in PowersFrom(0, first), p # first, p * 10 \in G
          PROVE  p \in G
      <4>1. p \in D /\ p \in Nat \ {0} /\ nn[p * 10] \in Nat
        BY <2>2, <2>3, <3>3
      <4>2. nn[p] = nn[p * 10] % (p * 10)
        BY <2>4, <3>3, <4>1, Zenon
      <4>3. nn[p * 10] % (p * 10) \in Nat
        BY <4>1
      <4>4. (nn[p * 10] % (p * 10)) \div p \in 0 .. 9
        BY <4>1, NextDigit
      <4> QED
        BY <4>1, <4>2, <4>3, <4>4
    <3> HIDE DEF G
    <3>4. PowersFrom(0, first) \subseteq G
      BY <2>1, <3>2, <3>3, PowersInduction
    <3> QED
      BY <2>3, <3>4 DEF G
  <2> DEFINE Next1(p) == <<Digit(nn[p] \div p)>>
  <2>6. \A p \in D : Next1(p) \in Seq(Literals)
    BY <2>5, LiteralDigit
  <2>7. digits = [div \in D |-> (IF div = first THEN <<>> ELSE digits[div * 10])
                                 \o Next1(div)]
    <3> DEFINE step == [p \in Powers |-> [x \in Seq(Literals) |->
                          IF p \in D THEN x \o Next1(p) ELSE x]]
               begin == <<>> \o Next1(first)
    <3> HIDE DEF Next1, D
    <3>1. begin \in Seq(Literals)
      <4>1. <<>> \in Seq(Literals) /\ Next1(first) \in Seq(Literals)
        BY <2>3, <2>6
      <4> QED
        BY <4>1, ConcatProperties
    <3>2. step \in [Powers -> [Seq(Literals) -> Seq(Literals)]]
      <4>1. \A p \in D, x \in Seq(Literals) : x \o Next1(p) \in Seq(Literals)
        BY <2>6, ConcatProperties
      <4> QED
        BY <4>1
    <3> HIDE DEF begin
    <3>3. PICK f \in [PowersFrom(0, first) -> Seq(Literals)] :
            GoesDown(f, 0, first, begin, step)
      <4> HIDE DEF step
      <4> QED
        BY <2>1, <3>1, <3>2, PowersRecursion
    <3>4. ASSUME NEW p \in D, p # first
          PROVE  f[p] = f[p * 10] \o Next1(p)
      <4>1. p \in Powers /\ p < first /\ p \in Nat
        BY <2>1, <2>2, <3>4 DEF D
      <4>2. p * 10 \in D
        <5>1. 10 * p \in Powers /\ 10 * p <= first
          BY <2>1, <4>1, HigherPower
        <5> QED
          BY <4>1, <5>1 DEF D
      <4>3. f[p * 10] \in Seq(Literals)
        BY <2>3, <3>3, <4>2
      <4>4. f[p] = step[p][f[p * 10]]
        BY <2>3, <3>3, <3>4 DEF GoesDown
      <4> QED
        BY <4>1, <4>3, <4>4
    <3>5. f[first] = <<>> \o Next1(first) /\ f \in [D -> Seq(Literals)]
      BY <2>3, <3>3 DEF GoesDown, begin
    <3>6. \A div \in D : f[div] = (IF div = first THEN <<>> ELSE f[div * 10]) \o Next1(div)
      BY <3>4, <3>5, Zenon
    <3>7. f = [div \in D |-> (IF div = first THEN <<>> ELSE f[div * 10]) \o Next1(div)]
      BY <3>5, <3>6
    <3> QED
      BY <3>7 DEF D, Next1
  <2> HIDE DEF digits, Next1
  <2> DEFINE G == {p \in D : digits[p] \in Seq(Literals)}
  <2>8. first \in G
    <3>1. digits[first] = <<>> \o Next1(first)
      BY <2>3, <2>7, Zenon
    <3>2. <<>> \in Seq(Literals) /\ Next1(first) \in Seq(Literals)
      BY <2>3, <2>6
    <3> QED
      BY <2>3, <3>1, <3>2, ConcatProperties
  <2>9. ASSUME NEW p \in PowersFrom(0, first), p # first, p * 10 \in G
        PROVE  p \in G
    <3>1. p \in D /\ digits[p * 10] \in Seq(Literals) /\ Next1(p) \in Seq(Literals)
      BY <2>3, <2>6, <2>9
    <3>2. digits[p] = digits[p * 10] \o Next1(p)
      BY <2>7, <2>9, <3>1, Zenon
    <3> QED
      BY <3>1, <3>2, ConcatProperties
  <2> HIDE DEF G
  <2>10. PowersFrom(0, first) \subseteq G
    BY <2>1, <2>8, <2>9, PowersInduction
  <2> QED
    BY <1>1, <1>3, <2>3, <2>10 DEF G
<1> QED
  BY <1>2, <1>3
(***************************************************************************)
(* The texts that the SDK puts together.                                   *)
(***************************************************************************)
SpanType == [ptr: Nat, length: Nat, capacity: Nat]

Fitting(m, s) ==
  {piece \in [how: {"bytes", "plain", "encoded"}, bytes: Seq(Byte), span: SpanType] :
     Fits(piece, m, s)}

LEMMA FittingPieces ==
  ASSUME NEW m, NEW s
  PROVE  /\ Literals \subseteq Fitting(m, s)
         /\ \A b \in Seq(Byte) : Bytes(b) \in Fitting(m, s)
         /\ \A u : Placed(u, m) => Plain(u) \in Fitting(m, s)
         /\ \A u : Placed(u, m) /\ Used(u) \cap Room(Rest(s)) = {} =>
              Encoded(u) \in Fitting(m, s)
<1>1. NullSpan \in SpanType /\ <<>> \in Seq(Byte)
  BY DEF NullSpan, Pointed, SpanType
<1>2. \A b \in Seq(Byte) : Bytes(b) \in Fitting(m, s)
  BY <1>1 DEF Bytes, Fitting, Fits
<1>3. ASSUME NEW u, Placed(u, m)
      PROVE  Plain(u) \in Fitting(m, s)
  <2>1. u \in SpanType
    BY <1>3 DEF Placed, Whole, SpanType
  <2> QED
    BY <1>1, <1>3, <2>1 DEF Plain, Fitting, Fits
<1>4. ASSUME NEW u, Placed(u, m), Used(u) \cap Room(Rest(s)) = {}
      PROVE  Encoded(u) \in Fitting(m, s)
  <2>1. u \in SpanType
    BY <1>4 DEF Placed, Whole, SpanType
  <2> QED
    BY <1>1, <1>4, <2>1 DEF Encoded, Fitting, Fits
<1>5. Literals \subseteq Fitting(m, s)
  BY <1>2 DEF Literals
<1> QED
  BY <1>2, <1>3, <1>4, <1>5

LEMMA AppendFitting ==
  ASSUME NEW m, m \in Memories(m), DOMAIN m \subseteq Nat, NEW s, Whole(s),
         NEW pieces \in Seq(Fitting(m, s))
  PROVE  AppendPieces(m, s, pieces) \in Outcomes(m, s, s.length)
<1>1. Len(pieces) \in Nat /\ \A i \in 1 .. Len(pieces) : pieces[i] \in Fitting(m, s)
  BY LenProperties, ElementOfSeq
<1>2. \A i \in 1 .. Len(pieces) : Fits(pieces[i], m, s)
  BY <1>1 DEF Fitting
<1> QED
  BY <1>1, <1>2, AppendPiecesFacts

LEMMA AppendLiterals ==
  ASSUME NEW m, m \in Memories(m), DOMAIN m \subseteq Nat, NEW s, Whole(s),
         NEW pieces \in Seq(Literals)
  PROVE  AppendPieces(m, s, pieces) \in Outcomes(m, s, s.length)
<1>1. Literals \subseteq Fitting(m, s)
  BY FittingPieces
<1>2. pieces \in Seq(Fitting(m, s))
  BY <1>1, LenProperties, ElementOfSeq
<1> QED
  BY <1>2, AppendFitting

\* A number and its digits.
Sized(number) == number # 0 => \E div \in Powers : number \div div \in 1 .. 9

LEMMA Int64PiecesFacts ==
  ASSUME NEW number \in Int, Sized(IF number < 0 THEN - number ELSE number)
  PROVE  Int64Pieces(number) \in Seq(Literals)
<1>1. CASE number < 0
  <2>1. - number \in Nat
    BY <1>1
  <2>2. Uint64Pieces(- number) \in Seq(Literals)
    BY <1>1, <2>1, Uint64PiecesFacts DEF Sized
  <2>3. <<Bytes(<<45>>)>> \in Seq(Literals)
    BY LiteralByte DEF Byte
  <2>4. Int64Pieces(number) = <<Bytes(<<45>>)>> \o Uint64Pieces(- number)
    BY <1>1 DEF Int64Pieces
  <2> QED
    BY <2>2, <2>3, <2>4, ConcatProperties
<1>2. CASE ~ (number < 0)
  <2>1. number \in Nat
    BY <1>2
  <2> QED
    BY <1>2, <2>1, Uint64PiecesFacts DEF Sized, Int64Pieces
<1> QED
  BY <1>1, <1>2

LEMMA AppendDoubleFacts ==
  ASSUME NEW m, m \in Memories(m), DOMAIN m \subseteq Nat, NEW s, Whole(s),
         NEW number, number.whole \in Nat, Sized(number.whole)
  PROVE  AppendDouble(m, s, number) \in Outcomes(m, s, s.length)
<1> DEFINE sign == IF number.negative THEN <<Bytes(<<45>>)>> ELSE <<>>
           done == AppendPieces(m, s, sign)
           digits == Uint64Pieces(number.whole)
<1>1. /\ s.length \in Nat
      /\ AppendDouble(m, s, number) =
           IF number.whole = 0 /\ ~ number.fraction
           THEN AppendPieces(m, s, <<Digit(0)>>)
           ELSE IF Failing(done) THEN done
           ELSE IF number.fraction
           THEN Refused("ERROR_NOT_IMPLEMENTED", done.object.mem, done.object.span)
           ELSE AppendPieces(m, s, sign \o digits)
  BY DEF AppendDouble, Whole
<1>2. sign \in Seq(Literals)
  <2>1. <<Bytes(<<45>>)>> \in Seq(Literals)
    BY LiteralByte DEF Byte
  <2>2. <<>> \in Seq(Literals)
    OBVIOUS
  <2> QED
    BY <2>1, <2>2
<1>3. digits \in Seq(Literals)
  BY Uint64PiecesFacts DEF Sized
<1> HIDE DEF sign, digits
<1>4. done \in Outcomes(m, s, s.length)
  BY <1>2, AppendLiterals
<1>5. AppendPieces(m, s, sign \o digits) \in Outcomes(m, s, s.length)
  <2>1. sign \o digits \in Seq(Literals)
    BY <1>2, <1>3, ConcatProperties
  <2> QED
    BY <2>1, AppendLiterals
<1>6. AppendPieces(m, s, <<Digit(0)>>) \in Outcomes(m, s, s.length)
  <2>1. 0 \in 0 .. 9
    OBVIOUS
  <2>2. <<Digit(0)>> \in Seq(Literals)
    BY <2>1, LiteralDigit
  <2> QED
    BY <2>2, AppendLiterals
<1> HIDE DEF done
<1>7. Refused("ERROR_NOT_IMPLEMENTED", done.object.mem, done.object.span)
        \in Outcomes(m, s, s.length)
  <2> DEFINE w == done.object.mem
             t == done.object.span
  <2>1. /\ w \in Memories(m)
        /\ \A a \in DOMAIN m : a \notin Room(s) => w[a] = m[a]
        /\ t \in [ptr: {s.ptr}, length: s.length .. s.capacity, capacity: {s.capacity}]
    BY <1>4 DEF Outcomes
  <2>2. "ERROR_NOT_IMPLEMENTED" \in AzResults
    BY DEF AzResults, AzError
  <2> HIDE DEF w, t
  <2>3. [result |-> "ERROR_NOT_IMPLEMENTED", object |-> [mem |-> w, span |-> t]]
          \in Outcomes(m, s, s.length)
    BY <1>1, <2>1, <2>2, OutcomeMade
  <2> QED
    BY <2>3 DEF Refused, Failure, w, t
<1> QED
  BY <1>1, <1>4, <1>5, <1>6, <1>7, Zenon

LEMMA ValuePiecesFacts ==
  ASSUME NEW m, NEW s, NEW u, Placed(u, m)
  PROVE  ValuePieces(u) \in Seq(Fitting(m, s))
<1> DEFINE ellipsis_len == Len(Ellipsis)
           first == ValueMax \div 2 - ((ellipsis_len \div 2) + (ellipsis_len % 2))
           last  == (ValueMax \div 2) + (ValueMax % 2) - (ellipsis_len \div 2)
           front == Plain(Take(u, first))
           dots  == Bytes(Ellipsis)
           back  == Plain(Drop(u, u.length - last))
<1>1. ValuePieces(u) = IF u.length <= ValueMax THEN <<Plain(u)>> ELSE <<front, dots, back>>
  BY DEF ValuePieces
<1>2. u.length \in Nat
  BY DEF Placed, Whole
<1>3. CASE u.length <= ValueMax
  <2>1. Plain(u) \in Fitting(m, s)
    BY FittingPieces
  <2> QED
    BY <1>1, <1>3, <2>1
<1>4. CASE ~ (u.length <= ValueMax)
  <2>1. ValueMax \in Nat /\ ValueMax > 6 /\ ValueMax % 2 = 0
    BY WritingAssumption
  <2>2. ellipsis_len = 5
    BY DEF Ellipsis
  <2>3. first \in Nat /\ last \in Nat /\ last <= ValueMax
    BY <2>1, <2>2
  <2>4. u.length - last \in Nat
    <3> HIDE DEF last
    <3> QED
      BY <1>2, <1>4, <2>1, <2>3
  <2>5. Placed(Take(u, first), m) /\ Placed(Drop(u, u.length - last), m)
    <3> HIDE DEF first, last
    <3> QED
      BY <2>3, <2>4, TakePlaced, DropPlaced
  <2>6. front \in Fitting(m, s) /\ back \in Fitting(m, s)
    <3> HIDE DEF first, last
    <3> QED
      BY <2>5, FittingPieces
  <2>7. dots \in Fitting(m, s)
    <3>1. Ellipsis \in Seq(Byte)
      BY DEF Ellipsis, Byte
    <3> QED
      BY <3>1, FittingPieces
  <2> HIDE DEF front, dots, back
  <2> QED
    BY <1>1, <1>4, <2>6, <2>7
<1> QED
  BY <1>3, <1>4

LEMMA RequestPiecesFacts ==
  ASSUME NEW m, NEW s, NEW u, Placed(u, m)
  PROVE  RequestPieces(u, u, <<[key |-> u, value |-> u]>>) \in Seq(Fitting(m, s))
<1> DEFINE headers == <<[key |-> u, value |-> u]>>
           Header(h) == <<Bytes(<<10>>), Plain(h.key)>>
                        \o (IF h.value.length > 0
                            THEN <<Bytes(<<58>>)>> \o ValuePieces(h.value) ELSE <<>>)
           start == <<Bytes(<<72>>), Plain(u), Bytes(<<32>>), Plain(u)>>
           all[i \in 0 .. Len(headers)] ==
             IF i = 0 THEN <<Bytes(<<72>>), Plain(u), Bytes(<<32>>), Plain(u)>>
             ELSE all[i - 1] \o Header(headers[i])
           F == Fitting(m, s)
<1>1. RequestPieces(u, u, headers) = all[Len(headers)]
  BY DEF RequestPieces
<1>2. Len(headers) = 1 /\ headers[1] = [key |-> u, value |-> u]
  OBVIOUS
<1>3. all[1] = start \o Header(headers[1])
  <2> DEFINE f == [i \in 0 .. 1 |-> IF i = 0 THEN start ELSE start \o Header(headers[i])]
  <2> HIDE DEF Header, start, headers
  <2>1. f[0] = start
    OBVIOUS
  <2>2. \A i \in 0 .. 1 : i # 0 => i - 1 = 0
    OBVIOUS
  <2>3. f = [i \in 0 .. Len(headers) |-> IF i = 0 THEN start
                                         ELSE f[i - 1] \o Header(headers[i])]
    <3>1. [i \in 0 .. 1 |-> IF i = 0 THEN start ELSE f[i - 1] \o Header(headers[i])]
            = [i \in 0 .. 1 |-> IF i = 0 THEN start ELSE start \o Header(headers[i])]
      <4> HIDE DEF f
      <4> QED
        BY <2>1, <2>2
    <3> QED
      BY <1>2, <3>1, Zenon
  <2>4. \E g : g = [i \in 0 .. Len(headers) |-> IF i = 0 THEN start
                                                ELSE g[i - 1] \o Header(headers[i])]
    <3> HIDE DEF f
    <3> QED
      BY <2>3
  <2>5. all = [i \in 0 .. Len(headers) |-> IF i = 0 THEN start
                                           ELSE all[i - 1] \o Header(headers[i])]
    BY <2>4 DEF start
  <2> HIDE DEF all
  <2>6. 0 \in 0 .. Len(headers) /\ 1 \in 0 .. Len(headers) /\ 1 - 1 = 0
    BY <1>2
  <2>7. all[0] = start
    BY <2>5, <2>6, Zenon
  <2>8. all[1] = all[1 - 1] \o Header(headers[1])
    <3>1. 1 # 0
      OBVIOUS
    <3> QED
      BY <2>5, <2>6, <3>1, Zenon
  <2> QED
    BY <2>6, <2>7, <2>8
<1> HIDE DEF all
<1>4. /\ Bytes(<<72>>) \in F /\ Bytes(<<32>>) \in F /\ Bytes(<<10>>) \in F
      /\ Bytes(<<58>>) \in F /\ Plain(u) \in F
  <2>1. <<72>> \in Seq(Byte) /\ <<32>> \in Seq(Byte) /\ <<10>> \in Seq(Byte)
        /\ <<58>> \in Seq(Byte)
    BY DEF Byte
  <2> QED
    BY <2>1, FittingPieces
<1> HIDE DEF F
<1>5. start \in Seq(F)
  BY <1>4
<1>6. Header(headers[1]) \in Seq(F)
  <2>1. Header(headers[1]) =
          <<Bytes(<<10>>), Plain(u)>>
            \o (IF u.length > 0 THEN <<Bytes(<<58>>)>> \o ValuePieces(u) ELSE <<>>)
    BY <1>2
  <2>2. <<Bytes(<<10>>), Plain(u)>> \in Seq(F) /\ <<Bytes(<<58>>)>> \in Seq(F)
        /\ <<>> \in Seq(F)
    BY <1>4
  <2>3. <<Bytes(<<58>>)>> \o ValuePieces(u) \in Seq(F)
    BY <2>2, ValuePiecesFacts, ConcatProperties DEF F
  <2>4. (IF u.length > 0 THEN <<Bytes(<<58>>)>> \o ValuePieces(u) ELSE <<>>) \in Seq(F)
    BY <2>2, <2>3
  <2> QED
    BY <2>1, <2>2, <2>4, ConcatProperties
<1> HIDE DEF start, Header, headers
<1>7. start \o Header(headers[1]) \in Seq(F)
  BY <1>5, <1>6, ConcatProperties
<1> QED
  BY <1>1, <1>2, <1>3, <1>7 DEF F, headers

LEMMA TokenPiecesFacts ==
  ASSUME NEW m, NEW s, NEW u, Placed(u, m), Used(u) \cap Room(Rest(s)) = {}
  PROVE  /\ TokenUrlPieces(u) \in Seq(Fitting(m, s))
         /\ TokenBodyPieces(u, u, u) \in Seq(Fitting(m, s))
<1> DEFINE F == Fitting(m, s)
<1>1. /\ Bytes(<<104>>) \in F /\ Bytes(<<47>>) \in F /\ Bytes(<<103>>) \in F
      /\ Bytes(<<38>>) \in F /\ Encoded(u) \in F
  <2>1. <<104>> \in Seq(Byte) /\ <<47>> \in Seq(Byte) /\ <<103>> \in Seq(Byte)
        /\ <<38>> \in Seq(Byte)
    BY DEF Byte
  <2> QED
    BY <2>1, FittingPieces
<1> HIDE DEF F
<1>2. TokenUrlPieces(u) \in Seq(F)
  BY <1>1 DEF TokenUrlPieces
<1>3. TokenBodyPieces(u, u, u) \in Seq(F)
  <2> DEFINE front == <<Bytes(<<103>>), Encoded(u), Bytes(<<38>>), Encoded(u)>>
             back  == IF u.length > 0 THEN <<Bytes(<<38>>), Encoded(u)>> ELSE <<>>
  <2>1. front \in Seq(F) /\ back \in Seq(F)
    BY <1>1
  <2>2. TokenBodyPieces(u, u, u) = front \o back
    BY DEF TokenBodyPieces
  <2> HIDE DEF front, back
  <2> QED
    BY <2>1, <2>2, ConcatProperties
<1> QED
  BY <1>2, <1>3 DEF F
(***************************************************************************)
(* The calls.                                                              *)
(***************************************************************************)
\* Both spans lie in memory.
SpansPlaced ==
  /\ mem \in Seq(Byte) /\ Len(mem) >= StringMax + 1
  /\ Placed(self, mem) /\ Placed(other, mem)

\* What a call may write.
RoomWritten ==
  /\ \A a \in DOMAIN mem :
       mem'[a] # mem[a] =>
         \/ a \in Room(self)
         \/ answer'.of = "string" /\ a \in StringAt .. StringAt + StringMax - 1
         \/ answer'.of = "swap" /\ a \in Used(other)
  /\ self'.ptr = self.ptr /\ self'.capacity = self.capacity
  /\ self'.length <= self.capacity

LEMMA MemoryFacts ==
  ASSUME SpansPlaced
  PROVE  /\ mem \in Memories(mem) /\ DOMAIN mem \subseteq Nat
         /\ DOMAIN mem = 1 .. Len(mem) /\ Len(mem) \in Nat
         /\ \A w \in Memories(mem) : w \in Seq(Byte) /\ Len(w) = Len(mem)
<1>1. mem \in Seq(Byte)
  BY DEF SpansPlaced
<1>2. /\ DOMAIN mem = 1 .. Len(mem) /\ Len(mem) \in Nat
      /\ mem \in [1 .. Len(mem) -> Byte]
  BY <1>1, LenProperties
<1>3. ASSUME NEW w \in Memories(mem)
      PROVE  w \in Seq(Byte) /\ Len(w) = Len(mem)
  <2>1. w \in [1 .. Len(mem) -> Byte]
    BY <1>2 DEF Memories
  <2> QED
    BY <1>2, <2>1
<1> QED
  BY <1>2, <1>3 DEF Memories

LEMMA InitPlaced == Init => SpansPlaced
<1> SUFFICES ASSUME Init
             PROVE  SpansPlaced
  OBVIOUS
<1>1. PICK s \in Starts :
        /\ mem = s.content \o Unused(s.room - Len(s.content) + 1) \o s.text
                   \o Unused(StringMax + 2)
        /\ self = Pointed(1, Len(s.content), s.room)
        /\ other = Pointed(TextAt(s), Len(s.text), Len(s.text))
  BY DEF Init
<1> DEFINE before == Unused(s.room - Len(s.content) + 1)
           behind == Unused(StringMax + 2)
<1>2. /\ s.content \in Seq(Byte) /\ s.text \in Seq(Byte) /\ s.room \in Nat
      /\ Len(s.content) <= s.room /\ StringMax \in Nat
      /\ Len(s.content) \in Nat /\ Len(s.text) \in Nat
  BY SpanCallsAssumption, LenProperties
<1>3. ASSUME NEW count \in Nat
      PROVE  Unused(count) \in Seq(Byte) /\ Len(Unused(count)) = count
  BY DEF Unused, Elsewhere, Byte
<1>4. /\ before \in Seq(Byte) /\ Len(before) = s.room - Len(s.content) + 1
      /\ behind \in Seq(Byte) /\ Len(behind) = StringMax + 2
  BY <1>2, <1>3
<1> HIDE DEF before, behind
<1> DEFINE c == s.content
           t == s.text
           cb  == c \o before
           cbt == cb \o t
<1>5. cb \in Seq(Byte) /\ Len(cb) = s.room + 1
  <2>1. c \in Seq(Byte) /\ cb \in Seq(Byte) /\ Len(cb) = Len(c) + Len(before)
    BY <1>2, <1>4, ConcatProperties
  <2> HIDE DEF cb
  <2> QED
    BY <1>2, <1>4, <2>1
<1> HIDE DEF cb
<1>6. cbt \in Seq(Byte) /\ Len(cbt) = s.room + 1 + Len(s.text)
  <2>1. t \in Seq(Byte) /\ cbt \in Seq(Byte) /\ Len(cbt) = Len(cb) + Len(t)
    BY <1>2, <1>5, ConcatProperties
  <2> HIDE DEF cbt
  <2> QED
    BY <1>2, <1>5, <2>1
<1> HIDE DEF cbt
<1>7. /\ mem \in Seq(Byte)
      /\ Len(mem) = s.room + 1 + Len(s.text) + StringMax + 2
  <2>1. mem = cbt \o behind
    BY <1>1 DEF before, behind, cb, cbt
  <2>2. mem \in Seq(Byte) /\ Len(mem) = Len(cbt) + Len(behind)
    BY <1>4, <1>6, <2>1, ConcatProperties
  <2> QED
    BY <1>2, <1>4, <1>6, <2>2
<1>8. DOMAIN mem = 1 .. s.room + 1 + Len(s.text) + StringMax + 2
  BY <1>7, LenProperties
<1>9. Placed(self, mem)
  <2>1. Whole(self) /\ self.ptr = 1 /\ self.capacity = s.room
    BY <1>1, <1>2, PointedFacts
  <2> QED
    BY <1>2, <1>8, <2>1 DEF Placed, Room
<1>10. Placed(other, mem)
  <2>1. TextAt(s) = s.room + 2 /\ TextAt(s) \in Nat
    BY <1>2 DEF TextAt
  <2>2. Whole(other) /\ other.ptr = s.room + 2 /\ other.capacity = Len(s.text)
    BY <1>1, <1>2, <2>1, PointedFacts
  <2> QED
    BY <1>2, <1>8, <2>2 DEF Placed, Room
<1>11. Len(mem) >= StringMax + 1
  BY <1>2, <1>7
<1> QED
  BY <1>7, <1>9, <1>10, <1>11 DEF SpansPlaced

\* A call that leaves the text where it is.
LEMMA ChangesHolds ==
  ASSUME SpansPlaced, NEW of, NEW asked, NEW clear, NEW outcome,
         outcome \in Outcomes(mem, self, 0), Changes(of, asked, clear, outcome)
  PROVE  SpansPlaced' /\ RoomWritten
<1>1. mem' = outcome.object.mem /\ self' = outcome.object.span /\ other' = other
  BY DEF Changes
<1>2. /\ mem \in Seq(Byte) /\ Len(mem) >= StringMax + 1
      /\ Placed(self, mem) /\ Placed(other, mem) /\ Whole(self)
  BY DEF SpansPlaced, Placed
<1>3. /\ mem' \in Memories(mem) /\ DOMAIN mem' = DOMAIN mem
      /\ self'.ptr = self.ptr /\ self'.capacity = self.capacity
      /\ self'.length \in 0 .. self.capacity
      /\ \A a \in DOMAIN mem : a \notin Room(self) => mem'[a] = mem[a]
      /\ Whole(self') /\ Room(self') = Room(self)
  BY <1>1, <1>2, OutcomeFacts
<1>4. mem' \in Seq(Byte) /\ Len(mem') = Len(mem)
  BY <1>3, MemoryFacts
<1>5. Placed(self', mem') /\ Placed(other', mem')
  BY <1>1, <1>2, <1>3 DEF Placed
<1>6. self'.length <= self.capacity
  BY <1>2, <1>3 DEF Whole
<1> QED
  BY <1>2, <1>3, <1>4, <1>5, <1>6 DEF SpansPlaced, RoomWritten

\* The same for what grows.
LEMMA GrownOutcome ==
  ASSUME NEW m, NEW s, Whole(s), NEW d \in Outcomes(m, s, s.length)
  PROVE  d \in Outcomes(m, s, 0)
<1>1. s.length .. s.capacity \subseteq 0 .. s.capacity
  BY DEF Whole
<1> QED
  BY <1>1 DEF Outcomes

LEMMA PiecesHold ==
  ASSUME SpansPlaced, NEW of, NEW asked, NEW pieces \in Seq(Fitting(mem, self)),
         Pieces(of, asked, pieces)
  PROVE  SpansPlaced' /\ RoomWritten
<1> DEFINE outcome == AppendPieces(mem, self, pieces)
<1>1. Whole(self)
  BY DEF SpansPlaced, Placed
<1>2. outcome \in Outcomes(mem, self, 0)
  <2>1. outcome \in Outcomes(mem, self, self.length)
    BY <1>1, MemoryFacts, AppendFitting
  <2> HIDE DEF outcome
  <2> QED
    BY <1>1, <2>1, GrownOutcome
<1>3. Changes(of, asked, SourceClear(self.length), outcome)
  BY DEF Pieces
<1> HIDE DEF outcome
<1> QED
  BY <1>2, <1>3, ChangesHolds
\* Two names of what stands behind the content of the buffer.
LEMMA ClearFacts ==
  ASSUME SpansPlaced, SourceClear(self.length)
  PROVE  Used(other) \cap Room(Rest(self)) = {}
<1>1. self.ptr \in Nat /\ self.length \in Nat /\ self.capacity \in Nat
  BY DEF SpansPlaced, Placed, Whole
<1>2. self.ptr + self.length + (self.capacity - self.length) - 1
        = self.ptr + self.capacity - 1
  BY <1>1
<1>3. Room(Rest(self)) = Behind(self.length)
  BY <1>2 DEF Room, Rest, Pointed, Behind
<1> QED
  BY <1>3 DEF SourceClear

LEMMA SpanChanges ==
  ASSUME SpansPlaced, CallAppend \/ CallCopy \/ CallZeros \/ CallReplace \/ CallEncode
  PROVE  SpansPlaced' /\ RoomWritten
<1>1. /\ mem \in Memories(mem) /\ DOMAIN mem \subseteq Nat
      /\ Placed(self, mem) /\ Whole(self) /\ Placed(other, mem)
      /\ self.length \in Nat /\ self.length <= self.capacity
  BY MemoryFacts DEF SpansPlaced, Placed, Whole
<1>2. CASE CallAppend
  <2> DEFINE outcome == AppendSpan(mem, self, other)
  <2>1. outcome \in Outcomes(mem, self, 0)
    BY <1>1, AppendSpanFacts, GrownOutcome
  <2>2. Changes("append", Items, TRUE, outcome)
    BY <1>2 DEF CallAppend
  <2> HIDE DEF outcome
  <2> QED
    BY <2>1, <2>2, ChangesHolds
<1>3. CASE CallCopy
  <2> DEFINE copy == Copy(mem, self, other)
             outcome == IF Failing(copy) THEN Refused(copy.result, mem, self) ELSE copy
  <2>1. Changes("copy", Items, TRUE, outcome)
    BY <1>3 DEF CallCopy
  <2>2. copy \in Outcomes(mem, self, 0)
    BY <1>1, CopyFacts
  <2> HIDE DEF copy
  <2>3. copy.result \in AzResults
    BY <2>2, OutcomeFacts
  <2>4. outcome \in Outcomes(mem, self, 0)
    BY <1>1, <2>2, <2>3, OutcomeRefused
  <2> HIDE DEF outcome
  <2> QED
    BY <2>1, <2>4, ChangesHolds
<1>4. CASE CallZeros
  <2>1. PICK size \in 0 .. 2 :
          Changes("zeros", [number |-> size], TRUE, AppendZeros(mem, self, size))
    BY <1>4 DEF CallZeros
  <2> DEFINE outcome == AppendZeros(mem, self, size)
  <2>2. outcome \in Outcomes(mem, self, 0)
    BY <1>1, AppendZerosFacts, GrownOutcome
  <2> HIDE DEF outcome
  <2> QED
    BY <2>1, <2>2, ChangesHolds DEF outcome
<1>5. CASE CallReplace
  <2>1. PICK start, end \in 0 .. self.length + 1 :
          Changes("replace", [items |-> Source, start |-> start, end |-> end],
                  SourceClear(start), Replace(mem, self, start, end, other))
    BY <1>5 DEF CallReplace
  <2> DEFINE outcome == Replace(mem, self, start, end, other)
  <2>2. outcome \in Outcomes(mem, self, 0)
    BY <1>1, ReplaceFacts
  <2> HIDE DEF outcome
  <2> QED
    BY <2>1, <2>2, ChangesHolds DEF outcome
<1>6. CASE CallEncode
  <2> DEFINE outcome == AppendUrlEncoded(mem, self, other)
  <2>1. SourceClear(self.length) /\ Changes("encode", Items, TRUE, outcome)
    BY <1>6 DEF CallEncode
  <2>2. outcome \in Outcomes(mem, self, self.length)
    BY <1>1, <2>1, ClearFacts, AppendUrlEncodedFacts
  <2> HIDE DEF outcome
  <2>3. outcome \in Outcomes(mem, self, 0)
    BY <1>1, <2>2, GrownOutcome
  <2> QED
    BY <2>1, <2>3, ChangesHolds
<1> QED
  BY <1>2, <1>3, <1>4, <1>5, <1>6

\* The numbers that are appended have their powers of ten.
LEMMA SizedNumbers ==
  /\ \A k \in Numbers : k \in Int /\ Sized(IF k < 0 THEN - k ELSE k)
  /\ \A number \in Doubles : number.whole \in Nat /\ Sized(number.whole)
<1> DEFINE Sizes == {i \in Numbers : i > 0} \cup {- i : i \in {j \in Numbers : j < 0}}
                      \cup {number.whole : number \in Doubles}
<1>1. /\ \A k \in Numbers : k \in Int
      /\ \A number \in Doubles : number.whole \in Nat
      /\ \A k \in Sizes : Sized(k)
  BY SpanCallsAssumption DEF Sized
<1>2. ASSUME NEW k \in Numbers
      PROVE  Sized(IF k < 0 THEN - k ELSE k)
  <2>1. CASE k < 0
    <3>1. - k \in Sizes
      BY <2>1
    <3> QED
      BY <1>1, <2>1, <3>1
  <2>2. CASE k > 0
    <3>1. k \in Sizes /\ ~ (k < 0)
      BY <1>1, <2>2
    <3> QED
      BY <1>1, <3>1
  <2>3. CASE k = 0
    BY <2>3 DEF Sized
  <2> QED
    BY <1>1, <2>1, <2>2, <2>3
<1>3. \A number \in Doubles : number.whole \in Sizes
  OBVIOUS
<1> QED
  BY <1>1, <1>2, <1>3

LEMMA NumberChanges ==
  ASSUME SpansPlaced, CallUint64 \/ CallInt64 \/ CallDouble
  PROVE  SpansPlaced' /\ RoomWritten
<1>1. /\ mem \in Memories(mem) /\ DOMAIN mem \subseteq Nat /\ Whole(self)
      /\ Literals \subseteq Fitting(mem, self)
  BY MemoryFacts, FittingPieces DEF SpansPlaced, Placed
<1>2. ASSUME NEW pieces \in Seq(Literals)
      PROVE  pieces \in Seq(Fitting(mem, self))
  BY <1>1, LenProperties, ElementOfSeq
<1>3. CASE CallUint64
  <2>1. PICK k \in {i \in Numbers : i >= 0} : Pieces("uint64", [number |-> k], Uint64Pieces(k))
    BY <1>3 DEF CallUint64
  <2>2. k \in Nat /\ Sized(k)
    BY SizedNumbers
  <2> DEFINE pieces == Uint64Pieces(k)
  <2>3. pieces \in Seq(Literals)
    BY <2>2, Uint64PiecesFacts DEF Sized
  <2> HIDE DEF pieces
  <2>4. pieces \in Seq(Fitting(mem, self))
    BY <1>2, <2>3
  <2> QED
    BY <2>1, <2>4, PiecesHold DEF pieces
<1>4. CASE CallInt64
  <2>1. PICK k \in Numbers : Pieces("int64", [number |-> k], Int64Pieces(k))
    BY <1>4 DEF CallInt64
  <2> DEFINE pieces == Int64Pieces(k)
  <2>2. pieces \in Seq(Literals)
    BY SizedNumbers, Int64PiecesFacts
  <2> HIDE DEF pieces
  <2>3. pieces \in Seq(Fitting(mem, self))
    BY <1>2, <2>2
  <2> QED
    BY <2>1, <2>3, PiecesHold DEF pieces
<1>5. CASE CallDouble
  <2>1. PICK number \in Doubles :
          Changes("double", [number |-> number], TRUE, AppendDouble(mem, self, number))
    BY <1>5 DEF CallDouble
  <2> DEFINE outcome == AppendDouble(mem, self, number)
  <2>2. outcome \in Outcomes(mem, self, self.length)
    BY <1>1, SizedNumbers, AppendDoubleFacts
  <2> HIDE DEF outcome
  <2>3. outcome \in Outcomes(mem, self, 0)
    BY <1>1, <2>2, GrownOutcome
  <2> QED
    BY <2>1, <2>3, ChangesHolds DEF outcome
<1> QED
  BY <1>3, <1>4, <1>5

LEMMA TextChanges ==
  ASSUME SpansPlaced, LogRequest \/ TokenUrl \/ TokenBody
  PROVE  SpansPlaced' /\ RoomWritten
<1>1. Placed(other, mem)
  BY DEF SpansPlaced
<1>2. CASE LogRequest
  <2> DEFINE pieces == RequestPieces(other, other, <<[key |-> other, value |-> other]>>)
  <2>1. Pieces("request", Items, pieces)
    BY <1>2 DEF LogRequest
  <2>2. pieces \in Seq(Fitting(mem, self))
    BY <1>1, RequestPiecesFacts
  <2> HIDE DEF pieces
  <2> QED
    BY <2>1, <2>2, PiecesHold
<1>3. CASE TokenUrl
  <2> DEFINE pieces == TokenUrlPieces(other)
  <2>1. SourceClear(self.length) /\ Pieces("url", Items, pieces)
    BY <1>3 DEF TokenUrl
  <2>2. pieces \in Seq(Fitting(mem, self))
    BY <1>1, <2>1, ClearFacts, TokenPiecesFacts
  <2> HIDE DEF pieces
  <2> QED
    BY <2>1, <2>2, PiecesHold
<1>4. CASE TokenBody
  <2> DEFINE pieces == TokenBodyPieces(other, other, other)
  <2>1. SourceClear(self.length) /\ Pieces("body", Items, pieces)
    BY <1>4 DEF TokenBody
  <2>2. pieces \in Seq(Fitting(mem, self))
    BY <1>1, <2>1, ClearFacts, TokenPiecesFacts
  <2> HIDE DEF pieces
  <2> QED
    BY <2>1, <2>2, PiecesHold
<1> QED
  BY <1>2, <1>3, <1>4

LEMMA SwapHolds ==
  ASSUME SpansPlaced, CallSwap
  PROVE  SpansPlaced' /\ RoomWritten
<1> DEFINE swapped == Swap(mem, self, other)
<1>1. mem' = swapped /\ self' = self /\ other' = other /\ answer'.of = "swap"
  BY DEF CallSwap, Called
<1>2. /\ mem \in Memories(mem) /\ Placed(self, mem) /\ Placed(other, mem)
      /\ Len(mem) >= StringMax + 1 /\ Whole(self)
  BY MemoryFacts DEF SpansPlaced, Placed
<1>3. swapped \in Swapped(mem, self, other)
  BY <1>2, SwapFacts
<1> HIDE DEF swapped
<1>4. /\ swapped \in Memories(mem) /\ DOMAIN swapped = DOMAIN mem
      /\ \A a \in DOMAIN mem : a \notin Used(self) \cup Used(other) => swapped[a] = mem[a]
  BY <1>3 DEF Swapped, Memories
<1>5. mem' \in Seq(Byte) /\ Len(mem') = Len(mem)
  BY <1>1, <1>4, MemoryFacts
<1>6. Used(self) \subseteq Room(self) /\ self.length <= self.capacity
  BY <1>2, PlacedUsed DEF Whole
<1>7. Placed(self', mem') /\ Placed(other', mem')
  BY <1>1, <1>2, <1>4 DEF Placed
<1>8. RoomWritten
  BY <1>1, <1>4, <1>6 DEF RoomWritten
<1> QED
  BY <1>2, <1>5, <1>7, <1>8 DEF SpansPlaced

LEMMA ToStrHolds ==
  ASSUME SpansPlaced, CallToStr
  PROVE  SpansPlaced' /\ RoomWritten
<1>1. PICK max_size \in 0 .. StringMax :
        LET done == ToStr(mem, StringAt, max_size, self)
        IN  /\ answer'.of = "string"
            /\ mem' = done.object.mem /\ self' = self /\ other' = other
  BY DEF CallToStr, Called
<1> DEFINE w == ToStr(mem, StringAt, max_size, self).object.mem
<1>2. /\ mem \in Memories(mem) /\ Placed(self, mem) /\ Placed(other, mem)
      /\ Len(mem) >= StringMax + 1 /\ Len(mem) \in Nat /\ Whole(self)
  BY MemoryFacts DEF SpansPlaced, Placed
<1>3. StringMax \in Nat
  BY SpanCallsAssumption
<1>4. StringAt \in Nat /\ max_size \in Nat
      /\ StringAt .. StringAt + max_size - 1 \subseteq StringAt .. StringAt + StringMax - 1
  BY <1>2, <1>3 DEF StringAt
<1>5. /\ w \in Memories(mem)
      /\ \A a \in DOMAIN mem : a \notin StringAt .. StringAt + max_size - 1 => w[a] = mem[a]
  BY <1>2, <1>4, ToStrFacts
<1>6. mem' = w /\ self' = self /\ other' = other /\ answer'.of = "string"
  BY <1>1
<1> HIDE DEF w
<1>7. DOMAIN w = DOMAIN mem /\ w \in Seq(Byte) /\ Len(w) = Len(mem)
  BY <1>5, MemoryFacts DEF Memories
<1>8. Placed(self', mem') /\ Placed(other', mem')
  BY <1>2, <1>6, <1>7 DEF Placed
<1>9. \A a \in DOMAIN mem : mem'[a] # mem[a] =>
        a \in StringAt .. StringAt + StringMax - 1
  BY <1>4, <1>5, <1>6
<1>10. self.length <= self.capacity
  BY <1>2 DEF Whole
<1> QED
  BY <1>2, <1>6, <1>7, <1>8, <1>9, <1>10 DEF SpansPlaced, RoomWritten

LEMMA SliceHolds ==
  ASSUME SpansPlaced, CallSlice
  PROVE  SpansPlaced' /\ RoomWritten
<1>1. PICK low \in 0 .. self.length + 1, high \in -1 .. self.length + 1 :
        other' = Slice(self, low, high) /\ mem' = mem /\ self' = self
  BY DEF CallSlice
<1>2. /\ Placed(self, mem) /\ self.length \in Nat /\ self.length <= self.capacity
      /\ low \in Nat /\ high \in Int
  BY DEF SpansPlaced, Placed, Whole
<1>3. Placed(Slice(self, low, high), mem)
  BY <1>2, SlicePlaced
<1> QED
  BY <1>1, <1>2, <1>3 DEF SpansPlaced, RoomWritten

LEMMA NextPlaced ==
  ASSUME SpansPlaced, [Next]_vars
  PROVE  SpansPlaced' /\ [RoomWritten]_vars
<1>1. CASE Call
  BY <1>1, SpanChanges, NumberChanges, TextChanges, SwapHolds, ToStrHolds, SliceHolds DEF Call
<1>2. CASE Read \/ UNCHANGED vars
  <2>1. mem' = mem /\ self' = self /\ other' = other
    BY <1>2 DEF Read, memoryVars, vars
  <2>2. self.length <= self.capacity
    BY DEF SpansPlaced, Placed, Whole
  <2> QED
    BY <2>1, <2>2 DEF SpansPlaced, RoomWritten
<1> QED
  BY <1>1, <1>2 DEF Next

\* No call writes a byte outside of the room of the buffer, but for the string
\* and the text that is swapped, and the buffer stays where it is: for buffers,
\* texts and slices of any size, and any number of calls in any order.
THEOREM OnlyRoomWritten == Spec => WritesOnlyRoom
<1>1. Init => SpansPlaced
  BY InitPlaced
<1>2. SpansPlaced /\ [Next]_vars => SpansPlaced' /\ [RoomWritten]_vars
  BY NextPlaced
<1>3. [RoomWritten]_vars
        => [/\ \A a \in DOMAIN mem :
                 mem'[a] # mem[a] =>
                   \/ a \in Room(self)
                   \/ answer'.of = "string" /\ a \in StringAt .. StringAt + StringMax - 1
                   \/ answer'.of = "swap" /\ a \in Used(other)
            /\ self'.ptr = self.ptr /\ self'.capacity = self.capacity
            /\ self'.length <= self.capacity]_vars
  BY DEF RoomWritten
<1> QED
  BY <1>1, <1>2, <1>3, PTL DEF Spec, WritesOnlyRoom

\* In the calls the readers take their steps.
LEMMA ReadersStep ==
  ASSUME SpansPlaced, IInv, [Next]_vars
  PROVE  [NumberNext]_numberVars
<1>1. CASE Call
  BY <1>1 DEF Call, Changes, Pieces, Called, CallAppend, CallCopy, CallZeros, CallReplace,
              CallEncode, CallUint64, CallInt64, CallDouble, LogRequest, TokenUrl,
              TokenBody, CallSwap, CallToStr, CallSlice
<1>2. CASE Read
  <2>1. Source \in Seq(Byte)
    <3>1. other.length \in Nat /\ other.ptr \in Nat /\ Placed(other, mem)
          /\ mem \in Memories(mem)
      BY MemoryFacts DEF SpansPlaced, Placed, Whole
    <3>2. \A i \in 1 .. other.length : mem[other.ptr + i - 1] \in Byte
      BY <3>1, SourceByte
    <3>3. Source \in [1 .. other.length -> Byte]
      BY <3>1, <3>2 DEF Source, Content
    <3> QED
      BY <3>1, <3>3
  <2>2. \/ ReadNumber
        \/ reader = "none" /\ (BeginUint64(Source) \/ BeginJsonNumber(Source))
    BY <1>2 DEF Read
  <2>3. CASE ReadNumber
    BY <2>3, Zenon DEF NumberNext
  <2>4. CASE reader = "none" /\ (BeginUint64(Source) \/ BeginJsonNumber(Source))
    <3>1. phase = "done"
      BY <2>4 DEF IInv, Types, InPlace
    <3> HIDE DEF Source
    <3> QED
      BY <2>1, <2>4, <3>1, Zenon DEF NumberNext
  <2> QED
    BY <2>2, <2>3, <2>4
<1>3. CASE UNCHANGED vars
  BY <1>3 DEF vars, numberVars
<1> QED
  BY <1>1, <1>2, <1>3 DEF Next

LEMMA CallsInvariant == Spec => [](SpansPlaced /\ IInv)
<1>1. Init => SpansPlaced /\ IInv
  BY InitPlaced, InitIInv DEF Init
<1>2. SpansPlaced /\ IInv /\ [Next]_vars => (SpansPlaced /\ IInv)'
  BY NextPlaced, ReadersStep, NextIInv
<1> QED
  BY <1>1, <1>2, PTL DEF Spec

\* What the calls leave in a buffer is read exactly too, a slice of it or the text.
THEOREM SlicesReadExactly == Spec => []ReadsExactly
<1>1. IInv => ReadsExactly
  BY IInvExact
<1> QED
  BY <1>1, CallsInvariant, PTL

\* And only a number of digits that a word cannot hold is refused.
THEOREM SlicesRefusedOnlyTooLarge == Spec => []RefusesOnlyTooLarge
<1>1. IInv => RefusesOnlyTooLarge
  BY DEF IInv
<1> QED
  BY <1>1, CallsInvariant, PTL
=============================================================================
