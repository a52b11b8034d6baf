------------------------- MODULE SharedStateProofs -------------------------
(***************************************************************************)
(* Theorems about SharedState, for every number of threads, every size of  *)
(* the tokens and every list of classifications: what is true of a token   *)
(* and of the log's settings although nothing locks them.                  *)
(*                                                                         *)
(* The invariant has two halves.  The one follows a token from the grant   *)
(* to the wire: what a thread copies is a whole token, a thread that       *)
(* copies alone has copied what it has copied (Copied), a token that was   *)
(* stored last and alone is in the credential unless somebody copies       *)
(* (StoredLast), and a thread whose header nobody has raced has the length *)
(* and the parts of that token (Unraced).  The other says what a thread    *)
(* that reads the settings may rely on (Relies): that the listener it saw  *)
(* is still there, that a list it saw stays one of the lists that were     *)
(* given, and that it is in that list where it reads.                      *)
(***************************************************************************)
EXTENDS SharedState, TLAPS
------------------------------------------------------------------------------
(***************************************************************************)
(* The invariant.                                                          *)
(***************************************************************************)
Place == {"idle", "expiry", "request", "store", "length", "askRequest", "askResponse",
          "writeRequest", "writeResponse", "send", "fault"}
Read  == {"none", "check", "listener", "list", "length", "bound", "entry", "call"}
Part  == Nat \cup {NoPart}
List  == Seq(LogClass) \cup {NoList}

\* A struct of the type _az_token, with a length that fits its buffer.
Tokens == {s \in [Fields -> Part] : s[Length] \in 0 .. Room}

TokenTypes ==
  /\ token \in Tokens /\ granted \in 0 .. Len(GrantLength)
  /\ new \in [Threads -> Tokens] /\ todo \in [Threads -> SUBSET Fields]
  /\ header \in [Threads -> 0 .. Room] /\ sent \in [Threads -> Seq(Part)]
  /\ clock \in Nat /\ stored \in Nat
  /\ alone \in [Threads -> BOOLEAN] /\ raced \in [Threads -> BOOLEAN]

LogTypes ==
  /\ listener \in BOOLEAN /\ taken \in BOOLEAN
  /\ classes \in [list: List, length: Nat]
  /\ stores \in [list: SUBSET List, length: SUBSET Nat]
  /\ given \subseteq List

TypeOK ==
  /\ at \in [Threads -> Place] /\ start \in Starts
  /\ look \in [Threads -> [next: Read, i: Nat]] /\ respond \in [Threads -> BOOLEAN]
  /\ TokenTypes /\ LogTypes

\* Struct s is the token that was granted as the g-th.
IsGrant(s, g) ==
  /\ g \in Grants
  /\ s[Length] = GrantLength[g]
  /\ \A i \in 1 .. GrantLength[g] : s[i] = g

Nobody == \A u \in Threads : ~ Copying(u)

\* What thread t copies, and has copied.
Copied(t) ==
  at[t] = "store" =>
    /\ todo[t] # {}
    /\ IsGrant(new[t], new[t][1])
    /\ alone[t] /\ Copying(t) =>
         /\ \A u \in Threads \ {t} : ~ Copying(u)
         /\ \A field \in Fields \ todo[t] : token[field] = new[t][field]

\* The token that was stored last is in the credential.
StoredLast == stored # 0 /\ Nobody => IsGrant(token, stored)

\* A thread whose header points to the token, while nobody else has written.
Unraced(t) ==
  Holding(t) /\ ~ raced[t] =>
    /\ Nobody /\ IsGrant(token, stored)
    /\ header[t] = GrantLength[stored]
    /\ \A i \in 1 .. Len(sent[t]) : sent[t][i] = stored

Unsent(t) == at[t] # "send" => sent[t] = <<>>

TokenInv == StoredLast /\ \A t \in Threads : Copied(t) /\ Unraced(t) /\ Unsent(t)

\* The settings come from what was given.
FromGiven ==
  /\ classes.list \in {NoList} \cup given
  /\ classes.length \in {0} \cup {Count(list) : list \in given}
  /\ stores.list \subseteq given
  /\ stores.length \subseteq {Count(list) : list \in given}

\* The listener stays, and all lists have one length.
Steady == ~ taken /\ \A a, b \in given : Count(a) = Count(b)

\* What thread t has seen of the settings is still so.
Relies(t) ==
  /\ InLog(t) => look[t].next # "none" /\ look[t].i > 0
  /\ Steady =>
       /\ at[t] # "fault"
       /\ look[t].next \in {"list", "length", "bound", "entry", "call"} => listener
       /\ look[t].next \in {"length", "bound", "entry"} => classes.list \in given
       /\ look[t].next = "entry" => \E list \in given : look[t].i <= Count(list)

LogInv == FromGiven /\ \A t \in Threads : Relies(t)

IInv == TypeOK /\ TokenInv /\ LogInv
------------------------------------------------------------------------------
(***************************************************************************)
(* The constants.                                                          *)
(***************************************************************************)

\* A token that is granted has parts, and fits.
LEMMA GrantFacts ==
  ASSUME NEW g \in Grants
  PROVE  g \in Nat \ {0} /\ GrantLength[g] \in 1 .. Room
BY SharedStateAssumption DEF Grants

LEMMA FieldFacts ==
  /\ Room \in Nat /\ 1 .. Room \subseteq Fields /\ Length \in Fields
  /\ Expires \in Fields /\ Length # Expires /\ Length \notin 1 .. Room
  /\ Expires \notin 1 .. Room
BY SharedStateAssumption DEF Fields, Length, Expires

\* The struct of a grant is one.
LEMMA StructFacts ==
  ASSUME NEW g \in Grants, NEW e \in Nat
  PROVE  /\ Struct(g, GrantLength[g], e) \in Tokens
         /\ Struct(g, GrantLength[g], e)[1] = g
         /\ IsGrant(Struct(g, GrantLength[g], e), g)
<1> DEFINE s == Struct(g, GrantLength[g], e)
           l == GrantLength[g]
<1>1. g \in Nat \ {0} /\ l \in 1 .. Room
  BY GrantFacts
<1>2. \A i \in Fields : s[i] = IF i = Length THEN l ELSE IF i = Expires THEN e
                               ELSE IF i <= l THEN g ELSE NoPart
  BY FieldFacts DEF Struct
<1>3. s \in [Fields -> Part] /\ s[Length] \in 0 .. Room
  <2>1. s = [i \in Fields |-> s[i]]
    BY DEF Struct
  <2>2. \A i \in Fields : s[i] \in Part
    BY <1>1, <1>2 DEF Part
  <2> HIDE DEF s
  <2> QED
    BY <1>1, <1>2, <2>1, <2>2, FieldFacts
<1> HIDE DEF s
<1>4. \A i \in 1 .. l : s[i] = g
  BY <1>1, <1>2, FieldFacts
<1>5. s \in Tokens /\ s[1] = g /\ IsGrant(s, g)
  BY <1>1, <1>2, <1>3, <1>4, FieldFacts DEF Tokens, IsGrant
<1> QED
  BY <1>5 DEF s

LEMMA NoTokenFacts == NoToken \in Tokens
BY SharedStateAssumption, FieldFacts DEF NoToken, Struct, Tokens, Part

\* The invariant holds at first.
LEMMA InitIInv == Init => IInv
<1> SUFFICES ASSUME Init PROVE IInv
  OBVIOUS
<1>1. TypeOK
  <2>1. TokenTypes
    BY NoTokenFacts, SharedStateAssumption DEF Init, TokenTypes, Grants, Part
  <2>2. LogTypes
    BY DEF Init, LogTypes, List
  <2> QED
    BY <2>1, <2>2 DEF Init, TypeOK, Place, Read
<1>2. TokenInv
  BY DEF Init, TokenInv, StoredLast, Copied, Unraced, Unsent, Holding
<1>3. LogInv
  BY DEF Init, LogInv, FromGiven, Relies, InLog, Asks, Writes
<1> QED
  BY <1>1, <1>2, <1>3 DEF IInv
------------------------------------------------------------------------------
(***************************************************************************)
(* The token.                                                              *)
(***************************************************************************)

\* A thread that moves without touching the token: it does not come to hold a
\* header, and is at no time in between to copy.
LEMMA TokenStands ==
  ASSUME TypeOK, TokenInv, NEW t \in Threads, NEW place \in Place,
         at' = [at EXCEPT ![t] = place], UNCHANGED tokenVars,
         at[t] \notin {"store", "send"}, place # "store",
         place \notin {"idle", "expiry", "request", "length"} => Holding(t)
  PROVE  TokenInv'
<1>1. \A u \in Threads : at'[u] = IF u = t THEN place ELSE at[u]
  BY DEF TypeOK
<1>2. \A u \in Threads : Copying(u)' <=> Copying(u)
  BY <1>1 DEF Copying, tokenVars
<1>3. \A u \in Threads : Holding(u)' => Holding(u)
  BY <1>1 DEF Holding
<1>4. Nobody' <=> Nobody
  BY <1>2 DEF Nobody
<1>5. StoredLast'
  BY <1>4 DEF TokenInv, StoredLast, IsGrant, tokenVars
<1>6. ASSUME NEW u \in Threads
      PROVE  Copied(u)' /\ Unraced(u)' /\ Unsent(u)'
  <2>1. Copied(u)'
    BY <1>1, <1>2 DEF TokenInv, Copied, IsGrant, tokenVars
  <2>2. Unraced(u)'
    BY <1>3, <1>4 DEF TokenInv, Unraced, IsGrant, tokenVars
  <2>3. Unsent(u)'
    BY <1>1 DEF TokenInv, Unsent, tokenVars
  <2> QED
    BY <2>1, <2>2, <2>3
<1> QED
  BY <1>5, <1>6 DEF TokenInv

\* A token is granted: it is whole in the struct that will be copied.
LEMMA GrantedStep ==
  ASSUME TypeOK, TokenInv, NEW t \in Threads, Granted(t)
  PROVE  TokenTypes' /\ TokenInv'
<1> DEFINE g == granted + 1
<1>1. /\ at[t] = "request" /\ \A u \in Threads : at'[u] = IF u = t THEN "store" ELSE at[u]
      /\ \A u \in Threads : todo'[u] = IF u = t THEN Fields ELSE todo[u]
      /\ g \in Grants /\ granted' = g
      /\ UNCHANGED <<token, header, sent, clock, stored, alone, raced>>
  BY SharedStateAssumption DEF Granted, Goes, TypeOK, TokenTypes, Grants
<1>2. PICK lifetime \in Lifetimes :
        new' = [new EXCEPT ![t] = Struct(g, GrantLength[g], clock + lifetime)]
  BY <1>1 DEF Granted
<1>3. clock + lifetime \in Nat
  BY SharedStateAssumption DEF TypeOK, TokenTypes
<1> HIDE DEF g
<1> DEFINE s == Struct(g, GrantLength[g], clock + lifetime)
<1>4. s \in Tokens /\ IsGrant(s, s[1])
  BY <1>1, <1>3, StructFacts
<1> HIDE DEF s
<1>5. new' = [new EXCEPT ![t] = s]
  BY <1>2 DEF s
<1>6. TokenTypes'
  <2>1. new' \in [Threads -> Tokens]
    BY <1>4, <1>5 DEF TypeOK, TokenTypes
  <2>2. todo' \in [Threads -> SUBSET Fields]
    BY DEF Granted, TypeOK, TokenTypes
  <2>3. granted' \in 0 .. Len(GrantLength)
    BY <1>1, SharedStateAssumption DEF Grants
  <2> QED
    BY <1>1, <2>1, <2>2, <2>3 DEF TypeOK, TokenTypes
<1>7. \A u \in Threads : Copying(u)' <=> Copying(u)
  BY <1>1 DEF Copying
<1>8. \A u \in Threads : Holding(u)' <=> Holding(u)
  BY <1>1 DEF Holding
<1>9. Nobody' <=> Nobody
  BY <1>7 DEF Nobody
<1>10. StoredLast'
  BY <1>1, <1>9 DEF TokenInv, StoredLast, IsGrant
<1>11. ASSUME NEW u \in Threads
       PROVE  Copied(u)' /\ Unraced(u)' /\ Unsent(u)'
  <2>1. CASE u = t
    <3>1. new'[t] = s /\ todo'[t] = Fields /\ ~ Copying(t)'
      BY <1>1, <1>5 DEF TypeOK, TokenTypes, Copying
    <3>2. Copied(t)'
      BY <1>4, <3>1, FieldFacts DEF Copied, IsGrant
    <3> QED
      BY <1>1, <2>1, <3>2 DEF Unraced, Holding, TokenInv, Unsent
  <2>2. CASE u # t
    <3>1. new'[u] = new[u] /\ todo'[u] = todo[u] /\ at'[u] = at[u]
      BY <1>1, <1>5, <2>2 DEF TypeOK, TokenTypes
    <3>2. Copied(u)'
      <4>1. Copied(u) /\ token' = token /\ alone' = alone
        BY <1>1 DEF TokenInv
      <4>2. Copying(u)' => \A v \in Threads \ {u} : ~ Copying(v)' <=> ~ Copying(v)
        BY <1>7
      <4> QED
        BY <1>7, <3>1, <4>1, <4>2 DEF Copied
    <3>3. Unraced(u)'
      BY <1>1, <1>8, <1>9 DEF TokenInv, Unraced, IsGrant
    <3> QED
      BY <1>1, <3>1, <3>2, <3>3 DEF TokenInv, Unsent
  <2> QED
    BY <2>1, <2>2
<1> QED
  BY <1>6, <1>10, <1>11 DEF TokenInv

\* A part of a token is copied: who holds a header is raced, who copies is not
\* alone, and the last part that is copied alone makes the token whole.
LEMMA StoreStep ==
  ASSUME TypeOK, TokenInv, NEW t \in Threads, Store(t)
  PROVE  TokenTypes' /\ TokenInv'
<1>1. PICK field \in todo[t] :
        /\ token' = [token EXCEPT ![field] = new[t][field]]
        /\ todo' = [todo EXCEPT ![t] = @ \ {field}]
  BY DEF Store
<1>2. /\ at[t] = "store" /\ field \in Fields /\ todo[t] \subseteq Fields
      /\ token \in Tokens /\ new[t] \in Tokens
      /\ UNCHANGED <<granted, new, header, sent, clock>>
  BY <1>1 DEF Store, TypeOK, TokenTypes
<1>3. \A u \in Threads : todo'[u] = IF u = t THEN todo[t] \ {field} ELSE todo[u]
  BY <1>1 DEF TypeOK, TokenTypes
<1>4. \A f \in Fields : token'[f] = IF f = field THEN new[t][field] ELSE token[f]
  BY <1>1, <1>2 DEF Tokens
<1>5. \A u \in Threads : at'[u] = IF u = t /\ todo'[t] = {} THEN "length" ELSE at[u]
  BY DEF Store, TypeOK
<1>6. \A u \in Threads : raced'[u] = (raced[u] \/ (u # t /\ Holding(u)))
  BY DEF Store
<1>7. \A u \in Threads :
        alone'[u] = IF u # t THEN alone[u] /\ ~ Copying(u)
                    ELSE IF todo[t] = Fields THEN \A v \in Threads \ {t} : ~ Copying(v)
                    ELSE alone[t]
  BY DEF Store
<1>8. stored' = IF todo'[t] # {} THEN stored ELSE IF alone'[t] THEN new[t][1] ELSE 0
  BY DEF Store
<1>9. /\ IsGrant(new[t], new[t][1])
      /\ todo[t] # Fields /\ alone[t] =>
           /\ \A u \in Threads \ {t} : ~ Copying(u)
           /\ \A f \in Fields \ todo[t] : token[f] = new[t][f]
  BY <1>2 DEF TokenInv, Copied, Copying
<1>10. TokenTypes'
  <2>1. token' \in Tokens
    BY <1>1, <1>2, <1>4, FieldFacts DEF Tokens
  <2>2. todo' \in [Threads -> SUBSET Fields]
    BY <1>1 DEF TypeOK, TokenTypes
  <2>3. raced' \in [Threads -> BOOLEAN] /\ alone' \in [Threads -> BOOLEAN]
    BY DEF Store, TypeOK, TokenTypes
  <2>4. stored' \in Nat
    BY <1>8, <1>9, GrantFacts DEF IsGrant, TypeOK, TokenTypes
  <2> QED
    BY <1>2, <2>1, <2>2, <2>3, <2>4 DEF TypeOK, TokenTypes
<1>11. /\ Copying(t)' <=> todo'[t] # {}
       /\ \A u \in Threads \ {t} : Copying(u)' <=> Copying(u)
  BY <1>2, <1>3, <1>5 DEF Copying
<1>12. alone'[t] =>
         /\ \A u \in Threads \ {t} : ~ Copying(u)
         /\ \A f \in Fields \ todo'[t] : token'[f] = new[t][f]
  <2>1. CASE todo[t] = Fields
    BY <1>3, <1>4, <1>7, <2>1
  <2>2. CASE todo[t] # Fields
    BY <1>3, <1>4, <1>7, <1>9, <2>2
  <2> QED
    BY <2>1, <2>2
<1>13. StoredLast'
  <2> SUFFICES ASSUME stored' # 0, Nobody' PROVE IsGrant(token, stored)'
    BY DEF StoredLast
  <2>1. todo'[t] = {} /\ alone'[t] /\ stored' = new[t][1]
    BY <1>8, <1>11 DEF Nobody
  <2>2. \A f \in Fields : token'[f] = new[t][f]
    BY <1>12, <2>1
  <2>3. GrantLength[stored'] \in 1 .. Room
    BY <1>9, <2>1, GrantFacts DEF IsGrant
  <2> QED
    BY <1>9, <2>1, <2>2, <2>3, FieldFacts DEF IsGrant
<1>14. ASSUME NEW u \in Threads
       PROVE  Copied(u)' /\ Unraced(u)' /\ Unsent(u)'
  <2>1. Unraced(u)' /\ Unsent(u)'
    <3>1. Holding(u)' => raced'[u]
      BY <1>2, <1>5, <1>6 DEF Holding
    <3>2. Unsent(u)'
      BY <1>2, <1>5 DEF TokenInv, Unsent
    <3> QED
      BY <3>1, <3>2 DEF Unraced
  <2>2. CASE u = t
    BY <1>2, <1>5, <1>9, <1>11, <1>12, <2>1, <2>2 DEF Copied
  <2>3. CASE u # t
    <3>1. Copied(u) /\ at'[u] = at[u] /\ todo'[u] = todo[u] /\ new'[u] = new[u]
      BY <1>2, <1>3, <1>5, <2>3 DEF TokenInv
    <3>2. ~ (alone'[u] /\ Copying(u)')
      BY <1>7, <1>11, <2>3
    <3> QED
      BY <2>1, <3>1, <3>2 DEF Copied
  <2> QED
    BY <2>1, <2>2, <2>3
<1> QED
  BY <1>10, <1>13, <1>14 DEF TokenInv

\* A thread that does not copy points its header to a token that was stored
\* last and alone, or is raced from the start.
LEMMA ReadLengthStep ==
  ASSUME TypeOK, TokenInv, NEW t \in Threads, ReadLength(t)
  PROVE  TokenTypes' /\ TokenInv'
<1>1. /\ at[t] = "length" /\ \A u \in Threads : at'[u] = IF u = t THEN "askRequest" ELSE at[u]
      /\ header' = [header EXCEPT ![t] = token[Length]]
      /\ raced' = [raced EXCEPT ![t] = stored = 0 \/ \E u \in Threads \ {t} : Copying(u)]
      /\ UNCHANGED <<token, granted, new, todo, sent, clock, stored, alone>>
  BY DEF ReadLength, Goes, TypeOK
<1>2. TokenTypes'
  BY <1>1 DEF TypeOK, TokenTypes, Tokens
<1>3. \A u \in Threads : Copying(u)' <=> Copying(u)
  BY <1>1 DEF Copying
<1>4. Nobody' <=> Nobody
  BY <1>3 DEF Nobody
<1>5. StoredLast'
  BY <1>1, <1>4 DEF TokenInv, StoredLast
<1>6. Copied(t)' /\ Unraced(t)' /\ Unsent(t)'
  <2>1. header'[t] = token[Length] /\ sent'[t] = <<>>
    BY <1>1 DEF TypeOK, TokenTypes, TokenInv, Unsent
  <2>2. raced'[t] <=> stored = 0 \/ \E u \in Threads \ {t} : Copying(u)
    BY <1>1 DEF TypeOK, TokenTypes
  <2>3. ~ raced'[t] => stored # 0 /\ Nobody
    BY <1>1, <2>2 DEF Nobody, Copying
  <2>4. ~ raced'[t] => Nobody' /\ IsGrant(token, stored)
    BY <1>4, <2>3 DEF TokenInv, StoredLast
  <2>5. IsGrant(token, stored) => token[Length] = GrantLength[stored]
    BY DEF IsGrant
  <2>6. Unraced(t)'
    BY <1>1, <2>1, <2>4, <2>5 DEF Unraced
  <2> QED
    BY <1>1, <2>1, <2>6 DEF Copied, Unsent
<1>7. ASSUME NEW u \in Threads \ {t}
      PROVE  Copied(u)' /\ Unraced(u)' /\ Unsent(u)'
  <2>1. /\ at'[u] = at[u] /\ header'[u] = header[u] /\ raced'[u] = raced[u]
        /\ Copied(u) /\ Unraced(u) /\ Unsent(u)
    BY <1>1, <1>7 DEF TypeOK, TokenTypes, TokenInv
  <2>2. Copied(u)'
    BY <1>1, <1>3, <2>1 DEF Copied
  <2>3. Unraced(u)'
    BY <1>1, <1>4, <2>1 DEF Unraced, Holding
  <2> QED
    BY <1>1, <2>1, <2>2, <2>3 DEF Unsent
<1> QED
  BY <1>2, <1>5, <1>6, <1>7 DEF TokenInv

\* A thread that sends, or has sent, touches nothing but what it has sent.
LEMMA SentChanges ==
  ASSUME TypeOK, TokenInv, NEW t \in Threads, NEW parts \in Seq(Part),
         at[t] = "send", NEW place \in {"send", "writeResponse", "idle"},
         at' = [at EXCEPT ![t] = place], sent' = [sent EXCEPT ![t] = parts],
         place # "send" => parts = <<>>,
         Unraced(t) => (~ raced[t] => \A i \in 1 .. Len(parts) : parts[i] = stored),
         UNCHANGED <<token, granted, new, todo, header, clock, stored, alone, raced>>
  PROVE  TokenTypes' /\ TokenInv'
<1>1. /\ \A u \in Threads : at'[u] = IF u = t THEN place ELSE at[u]
      /\ \A u \in Threads : sent'[u] = IF u = t THEN parts ELSE sent[u]
  BY DEF TypeOK, TokenTypes
<1>2. TokenTypes'
  BY DEF TypeOK, TokenTypes
<1>3. \A u \in Threads : Copying(u)' <=> Copying(u)
  BY <1>1 DEF Copying
<1>4. Nobody' <=> Nobody
  BY <1>3 DEF Nobody
<1>5. StoredLast'
  BY <1>4 DEF TokenInv, StoredLast
<1>6. Copied(t)' /\ Unraced(t)' /\ Unsent(t)'
  <2>1. Unraced(t) /\ Holding(t)
    BY DEF TokenInv, Holding
  <2>2. sent'[t] = parts
    BY <1>1
  <2>3. Unraced(t)'
    BY <1>4, <2>1, <2>2 DEF Unraced
  <2> QED
    BY <1>1, <2>3 DEF Copied, Unsent
<1>7. ASSUME NEW u \in Threads \ {t}
      PROVE  Copied(u)' /\ Unraced(u)' /\ Unsent(u)'
  <2>1. /\ at'[u] = at[u] /\ sent'[u] = sent[u]
        /\ Copied(u) /\ Unraced(u) /\ Unsent(u)
    BY <1>1, <1>7 DEF TokenInv
  <2>2. Copied(u)'
    BY <1>3, <2>1 DEF Copied
  <2>3. Unraced(u)'
    BY <1>4, <2>1 DEF Unraced, Holding
  <2> QED
    BY <2>1, <2>2, <2>3 DEF Unsent
<1> QED
  BY <1>2, <1>5, <1>6, <1>7 DEF TokenInv

\* A part of the token is read for the wire: it is one of the token stored last,
\* if nobody has raced the header.
LEMMA SendStep ==
  ASSUME TypeOK, TokenInv, NEW t \in Threads, Send(t)
  PROVE  TokenTypes' /\ TokenInv'
<1> DEFINE l     == Len(sent[t]) + 1
           parts == Append(sent[t], token[l])
<1>1. /\ at[t] = "send" /\ sent[t] \in Seq(Part) /\ l \in 1 .. header[t] /\ header[t] \in 0 .. Room
      /\ UNCHANGED <<at, token, granted, new, todo, header, clock, stored, alone, raced>>
      /\ sent' = [sent EXCEPT ![t] = parts]
  BY SharedStateAssumption DEF Send, TypeOK, TokenTypes
<1>2. token[l] \in Part
  BY <1>1, FieldFacts DEF TypeOK, TokenTypes, Tokens
<1>3. parts \in Seq(Part) /\ Len(parts) = l
      /\ \A i \in 1 .. l : parts[i] = IF i = l THEN token[l] ELSE sent[t][i]
  BY <1>1, <1>2
<1>4. Unraced(t) => (~ raced[t] => \A i \in 1 .. Len(parts) : parts[i] = stored)
  <2> SUFFICES ASSUME Unraced(t), ~ raced[t], NEW i \in 1 .. l PROVE parts[i] = stored
    BY <1>3
  <2>1. /\ IsGrant(token, stored) /\ header[t] = GrantLength[stored]
        /\ \A j \in 1 .. Len(sent[t]) : sent[t][j] = stored
    BY <1>1 DEF Unraced, Holding
  <2>2. token[l] = stored
    BY <1>1, <2>1 DEF IsGrant
  <2>3. i # l => i \in 1 .. Len(sent[t])
    BY <1>1
  <2> QED
    BY <1>3, <2>1, <2>2, <2>3
<1> HIDE DEF parts, l
<1>5. at' = [at EXCEPT ![t] = "send"]
  BY <1>1 DEF TypeOK
<1> QED
  BY <1>1, <1>3, <1>4, <1>5, SentChanges

\* The exchange is over.
LEMMA SentStep ==
  ASSUME TypeOK, TokenInv, NEW t \in Threads, Sent(t)
  PROVE  TokenTypes' /\ TokenInv'
<1>1. /\ at[t] = "send" /\ sent' = [sent EXCEPT ![t] = <<>>]
      /\ UNCHANGED <<token, granted, new, todo, header, clock, stored, alone, raced>>
  BY DEF Sent
<1>2. PICK place \in {"writeResponse", "idle"} : at' = [at EXCEPT ![t] = place]
  BY DEF Sent
<1> DEFINE none == <<>>
<1>3. none \in Seq(Part) /\ Len(none) = 0 /\ none = <<>>
  OBVIOUS
<1> HIDE DEF none
<1>4. /\ sent' = [sent EXCEPT ![t] = none] /\ \A i \in 1 .. Len(none) : none[i] = stored
      /\ place \in {"send", "writeResponse", "idle"}
  BY <1>1, <1>3
<1> QED
  BY <1>1, <1>2, <1>3, <1>4, SentChanges

\* Time, and the settings of the log, touch no token.
LEMMA TokenUntouched ==
  ASSUME TokenInv, UNCHANGED <<at, token, new, todo, header, sent, stored, alone, raced>>
  PROVE  TokenInv'
<1>1. \A u \in Threads : (Copying(u)' <=> Copying(u)) /\ (Holding(u)' <=> Holding(u))
  BY DEF Copying, Holding
<1>2. Nobody' <=> Nobody
  BY <1>1 DEF Nobody
<1>3. StoredLast'
  BY <1>2 DEF TokenInv, StoredLast
<1>4. ASSUME NEW u \in Threads
      PROVE  Copied(u)' /\ Unraced(u)' /\ Unsent(u)'
  <2>1. Copied(u) /\ Unraced(u) /\ Unsent(u)
    BY DEF TokenInv
  <2>2. Copied(u)'
    BY <1>1, <2>1 DEF Copied
  <2>3. Unraced(u)'
    BY <1>1, <1>2, <2>1 DEF Unraced
  <2> QED
    BY <2>1, <2>2, <2>3 DEF Unsent
<1> QED
  BY <1>3, <1>4 DEF TokenInv
------------------------------------------------------------------------------
(***************************************************************************)
(* The settings of the log.                                                *)
(***************************************************************************)

\* What the settings are stays one of what was given, and a change that is not
\* the loss of the listener and gives no list of another length leaves what a
\* thread relies on.
LEMMA SettingsStep ==
  ASSUME TypeOK, LogInv, SetListener \/ SetClassifications \/ StoreClassifications
  PROVE  LogTypes' /\ LogInv' /\ UNCHANGED <<at, tokenVars, look, respond, start>>
<1>1. UNCHANGED <<at, tokenVars, look, respond, start>>
  BY DEF SetListener, SetClassifications, StoreClassifications, notTheSettings
<1>2. /\ \A list \in List : Count(list) \in Nat
      /\ start.lists \subseteq List /\ start.listeners \subseteq BOOLEAN
  BY SharedStateAssumption DEF Count, List, TypeOK
<1>3. CASE SetListener
  <2>1. LogTypes'
    BY <1>2, <1>3 DEF SetListener, TypeOK, LogTypes
  <2>2. UNCHANGED <<classes, stores, given>>
    BY <1>3 DEF SetListener
  <2>3. Steady' => Steady /\ (listener => listener')
    BY <1>3, <2>1 DEF SetListener, Steady, LogTypes, TypeOK
  <2>4. \A u \in Threads : Relies(u)'
    BY <1>1, <2>2, <2>3 DEF LogInv, Relies, InLog
  <2> QED
    BY <1>1, <2>1, <2>2, <2>4 DEF LogInv, FromGiven
<1>4. CASE SetClassifications
  <2>1. PICK list \in start.lists :
          /\ stores' = [list |-> stores.list \cup {list},
                        length |-> stores.length \cup {Count(list)}]
          /\ given' = given \cup {list}
    BY <1>4 DEF SetClassifications
  <2>2. UNCHANGED <<listener, classes, taken>>
    BY <1>4 DEF SetClassifications
  <2>3. LogTypes'
    BY <1>2, <2>1, <2>2 DEF TypeOK, LogTypes
  <2>4. FromGiven'
    BY <2>1, <2>2 DEF LogInv, FromGiven
  <2>5. Steady' => Steady
    BY <2>1, <2>2 DEF Steady
  <2>6. given \subseteq given'
    BY <2>1
  <2>7. \A u \in Threads : Relies(u)'
    BY <1>1, <2>2, <2>5, <2>6 DEF LogInv, Relies, InLog
  <2> QED
    BY <1>1, <2>3, <2>4, <2>7 DEF LogInv
<1>5. CASE StoreClassifications
  <2>0. PICK variable \in {"list", "length"} : \E value \in stores[variable] :
          /\ classes' = [classes EXCEPT ![variable] = value]
          /\ stores'  = [stores EXCEPT ![variable] = @ \ {value}]
    BY <1>5 DEF StoreClassifications
  <2>1. PICK value \in stores[variable] :
          /\ classes' = [classes EXCEPT ![variable] = value]
          /\ stores'  = [stores EXCEPT ![variable] = @ \ {value}]
    BY <2>0
  <2>2. UNCHANGED <<listener, given, taken>>
    BY <1>5 DEF StoreClassifications
  <2>3. LogTypes' /\ FromGiven'
    <3>1. CASE variable = "list"
      <4>1. /\ classes' = [classes EXCEPT !.list = value]
            /\ stores'  = [stores EXCEPT !.list = @ \ {value}]
            /\ value \in stores.list
        BY <2>1, <3>1
      <4> QED
        BY <2>2, <4>1 DEF TypeOK, LogTypes, LogInv, FromGiven
    <3>2. CASE variable = "length"
      <4>1. /\ classes' = [classes EXCEPT !.length = value]
            /\ stores'  = [stores EXCEPT !.length = @ \ {value}]
            /\ value \in stores.length
        BY <2>1, <3>2
      <4> QED
        BY <2>2, <4>1 DEF TypeOK, LogTypes, LogInv, FromGiven
    <3> QED
      BY <3>1, <3>2
  <2>4. classes.list \in given => classes'.list \in given
    <3>1. \/ classes'.list = classes.list
          \/ classes'.list \in stores.list
      BY <2>1 DEF TypeOK, LogTypes
    <3> QED
      BY <3>1 DEF LogInv, FromGiven
  <2>5. Steady' <=> Steady
    BY <2>2 DEF Steady
  <2>6. \A u \in Threads : Relies(u)'
    BY <1>1, <2>2, <2>4, <2>5 DEF LogInv, Relies, InLog
  <2> QED
    BY <1>1, <2>3, <2>6 DEF LogInv
<1> QED
  BY <1>1, <1>3, <1>4, <1>5

\* A read of the settings leads from what a thread relies on to what it may rely
\* on next: it reads on, or goes on in its policy.
LEMMA ReadSettingsStep ==
  ASSUME TypeOK, LogInv, NEW t \in Threads, ReadSettings(t)
  PROVE  /\ look' \in [Threads -> [next: Read, i: Nat]]
         /\ respond' \in [Threads -> BOOLEAN]
         /\ UNCHANGED <<tokenVars, logVars, start>>
         /\ \E place \in {"askRequest", "askResponse", "writeRequest", "writeResponse",
                          "send", "idle", "fault"} : at' = [at EXCEPT ![t] = place]
         /\ LogInv'
<1> DEFINE seen == look[t].next
           i    == look[t].i
           on   == IF seen = "entry" THEN i + 1 ELSE i
<1>1. /\ InLog(t) /\ NextRead(t) /\ UNCHANGED <<tokenVars, logVars, start>>
      /\ at[t] \in {"askRequest", "askResponse", "writeRequest", "writeResponse"}
      /\ look[t] \in [next: Read, i: Nat] /\ seen \in Read \ {"none"} /\ i \in Nat \ {0}
      /\ Relies(t) /\ FromGiven
  BY DEF ReadSettings, InLog, Asks, Writes, TypeOK, LogInv, Relies
<1>2. on \in Nat \ {0}
  BY <1>1
<1>3. UNCHANGED <<listener, classes, stores, given, taken>>
  BY <1>1 DEF logVars
<1>4. FromGiven' /\ (Steady' <=> Steady)
  BY <1>1, <1>3 DEF FromGiven, Steady
<1>5. ASSUME NEW next \in Read, Looks(t, next)
      PROVE  /\ look' \in [Threads -> [next: Read, i: Nat]]
             /\ \A u \in Threads : look'[u] = IF u = t THEN [next |-> next, i |-> on]
                                                       ELSE look[u]
             /\ UNCHANGED <<at, respond>>
  <2>1. /\ look' = [look EXCEPT ![t].next = next,
                                ![t].i = IF look[t].next = "entry" THEN @ + 1 ELSE @]
        /\ UNCHANGED <<at, respond>>
    BY <1>5 DEF Looks
  <2>2. look \in [Threads -> [next: Read, i: Nat]]
    BY DEF TypeOK
  <2>3. look'[t] = [next |-> next, i |-> on]
    BY <2>1, <2>2
  <2>4. \A u \in Threads \ {t} : look'[u] = look[u]
    BY <2>1, <2>2
  <2>5. look' = [u \in Threads |-> look'[u]]
    BY <2>1, <2>2
  <2>6. [next |-> next, i |-> on] \in [next: Read, i: Nat]
    BY <1>2
  <2> QED
    BY <2>1, <2>2, <2>3, <2>4, <2>5, <2>6
<1>6. ASSUME NEW answer \in BOOLEAN, GoesOn(t, answer)
      PROVE  /\ \E next \in {"listener", "check"} :
                  look' = [look EXCEPT ![t] = [next |-> next, i |-> 1]]
             /\ \E place \in {"askResponse", "writeRequest", "send", "idle"} :
                  at' = [at EXCEPT ![t] = place]
             /\ respond' \in [Threads -> BOOLEAN]
  <2>1. \E place \in {"askResponse", "writeRequest", "send", "idle"} :
          at' = [at EXCEPT ![t] = place]
    BY <1>1, <1>6 DEF GoesOn
  <2>2. \E next \in {"listener", "check"} :
          look' = [look EXCEPT ![t] = [next |-> next, i |-> 1]]
    BY <1>6 DEF GoesOn
  <2>3. respond' \in [Threads -> BOOLEAN]
    BY <1>6 DEF GoesOn, TypeOK
  <2> QED
    BY <2>1, <2>2, <2>3
<1> DEFINE Allowed(next) ==
             Steady =>
               /\ next \in {"list", "length", "bound", "entry", "call"} => listener
               /\ next \in {"length", "bound", "entry"} => classes.list \in given
               /\ next = "entry" => \E list \in given : on <= Count(list)
           Place7 == {"askRequest", "askResponse", "writeRequest", "writeResponse",
                      "send", "idle", "fault"}
           Kept   == /\ look' \in [Threads -> [next: Read, i: Nat]]
                     /\ respond' \in [Threads -> BOOLEAN]
                     /\ \E place \in Place7 : at' = [at EXCEPT ![t] = place]
                     /\ LogInv'
<1> HIDE DEF seen, i, on
\* The thread reads on.
<1>7. ASSUME NEW next \in Read \ {"none"}, Looks(t, next), Allowed(next)
      PROVE  Kept
  <2>1. /\ look' \in [Threads -> [next: Read, i: Nat]]
        /\ look'[t] = [next |-> next, i |-> on]
        /\ \A u \in Threads \ {t} : look'[u] = look[u]
        /\ UNCHANGED <<at, respond>>
    BY <1>5, <1>7
  <2>2. Relies(t)'
    BY <1>1, <1>2, <1>3, <1>4, <1>7, <2>1 DEF Relies, InLog
  <2>3. ASSUME NEW u \in Threads \ {t} PROVE Relies(u)'
    BY <1>3, <1>4, <2>1 DEF Relies, InLog, LogInv
  <2>4. LogInv'
    BY <1>4, <2>2, <2>3 DEF LogInv
  <2>5. at' = [at EXCEPT ![t] = at[t]] /\ at[t] \in Place7 /\ respond \in [Threads -> BOOLEAN]
    BY <1>1, <2>1 DEF TypeOK
  <2> QED
    BY <2>1, <2>4, <2>5
\* The thread goes on in its policy.
<1>8. ASSUME NEW answer \in BOOLEAN, GoesOn(t, answer)
      PROVE  Kept
  <2>1. PICK next \in {"listener", "check"} :
          look' = [look EXCEPT ![t] = [next |-> next, i |-> 1]]
    BY <1>6, <1>8
  <2>2. PICK place \in {"askResponse", "writeRequest", "send", "idle"} :
          at' = [at EXCEPT ![t] = place]
    BY <1>6, <1>8
  <2>3. look' \in [Threads -> [next: Read, i: Nat]] /\ respond' \in [Threads -> BOOLEAN]
    BY <1>6, <1>8, <2>1 DEF TypeOK, Read
  <2>4. look'[t].next = next /\ look'[t].i = 1 /\ at'[t] = place
    BY <2>1, <2>2 DEF TypeOK
  <2>5. Relies(t)'
    BY <2>4 DEF Relies
  <2>6. ASSUME NEW u \in Threads \ {t} PROVE Relies(u)'
    <3>1. Relies(u) /\ look'[u] = look[u] /\ at'[u] = at[u]
      BY <2>1, <2>2 DEF TypeOK, LogInv
    <3> QED
      BY <1>3, <1>4, <3>1 DEF Relies, InLog
  <2>7. LogInv'
    BY <1>4, <2>5, <2>6 DEF LogInv
  <2> QED
    BY <2>2, <2>3, <2>7
\* Something is read or called that is not there: only where it is not steady.
<1>9. ASSUME Fault(t), ~ Steady
      PROVE  Kept
  <2>1. UNCHANGED <<look, respond>> /\ at' = [at EXCEPT ![t] = "fault"]
    BY <1>9 DEF Fault
  <2>2. Relies(t)'
    BY <1>1, <1>4, <1>9, <2>1 DEF Relies, seen, i
  <2>3. ASSUME NEW u \in Threads \ {t} PROVE Relies(u)'
    BY <1>4, <1>9, <2>1 DEF Relies, LogInv, InLog, TypeOK
  <2>4. LogInv'
    BY <1>4, <2>2, <2>3 DEF LogInv
  <2> QED
    BY <2>1, <2>4 DEF TypeOK
<1> HIDE DEF Kept
\* The thread has its answer.
<1>10. ASSUME NEW answer \in BOOLEAN, Answers(t, answer), answer => (Steady => listener)
       PROVE  Kept
  <2>1. CASE Looks(t, "call") /\ answer
    <3>1. "call" \in Read \ {"none"} /\ Allowed("call")
      BY <1>10, <2>1 DEF Read
    <3> QED
      BY <1>7, <2>1, <3>1
  <2>2. CASE GoesOn(t, answer)
    BY <1>8, <2>2
  <2> QED
    BY <1>10, <2>1, <2>2 DEF Answers
<1>11. Kept
  <2>1. CASE seen = "check"
    <3>1. Looks(t, "listener") \/ GoesOn(t, FALSE)
      BY <1>1, <2>1 DEF NextRead, seen
    <3>2. "listener" \in Read \ {"none"} /\ Allowed("listener")
      BY DEF Read
    <3> QED
      BY <1>7, <1>8, <3>1, <3>2
  <2>2. CASE seen = "listener"
    <3>1. \/ listener /\ Looks(t, "list")
          \/ Answers(t, FALSE)
      BY <1>1, <2>2 DEF NextRead, seen
    <3>2. listener => "list" \in Read \ {"none"} /\ Allowed("list")
      BY DEF Read
    <3> QED
      BY <1>7, <1>10, <3>1, <3>2
  <2>3. CASE seen = "list"
    <3>1. Steady => listener
      BY <1>1, <2>3 DEF Relies, seen
    <3>2. \/ Answers(t, TRUE)
          \/ Looks(t, "length") /\ classes.list # NoList
      BY <1>1, <2>3 DEF NextRead, seen
    <3>3. classes.list # NoList => "length" \in Read \ {"none"} /\ Allowed("length")
      BY <1>1, <3>1 DEF FromGiven, Read
    <3> QED
      BY <1>7, <1>10, <3>1, <3>2, <3>3
  <2>4. CASE seen = "length"
    <3>1. Steady => listener /\ classes.list \in given
      BY <1>1, <2>4 DEF Relies, seen
    <3>2. Answers(t, TRUE) \/ Looks(t, "bound")
      BY <1>1, <2>4 DEF NextRead, seen
    <3>3. "bound" \in Read \ {"none"} /\ Allowed("bound")
      BY <3>1 DEF Read
    <3> QED
      BY <1>7, <1>10, <3>1, <3>2, <3>3
  <2>5. CASE seen = "bound"
    <3>1. Steady => listener /\ classes.list \in given
      BY <1>1, <2>5 DEF Relies, seen
    <3>2. \/ Answers(t, FALSE)
          \/ Looks(t, "entry") /\ i <= classes.length
      BY <1>1, <2>5 DEF NextRead, seen, i
    <3>3. i <= classes.length => \E list \in given : on <= Count(list)
      BY <1>1, <2>5 DEF FromGiven, on
    <3>4. i <= classes.length => "entry" \in Read \ {"none"} /\ Allowed("entry")
      BY <3>1, <3>3 DEF Read
    <3> QED
      BY <1>7, <1>10, <3>2, <3>4
  <2>6. CASE seen = "entry"
    <3>1. Steady => /\ listener /\ classes.list \in given
                    /\ \E list \in given : i <= Count(list)
      BY <1>1, <2>6 DEF Relies, seen, i
    <3>2. Steady => i <= Count(classes.list)
      BY <3>1 DEF Steady
    <3>3. Steady => ~ (classes.list = NoList \/ i > Len(classes.list))
      BY <1>1, <3>2 DEF Count, TypeOK, LogTypes, List
    <3>4. \/ Fault(t) /\ (classes.list = NoList \/ i > Len(classes.list))
          \/ Answers(t, TRUE)
          \/ Looks(t, "bound")
      BY <1>1, <2>6 DEF NextRead, seen, i
    <3>5. "bound" \in Read \ {"none"} /\ Allowed("bound")
      BY <3>1 DEF Read
    <3> QED
      BY <1>7, <1>9, <1>10, <3>1, <3>3, <3>4, <3>5
  <2>7. CASE seen = "call"
    <3>1. Steady => listener
      BY <1>1, <2>7 DEF Relies, seen
    <3>2. \/ GoesOn(t, TRUE)
          \/ ~ listener /\ Fault(t)
      BY <1>1, <2>7 DEF NextRead, seen
    <3> QED
      BY <1>8, <1>9, <3>1, <3>2
  <2> QED
    BY <1>1, <2>1, <2>2, <2>3, <2>4, <2>5, <2>6, <2>7 DEF Read
<1> QED
  BY <1>1, <1>11 DEF Kept

\* A thread outside of the log that does not enter it, or enters it to read its
\* first variable, leaves what the others rely on.
LEMMA LogStands ==
  ASSUME TypeOK, LogInv, NEW t \in Threads, UNCHANGED logVars,
         \A u \in Threads \ {t} : at'[u] = at[u] /\ look'[u] = look[u],
         at[t] # "fault" => at'[t] # "fault",
         \/ ~ InLog(t)' /\ look'[t] = look[t]
         \/ look'[t] \in [next: {"check", "listener"}, i: {1}]
  PROVE  LogInv'
<1>1. UNCHANGED <<listener, classes, stores, given, taken>>
  BY DEF logVars
<1>2. FromGiven' /\ (Steady' <=> Steady)
  BY <1>1 DEF LogInv, FromGiven, Steady
<1>3. Relies(t)'
  BY <1>1, <1>2 DEF LogInv, Relies
<1>4. ASSUME NEW u \in Threads \ {t} PROVE Relies(u)'
  BY <1>1, <1>2 DEF LogInv, Relies, InLog
<1> QED
  BY <1>2, <1>3, <1>4 DEF LogInv
------------------------------------------------------------------------------
(***************************************************************************)
(* The invariant is kept by every step.                                    *)
(***************************************************************************)

\* The steps of a thread outside of the log.
LEMMA CallIInv ==
  ASSUME IInv, NEW t \in Threads,
         \/ Call(t) \/ CheckExpiry(t) \/ Granted(t) \/ NotGranted(t) \/ Store(t)
         \/ ReadLength(t) \/ Send(t) \/ Sent(t)
  PROVE  IInv'
<1>1. TypeOK /\ TokenInv /\ LogInv /\ TokenTypes /\ LogTypes
  BY DEF IInv, TypeOK
<1>2. UNCHANGED logVars /\ UNCHANGED start
  BY DEF Call, CheckExpiry, Granted, NotGranted, Store, ReadLength, Send, Sent, notTheToken
<1>3. LogTypes' /\ start' \in Starts
  BY <1>1, <1>2 DEF LogTypes, logVars, TypeOK
<1>4. /\ at' \in [Threads -> Place]
      /\ \A u \in Threads \ {t} : at'[u] = at[u]
      /\ at'[t] # "fault"
  <2>1. CASE ~ Store(t) /\ ~ Send(t)
    <3>1. \E place \in Place \ {"fault"} : at' = [at EXCEPT ![t] = place]
      BY <2>1 DEF Call, CheckExpiry, Granted, NotGranted, ReadLength, Sent, Goes, Place
    <3> QED
      BY <1>1, <3>1 DEF TypeOK
  <2>2. CASE Store(t)
    <3>1. at[t] = "store" /\ (at' = at \/ at' = [at EXCEPT ![t] = "length"])
      BY <2>2 DEF Store
    <3> QED
      BY <1>1, <3>1 DEF TypeOK, Place
  <2>3. CASE Send(t)
    BY <1>1, <2>3 DEF Send, TypeOK
  <2> QED
    BY <2>1, <2>2, <2>3
<1>5. /\ look' \in [Threads -> [next: Read, i: Nat]]
      /\ respond' \in [Threads -> BOOLEAN]
      /\ \A u \in Threads \ {t} : look'[u] = look[u]
      /\ \/ ~ InLog(t)' /\ look'[t] = look[t]
         \/ look'[t] \in [next: {"check", "listener"}, i: {1}]
  <2>1. CASE Call(t) \/ CheckExpiry(t) \/ Granted(t) \/ NotGranted(t) \/ Store(t) \/ Send(t)
    <3>1. UNCHANGED <<look, respond>>
      BY <2>1 DEF Call, CheckExpiry, Granted, NotGranted, Store, Send, notTheToken
    <3>2. at'[t] \in {"expiry", "request", "length", "store", "idle", "send"}
      BY <1>1, <2>1 DEF Call, CheckExpiry, Granted, NotGranted, Store, Send, Goes, TypeOK
    <3>3. ~ InLog(t)'
      BY <3>2 DEF InLog, Asks, Writes
    <3> QED
      BY <1>1, <3>1, <3>3 DEF TypeOK
  <2>2. CASE ReadLength(t)
    <3>1. /\ look' = [look EXCEPT ![t] = [next |-> "listener", i |-> 1]]
          /\ UNCHANGED respond
      BY <2>2 DEF ReadLength
    <3> QED
      BY <1>1, <3>1 DEF TypeOK, Read
  <2>3. CASE Sent(t)
    <3>1. /\ respond' = [respond EXCEPT ![t] = FALSE]
          /\ look' = [look EXCEPT ![t] = IF respond[t] THEN [next |-> "check", i |-> 1] ELSE @]
          /\ at' = [at EXCEPT ![t] = IF respond[t] THEN "writeResponse" ELSE "idle"]
      BY <2>3 DEF Sent
    <3>2. CASE respond[t]
      BY <1>1, <3>1, <3>2 DEF TypeOK, Read
    <3>3. CASE ~ respond[t]
      <4>1. at'[t] = "idle" /\ look'[t] = look[t]
        BY <1>1, <3>1, <3>3 DEF TypeOK
      <4>2. ~ InLog(t)'
        BY <4>1 DEF InLog, Asks, Writes
      <4> QED
        BY <1>1, <3>1, <3>3, <4>1, <4>2 DEF TypeOK
    <3> QED
      BY <3>2, <3>3
  <2> QED
    BY <2>1, <2>2, <2>3
<1>6. LogInv'
  BY <1>1, <1>2, <1>4, <1>5, LogStands
<1>7. TokenTypes' /\ TokenInv'
  <2>1. CASE Call(t) \/ CheckExpiry(t) \/ NotGranted(t)
    <3>1. /\ \E place \in {"expiry", "request", "length", "idle"} :
               at' = [at EXCEPT ![t] = place]
          /\ at[t] \in {"idle", "expiry", "request"}
          /\ UNCHANGED tokenVars
      BY <2>1 DEF Call, CheckExpiry, NotGranted, Goes
    <3>2. TokenInv'
      BY <1>1, <3>1, TokenStands DEF Place
    <3> QED
      BY <1>1, <3>1, <3>2 DEF TokenTypes, tokenVars
  <2> QED
    BY <1>1, <2>1, GrantedStep, StoreStep, ReadLengthStep, SendStep, SentStep
<1> QED
  BY <1>3, <1>4, <1>5, <1>6, <1>7 DEF IInv, TypeOK

\* A read of the settings of the log.
LEMMA ReadSettingsIInv ==
  ASSUME IInv, NEW t \in Threads, ReadSettings(t)
  PROVE  IInv'
<1>1. TypeOK /\ TokenInv /\ LogInv /\ TokenTypes /\ LogTypes
  BY DEF IInv, TypeOK
<1>2. /\ look' \in [Threads -> [next: Read, i: Nat]]
      /\ respond' \in [Threads -> BOOLEAN]
      /\ UNCHANGED <<tokenVars, logVars, start>> /\ LogInv'
  BY <1>1, ReadSettingsStep
<1>3. PICK place \in {"askRequest", "askResponse", "writeRequest", "writeResponse",
                      "send", "idle", "fault"} : at' = [at EXCEPT ![t] = place]
  BY <1>1, ReadSettingsStep
<1>4. InLog(t)
  BY DEF ReadSettings
<1>5. Holding(t) /\ at[t] \notin {"store", "send"}
  BY <1>4 DEF InLog, Asks, Writes, Holding
<1>6. TokenInv'
  BY <1>1, <1>2, <1>3, <1>5, TokenStands DEF Place
<1>7. TokenTypes' /\ LogTypes' /\ start' \in Starts /\ at' \in [Threads -> Place]
  BY <1>1, <1>2, <1>3 DEF TokenTypes, LogTypes, tokenVars, logVars, TypeOK, Place
<1> QED
  BY <1>2, <1>6, <1>7 DEF IInv, TypeOK

\* Time, and the application's calls to the log.
LEMMA SettingsIInv ==
  ASSUME IInv, Tick \/ SetListener \/ SetClassifications \/ StoreClassifications
  PROVE  IInv'
<1>1. TypeOK /\ TokenInv /\ LogInv /\ TokenTypes /\ LogTypes
  BY DEF IInv, TypeOK
<1>2. CASE Tick
  <2>1. /\ UNCHANGED <<at, token, granted, new, todo, header, sent, stored, alone, raced>>
        /\ UNCHANGED <<logVars, look, respond, start>> /\ clock' = clock + 1
    BY <1>2 DEF Tick, notTheToken
  <2>2. TokenTypes' /\ TokenInv'
    BY <1>1, <2>1, TokenUntouched DEF TokenTypes
  <2>3. UNCHANGED <<listener, classes, stores, given, taken>>
    BY <2>1 DEF logVars
  <2>4. LogInv' /\ LogTypes'
    BY <1>1, <2>1, <2>3 DEF LogInv, FromGiven, Relies, Steady, InLog, LogTypes
  <2> QED
    BY <1>1, <2>1, <2>2, <2>4 DEF IInv, TypeOK
<1>3. CASE SetListener \/ SetClassifications \/ StoreClassifications
  <2>1. LogTypes' /\ LogInv' /\ UNCHANGED <<at, tokenVars, look, respond, start>>
    BY <1>1, <1>3, SettingsStep
  <2>2. TokenTypes' /\ TokenInv'
    BY <1>1, <2>1, TokenUntouched DEF TokenTypes, tokenVars
  <2> QED
    BY <1>1, <2>1, <2>2 DEF IInv, TypeOK
<1> QED
  BY <1>2, <1>3

\* The inductive invariant holds in every reachable state.
LEMMA Invariance == Spec => []IInv
<1>1. IInv /\ [Next]_vars => IInv'
  <2> SUFFICES ASSUME IInv, [Next]_vars PROVE IInv'
    OBVIOUS
  <2>1. CASE Next
    BY <2>1, CallIInv, ReadSettingsIInv, SettingsIInv DEF Next
  <2>2. CASE UNCHANGED vars
    <3>1. TypeOK' /\ LogInv'
      BY <2>2 DEF IInv, TypeOK, TokenTypes, LogTypes, LogInv, FromGiven, Relies, Steady,
                  InLog, vars, tokenVars, logVars
    <3>2. TokenInv'
      BY <2>2, TokenUntouched DEF IInv, vars, tokenVars
    <3> QED
      BY <3>1, <3>2 DEF IInv
  <2> QED
    BY <2>1, <2>2
<1> QED
  BY <1>1, InitIInv, PTL DEF Spec

\* A request that nobody has raced goes out with the token that was granted
\* last, the whole of it, however many threads share the credential.
THEOREM UnracedIsWhole == Spec => []WholeUnlessRaced
<1>1. IInv => WholeUnlessRaced
  <2> SUFFICES ASSUME IInv, NEW t \in Threads,
                      at[t] = "send", Len(sent[t]) = header[t], ~ raced[t]
               PROVE  /\ stored \in Grants
                      /\ sent[t] = [i \in 1 .. GrantLength[stored] |-> stored]
    BY DEF WholeUnlessRaced
  <2>1. /\ stored \in Grants /\ header[t] = GrantLength[stored]
        /\ \A i \in 1 .. Len(sent[t]) : sent[t][i] = stored
    BY DEF IInv, TokenInv, Unraced, Holding, IsGrant
  <2>2. sent[t] \in Seq(Part)
    BY DEF IInv, TypeOK, TokenTypes
  <2> QED
    BY <2>1, <2>2
<1> QED
  BY <1>1, Invariance, PTL

\* The log may be configured while it is used, as long as no listener is taken
\* away and all lists have one length.
THEOREM SteadyLogIsSafe == Spec => []LogNeverFaults
<1>1. IInv => LogNeverFaults
  BY DEF IInv, LogInv, Relies, Steady, LogNeverFaults
<1> QED
  BY <1>1, Invariance, PTL
=============================================================================
