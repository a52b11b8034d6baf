---------------------------- MODULE SharedState ----------------------------
(***************************************************************************)
(* What threads share without a lock: a credential with its token          *)
(* (az_credentials.c, az_aad.c, "TODO: thread sync") and the settings of   *)
(* the log (az_log.c, "TODO: thread safety").                              *)
(*                                                                         *)
(* Several threads call clients that were given the same credential, while *)
(* the application configures the log.  Of a call there is what touches    *)
(* the shared variables, one read or write of a variable being a step:     *)
(* the credential policy, the logging policy, and the transport, which     *)
(* reads the token out of the credential when it builds its headers.       *)
(*                                                                         *)
(* A race is undefined behaviour.  Here every read sees the last write,    *)
(* and stores that do not depend on each other, of the parts of a struct   *)
(* and of the two variables of the classifications, come in any order.     *)
(***************************************************************************)
EXTENDS Integers, Sequences, FiniteSets

CONSTANTS
  Threads,       \* threads that share the credential
  Room,          \* _az_TOKEN_BUF_SIZE, in parts that are copied at once
  GrantLength,   \* GrantLength[g]: parts of the token that is granted as the g-th
  Lifetimes,     \* how long a token may be good for
  Starts,        \* what a behaviour is about: [callers: the threads that call,
                 \* clock: how far the clock runs, lists: the classifications that
                 \* are registered, listeners]
  NoList,        \* the null pointer in place of classifications
  NoPart         \* a part of the buffer that was never written

Grants == DOMAIN GrantLength
LogClass == {"HTTP_REQUEST", "HTTP_RESPONSE"}

ASSUME SharedStateAssumption ==
  /\ Room \in Nat
  /\ GrantLength \in Seq(1 .. Room)
  /\ Lifetimes \subseteq Nat \ {0}
  /\ \A s \in Starts : /\ s.callers \subseteq Threads
                       /\ s.clock \in Nat /\ s.listeners \subseteq BOOLEAN
                       /\ s.lists \subseteq Seq(LogClass) \cup {NoList}

VARIABLES
  at,        \* at[t]: what thread t does next
  token,     \* the struct in the credential
  granted,   \* how many tokens were granted
  new,       \* new[t]: the struct that is copied over it
  todo,      \* todo[t]: the parts of it that are still to be copied
  header,    \* header[t]: the length in the header that points to the token
  sent,      \* sent[t]: the parts of the token that were read for the wire
  clock,
  start,     \* one of Starts
  listener,  \* _az_log_listener, whether there is one
  classes,   \* _az_log_classifications and its length: [list, length]
  stores,    \* the stores to them that are still to be made, [list, length]
  look,      \* look[t]: in the log, what t reads next and where: [next, i]
  respond,   \* respond[t]: t will log the response
  stored,    \* history: the token that was stored last, 0 if two copies met
  alone,     \* alone[t]: history, nobody wrote in between while t copied
  raced,     \* raced[t]: history, another thread wrote while t used the token
  given,     \* history: the lists given to az_log_set_classifications
  taken      \* history: a listener has been taken away

tokenVars == <<token, granted, new, todo, header, sent, clock, stored, alone, raced>>
logVars   == <<listener, classes, stores, given, taken>>
vars == <<at, tokenVars, logVars, look, respond, start>>

\* The struct _az_token: its buffer, the length and the expiry.
Length  == Room + 1
Expires == Room + 2
Fields  == 1 .. Expires
Struct(g, length, expires) ==
  [i \in Fields |-> CASE i = Length -> length
                      [] i = Expires -> expires
                      [] OTHER -> IF i <= length THEN g ELSE NoPart]

NoToken == Struct(NoPart, 0, 0)

Init ==
  /\ start \in Starts
  /\ at = [t \in Threads |-> "idle"]
  /\ token = NoToken /\ granted = 0 /\ clock = 1
  /\ new = [t \in Threads |-> NoToken] /\ todo = [t \in Threads |-> {}]
  /\ header = [t \in Threads |-> 0] /\ sent = [t \in Threads |-> <<>>]
  /\ listener = FALSE /\ classes = [list |-> NoList, length |-> 0]
  /\ stores = [list |-> {}, length |-> {}]
  /\ look = [t \in Threads |-> [next |-> "none", i |-> 0]]
  /\ respond = [t \in Threads |-> FALSE]
  /\ stored = 0 /\ given = {} /\ taken = FALSE
  /\ alone = [t \in Threads |-> FALSE] /\ raced = [t \in Threads |-> FALSE]

\* How many classifications the application says a list has.
Count(list) == IF list = NoList THEN 0 ELSE Len(list)

Goes(t, from, to) == at[t] = from /\ at' = [at EXCEPT ![t] = to]
------------------------------------------------------------------------------
(***************************************************************************)
(* The credential policy.                                                  *)
(***************************************************************************)
notTheToken == <<logVars, look, respond, start>>

Call(t) ==
  t \in start.callers /\ Goes(t, "idle", "expiry") /\ UNCHANGED <<tokenVars, notTheToken>>

\* _az_token_expired
CheckExpiry(t) ==
  /\ Goes(t, "expiry", IF token[Expires] <= 0 \/ clock > token[Expires]
                       THEN "request" ELSE "length")
  /\ UNCHANGED <<tokenVars, notTheToken>>

\* _az_aad_request_token gets a token, which is put together on the stack.
Granted(t) ==
  /\ Goes(t, "request", "store")
  /\ granted < Len(GrantLength) /\ granted' = granted + 1
  /\ \E lifetime \in Lifetimes :
       new' = [new EXCEPT ![t] = Struct(granted', GrantLength[granted'], clock + lifetime)]
  /\ todo' = [todo EXCEPT ![t] = Fields]
  /\ UNCHANGED <<token, header, sent, clock, stored, alone, raced, notTheToken>>

\* Variant of NotGranted: the answer is read into the struct of the credential.
NotGrantedSpoils(t) ==
  /\ Goes(t, "request", "idle")
  /\ token' = [token EXCEPT ![Length] = 0]
  /\ UNCHANGED <<granted, new, todo, header, sent, clock, stored, alone, raced,
                 notTheToken>>

\* It gets none: the call fails.
NotGranted(t) == Goes(t, "request", "idle") /\ UNCHANGED <<tokenVars, notTheToken>>

\* A thread that has begun to copy, and threads that hold a header that points
\* to the token.
Copying(t) == at[t] = "store" /\ todo[t] # Fields
Holding(t) == at[t] \notin {"idle", "expiry", "request", "store", "length"}

\* _az_token_set: a part of the struct is copied.
Store(t) ==
  /\ at[t] = "store"
  /\ \E field \in todo[t] :
       /\ token' = [token EXCEPT ![field] = new[t][field]]
       /\ todo' = [todo EXCEPT ![t] = @ \ {field}]
  /\ raced' = [u \in Threads |-> raced[u] \/ (u # t /\ Holding(u))]
  /\ alone' = [u \in Threads |->
                 IF u # t THEN alone[u] /\ ~ Copying(u)
                 ELSE IF todo[t] = Fields THEN \A v \in Threads \ {t} : ~ Copying(v)
                 ELSE alone[t]]
  /\ at' = IF todo'[t] = {} THEN [at EXCEPT ![t] = "length"] ELSE at
  /\ stored' = IF todo'[t] # {} THEN stored
               ELSE IF alone'[t] THEN new[t][1] ELSE 0
  /\ UNCHANGED <<granted, new, header, sent, clock, notTheToken>>

\* The header is attached: the length is read, the rest is a pointer.
ReadLength(t) ==
  /\ Goes(t, "length", "askRequest")
  /\ look' = [look EXCEPT ![t] = [next |-> "listener", i |-> 1]]
  /\ header' = [header EXCEPT ![t] = token[Length]]
  /\ raced'  = [raced EXCEPT ![t] = stored = 0 \/ \E u \in Threads \ {t} : Copying(u)]
  /\ UNCHANGED <<token, granted, new, todo, sent, clock, stored, alone, logVars,
                 respond, start>>

\* The transport reads the token, a part at a time.
Send(t) ==
  /\ at[t] = "send" /\ Len(sent[t]) < header[t]
  /\ sent' = [sent EXCEPT ![t] = Append(@, token[Len(@) + 1])]
  /\ UNCHANGED <<at, token, granted, new, todo, header, clock, stored, alone, raced,
                 notTheToken>>

\* The exchange is over; the response is logged if that was decided.
Sent(t) ==
  /\ at[t] = "send" /\ Len(sent[t]) = header[t]
  /\ at' = [at EXCEPT ![t] = IF respond[t] THEN "writeResponse" ELSE "idle"]
  /\ look' = [look EXCEPT ![t] = IF respond[t] THEN [next |-> "check", i |-> 1] ELSE @]
  /\ respond' = [respond EXCEPT ![t] = FALSE]
  /\ sent' = [sent EXCEPT ![t] = <<>>]
  /\ UNCHANGED <<token, granted, new, todo, header, clock, stored, alone, raced,
                 logVars, start>>

Tick == /\ clock < start.clock /\ clock' = clock + 1
        /\ UNCHANGED <<at, token, granted, new, todo, header, sent, stored, alone, raced,
                       notTheToken>>
------------------------------------------------------------------------------
(***************************************************************************)
(* The settings of the log.                                                *)
(***************************************************************************)
notTheSettings == <<at, tokenVars, look, respond, start>>

\* az_log_set_listener
SetListener ==
  /\ listener' \in start.listeners
  /\ taken' = (taken \/ (listener /\ ~ listener'))
  /\ UNCHANGED <<classes, stores, given, notTheSettings>>

\* az_log_set_classifications, up to its two stores, and each of them.
SetClassifications ==
  /\ \E list \in start.lists :
       /\ stores' = [list |-> stores.list \cup {list},
                     length |-> stores.length \cup {Count(list)}]
       /\ given'  = given \cup {list}
  /\ UNCHANGED <<listener, classes, taken, notTheSettings>>

StoreClassifications ==
  /\ \E variable \in {"list", "length"} : \E value \in stores[variable] :
       /\ classes' = [classes EXCEPT ![variable] = value]
       /\ stores'  = [stores EXCEPT ![variable] = @ \ {value}]
  /\ UNCHANGED <<listener, given, taken, notTheSettings>>
------------------------------------------------------------------------------
(***************************************************************************)
(* The logging policy.                                                     *)
(***************************************************************************)
\* Where the policy is in the log: it asks for one class or writes it.
Asks   == [askRequest |-> "HTTP_REQUEST", askResponse |-> "HTTP_RESPONSE"]
Writes == [writeRequest |-> "HTTP_REQUEST", writeResponse |-> "HTTP_RESPONSE"]
InLog(t)   == at[t] \in DOMAIN Asks \cup DOMAIN Writes
ClassOf(t) == IF at[t] \in DOMAIN Asks THEN Asks[at[t]] ELSE Writes[at[t]]

Looks(t, next) ==
  /\ look' = [look EXCEPT ![t].next = next,
                          ![t].i = IF look[t].next = "entry" THEN @ + 1 ELSE @]
  /\ UNCHANGED <<at, respond>>

\* az_log_should_write or az_log_write returns to the policy, which goes on.
GoesOn(t, answer) ==
  /\ at' = [at EXCEPT ![t] =
       CASE at[t] = "askRequest" /\ answer -> "writeRequest"
         [] at[t] = "askRequest" /\ ~ answer -> "askResponse"
         [] at[t] = "writeRequest"  -> "askResponse"
         [] at[t] = "askResponse"   -> "send"
         [] at[t] = "writeResponse" -> "idle"]
  /\ look' = [look EXCEPT ![t] =
       [next |-> IF at[t] = "askRequest" /\ answer THEN "check" ELSE "listener", i |-> 1]]
  /\ respond' = [respond EXCEPT ![t] = @ \/ (at[t] = "askResponse" /\ answer)]

\* The answer of az_log_should_write.
Answers(t, answer) ==
  IF answer /\ at[t] \in DOMAIN Writes THEN Looks(t, "call") ELSE GoesOn(t, answer)

\* A null pointer is called, or something outside of the list is read.
Fault(t) == at' = [at EXCEPT ![t] = "fault"] /\ UNCHANGED <<look, respond>>

\* Variant of NextRead: the list is only checked for its length.
NextReadUnchecked(t) ==
  CASE look[t].next = "check"    -> IF listener THEN Looks(t, "listener")
                                    ELSE GoesOn(t, FALSE)
    [] look[t].next = "listener" -> IF listener THEN Looks(t, "length")
                                    ELSE Answers(t, FALSE)
    [] look[t].next = "length"   -> IF classes.length = 0 THEN Answers(t, TRUE)
                                    ELSE Looks(t, "bound")
    [] look[t].next = "bound"    -> IF look[t].i <= classes.length THEN Looks(t, "entry")
                                    ELSE Answers(t, FALSE)
    [] look[t].next = "entry"    -> IF classes.list = NoList \/ look[t].i > Len(classes.list)
                                    THEN Fault(t)
                                    ELSE IF classes.list[look[t].i] = ClassOf(t)
                                    THEN Answers(t, TRUE) ELSE Looks(t, "bound")
    [] look[t].next = "call"     -> IF listener THEN GoesOn(t, TRUE) ELSE Fault(t)

\* The reads of az_log_write and az_log_should_write.
NextRead(t) ==
  CASE look[t].next = "check"    -> IF listener THEN Looks(t, "listener")
                                    ELSE GoesOn(t, FALSE)
    [] look[t].next = "listener" -> IF listener THEN Looks(t, "list")
                                    ELSE Answers(t, FALSE)
    [] look[t].next = "list"     -> IF classes.list = NoList THEN Answers(t, TRUE)
                                    ELSE Looks(t, "length")
    [] look[t].next = "length"   -> IF classes.length = 0 THEN Answers(t, TRUE)
                                    ELSE Looks(t, "bound")
    [] look[t].next = "bound"    -> IF look[t].i <= classes.length THEN Looks(t, "entry")
                                    ELSE Answers(t, FALSE)
    [] look[t].next = "entry"    -> IF classes.list = NoList \/ look[t].i > Len(classes.list)
                                    THEN Fault(t)
                                    ELSE IF classes.list[look[t].i] = ClassOf(t)
                                    THEN Answers(t, TRUE) ELSE Looks(t, "bound")
    [] look[t].next = "call"     -> IF listener THEN GoesOn(t, TRUE) ELSE Fault(t)

ReadSettings(t) == InLog(t) /\ NextRead(t) /\ UNCHANGED <<tokenVars, logVars, start>>
------------------------------------------------------------------------------
Next ==
  \/ \E t \in Threads :
       \/ Call(t) \/ CheckExpiry(t) \/ Granted(t) \/ NotGranted(t) \/ Store(t)
       \/ ReadLength(t) \/ Send(t) \/ Sent(t)
       \/ ReadSettings(t)
  \/ Tick \/ SetListener \/ SetClassifications \/ StoreClassifications

Spec == Init /\ [][Next]_vars
------------------------------------------------------------------------------
(***************************************************************************)
(* Properties.                                                             *)
(***************************************************************************)
\* The token that goes out with a request is the one that was granted last, the
\* whole of it and nothing else, unless another thread copied a token into the
\* credential while the header pointed there, which is until the headers are
\* built and not only until the header is attached; or two threads have copied
\* at the same time.  The damage they do lasts until a token is copied alone.  A
\* token request that fails, at whatever time, disturbs nobody.
WholeUnlessRaced ==
  \A t \in Threads :
    at[t] = "send" /\ Len(sent[t]) = header[t] /\ ~ raced[t] =>
      /\ stored \in Grants
      /\ sent[t] = [i \in 1 .. GrantLength[stored] |-> stored]

\* To configure the log while others use it is safe as long as no listener is
\* taken away and all lists of classifications that are registered have the same
\* length, whichever of the two variables is written first and however often:
\* no null pointer is called and nothing outside of a list is read.
LogNeverFaults ==
  (\E t \in Threads : at[t] = "fault") =>
    taken \/ \E a, b \in given : Count(a) # Count(b)
=============================================================================
