---------------------------- MODULE SendingProofs ----------------------------
(***************************************************************************)
(* What a call of the platform and the counter of an event keep for any    *)
(* number of goroutines, messages, attempts and lifetimes of tokens.       *)
(***************************************************************************)
EXTENDS Sending, TLAPS

USE AttemptAssumption, BufferAssumption, GrantAssumption, CallerAssumption,
    NullAssumption, LimitAssumption, BeforeAssumption, SendAssumption

Fetch == {"fetch", "fetchPause"}

(* Only who fetches a token holds its lock, and only while there is none to *)
(* be had from the cache.                                                   *)
LockInv ==
  /\ \A c \in Caller : pc[c] \in Fetch => lock = c
  /\ lock # NULL => ~Fresh

(* A token that is not given up yet lives for Buffer ticks more, short of   *)
(* the one for which its answer may have been on the way.                   *)
CacheInv ==
  expireIn > 0 => accessToken \in Nat /\ accessToken >= expireIn + Buffer - 1

(* Who has just found the cache fresh still does; a tick later the token    *)
(* may have been given up, but lasts for all attempts.                      *)
ReadInv ==
  \A c \in Caller : pc[c] = "read" =>
    /\ spent[c] = 0 => Fresh
    /\ accessToken \in Nat /\ accessToken >= 2 * MaxAttempts

(* A token in a header lives until the last attempt has ended: a tick for   *)
(* each attempt and each pause that may still come.                         *)
HeaderInv ==
  \A c \in Caller :
    /\ pc[c] = "call" =>
         /\ tries[c] >= 1
         /\ token[c] >= 2 - spent[c] + 2 * (MaxAttempts - tries[c])
    /\ pc[c] = "pause" =>
         /\ tries[c] \in 1 .. MaxAttempts - 1
         /\ token[c] >= 1 - spent[c] + 2 * (MaxAttempts - tries[c])

(* Attempts left for who pauses or fetches.                                 *)
FetchInv ==
  \A c \in Caller : pc[c] = "fetchPause" => tries[c] < MaxAttempts

TokenInv == TypeOK /\ LockInv /\ CacheInv /\ ReadInv /\ HeaderInv /\ FetchInv

(* The counter is ahead of every number given out, by two while a goroutine *)
(* is between counting and reading.                                         *)
NumberInv ==
  /\ \A c \in Caller : /\ pc[c] = "number" => refLock = c
                       /\ kind[c] = "initiative" => mixed
  /\ refLock # NULL => pc[refLock] = "number"
  /\ ~mixed =>
       /\ msgSeq \in 1 .. Limit
       /\ refLock # NULL => msgSeq >= 2
       /\ \A n \in DOMAIN numbers :
            /\ numbers[n] = 1
            /\ n \in 1 .. (IF refLock = NULL THEN msgSeq - 1 ELSE msgSeq - 2)

-----------------------------------------------------------------------------

(* A counter of eight bits that does not wrap.                             *)
LEMMA Narrow ==
  ASSUME NEW n \in 0 .. 254
  PROVE  (n + 1) % 256 = n + 1 /\ (n + 1 + 255) % 256 = n
<1>1. n + 1 + 255 = n + 256
  OBVIOUS
<1>2. (n + 256) % 256 = n
  OBVIOUS
<1>3. (n + 1) % 256 = n + 1
  OBVIOUS
<1> QED
  BY <1>1, <1>2, <1>3

(* The steps that neither end a fetch nor let time pass leave the cache.    *)
LEMMA StepKeeps ==
  ASSUME [Next]_vars
  PROVE  \/ Tick /\ UNCHANGED countVars
         \/ \E c \in Caller : (\E g \in Grant : FetchAnswered(c, g)) /\ UNCHANGED countVars
         \/ UNCHANGED <<accessToken, expireIn>>
BY DEF Next, Proceed, ClientStep, Fetching, Calling, Start, Count, Number,
       Marshal, Check, ReadToken, Lock, FetchRefused, FetchFails, Again, Resume,
       Answered, Refused, CallFails, vars, clientVars, cacheVars

LEMMA TypeNext == TokenInv /\ [Next]_vars => TypeOK'
<1> SUFFICES ASSUME TypeOK, HeaderInv, FetchInv, ReadInv, [Next]_vars
             PROVE  TypeOK'
  BY DEF TokenInv
<1> USE DEF TypeOK, Move, Finish, StartCall, cacheVars, countVars
<1>1. ASSUME NEW c \in Caller, NEW what \in Kind, Start(c, what) PROVE TypeOK'
  <2>1. mixed' \in BOOLEAN
    BY <1>1, Zenon DEF Start
  <2>2. sent' \in 0 .. MaxSend
    BY <1>1 DEF Start
  <2> QED
    BY <1>1, <2>1, <2>2 DEF Start
<1>2. ASSUME NEW c \in Caller, Count(c) PROVE TypeOK'
  <2>1. (msgSeq + 1) % 256 \in 0 .. 255
    OBVIOUS
  <2>2. msgSeq' \in 0 .. 255 /\ refLock' \in Caller \cup {NULL}
    BY <1>2, <2>1 DEF Count
  <2>3. CASE Finish(c, "error")
    BY <1>2, <2>2, <2>3 DEF Count
  <2>4. CASE Move(c, "number") /\ UNCHANGED <<token, tries, result>>
    BY <1>2, <2>2, <2>4 DEF Count
  <2> QED
    BY <1>2, <2>3, <2>4 DEF Count
<1>3. ASSUME NEW c \in Caller, Number(c) PROVE TypeOK'
  BY <1>3 DEF Number
<1>4. ASSUME NEW c \in Caller, Marshal(c) PROVE TypeOK'
  BY <1>4 DEF Marshal
<1>5. ASSUME NEW c \in Caller, ClientStep(c), UNCHANGED countVars PROVE TypeOK'
  <2>1. CASE Check(c)
    BY <1>5, <2>1 DEF Check
  <2>2. CASE ReadToken(c)
    BY <1>5, <2>2 DEF ReadToken, ReadInv
  <2>3. CASE Lock(c)
    BY <1>5, <2>3 DEF Lock, Fresh
  <2>4. ASSUME NEW g \in Grant, FetchAnswered(c, g) PROVE TypeOK'
    BY <1>5, <2>4 DEF FetchAnswered
  <2>5. CASE FetchRefused(c) \/ FetchFails(c)
    BY <1>5, <2>5 DEF FetchRefused, FetchFails
  <2>6. CASE Again(c)
    BY <1>5, <2>6 DEF Again, Resume, HeaderInv, FetchInv
  <2>7. CASE Answered(c) \/ Refused(c) \/ CallFails(c)
    BY <1>5, <2>7 DEF Answered, Refused, CallFails, Learn
  <2> QED
    BY <1>5, <2>1, <2>2, <2>3, <2>4, <2>5, <2>6, <2>7
    DEF ClientStep, Fetching, Calling
<1>6. CASE Tick /\ UNCHANGED countVars
  BY <1>6 DEF Tick, Less
<1>7. CASE UNCHANGED vars
  BY <1>7 DEF vars, clientVars, callVars
<1> QED
  BY <1>1, <1>2, <1>3, <1>4, <1>5, <1>6, <1>7 DEF Next, Proceed

(* The cache changes when a fetch succeeds and when time passes.            *)
LEMMA CacheNext == TokenInv /\ [Next]_vars => CacheInv'
<1> SUFFICES ASSUME TokenInv, [Next]_vars PROVE CacheInv'
  OBVIOUS
<1> USE DEF TokenInv, TypeOK, CacheInv
<1>1. CASE Tick
  BY <1>1 DEF Tick, Less
<1>2. ASSUME NEW c \in Caller, NEW g \in Grant, FetchAnswered(c, g)
      PROVE  CacheInv'
  BY <1>2 DEF FetchAnswered
<1> QED
  BY <1>1, <1>2, StepKeeps

LEMMA LockNext == TokenInv /\ [Next]_vars => LockInv'
<1> SUFFICES ASSUME TokenInv, [Next]_vars PROVE LockInv'
  OBVIOUS
<1> USE DEF TokenInv, TypeOK, LockInv, Fetch, Fresh, Move, Finish, StartCall,
            cacheVars
<1>1. ASSUME NEW c \in Caller,
             (\E what \in Kind : Start(c, what)) \/ Count(c) \/ Number(c) \/ Marshal(c)
      PROVE  LockInv'
  BY <1>1 DEF Start, Count, Number, Marshal
<1>2. ASSUME NEW c \in Caller, Check(c) \/ ReadToken(c) \/ Again(c) \/ Calling(c)
      PROVE  LockInv'
  BY <1>2 DEF Check, ReadToken, Again, Resume, Calling, Answered, Refused, CallFails
<1>3. ASSUME NEW c \in Caller, Lock(c) PROVE LockInv'
  BY <1>3 DEF Lock
<1>4. ASSUME NEW c \in Caller, Fetching(c) PROVE LockInv'
  BY <1>4 DEF Fetching, FetchAnswered, FetchRefused, FetchFails
<1>5. CASE Tick
  BY <1>5 DEF Tick, Less
<1>6. CASE UNCHANGED vars
  BY <1>6 DEF vars, clientVars, callVars
<1> QED
  BY <1>1, <1>2, <1>3, <1>4, <1>5, <1>6 DEF Next, Proceed, ClientStep

LEMMA ReadNext == TokenInv /\ [Next]_vars => ReadInv'
<1> SUFFICES ASSUME TokenInv, [Next]_vars PROVE ReadInv'
  OBVIOUS
<1> USE DEF TokenInv, TypeOK, ReadInv, Fresh, Move, Finish, StartCall, cacheVars
<1>1. ASSUME NEW c \in Caller,
             (\E what \in Kind : Start(c, what)) \/ Count(c) \/ Number(c) \/ Marshal(c)
      PROVE  ReadInv'
  BY <1>1 DEF Start, Count, Number, Marshal
<1>2. ASSUME NEW c \in Caller, ReadToken(c) \/ Again(c) \/ Calling(c) \/ Lock(c)
      PROVE  ReadInv'
  BY <1>2 DEF ReadToken, Again, Resume, Calling, Answered, Refused, CallFails, Lock
<1>3. ASSUME NEW c \in Caller, Check(c) PROVE ReadInv'
  BY <1>3 DEF Check, CacheInv
<1>4. ASSUME NEW c \in Caller, Fetching(c) PROVE ReadInv'
  <2>1. ASSUME NEW g \in Grant, FetchAnswered(c, g) PROVE ReadInv'
    <3>1. ~Fresh
      BY <2>1 DEF FetchAnswered, LockInv, Fetch
    <3>2. accessToken' \in Nat /\ accessToken' >= 2 * MaxAttempts
      BY <2>1 DEF FetchAnswered
    <3>3. \A d \in Caller : pc'[d] = "read" => pc[d] = "read" /\ spent'[d] = spent[d]
      BY <2>1 DEF FetchAnswered
    <3> QED
      BY <3>1, <3>2, <3>3
  <2>2. CASE FetchRefused(c) \/ FetchFails(c)
    BY <2>2 DEF FetchRefused, FetchFails
  <2> QED
    BY <1>4, <2>1, <2>2 DEF Fetching
<1>5. CASE Tick
  <2> SUFFICES ASSUME NEW c \in Caller, pc'[c] = "read"
               PROVE  /\ spent'[c] # 0
                      /\ accessToken' \in Nat /\ accessToken' >= 2 * MaxAttempts
    BY DEF ReadInv
  <2>1. pc[c] = "read" /\ spent[c] = 0 /\ spent'[c] = 1
    BY <1>5 DEF Tick, Timed
  <2>2. accessToken \in Nat /\ accessToken >= Buffer
    BY <2>1 DEF CacheInv
  <2> QED
    BY <1>5, <2>1, <2>2 DEF Tick, Less
<1>6. CASE UNCHANGED vars
  BY <1>6 DEF vars, clientVars, callVars
<1> QED
  BY <1>1, <1>2, <1>3, <1>4, <1>5, <1>6 DEF Next, Proceed, ClientStep

LEMMA HeaderNext == TokenInv /\ [Next]_vars => HeaderInv'
<1> SUFFICES ASSUME TokenInv, [Next]_vars PROVE HeaderInv'
  OBVIOUS
<1> USE DEF TokenInv, TypeOK, HeaderInv, Move, Finish
<1>1. ASSUME NEW c \in Caller,
             \/ (\E what \in Kind : Start(c, what)) \/ Count(c) \/ Number(c)
             \/ Marshal(c) \/ Check(c) \/ FetchRefused(c) \/ FetchFails(c)
             \/ Answered(c) \/ Refused(c)
      PROVE  HeaderInv'
  BY <1>1 DEF Start, Count, Number, Marshal, Check, FetchRefused, FetchFails,
              Answered, Refused
<1>2. ASSUME NEW c \in Caller, NEW t \in Nat, t >= 2 * MaxAttempts, StartCall(c, t)
      PROVE  HeaderInv'
  BY <1>2 DEF StartCall
<1>3. ASSUME NEW c \in Caller, ReadToken(c) PROVE HeaderInv'
  BY <1>2, <1>3 DEF ReadToken, ReadInv
<1>4. ASSUME NEW c \in Caller, Lock(c) PROVE HeaderInv'
  <2>1. CASE Fresh /\ StartCall(c, accessToken)
    BY <1>2, <2>1 DEF Fresh, CacheInv
  <2>2. CASE ~Fresh
    BY <1>4, <2>2 DEF Lock
  <2> QED
    BY <1>4, <2>1, <2>2 DEF Lock
<1>5. ASSUME NEW c \in Caller, NEW g \in Grant, FetchAnswered(c, g) PROVE HeaderInv'
  BY <1>2, <1>5 DEF FetchAnswered
<1>6. ASSUME NEW c \in Caller, Again(c) PROVE HeaderInv'
  BY <1>6 DEF Again, Resume
<1>7. ASSUME NEW c \in Caller, CallFails(c) PROVE HeaderInv'
  BY <1>7 DEF CallFails
<1>8. CASE Tick
  <2>1. pc' = pc /\ tries' = tries
    BY <1>8 DEF Tick
  <2>2. ASSUME NEW c \in Caller, pc[c] \in {"call", "pause"}
        PROVE  /\ spent[c] = 0 /\ spent'[c] = 1
               /\ token'[c] \in Nat /\ token'[c] >= token[c] - 1
    BY <1>8, <2>2 DEF Tick, Timed, Less
  <2> QED
    BY <2>1, <2>2
<1>9. CASE UNCHANGED vars
  BY <1>9 DEF vars, clientVars, callVars
<1> QED
  BY <1>1, <1>3, <1>4, <1>5, <1>6, <1>7, <1>8, <1>9
  DEF Next, Proceed, ClientStep, Fetching, Calling

LEMMA FetchNext == TokenInv /\ [Next]_vars => FetchInv'
<1> SUFFICES ASSUME TokenInv, [Next]_vars PROVE FetchInv'
  OBVIOUS
<1> USE DEF TokenInv, TypeOK, FetchInv, Move, Finish, StartCall
<1>1. ASSUME NEW c \in Caller,
             (\E what \in Kind : Start(c, what)) \/ Count(c) \/ Number(c) \/ Marshal(c)
      PROVE  FetchInv'
  BY <1>1 DEF Start, Count, Number, Marshal
<1>2. ASSUME NEW c \in Caller, Check(c) \/ ReadToken(c) \/ Again(c) \/ Calling(c) \/ Lock(c)
      PROVE  FetchInv'
  BY <1>2 DEF Check, ReadToken, Again, Resume, Calling, Answered, Refused,
              CallFails, Lock
<1>3. ASSUME NEW c \in Caller, Fetching(c) PROVE FetchInv'
  BY <1>3 DEF Fetching, FetchAnswered, FetchRefused, FetchFails
<1>4. CASE UNCHANGED <<pc, tries>>
  BY <1>4
<1> QED
  BY <1>1, <1>2, <1>3, <1>4
  DEF Next, Proceed, ClientStep, Tick, vars, clientVars, callVars

LEMMA TokenInit == Init => TokenInv
<1> SUFFICES ASSUME Init PROVE TokenInv
  OBVIOUS
<1>1. msgSeq \in 0 .. 255
  BY DEF Init
<1>2. mixed \in BOOLEAN
  BY Zenon DEF Init
<1>3. sent \in 0 .. MaxSend
  BY DEF Init
<1>4. /\ spent \in [Caller -> 0 .. 1] /\ tries \in [Caller -> 0 .. MaxAttempts]
      /\ token \in [Caller -> Nat]
  BY DEF Init, ClientInit
<1>5. TypeOK
  BY <1>1, <1>2, <1>3, <1>4 DEF Init, ClientInit, TypeOK, Kind
<1> QED
  BY <1>5 DEF Init, ClientInit, TokenInv, LockInv, CacheInv, ReadInv, HeaderInv,
              FetchInv, Fetch

LEMMA TokenAlways == Spec => []TokenInv
<1>1. TokenInv /\ [Next]_vars => TokenInv'
  BY TypeNext, CacheNext, LockNext, ReadNext, HeaderNext, FetchNext DEF TokenInv
<1> QED
  BY <1>1, TokenInit, PTL DEF Spec

-----------------------------------------------------------------------------

(* The client and the counter keep their types.                            *)
THEOREM TypeCorrect == Spec => []TypeOK
<1>1. TokenInv => TypeOK
  BY DEF TokenInv
<1> QED
  BY TokenAlways, <1>1, PTL

(* Whatever the lifetimes of the tokens and however many attempts, as long  *)
(* as the cache gives a token up more than two ticks per attempt before it  *)
(* expires, no attempt carries an expired token.                            *)
THEOREM NoExpiredToken == Spec => []NeverSendsExpired
<1>1. TokenInv => NeverSendsExpired
  <2> SUFFICES ASSUME TokenInv, NEW c \in Caller, pc[c] = "call"
               PROVE  token[c] > 0
    BY DEF NeverSendsExpired
  <2> QED
    BY DEF TokenInv, HeaderInv, TypeOK
<1> QED
  BY TokenAlways, <1>1, PTL

(* A call that reports success was carried out, and the loop of do() ends   *)
(* with the first answer it understands.                                    *)
THEOREM AnswersTrue == Spec => []AnswerIsTrue
<1>1. Init => AnswerIsTrue
  BY DEF Init, ClientInit, AnswerIsTrue
<1>2. TypeOK /\ AnswerIsTrue /\ [Next]_vars => AnswerIsTrue'
  <2> SUFFICES ASSUME TypeOK, AnswerIsTrue, [Next]_vars PROVE AnswerIsTrue'
    OBVIOUS
  <2> USE DEF TypeOK, AnswerIsTrue, Move, Finish, StartCall, Learn
  <2>1. ASSUME NEW c \in Caller,
               \/ (\E what \in Kind : Start(c, what)) \/ Count(c) \/ Number(c)
               \/ Marshal(c) \/ Check(c) \/ ReadToken(c) \/ Lock(c)
        PROVE  AnswerIsTrue'
    BY <2>1 DEF Start, Idle, Count, Number, Marshal, Check, ReadToken, Lock
  <2>2. ASSUME NEW c \in Caller, Fetching(c) \/ Again(c) PROVE AnswerIsTrue'
    BY <2>2 DEF Fetching, FetchAnswered, FetchRefused, FetchFails, Again, Resume
  <2>3. ASSUME NEW c \in Caller, Calling(c) PROVE AnswerIsTrue'
    BY <2>3 DEF Calling, Answered, Refused, CallFails
  <2>4. CASE UNCHANGED <<pc, result, fate>>
    BY <2>4
  <2> QED
    BY <2>1, <2>2, <2>3, <2>4
    DEF Next, Proceed, ClientStep, Tick, vars, clientVars, callVars
<1> QED
  BY <1>1, <1>2, TypeCorrect, PTL DEF Spec

-----------------------------------------------------------------------------

LEMMA NumberNext == TypeOK /\ NumberInv /\ [Next]_vars => NumberInv'
<1> SUFFICES ASSUME TypeOK, NumberInv, [Next]_vars PROVE NumberInv'
  OBVIOUS
<1> USE DEF TypeOK, NumberInv, Move, Finish, StartCall
<1>1. ASSUME NEW c \in Caller, NEW what \in Kind, Start(c, what)
      PROVE  NumberInv'
  BY <1>1 DEF Start, Idle
<1>2. ASSUME NEW c \in Caller, Count(c) PROVE NumberInv'
  <2>1. CASE msgSeq # Limit
    <3>1. /\ msgSeq' = (msgSeq + 1) % 256 /\ refLock' = c /\ refLock = NULL
          /\ pc' = [pc EXCEPT ![c] = "number"]
          /\ UNCHANGED <<kind, numbers, mixed>>
      BY <1>2, <2>1 DEF Count
    <3>2. ASSUME ~mixed
          PROVE  /\ msgSeq' = msgSeq + 1 /\ msgSeq' \in 2 .. Limit
                 /\ \A n \in DOMAIN numbers :
                      numbers[n] = 1 /\ n \in 1 .. msgSeq' - 2
      <4>1. msgSeq \in 1 .. Limit - 1 /\ Limit <= 255
        BY <2>1, <3>2
      <4>2. (msgSeq + 1) % 256 = msgSeq + 1
        <5>1. msgSeq \in 0 .. 254
          BY <4>1
        <5> QED
          BY <5>1, Narrow
      <4> QED
        BY <3>1, <3>2, <4>1, <4>2
    <3>3. c # NULL
      OBVIOUS
    <3> QED
      BY <3>1, <3>2, <3>3
  <2>2. CASE msgSeq = Limit
    BY <1>2, <2>2 DEF Count
  <2> QED
    BY <2>1, <2>2
<1>3. ASSUME NEW c \in Caller, Number(c) PROVE NumberInv'
  <2>1. /\ refLock = c /\ refLock' = NULL /\ pc' = [pc EXCEPT ![c] = "marshal"]
        /\ UNCHANGED <<msgSeq, kind, mixed>>
    BY <1>3 DEF Number
  <2>2. ASSUME ~mixed
        PROVE  /\ msgSeq' \in 1 .. Limit
               /\ \A n \in DOMAIN numbers' :
                    numbers'[n] = 1 /\ n \in 1 .. msgSeq' - 1
    <3>1. /\ msgSeq \in 1 .. Limit /\ Limit <= 255
          /\ \A n \in DOMAIN numbers : numbers[n] = 1 /\ n \in 1 .. msgSeq - 2
      BY <2>1, <2>2
    <3>2. (msgSeq + 255) % 256 = msgSeq - 1 /\ msgSeq >= 2
      <4>1. msgSeq >= 2
        BY <2>1, <2>2
      <4>2. msgSeq - 1 \in 0 .. 254 /\ msgSeq - 1 + 1 + 255 = msgSeq + 255
        BY <3>1, <4>1
      <4>3. (msgSeq - 1 + 1 + 255) % 256 = msgSeq - 1
        BY <4>2, Narrow
      <4> QED
        BY <4>1, <4>2, <4>3
    <3>3. CASE kind[c] = "reply"
      <4>1. msgSeq - 1 \notin DOMAIN numbers
        BY <3>1
      <4> QED
        BY <1>3, <2>1, <3>1, <3>2, <3>3, <4>1 DEF Number, BagAdd
    <3>4. CASE kind[c] # "reply"
      BY <1>3, <2>1, <3>1, <3>4 DEF Number
    <3> QED
      BY <3>3, <3>4
  <2> QED
    BY <2>1, <2>2
<1>4. ASSUME NEW c \in Caller, Marshal(c) PROVE NumberInv'
  BY <1>4 DEF Marshal
<1>5. ASSUME NEW c \in Caller, ClientStep(c), UNCHANGED countVars PROVE NumberInv'
  <2>1. \A d \in Caller : pc[d] = "number" <=> pc'[d] = "number"
    BY <1>5 DEF ClientStep, Check, ReadToken, Lock, Fetching, FetchAnswered,
                FetchRefused, FetchFails, Again, Resume, Calling, Answered,
                Refused, CallFails
  <2> QED
    BY <1>5, <2>1 DEF countVars
<1>6. CASE UNCHANGED <<pc, countVars>>
  BY <1>6 DEF countVars
<1> QED
  BY <1>1, <1>2, <1>3, <1>4, <1>5, <1>6
  DEF Next, Proceed, Tick, vars, clientVars, callVars

(* However many goroutines reply to an event, the counter gives each number *)
(* out once, until an initiative message clears it.                         *)
THEOREM NumbersDiffer == Spec => []ReplyNumbersDiffer
<1>1. Init => NumberInv
  BY DEF Init, ClientInit, NumberInv, SetToBag
<1>2. TypeOK /\ NumberInv => ReplyNumbersDiffer
  BY DEF TypeOK, NumberInv, ReplyNumbersDiffer, BagToSet
<1> QED
  BY <1>1, <1>2, NumberNext, TypeCorrect, PTL DEF Spec

=============================================================================
