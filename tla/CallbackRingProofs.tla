------------------------- MODULE CallbackRingProofs -------------------------
(***************************************************************************)
(* What the callback table keeps for a ring of any size and any number of  *)
(* handlers and starts of the process.                                     *)
(***************************************************************************)
EXTENDS CallbackRing, TLAPS

USE SizeAssumption, ButtonAssumption, RestartAssumption, NullAssumption

(* The slot d places before i on the ring.                                  *)
Before(i, d) == IF d <= i THEN i - d ELSE i - d + Size

(* The newest registrations lie one behind the other, ending before nowIndex. *)
NewestInv ==
  \A k \in DOMAIN order :
    Len(order) - k < Size =>
      LET place == Before(nowIndex, Len(order) - k + 1)
      IN  realId[order[k]] = place /\ slots[place] = order[k]

(* plugins/echo is the first to register, in every process.                *)
EchoInv == realId[Echo] = 0

(* Before startIndex moves for the first time the slots from 0 to nowIndex  *)
(* are filled, and in the first process no id lies beyond them; afterwards  *)
(* all are.                                                                 *)
FilledInv ==
  \/ \A i \in Index : slots[i] # NULL
  \/ /\ startIndex = 0 /\ nowIndex > 0
     /\ \A i \in 0 .. nowIndex - 1 : slots[i] # NULL
     /\ restarts = 0 =>
          \A b \in Button : realId[b] # NULL => realId[b] < nowIndex

(* Only what has been shown is clicked.                                     *)
WaitingInv == \A b \in waiting \ Plain : b \in Button /\ realId[b] # NULL

RingInv == TypeOK /\ NewestInv /\ EchoInv /\ FilledInv /\ WaitingInv

-----------------------------------------------------------------------------

(* Arithmetic of the ring.                                                 *)
LEMMA FollowingType == \A i \in Index : Following(i) \in Index
BY DEF Index, Following

LEMMA BeforeType ==
  ASSUME NEW i \in Index, NEW d \in 1 .. Size PROVE Before(i, d) \in Index
BY DEF Index, Before

LEMMA BeforeFollowing ==
  ASSUME NEW i \in Index, NEW d \in 1 .. Size - 1
  PROVE  /\ Before(Following(i), d + 1) = Before(i, d)
         /\ Before(i, d) # i
         /\ Before(Following(i), 1) = i
BY DEF Index, Before, Following

LEMMA ModIndex ==
  ASSUME NEW n \in Nat
  PROVE  n % Size \in Index /\ (n < Size => n % Size = n)
BY DEF Index

LEMMA RealIndexType ==
  ASSUME TypeOK, NEW id \in Index
  PROVE  RealIndex(id) \in Index /\ (startIndex = 0 => RealIndex(id) = id)
<1>1. id - InternalNumber(slots[startIndex]) + startIndex = id + startIndex
      /\ id + startIndex \in Nat /\ id < Size
  BY DEF TypeOK, InternalNumber, Index
<1>2. RealIndex(id) = (id + startIndex) % Size
  BY <1>1 DEF RealIndex
<1>3. (id + startIndex) % Size \in Index
  BY <1>1, ModIndex
<1>4. startIndex = 0 => id + startIndex = id /\ id % Size = id
  BY <1>1, ModIndex DEF Index
<1> QED
  BY <1>2, <1>3, <1>4

-----------------------------------------------------------------------------

LEMMA TypeNext == TypeOK /\ WaitingInv /\ [Next]_vars => TypeOK'
<1> SUFFICES ASSUME TypeOK, WaitingInv, [Next]_vars PROVE TypeOK'
  OBVIOUS
<1> USE FollowingType DEF TypeOK
<1>1. ASSUME NEW b \in Button, Register(b) PROVE TypeOK'
  <2>1. order' \in Seq(Button)
    BY <1>1 DEF Register, Put
  <2>2. slots' \in [Index -> Button \cup {NULL}]
    BY <1>1 DEF Register, Put
  <2>3. realId' \in [Button -> Index \cup {NULL}]
    BY <1>1 DEF Register, Put
  <2> QED
    BY <1>1, <2>1, <2>2, <2>3 DEF Register, Put
<1>2. ASSUME NEW b \in Button, Invoke(b) PROVE TypeOK'
  <2>1. \/ UNCHANGED ran
        \/ /\ ran' = <<b, slots[RealIndex(realId[b])]>>
           /\ slots[RealIndex(realId[b])] # NULL
    BY <1>2, Zenon DEF Invoke
  <2>2. realId[b] \in Index
    BY <1>2 DEF Invoke, WaitingInv
  <2>3. slots[RealIndex(realId[b])] \in Button \cup {NULL}
    BY <2>2, RealIndexType
  <2>4. ran' \in (Button \X Button) \cup {NULL}
    BY <2>1, <2>3
  <2>5. alive' \in BOOLEAN
    BY <1>2, Zenon DEF Invoke
  <2>6. waiting' \subseteq Button \cup Plain
    BY <1>2 DEF Invoke
  <2>7. UNCHANGED <<slots, startIndex, nowIndex, held, realId, order, restarts>>
    BY <1>2 DEF Invoke
  <2> QED
    BY <2>4, <2>5, <2>6, <2>7
<1>3. ASSUME NEW b \in Button \cup Plain, Click(b) PROVE TypeOK'
  BY <1>3 DEF Click
<1>4. ASSUME NEW b \in Plain, InvokeMalformed(b) PROVE TypeOK'
  BY <1>4 DEF InvokeMalformed
<1>5. CASE Restart
  <2>1. <<Echo>> \in Seq(Button)
    BY ButtonAssumption
  <2>2. 0 \in Index /\ 1 \in Index
    BY DEF Index
  <2>3. slots' \in [Index -> Button \cup {NULL}]
    BY <1>5 DEF Restart
  <2>4. waiting' = {} /\ order' = <<Echo>> /\ restarts' \in 0 .. MaxRestart
    BY <1>5 DEF Restart
  <2> QED
    BY <1>5, <2>1, <2>2, <2>3, <2>4 DEF Restart
<1>6. CASE UNCHANGED vars
  BY <1>6 DEF vars
<1> QED
  BY <1>1, <1>2, <1>3, <1>4, <1>5, <1>6 DEF Next

LEMMA WaitingNext ==
  TypeOK /\ WaitingInv /\ [Next]_vars => WaitingInv'
<1> SUFFICES ASSUME TypeOK, WaitingInv, [Next]_vars PROVE WaitingInv'
  OBVIOUS
<1> USE DEF TypeOK, WaitingInv
<1>1. ASSUME NEW b \in Button, Register(b) PROVE WaitingInv'
  BY <1>1 DEF Register, Put, Index
<1>2. ASSUME NEW b \in Button, Invoke(b) PROVE WaitingInv'
  BY <1>2 DEF Invoke
<1>3. ASSUME NEW b \in Button \cup Plain, Click(b) PROVE WaitingInv'
  BY <1>3 DEF Click
<1>4. ASSUME NEW b \in Plain, InvokeMalformed(b) PROVE WaitingInv'
  BY <1>4 DEF InvokeMalformed
<1>5. CASE Restart
  BY <1>5 DEF Restart
<1>6. CASE UNCHANGED vars
  BY <1>6 DEF vars
<1> QED
  BY <1>1, <1>2, <1>3, <1>4, <1>5, <1>6 DEF Next

(* A registration puts the new button right before the cursor and moves the *)
(* others one place back, except for the one Size places before.            *)
LEMMA NewestNext ==
  TypeOK /\ EchoInv /\ NewestInv /\ [Next]_vars => NewestInv' /\ EchoInv'
<1> SUFFICES ASSUME TypeOK, EchoInv, NewestInv, [Next]_vars
             PROVE  NewestInv' /\ EchoInv'
  OBVIOUS
<1> DEFINE n == Len(order)
<1>1. ASSUME NEW b \in Button, Register(b) PROVE NewestInv' /\ EchoInv'
  <2>1. /\ nowIndex' = Following(nowIndex)
        /\ slots' = [slots EXCEPT ![nowIndex] = b]
        /\ realId' = [realId EXCEPT ![b] = nowIndex]
        /\ order' = Append(order, b)
        /\ realId[b] = NULL
    BY <1>1 DEF Register, Put
  <2>2. /\ n \in Nat /\ Len(order') = n + 1 /\ order'[n + 1] = b
        /\ \A k \in 1 .. n : order'[k] = order[k] /\ order[k] \in Button
        /\ DOMAIN order = 1 .. n /\ DOMAIN order' = 1 .. n + 1
    BY <2>1 DEF TypeOK
  <2>3. nowIndex \in Index /\ slots \in [Index -> Button \cup {NULL}]
        /\ realId \in [Button -> Index \cup {NULL}]
    BY DEF TypeOK
  <2>4. ASSUME NEW k \in DOMAIN order', Len(order') - k < Size
        PROVE  /\ realId'[order'[k]] = Before(nowIndex', Len(order') - k + 1)
               /\ slots'[Before(nowIndex', Len(order') - k + 1)] = order'[k]
    <3>1. CASE k = n + 1
      <4>1. Len(order') - k + 1 = 1 /\ 1 \in 1 .. Size - 1
        BY <3>1, <2>2, SizeAssumption
      <4>2. Before(nowIndex', 1) = nowIndex
        BY <4>1, <2>1, <2>3, BeforeFollowing
      <4> QED
        BY <4>1, <4>2, <3>1, <2>1, <2>2, <2>3
    <3>2. CASE k # n + 1
      <4> DEFINE d == n - k + 1
      <4>1. k \in 1 .. n /\ n - k < Size /\ d \in 1 .. Size - 1
            /\ Len(order') - k + 1 = d + 1
        BY <3>2, <2>2, <2>4, SizeAssumption
      <4>2. /\ Before(nowIndex', d + 1) = Before(nowIndex, d)
            /\ Before(nowIndex, d) # nowIndex
        BY <4>1, <2>1, <2>3, BeforeFollowing
      <4>3. Before(nowIndex, d) \in Index
        BY <4>1, <2>3, BeforeType, SizeAssumption
      <4>4. /\ realId[order[k]] = Before(nowIndex, d)
            /\ slots[Before(nowIndex, d)] = order[k]
        BY <4>1, <2>2 DEF NewestInv
      <4>5. order[k] # b
        BY <4>3, <4>4, <2>1 DEF Index
      <4> HIDE DEF d
      <4> QED
        BY <4>1, <4>2, <4>3, <4>4, <4>5, <2>1, <2>2, <2>3
    <3> QED
      BY <3>1, <3>2
  <2>5. NewestInv'
    BY <2>4 DEF NewestInv
  <2>6. EchoInv'
    BY <2>1, <2>3 DEF EchoInv
  <2> QED
    BY <2>5, <2>6
<1>2. CASE Restart
  <2>1. /\ order' = <<Echo>> /\ nowIndex' = 1 /\ realId'[Echo] = 0
        /\ slots' = [i \in Index |-> IF i = 0 THEN Echo ELSE NULL]
    BY <1>2 DEF Restart, EchoInv
  <2>2. 0 \in Index /\ Before(1, 1) = 0
    BY DEF Index, Before
  <2>3. EchoInv'
    BY <2>1 DEF EchoInv
  <2>4. ASSUME NEW k \in DOMAIN order' PROVE k = 1 /\ Len(order') - k + 1 = 1
    BY <2>1
  <2> QED
    BY <2>1, <2>2, <2>3, <2>4 DEF NewestInv
<1>3. CASE UNCHANGED <<slots, nowIndex, realId, order>>
  BY <1>3 DEF NewestInv, EchoInv, Before
<1>4. \/ \E b \in Button : Register(b)
      \/ Restart
      \/ UNCHANGED <<slots, nowIndex, realId, order>>
  BY DEF Next, Click, Invoke, InvokeMalformed, vars
<1> QED
  BY <1>1, <1>2, <1>3, <1>4

LEMMA FilledNext ==
  TypeOK /\ EchoInv /\ FilledInv /\ [Next]_vars => FilledInv'
<1> SUFFICES ASSUME TypeOK, EchoInv, FilledInv, [Next]_vars PROVE FilledInv'
  OBVIOUS
<1>1. ASSUME NEW b \in Button, Register(b) PROVE FilledInv'
  <2>1. /\ nowIndex \in Index /\ slots \in [Index -> Button \cup {NULL}]
        /\ realId \in [Button -> Index \cup {NULL}]
        /\ nowIndex' = Following(nowIndex)
        /\ slots' = [slots EXCEPT ![nowIndex] = b]
        /\ realId' = [realId EXCEPT ![b] = nowIndex]
        /\ restarts' = restarts
    BY <1>1 DEF Register, Put, TypeOK
  <2>2. CASE \A i \in Index : slots[i] # NULL
    BY <2>1, <2>2 DEF FilledInv
  <2>3. CASE /\ startIndex = 0 /\ nowIndex > 0
             /\ \A i \in 0 .. nowIndex - 1 : slots[i] # NULL
             /\ restarts = 0 =>
                  \A c \in Button : realId[c] # NULL => realId[c] < nowIndex
    <3>1. \A i \in 0 .. nowIndex : slots'[i] # NULL
      BY <2>1, <2>3 DEF Index
    <3>2. CASE nowIndex = Size - 1
      BY <3>1, <3>2 DEF Index, FilledInv
    <3>3. CASE nowIndex # Size - 1
      <4>1. nowIndex' = nowIndex + 1 /\ nowIndex' # 0 /\ startIndex' = 0
        BY <1>1, <2>1, <2>3, <3>3 DEF Following, Register, Put, Index
      <4>2. restarts' = 0 =>
              \A c \in Button : realId'[c] # NULL => realId'[c] < nowIndex'
        BY <2>1, <2>3, <4>1 DEF Index
      <4>3. \A i \in 0 .. nowIndex' - 1 : slots'[i] # NULL
        BY <3>1, <4>1, <2>1 DEF Index
      <4>4. nowIndex' > 0
        BY <4>1, <2>3, <2>1 DEF Index
      <4> QED
        BY <4>1, <4>2, <4>3, <4>4 DEF FilledInv
    <3> QED
      BY <3>2, <3>3
  <2> QED
    BY <2>2, <2>3 DEF FilledInv
<1>2. CASE Restart
  <2>1. restarts' # 0
    BY <1>2, RestartAssumption DEF Restart, TypeOK
  <2>2. \A i \in 0 .. 0 : slots'[i] # NULL
    BY <1>2 DEF Restart, Index
  <2> QED
    BY <1>2, <2>1, <2>2 DEF Restart, FilledInv
<1>3. CASE UNCHANGED <<slots, startIndex, nowIndex, realId, restarts>>
  BY <1>3 DEF FilledInv
<1>4. \/ \E b \in Button : Register(b)
      \/ Restart
      \/ UNCHANGED <<slots, startIndex, nowIndex, realId, restarts>>
  BY DEF Next, Click, Invoke, InvokeMalformed, vars
<1> QED
  BY <1>1, <1>2, <1>3, <1>4

(* A click on a message of this process reads filled slots only.           *)
LEMMA AliveNext ==
  TypeOK /\ FilledInv /\ WaitingInv /\ NeverPanicsBeforeRestart /\ [Next]_vars
    => NeverPanicsBeforeRestart'
<1> SUFFICES ASSUME TypeOK, FilledInv, WaitingInv, NeverPanicsBeforeRestart,
                    [Next]_vars
             PROVE  NeverPanicsBeforeRestart'
  OBVIOUS
<1>1. ASSUME NEW b \in Button, Invoke(b), restarts = 0 PROVE alive'
  <2>1. realId[b] \in Index /\ startIndex \in Index
    BY <1>1 DEF WaitingInv, Invoke, TypeOK
  <2>2. RealIndex(realId[b]) \in Index
        /\ (startIndex = 0 => RealIndex(realId[b]) = realId[b])
    BY <2>1, RealIndexType
  <2>3. CASE \A i \in Index : slots[i] # NULL
    BY <1>1, <2>1, <2>2, <2>3 DEF Invoke
  <2>4. CASE ~ \A i \in Index : slots[i] # NULL
    <3>1. /\ startIndex = 0 /\ nowIndex > 0 /\ nowIndex \in Index
          /\ \A i \in 0 .. nowIndex - 1 : slots[i] # NULL
          /\ \A c \in Button : realId[c] # NULL => realId[c] < nowIndex
      BY <1>1, <2>4 DEF FilledInv, TypeOK
    <3>2. 0 \in 0 .. nowIndex - 1 /\ realId[b] \in 0 .. nowIndex - 1
      BY <2>1, <3>1 DEF Index
    <3> QED
      BY <1>1, <2>2, <3>1, <3>2 DEF Invoke
  <2> QED
    BY <2>3, <2>4
<1>2. CASE Restart
  BY <1>2 DEF Restart, NeverPanicsBeforeRestart
<1>3. CASE UNCHANGED <<alive, restarts>>
  BY <1>3 DEF NeverPanicsBeforeRestart
<1>4. \/ \E b \in Button : Invoke(b) /\ restarts' = restarts
      \/ Restart
      \/ UNCHANGED <<alive, restarts>>
  BY DEF Next, Register, Click, Invoke, InvokeMalformed, vars
<1> QED
  BY <1>1, <1>2, <1>3, <1>4 DEF NeverPanicsBeforeRestart

LEMMA RingInit == Init => RingInv /\ NeverPanicsBeforeRestart
<1> SUFFICES ASSUME Init PROVE RingInv /\ NeverPanicsBeforeRestart
  OBVIOUS
<1>1. 0 \in Index /\ 1 \in Index /\ Before(1, 1) = 0
  BY DEF Index, Before
<1>2. <<Echo>> \in Seq(Button) /\ Len(<<Echo>>) = 1
  BY ButtonAssumption
<1>3. TypeOK
  <2>1. slots \in [Index -> Button \cup {NULL}]
    BY DEF Init
  <2>2. realId \in [Button -> Index \cup {NULL}]
    BY <1>1 DEF Init
  <2>3. restarts \in 0 .. MaxRestart /\ waiting \subseteq Button \cup Plain
    BY DEF Init
  <2> QED
    BY <1>1, <1>2, <2>1, <2>2, <2>3 DEF Init, TypeOK
<1>4. EchoInv /\ WaitingInv /\ NeverPanicsBeforeRestart
  BY DEF Init, EchoInv, WaitingInv, NeverPanicsBeforeRestart
<1>5. NewestInv
  <2>1. ASSUME NEW k \in DOMAIN order PROVE k = 1 /\ Len(order) - k + 1 = 1
    BY DEF Init
  <2> QED
    BY <1>1, <2>1 DEF Init, NewestInv
<1>6. FilledInv
  <2>1. \A i \in 0 .. nowIndex - 1 : slots[i] # NULL
    BY DEF Init, Index
  <2>2. \A b \in Button : realId[b] # NULL => realId[b] < nowIndex
    BY DEF Init
  <2> QED
    BY <2>1, <2>2 DEF Init, FilledInv
<1> QED
  BY <1>3, <1>4, <1>5, <1>6 DEF RingInv

LEMMA RingNext ==
  RingInv /\ NeverPanicsBeforeRestart /\ [Next]_vars
    => RingInv' /\ NeverPanicsBeforeRestart'
BY TypeNext, WaitingNext, NewestNext, FilledNext, AliveNext DEF RingInv

LEMMA RingAlways == Spec => [](RingInv /\ NeverPanicsBeforeRestart)
<1> QED
  BY RingInit, RingNext, PTL DEF Spec

-----------------------------------------------------------------------------

(* The table of callback.go keeps its types.                               *)
THEOREM TypeCorrect == Spec => []TypeOK
<1>1. RingInv => TypeOK
  BY DEF RingInv
<1> QED
  BY RingAlways, <1>1, PTL

(* Whatever is registered, clicked and started again, each of the newest    *)
(* Size registrations is in the slot that its button's id names.            *)
THEOREM NewestKept == Spec => []KeepsNewest
<1>1. RingInv => KeepsNewest
  <2> SUFFICES ASSUME RingInv, NEW k \in DOMAIN order, Len(order) - k < Size
               PROVE  slots[realId[order[k]]] = order[k]
    BY DEF KeepsNewest
  <2> QED
    BY DEF RingInv, NewestInv
<1> QED
  BY RingAlways, <1>1, PTL

(* Until the first wrap the index InvokeCallback computes is the one that   *)
(* RegisterCallbackFunc has used.                                           *)
THEOREM OwnHandler == Spec => []OwnHandlerBeforeWrap
<1>1. RingInv => OwnHandlerBeforeWrap
  <2> SUFFICES ASSUME RingInv, startIndex = 0,
                      NEW k \in DOMAIN order, Len(order) - k < Size
               PROVE  slots[RealIndex(realId[order[k]])] = order[k]
    BY DEF OwnHandlerBeforeWrap
  <2> DEFINE d == Len(order) - k + 1
  <2>1. realId[order[k]] = Before(nowIndex, d) /\ slots[Before(nowIndex, d)] = order[k]
    BY DEF RingInv, NewestInv
  <2>2. d \in 1 .. Size /\ nowIndex \in Index
    BY DEF RingInv, TypeOK
  <2>3. RealIndex(realId[order[k]]) = realId[order[k]]
    BY <2>1, <2>2, BeforeType, RealIndexType DEF RingInv
  <2> QED
    BY <2>1, <2>3
<1> QED
  BY RingAlways, <1>1, PTL

(* In the first process no click dereferences an empty slot, before the     *)
(* table wraps or after.                                                    *)
THEOREM NeverPanics == Spec => []NeverPanicsBeforeRestart
BY RingAlways, PTL

=============================================================================
