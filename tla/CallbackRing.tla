--------------------------- MODULE CallbackRing ---------------------------
(***************************************************************************)
(* The callback table of lib/buttons/callback.go: a ring of Size slots     *)
(* (CallbackMap) with the two cursors startIndex and nowIndex, guarded by  *)
(* one mutex.  SetCallback registers a handler and hands out the slot      *)
(* number as the button's id; a click comes back from the platform with    *)
(* that id and InvokeCallback looks the handler up.                        *)
(*                                                                         *)
(* The mutex is held for the whole of each operation's table access and no *)
(* operation waits while holding it, so a registration or a look-up is one *)
(* step; `held' is the state of the mutex between steps, TRUE exactly when *)
(* an operation has left without releasing it.                             *)
(***************************************************************************)
EXTENDS Integers, Sequences

CONSTANTS
  Size,         \* MaxCallbackStorage, the number of slots
  Button,       \* the handlers that can be registered; Echo is one of them
  Echo,         \* the handler plugins/echo registers while it is loaded
  Plain,        \* shown buttons without handler: their id is no slot number
  MaxRestart,   \* bound: how often the process is started again
  NULL

ASSUME SizeAssumption    == Size \in Nat \ {0, 1}
ASSUME ButtonAssumption  == Echo \in Button /\ NULL \notin Button
ASSUME PlainAssumption   == Plain \cap Button = {}
ASSUME RestartAssumption == MaxRestart \in Nat
ASSUME NullAssumption    == NULL \notin Nat

VARIABLES
  slots,        \* CallbackMap
  startIndex,
  nowIndex,
  held,         \* the mutex was left locked
  alive,        \* the process has not panicked
  realId,       \* the id each shown button carries, NULL before it is shown
  order,        \* the registrations of this process, oldest first (history)
  waiting,      \* clicks delivered to the process and not yet looked up
  ran,          \* the last <<button clicked, handler run>>     (history)
  restarts

vars == <<slots, startIndex, nowIndex, held, alive, realId, order, waiting,
          ran, restarts>>

Index == 0 .. Size - 1

(* Mutant: slot 0 is used once only. *)
FollowingSkipsZero(i) == IF i + 1 > Size - 1 THEN 1 ELSE i + 1

Following(i) == IF i + 1 > Size - 1 THEN 0 ELSE i + 1

-----------------------------------------------------------------------------

(* RegisterCallbackFunc: fill the slot at nowIndex, advance nowIndex, and   *)
(* push startIndex on when the two meet.                                    *)
Put(b) ==
  /\ slots' = [slots EXCEPT ![nowIndex] = b]
  /\ realId' = [realId EXCEPT ![b] = nowIndex]
  /\ nowIndex' = Following(nowIndex)
  /\ startIndex' = IF nowIndex' = startIndex THEN Following(startIndex)
                                             ELSE startIndex
  /\ order' = Append(order, b)

Register(b) ==
  /\ alive /\ ~held
  /\ realId[b] = NULL
  /\ Put(b)
  /\ UNCHANGED <<held, alive, waiting, ran, restarts>>

(* A member clicks a button; the platform delivers the event.  The message  *)
(* stays in the chat when the process is restarted, and so do its ids.  No  *)
(* message shows the echo handler under its slot number.                    *)
Click(b) ==
  /\ alive
  /\ b \in Plain \cup {c \in Button \ {Echo} : realId[c] # NULL}
  /\ waiting' = waiting \cup {b}
  /\ UNCHANGED <<slots, startIndex, nowIndex, held, alive, realId, order,
                 ran, restarts>>

(* strconv.Atoi of a registered button's own id: none of the ids that the   *)
(* plugins register is a number, the conversion fails and returns zero.     *)
InternalNumber(b) == 0

(* Mutant: the look-up counts from the newest slot. *)
RealIndexFromNow(id) ==
  (id - InternalNumber(slots[startIndex]) + nowIndex) % Size

(* Mutant: the look-up counts slots from one. *)
RealIndexFromOne(id) ==
  (id - InternalNumber(slots[startIndex]) + startIndex + 1) % Size

(* Go's % keeps the sign of the dividend, and the dividend is not negative  *)
(* here; the sum is the index the look-up reads.                            *)
RealIndex(id) ==
  (id - InternalNumber(slots[startIndex]) + startIndex) % Size

(* InvokeCallback with a slot number.  A nil slot is a nil dereference: the *)
(* goroutine of the event has no recover and takes the process down.  The   *)
(* handler itself runs after Unlock; what it registers are steps of their   *)
(* own.                                                                     *)
Invoke(b) ==
  /\ alive /\ ~held
  /\ b \in waiting \ Plain
  /\ waiting' = waiting \ {b}
  /\ IF slots[startIndex] # NULL /\ slots[RealIndex(realId[b])] # NULL
     THEN /\ ran' = <<b, slots[RealIndex(realId[b])]>>
          /\ UNCHANGED alive
     ELSE /\ alive' = FALSE
          /\ UNCHANGED ran
  /\ UNCHANGED <<slots, startIndex, nowIndex, held, realId, order, restarts>>

(* InvokeCallback with an id that is no number: the error return leaves the *)
(* mutex locked.                                                            *)
InvokeMalformed(b) ==
  /\ alive /\ ~held
  /\ b \in waiting \cap Plain
  /\ waiting' = waiting \ {b}
  /\ held' = TRUE
  /\ UNCHANGED <<slots, startIndex, nowIndex, alive, realId, order, ran,
                 restarts>>

(* The process ends (or has panicked) and is started again: an empty table, *)
(* into which plugins/echo registers at once.                               *)
Restart ==
  /\ restarts < MaxRestart
  /\ restarts' = restarts + 1
  /\ slots' = [i \in Index |-> IF i = 0 THEN Echo ELSE NULL]
  /\ startIndex' = 0
  /\ nowIndex' = 1
  /\ order' = <<Echo>>
  /\ held' = FALSE
  /\ alive' = TRUE
  /\ waiting' = {}
  /\ UNCHANGED <<realId, ran>>

-----------------------------------------------------------------------------

Init ==
  /\ slots = [i \in Index |-> IF i = 0 THEN Echo ELSE NULL]
  /\ startIndex = 0
  /\ nowIndex = 1
  /\ held = FALSE
  /\ alive = TRUE
  /\ realId = [b \in Button |-> IF b = Echo THEN 0 ELSE NULL]
  /\ order = <<Echo>>
  /\ waiting = {}
  /\ ran = NULL
  /\ restarts = 0

Next ==
  \/ \E b \in Button : Register(b) \/ Invoke(b)
  \/ \E b \in Button \cup Plain : Click(b)
  \/ \E b \in Plain : InvokeMalformed(b)
  \/ Restart

Spec == Init /\ [][Next]_vars

-----------------------------------------------------------------------------

TypeOK ==
  /\ slots \in [Index -> Button \cup {NULL}]
  /\ startIndex \in Index
  /\ nowIndex \in Index
  /\ held \in BOOLEAN
  /\ alive \in BOOLEAN
  /\ realId \in [Button -> Index \cup {NULL}]
  /\ waiting \subseteq Button \cup Plain
  /\ order \in Seq(Button)
  /\ ran \in (Button \X Button) \cup {NULL}
  /\ restarts \in 0 .. MaxRestart

(* The table forgets the oldest registrations only: each of the last Size   *)
(* buttons registered by this process is still in the slot its id names.    *)
KeepsNewest ==
  \A k \in DOMAIN order :
    Len(order) - k < Size => slots[realId[order[k]]] = order[k]

(* As long as startIndex has not moved, the look-up of each of the newest   *)
(* Size buttons finds that button's own handler: the arithmetic of          *)
(* InvokeCallback then inverts that of RegisterCallbackFunc.                *)
OwnHandlerBeforeWrap ==
  startIndex = 0 =>
    \A k \in DOMAIN order :
      Len(order) - k < Size => slots[RealIndex(realId[order[k]])] = order[k]

(* The claim of the button tests: whichever button is clicked, its own      *)
(* handler runs and never that of another button still in the table.        *)
NoCrosstalk ==
  ran # NULL => ran[1] = ran[2]

(* While the ids in the chat are those of this process, no click makes the  *)
(* look-up dereference an empty slot, wherever the two cursors stand.       *)
NeverPanicsBeforeRestart == restarts = 0 => alive

=============================================================================
