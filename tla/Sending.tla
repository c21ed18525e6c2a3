------------------------------ MODULE Sending ------------------------------
(***************************************************************************)
(* What goes out through the platform client: the messages a plugin sends  *)
(* in answer to one event (Message.Send of lib/message, with the counter   *)
(* that all messages of the event share), and requests of other kinds,     *)
(* which have no number: recalls, mutes, answers to clicks, uploads.       *)
(***************************************************************************)
EXTENDS PlatformClient, Bags, BagsExt

CONSTANTS
  Limit,    \* the counter at which Count refuses, five in the code
  Before,   \* how many replies the event may have had already
  MaxSend   \* bound: messages and requests

ASSUME LimitAssumption  == Limit \in 2 .. 255
ASSUME BeforeAssumption == Before \subseteq 0 .. Limit - 1
ASSUME SendAssumption   == MaxSend \in Nat

VARIABLES
  msgSeq,   \* the counter of the event
  refLock,  \* who holds its lock
  kind,     \* what each goroutine is sending
  sent,     \* how many have been begun
  numbers,  \* the bag of the reply numbers given out             (history)
  mixed     \* an initiative message was sent for the event       (history)

countVars == <<msgSeq, refLock, kind, sent, numbers, mixed>>
vars == <<clientVars, countVars>>

Kind == {"reply", "initiative", "request"}

Idle(c) == pc[c] \in {"idle", "done"}

-----------------------------------------------------------------------------

(* A handler calls Send, or one of the client's other methods. *)
Start(c, what) ==
  /\ Idle(c) /\ sent < MaxSend
  /\ Move(c, IF what = "request" THEN "check" ELSE "count")
  /\ kind' = [kind EXCEPT ![c] = what]
  /\ sent' = sent + 1
  /\ mixed' = (mixed \/ what = "initiative")
  /\ result' = [result EXCEPT ![c] = "none"]
  /\ fate' = [fate EXCEPT ![c] = "open"]
  /\ UNCHANGED <<cacheVars, token, tries, msgSeq, refLock, numbers>>

(* Mutant: the counter is read and written without its lock. *)
CountUnlocked(c) ==
  /\ pc[c] = "count"
  /\ \/ msgSeq = Limit /\ Finish(c, "error") /\ UNCHANGED msgSeq
     \/ /\ msgSeq # Limit
        /\ msgSeq' = (msgSeq + 1) % 256
        /\ Move(c, "number")
        /\ UNCHANGED <<token, tries, result>>
  /\ UNCHANGED <<cacheVars, fate, refLock, kind, sent, numbers, mixed>>

(* Count takes its lock and moves the counter on. *)
Count(c) ==
  /\ pc[c] = "count" /\ refLock = NULL
  /\ \/ msgSeq = Limit /\ Finish(c, "error") /\ UNCHANGED <<msgSeq, refLock>>
     \/ /\ msgSeq # Limit
        /\ msgSeq' = (msgSeq + 1) % 256
        /\ refLock' = c
        /\ Move(c, "number")
        /\ UNCHANGED <<token, tries, result>>
  /\ UNCHANGED <<cacheVars, fate, kind, sent, numbers, mixed>>

(* It reads the counter again for the number it returns. *)
Number(c) ==
  /\ pc[c] = "number"
  /\ refLock' = NULL
  /\ numbers' = IF kind[c] = "reply"
                THEN BagAdd(numbers, (msgSeq + 255) % 256)
                ELSE numbers
  /\ Move(c, "marshal")
  /\ UNCHANGED <<cacheVars, token, tries, result, fate, msgSeq, kind, sent,
                 mixed>>

(* An initiative message clears the counter, without the lock.  What cannot *)
(* be marshalled or has no target is given up, its number with it.          *)
Marshal(c) ==
  /\ pc[c] = "marshal"
  /\ msgSeq' = IF kind[c] = "initiative" THEN 0 ELSE msgSeq
  /\ \/ Move(c, "check") /\ UNCHANGED <<token, tries, result>>
     \/ Finish(c, "error")
  /\ UNCHANGED <<cacheVars, fate, refLock, kind, sent, numbers, mixed>>

-----------------------------------------------------------------------------

Init ==
  /\ ClientInit
  /\ \E n \in Before : msgSeq = n + 1 /\ numbers = SetToBag(1 .. n)
  /\ refLock = NULL
  /\ kind = [c \in Caller |-> "request"]
  /\ sent = 0 /\ mixed = FALSE

Proceed(c) ==
  \/ Count(c) \/ Number(c) \/ Marshal(c)
  \/ ClientStep(c) /\ UNCHANGED countVars

Next ==
  \/ \E c \in Caller : (\E what \in Kind : Start(c, what)) \/ Proceed(c)
  \/ Tick /\ UNCHANGED countVars

Spec == Init /\ [][Next]_vars

(* Every goroutine that can go on does: the scheduler runs it, locks are    *)
(* handed on, and an HTTP request ends, by its timeout if by nothing else.  *)
FairSpec == Spec /\ \A c \in Caller : WF_vars(Proceed(c))

-----------------------------------------------------------------------------
(* Properties                                                              *)

TypeOK ==
  /\ accessToken \in Nat \cup {NULL} /\ expireIn \in Nat
  /\ lock \in Caller \cup {NULL} /\ refLock \in Caller \cup {NULL}
  /\ pc \in [Caller -> {"idle", "count", "number", "marshal", "check", "read",
                        "lock", "fetch", "fetchPause", "call", "pause", "done"}]
  /\ token \in [Caller -> Nat] /\ tries \in [Caller -> 0 .. MaxAttempts]
  /\ result \in [Caller -> {"none", "ok", "error"}]
  /\ spent \in [Caller -> 0 .. 1]
  /\ fate \in [Caller -> {"open", "lost", "known", "repeated"}]
  /\ msgSeq \in 0 .. 255 /\ kind \in [Caller -> Kind]
  /\ sent \in 0 .. MaxSend /\ mixed \in BOOLEAN

(* Replies to one event carry numbers that differ, one to Limit - 1, in     *)
(* whatever order the goroutines count: the platform drops a message whose  *)
(* number it has seen.  An initiative message for the same event ends that. *)
ReplyNumbersDiffer ==
  ~mixed => \A n \in BagToSet(numbers) : /\ n \in 1 .. Limit - 1
                                         /\ numbers[n] = 1

(* Whatever a handler sends comes to an end: no return of the client keeps  *)
(* a lock, no goroutine waits for one that waits for it, and the retries    *)
(* are finite.                                                              *)
EverySendEnds == \A c \in Caller : ~Idle(c) ~> Idle(c)

=============================================================================
