-------------------------- MODULE ApprovalPromise --------------------------
(***************************************************************************)
(* What the SSH approval plugin promises ssh-qqauth and the group, without *)
(* goroutines, maps, timers or connections.  A login request that is       *)
(* admitted is decided once, by a click (approve or deny) or by nobody     *)
(* (void: timed out or invalidated), and the decision is final.  Only a    *)
(* decided request is answered, at most once.  The message that asks the   *)
(* group is shown for admitted requests only and is withdrawn only after   *)
(* the request is decided.                                                 *)
(***************************************************************************)

CONSTANT Req

VARIABLES
  decision,   \* "absent", "open", "approve", "deny" or "void"
  reply,      \* "none", "sent" or "failed"
  notice      \* "none", "shown" or "withdrawn"

vars == <<decision, reply, notice>>

Decided(r) == decision[r] \in {"approve", "deny", "void"}

Init ==
  /\ decision = [r \in Req |-> "absent"]
  /\ reply = [r \in Req |-> "none"]
  /\ notice = [r \in Req |-> "none"]

Admit(r) ==
  /\ decision[r] = "absent"
  /\ decision' = [decision EXCEPT ![r] = "open"]
  /\ UNCHANGED <<reply, notice>>

Decide(r, d) ==
  /\ decision[r] = "open"
  /\ decision' = [decision EXCEPT ![r] = d]
  /\ UNCHANGED <<reply, notice>>

Reply(r, outcome) ==
  /\ decision[r] \in {"approve", "deny"}
  /\ reply[r] = "none"
  /\ reply' = [reply EXCEPT ![r] = outcome]
  /\ UNCHANGED <<decision, notice>>

Show(r) ==
  /\ decision[r] # "absent"
  /\ notice[r] = "none"
  /\ notice' = [notice EXCEPT ![r] = "shown"]
  /\ UNCHANGED <<decision, reply>>

Withdraw(r) ==
  /\ Decided(r)
  /\ notice[r] = "shown"
  /\ notice' = [notice EXCEPT ![r] = "withdrawn"]
  /\ UNCHANGED <<decision, reply>>

Settle(r) == \E d \in {"approve", "deny", "void"} : Decide(r, d)

Respond(r) == \E outcome \in {"sent", "failed"} : Reply(r, outcome)

Next ==
  \E r \in Req : Admit(r) \/ Settle(r) \/ Respond(r) \/ Show(r) \/ Withdraw(r)

Spec == Init /\ [][Next]_vars

(* Every admitted request is decided, every click is answered or fails. *)
FairSpec ==
  Spec /\ \A r \in Req : WF_vars(Settle(r)) /\ WF_vars(Respond(r))

=============================================================================
