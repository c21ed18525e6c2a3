-------------------------- MODULE SshAuthPromise --------------------------
(***************************************************************************)
(* What SshAuth promises: it implements ApprovalPromise, its steps, seen   *)
(* through decision, reply and notice, being steps of ApprovalPromise or   *)
(* changing nothing; until a configuration is applied its counter          *)
(* pendingCounter is exact and the limit MaxPendingRequests is kept; and   *)
(* as long as no identifier is used twice, its maps list what is open, so  *)
(* that clean-ups and restarts overlook no request.                        *)
(***************************************************************************)
EXTENDS SshAuthSafety, FiniteSetTheorems

-----------------------------------------------------------------------------
(* The refinement                                                          *)

USE DEF authVars, sendVars, reqVars, mapVars, linkVars, restVars, linkRest

(* No reply before the winner of a request has come to it, and no message   *)
(* recorded before it is posted.                                            *)
ReplyInv ==
  \A r \in Req :
    /\ status[r] \in {"delivered", "deliveryFailed"} =>
         settle[r] \in {"recall", "done"}
    /\ pc[r] \in {"await", "publish", "recall"} => posted[r] > 0
    /\ msg[r] => posted[r] > 0
    /\ pc[r] = "recall" => msg[r]

-----------------------------------------------------------------------------

replyVars == <<status, settle, pc, posted, msg>>

LEMMA ReplyFrame == ReplyInv /\ UNCHANGED replyVars => ReplyInv'
  BY DEF ReplyInv, replyVars

LEMMA ReplyWin ==
  ASSUME TypeInv, ReplyInv, NEW r \in Req, NEW who, NEW s, Win(r, who, s),
         s \notin {"delivered", "deliveryFailed"},
         UNCHANGED <<posted, msg>>,
         \/ UNCHANGED pc
         \/ pc' = [pc EXCEPT ![r] = "done"]
  PROVE  ReplyInv'
  BY DEF ReplyInv, Win, TypeInv, TypeOK

LEMMA ReplyRequest ==
  ASSUME TypeInv, ReplyInv, NEW r \in Req, Process(r)
  PROVE  ReplyInv'
<1>a. /\ pc \in [Req -> PC] /\ posted \in [Req -> 0 .. MaxAttempts]
      /\ msg \in [Req -> BOOLEAN]
  BY DEF TypeInv, TypeOK
<1> USE <1>a DEF ReplyInv, PC
<1>1. CASE ReadConfig(r) \/ Reserve(r) \/ Unreserve(r)
  BY <1>1 DEF ReadConfig, Reserve, Unreserve
<1>2. CASE Register(r) \/ Attach(r) \/ CheckActive(r)
  BY <1>2 DEF Register, Attach, CheckActive
<1>3. CASE Post(r)
  BY <1>3 DEF Post
<1>4. CASE Refuse(r) \/ SendReturns(r) \/ AnswerLost(r)
  BY <1>4 DEF Refuse, SendReturns, AnswerLost
<1>5. CASE Publish(r)
  BY <1>5 DEF Publish
<1>6. CASE RecallOwn(r)
  BY <1>6 DEF RecallOwn
<1>7. CASE Abort(r)
  <2>1. CASE by[r] = "nobody"
    BY <1>7, <2>1, ReplyWin DEF Abort, Invalidate
  <2>2. CASE by[r] # "nobody"
    BY <1>7, <2>2 DEF Abort, Invalidate
  <2> QED
    BY <2>1, <2>2
<1> QED
  BY <1>1, <1>2, <1>3, <1>4, <1>5, <1>6, <1>7 DEF Process

LEMMA ReplyNext == TypeInv /\ ReplyInv /\ [Next]_vars => ReplyInv'
<1> SUFFICES ASSUME TypeInv, ReplyInv, [Next]_vars PROVE ReplyInv'
  OBVIOUS
<1>a. /\ pc \in [Req -> PC] /\ settle \in [Req -> SettlePC]
      /\ status \in [Req -> Status]
  BY DEF TypeInv, TypeOK
<1>1. ASSUME NEW r \in Req, Process(r) PROVE ReplyInv'
  BY <1>1, ReplyRequest
<1>2. ASSUME NEW r \in Req, Settle(r) PROVE ReplyInv'
  <2>1. CASE Answer(r) \/ AnswerFails(r)
    BY <2>1, <1>a DEF Answer, AnswerFails, ReplyInv
  <2>2. CASE ~Answer(r) /\ ~AnswerFails(r)
    BY <1>2, <2>2, <1>a DEF Settle, StopTimer, Unmap, Detach, Release, Recall,
       ReplyInv
  <2> QED
    BY <2>1, <2>2
<1>3. ASSUME NEW r \in Req, NEW w \in Worker, Arrive(r, w) PROVE ReplyInv'
  BY <1>3, <1>a DEF Arrive, ReplyInv
<1>4. ASSUME NEW r \in Req, Fire(r) \/ OnTimeout(r) PROVE ReplyInv'
  BY <1>4, ReplyWin, ReplyFrame DEF Fire, OnTimeout, replyVars
<1>5. ASSUME NEW r \in Req, NEW k \in Clicker, NEW d \in {"approve", "deny"},
             Press(r, k, d)
      PROVE  ReplyInv'
  BY <1>5, ReplyFrame DEF Press, replyVars
<1>6. ASSUME NEW c \in clicks, Resolve(c) PROVE ReplyInv'
  <2>1. c.req \in Req
    BY DEF TypeInv, TypeOK, Click
  <2> QED
    BY <1>6, <2>1, ReplyWin, ReplyFrame DEF Resolve, replyVars
<1>7. ASSUME NEW t \in Walker, RangeStep(t) PROVE ReplyInv'
  <2>1. ASSUME NEW i \in Id, Visit(t, i) PROVE ReplyInv'
    <3>1. Walked(t)[i] \in Req
      BY <2>1, WalkedType DEF Visit
    <3> QED
      BY <2>1, <3>1, ReplyWin, ReplyFrame DEF Visit, Invalidate, replyVars
  <2>2. CASE ~\E i \in Id : Visit(t, i)
    BY <1>7, <2>2, ReplyFrame DEF RangeStep, Miss, Drop, replyVars
  <2> QED
    BY <2>1, <2>2
<1>8. ASSUME \/ \E w \in Worker : Connector(w)
             \/ RestartStep
             \/ \E c \in Config : ApplyConfig(c)
             \/ UNCHANGED vars
      PROVE  ReplyInv'
  BY <1>8, OthersFrame, ReplyFrame DEF replyVars
<1> QED
  BY <1>1, <1>2, <1>3, <1>4, <1>5, <1>6, <1>7, <1>8 DEF Next

-----------------------------------------------------------------------------
(* The steps of the promise                                                *)

PromiseStep == Promise!Next \/ UNCHANGED <<decision, reply, notice>>

(* The invariant every step is taken under.                                 *)
AllInv == TypeInv /\ AnswerInv /\ AdmitInv /\ ReplyInv

LEMMA DecisionDomain ==
  /\ decision = [q \in Req |-> decision[q]]
  /\ decision' = [q \in Req |-> decision'[q]]
  BY DEF decision

LEMMA NoticeDomain ==
  /\ notice = [q \in Req |-> notice[q]]
  /\ notice' = [q \in Req |-> notice'[q]]
  BY DEF notice

(* Steps that admit, settle, answer, post and recall nothing.               *)
LEMMA PromiseFrame ==
  ASSUME UNCHANGED <<by, status, posted, recalled>>,
         \A q \in Req : Admitted(q)' <=> Admitted(q)
  PROVE  UNCHANGED <<decision, reply, notice>>
  BY DEF decision, reply, notice, Open

LEMMA StepAdmit ==
  ASSUME AllInv, NEW r \in Req, ~Admitted(r), Admitted(r)',
         UNCHANGED <<by, status, posted, recalled>>,
         \A q \in Req \ {r} : Admitted(q)' <=> Admitted(q)
  PROVE  Promise!Next
<1>1. by[r] = "nobody"
  BY DEF Admitted
<1>2. decision' = [decision EXCEPT ![r] = "open"] /\ decision[r] = "absent"
  <2>1. ASSUME NEW q \in Req \ {r} PROVE decision'[q] = decision[q]
    BY DEF decision, Open
  <2>2. decision'[r] = "open" /\ decision[r] = "absent"
    BY <1>1 DEF decision, Open
  <2> QED
    BY <2>1, <2>2, DecisionDomain
<1>3. UNCHANGED <<reply, notice>>
  BY DEF reply, notice
<1> QED
  BY <1>2, <1>3 DEF Promise!Next, Promise!Admit

LEMMA StepDecide ==
  ASSUME AllInv, NEW r \in Req, Open(r), NEW who \in By \ {"nobody"}, NEW s,
         s \notin {"delivered", "deliveryFailed"}, Win(r, who, s),
         UNCHANGED <<posted, recalled>>,
         \A q \in Req : Admitted(q)' <=> Admitted(q)
  PROVE  Promise!Next
<1> DEFINE d == IF who \in {"approve", "deny"} THEN who ELSE "void"
<1>1. /\ by' = [by EXCEPT ![r] = who] /\ by \in [Req -> By]
      /\ status' = [status EXCEPT ![r] = s] /\ status \in [Req -> Status]
  BY DEF Win, AllInv, TypeInv, TypeOK
<1>2. decision' = [decision EXCEPT ![r] = d] /\ decision[r] = "open"
  <2>1. ASSUME NEW q \in Req \ {r} PROVE decision'[q] = decision[q]
    <3>1. by'[q] = by[q]
      BY <1>1
    <3> QED
      BY <3>1 DEF decision, Open
  <2>2. by'[r] = who /\ Admitted(r)
    BY <1>1 DEF Open
  <2>3. decision'[r] = d /\ decision[r] = "open"
    BY <2>2 DEF decision, Open
  <2> QED
    BY <2>1, <2>3, DecisionDomain
<1>3. status[r] \notin {"delivered", "deliveryFailed"}
  BY DEF AllInv, AnswerInv, ReplyInv, Open
<1>4. UNCHANGED <<reply, notice>>
  BY <1>1, <1>3 DEF reply, notice
<1>5. Promise!Decide(r, d) /\ d \in {"approve", "deny", "void"}
  BY <1>2, <1>4 DEF Promise!Decide
<1> QED
  BY <1>5 DEF Promise!Next, Promise!Settle

LEMMA StepReply ==
  ASSUME AllInv, NEW r \in Req, Answer(r) \/ AnswerFails(r),
         \A q \in Req : Admitted(q)' <=> Admitted(q)
  PROVE  Promise!Next
<1>1. by[r] \in {"approve", "deny"}
      /\ status[r] \notin {"delivered", "deliveryFailed"}
  BY DEF Answer, AnswerFails, AllInv, AnswerInv, ReplyInv
<1>2. decision[r] \in {"approve", "deny"} /\ reply[r] = "none"
  BY <1>1 DEF decision, reply, Open, Admitted
<1>3. UNCHANGED <<decision, notice>>
  BY DEF Answer, AnswerFails, decision, notice, Open
<1>4. \E o \in {"sent", "failed"} : reply' = [reply EXCEPT ![r] = o]
  <2>1. CASE Answer(r)
    BY <2>1 DEF Answer, reply, AllInv, TypeInv, TypeOK
  <2>2. CASE AnswerFails(r)
    BY <2>2 DEF AnswerFails, reply, AllInv, TypeInv, TypeOK
  <2> QED
    BY <2>1, <2>2
<1> QED
  BY <1>2, <1>3, <1>4 DEF Promise!Next, Promise!Respond, Promise!Reply

LEMMA StepShow ==
  ASSUME AllInv, NEW r \in Req, Post(r),
         \A q \in Req : Admitted(q)' <=> Admitted(q)
  PROVE  PromiseStep
<1>1. UNCHANGED <<decision, reply>>
  BY DEF Post, decision, reply, Open
<1>2. /\ posted \in [Req -> 0 .. MaxAttempts]
      /\ posted' = [posted EXCEPT ![r] = posted[r] + 1]
      /\ UNCHANGED recalled
  BY DEF Post, AllInv, TypeInv, TypeOK
<1>3. CASE posted[r] = 0 /\ ~recalled[r]
  <2>1. decision[r] # "absent"
    BY DEF Post, decision, Admitted, Open
  <2>2. notice[r] = "none" /\ notice' = [notice EXCEPT ![r] = "shown"]
    <3>1. notice[r] = "none" /\ notice'[r] = "shown"
      BY <1>2, <1>3 DEF notice
    <3>2. ASSUME NEW q \in Req \ {r} PROVE notice'[q] = notice[q]
      BY <1>2 DEF notice
    <3> QED
      BY <3>1, <3>2, NoticeDomain
  <2> QED
    BY <1>1, <2>1, <2>2 DEF PromiseStep, Promise!Next, Promise!Show
<1>4. CASE posted[r] # 0 \/ recalled[r]
  <2>1. UNCHANGED notice
    BY <1>2, <1>4 DEF notice
  <2> QED
    BY <1>1, <2>1 DEF PromiseStep
<1> QED
  BY <1>3, <1>4 DEF AllInv, TypeInv, TypeOK

LEMMA StepWithdraw ==
  ASSUME AllInv, NEW r \in Req, by[r] # "nobody", msg[r],
         recalled' = [recalled EXCEPT ![r] = TRUE],
         UNCHANGED <<by, status, posted>>,
         \A q \in Req : Admitted(q)' <=> Admitted(q)
  PROVE  PromiseStep
<1>1. UNCHANGED <<decision, reply>>
  BY DEF decision, reply, Open
<1>2. posted[r] > 0 /\ recalled \in [Req -> BOOLEAN]
  BY DEF AllInv, ReplyInv, TypeInv, TypeOK
<1>3. CASE recalled[r]
  <2>1. UNCHANGED notice
    BY <1>2, <1>3 DEF notice
  <2> QED
    BY <1>1, <2>1 DEF PromiseStep
<1>4. CASE ~recalled[r]
  <2>1. decision[r] \in {"approve", "deny", "void"}
    BY DEF decision, Open, Admitted
  <2>2. notice[r] = "shown" /\ notice' = [notice EXCEPT ![r] = "withdrawn"]
    BY <1>2, <1>4 DEF notice
  <2> QED
    BY <1>1, <2>1, <2>2
    DEF PromiseStep, Promise!Next, Promise!Withdraw, Promise!Decided
<1> QED
  BY <1>3, <1>4

LEMMA AdmittedSame ==
  ASSUME AllInv, [Next]_vars, NEW q \in Req, ~Register(q)
  PROVE  Admitted(q)' <=> Admitted(q)
  BY AdmittedStays, OnlyRegisterAdmits DEF AllInv

(* Requests neither admitted nor moved: the Admitted are the same.          *)
LEMMA AdmittedStill ==
  ASSUME AllInv, [Next]_vars, UNCHANGED pc
  PROVE  \A q \in Req : Admitted(q)' <=> Admitted(q)
<1>1. ASSUME NEW q \in Req, Register(q) PROVE FALSE
  <2>1. pc'[q] \in {"attach", "unreserve"} /\ pc[q] = "register"
    BY <1>1 DEF Register, AllInv, TypeInv, TypeOK
  <2> QED
    BY <2>1
<1> QED
  BY <1>1, AdmittedSame

LEMMA StepSettle ==
  ASSUME AllInv, NEW r \in Req, by[r] = "nobody", Admitted(r),
         NEW who \in By \ {"nobody"}, NEW s,
         s \notin {"delivered", "deliveryFailed"}, Win(r, who, s),
         UNCHANGED <<posted, recalled>>,
         \A q \in Req : Admitted(q)' <=> Admitted(q)
  PROVE  PromiseStep
  BY StepDecide DEF Open, PromiseStep

LEMMA PromiseRequest ==
  ASSUME AllInv, [Next]_vars, NEW r \in Req, Process(r)
  PROVE  PromiseStep
<1>a. pc \in [Req -> PC]
  BY DEF AllInv, TypeInv, TypeOK
<1>1. CASE Register(r)
  <2>1. \A q \in Req \ {r} : Admitted(q)' <=> Admitted(q)
    BY <1>1, <1>a DEF Register, Admitted
  <2>2. UNCHANGED <<by, status, posted, recalled>>
    BY <1>1 DEF Register
  <2>3. CASE ~Admitted(r) /\ Admitted(r)'
    BY <2>1, <2>2, <2>3, StepAdmit DEF PromiseStep
  <2>4. CASE ~(~Admitted(r) /\ Admitted(r)')
    <3>1. Admitted(r)' <=> Admitted(r)
      BY <2>4, AdmittedStays DEF AllInv
    <3>2. \A q \in Req : Admitted(q)' <=> Admitted(q)
      BY <2>1, <3>1
    <3> QED
      BY <2>2, <3>2, PromiseFrame DEF PromiseStep
  <2> QED
    BY <2>3, <2>4
<1>2. ASSUME ~Register(r) PROVE \A q \in Req : ~Register(q)
  <2>1. pc[r] # "register"
    BY <1>2 DEF Process, ReadConfig, Reserve, Unreserve, Attach, CheckActive,
       Post, Refuse, SendReturns, AnswerLost, Publish, RecallOwn, Abort
  <2>2. \A q \in Req \ {r} : pc'[q] = pc[q]
    BY <1>a, <1>2 DEF Process, ReadConfig, Reserve, Unreserve, Attach,
       CheckActive, Post, Refuse, SendReturns, AnswerLost, Publish, RecallOwn,
       Abort
  <2>3. ASSUME NEW q \in Req, Register(q) PROVE pc'[q] # pc[q]
    BY <2>3, <1>a DEF Register
  <2>4. ~Register(r)
    BY <1>2
  <2> QED
    BY <2>2, <2>3, <2>4
<1>3. CASE ~Register(r)
  <2>1. \A q \in Req : Admitted(q)' <=> Admitted(q)
    BY <1>2, <1>3, AdmittedSame
  <2>2. CASE Post(r)
    BY <2>1, <2>2, StepShow
  <2>3. CASE RecallOwn(r)
    <3>1. by[r] # "nobody" /\ msg[r]
      BY <2>3 DEF RecallOwn, AllInv, AdmitInv, ReplyInv
    <3> QED
      BY <2>1, <2>3, <3>1, StepWithdraw DEF RecallOwn
  <2>4. CASE Abort(r)
    <3>1. Admitted(r)
      BY <2>4 DEF Abort, Admitted
    <3>2. UNCHANGED <<posted, recalled>>
      BY <2>4 DEF Abort
    <3>3. CASE by[r] = "nobody"
      <4>1. Win(r, "invalidate", "invalidated") /\ "invalidate" \in By \ {"nobody"}
        BY <2>4, <3>3 DEF Abort, Invalidate, By
      <4> QED
        BY <2>1, <3>1, <3>2, <3>3, <4>1, StepSettle
    <3>4. CASE by[r] # "nobody"
      BY <2>1, <2>4, <3>4, PromiseFrame DEF Abort, Invalidate, PromiseStep
    <3> QED
      BY <3>3, <3>4
  <2>5. CASE ~Post(r) /\ ~RecallOwn(r) /\ ~Abort(r)
    <3>1. UNCHANGED <<by, status, posted, recalled>>
      BY <1>3, <2>5 DEF Process, ReadConfig, Reserve, Unreserve, Attach,
         CheckActive, Refuse, SendReturns, AnswerLost, Publish
    <3> QED
      BY <2>1, <3>1, PromiseFrame DEF PromiseStep
  <2> QED
    BY <2>2, <2>3, <2>4, <2>5
<1> QED
  BY <1>1, <1>3

LEMMA PromiseSettle ==
  ASSUME AllInv, [Next]_vars, NEW r \in Req, Settle(r)
  PROVE  PromiseStep
<1>1. UNCHANGED pc
  BY DEF Settle, StopTimer, Unmap, Detach, Release, Answer, AnswerFails, Recall
<1>2. \A q \in Req : Admitted(q)' <=> Admitted(q)
  BY <1>1, AdmittedStill
<1>3. CASE Answer(r) \/ AnswerFails(r)
  BY <1>2, <1>3, StepReply DEF PromiseStep
<1>4. CASE Recall(r)
  <2>1. by[r] # "nobody" /\ UNCHANGED <<by, status, posted>>
    BY <1>4 DEF Recall, AllInv, AnswerInv
  <2>2. msg \in [Req -> BOOLEAN] /\ recalled \in [Req -> BOOLEAN]
    BY DEF AllInv, TypeInv, TypeOK
  <2>3. CASE msg[r]
    <3>1. recalled' = [recalled EXCEPT ![r] = TRUE]
      BY <1>4, <2>2, <2>3 DEF Recall
    <3> QED
      BY <1>2, <2>1, <2>3, <3>1, StepWithdraw
  <2>4. CASE ~msg[r]
    <3>1. UNCHANGED recalled
      BY <1>4, <2>2, <2>4 DEF Recall
    <3> QED
      BY <1>2, <2>1, <3>1, PromiseFrame DEF PromiseStep
  <2> QED
    BY <2>3, <2>4
<1>5. CASE ~Answer(r) /\ ~AnswerFails(r) /\ ~Recall(r)
  <2>1. UNCHANGED <<by, status, posted, recalled>>
    BY <1>5 DEF Settle, StopTimer, Unmap, Detach, Release
  <2> QED
    BY <1>2, <2>1, PromiseFrame DEF PromiseStep
<1> QED
  BY <1>3, <1>4, <1>5

LEMMA PromiseRace ==
  ASSUME AllInv, [Next]_vars, NEW r \in Req,
         \/ \E w \in Worker : Arrive(r, w)
         \/ Fire(r)
         \/ OnTimeout(r)
         \/ \E k \in Clicker, d \in {"approve", "deny"} : Press(r, k, d)
  PROVE  PromiseStep
<1>1. ASSUME NEW w \in Worker, Arrive(r, w) PROVE PromiseStep
  <2>1. ASSUME NEW q \in Req, Register(q) PROVE FALSE
    <3>1. pc'[q] \in {"attach", "unreserve"} /\ pc[q] = "register"
      BY <2>1 DEF Register, AllInv, TypeInv, TypeOK
    <3>2. pc[r] = "idle" /\ pc' = [pc EXCEPT ![r] = "config"]
      BY <1>1 DEF Arrive
    <3> QED
      BY <3>1, <3>2 DEF AllInv, TypeInv, TypeOK
  <2>2. \A q \in Req : Admitted(q)' <=> Admitted(q)
    BY <2>1, AdmittedSame
  <2> QED
    BY <1>1, <2>2, PromiseFrame DEF Arrive, PromiseStep
<1>2. CASE Fire(r) \/ \E k \in Clicker, d \in {"approve", "deny"} : Press(r, k, d)
  <2>1. UNCHANGED pc
    BY <1>2 DEF Fire, Press
  <2>2. \A q \in Req : Admitted(q)' <=> Admitted(q)
    BY <2>1, AdmittedStill
  <2> QED
    BY <1>2, <2>2, PromiseFrame DEF Fire, Press, PromiseStep
<1>3. CASE OnTimeout(r)
  <2>1. UNCHANGED <<pc, posted, recalled>>
    BY <1>3 DEF OnTimeout
  <2>2. \A q \in Req : Admitted(q)' <=> Admitted(q)
    BY <2>1, AdmittedStill
  <2>3. CASE by[r] = "nobody"
    <3>1. Win(r, "timeout", "timedOut") /\ "timeout" \in By \ {"nobody"}
      BY <1>3, <2>3 DEF OnTimeout, By
    <3>2. Admitted(r)
      BY <1>3 DEF OnTimeout, Admitted
    <3> QED
      BY <2>1, <2>2, <2>3, <3>1, <3>2, StepSettle
  <2>4. CASE by[r] # "nobody"
    BY <1>3, <2>1, <2>2, <2>4, PromiseFrame DEF OnTimeout, PromiseStep
  <2> QED
    BY <2>3, <2>4
<1> QED
  BY <1>1, <1>2, <1>3

LEMMA PromiseResolve ==
  ASSUME AllInv, [Next]_vars, NEW c \in clicks, Resolve(c)
  PROVE  PromiseStep
<1>1. c.req \in Req /\ c.decision \in By \ {"nobody"}
  BY DEF AllInv, TypeInv, TypeOK, Click, By
<1>2. Admitted(c.req)
  BY DEF AllInv, AdmitInv
<1>3. UNCHANGED <<pc, posted, recalled>>
  BY DEF Resolve
<1>4. \A q \in Req : Admitted(q)' <=> Admitted(q)
  BY <1>3, AdmittedStill
<1>5. CASE by[c.req] = "nobody"
  <2>1. Win(c.req, c.decision, "pending")
    BY <1>5 DEF Resolve
  <2> QED
    BY <1>1, <1>2, <1>3, <1>4, <1>5, <2>1, StepSettle
<1>6. CASE by[c.req] # "nobody"
  BY <1>3, <1>4, <1>6, PromiseFrame DEF Resolve, PromiseStep
<1> QED
  BY <1>5, <1>6

LEMMA PromiseRange ==
  ASSUME AllInv, [Next]_vars, NEW t \in Walker, RangeStep(t)
  PROVE  PromiseStep
<1>1. UNCHANGED <<pc, posted, recalled>>
  BY DEF RangeStep, Visit, Miss, Drop
<1>2. \A q \in Req : Admitted(q)' <=> Admitted(q)
  BY <1>1, AdmittedStill
<1>3. ASSUME NEW i \in Id, Visit(t, i) PROVE PromiseStep
  <2> DEFINE r == Walked(t)[i]
  <2>1. r \in Req /\ Admitted(r)
    BY <1>3, WalkedAdmitted DEF AllInv
  <2>2. Invalidate(r)
    BY <1>3 DEF Visit
  <2>3. CASE by[r] = "nobody"
    <3>1. Win(r, "invalidate", "invalidated") /\ "invalidate" \in By \ {"nobody"}
      BY <2>2, <2>3 DEF Invalidate, By
    <3> HIDE DEF r
    <3> QED
      BY <1>1, <1>2, <2>1, <2>3, <3>1, StepSettle
  <2>4. CASE by[r] # "nobody"
    BY <1>1, <1>2, <2>2, <2>4, PromiseFrame DEF Invalidate, PromiseStep
  <2> QED
    BY <2>3, <2>4
<1>4. CASE ~\E i \in Id : Visit(t, i)
  BY <1>1, <1>2, <1>4, PromiseFrame DEF RangeStep, Miss, Drop, PromiseStep
<1> QED
  BY <1>3, <1>4

LEMMA PromiseNext == AllInv /\ [Next]_vars => PromiseStep
<1> SUFFICES ASSUME AllInv, [Next]_vars PROVE PromiseStep
  OBVIOUS
<1>1. ASSUME NEW r \in Req, Process(r) PROVE PromiseStep
  BY <1>1, PromiseRequest
<1>2. ASSUME NEW r \in Req, Settle(r) PROVE PromiseStep
  BY <1>2, PromiseSettle
<1>3. ASSUME NEW r \in Req,
             \/ \E w \in Worker : Arrive(r, w)
             \/ Fire(r)
             \/ OnTimeout(r)
             \/ \E k \in Clicker, d \in {"approve", "deny"} : Press(r, k, d)
      PROVE  PromiseStep
  BY <1>3, PromiseRace
<1>4. ASSUME NEW c \in clicks, Resolve(c) PROVE PromiseStep
  BY <1>4, PromiseResolve
<1>5. ASSUME NEW t \in Walker, RangeStep(t) PROVE PromiseStep
  BY <1>5, PromiseRange
<1>6. ASSUME \/ \E w \in Worker : Connector(w)
             \/ RestartStep
             \/ \E c \in Config : ApplyConfig(c)
             \/ UNCHANGED vars
      PROVE  PromiseStep
  <2>1. UNCHANGED <<authVars, sendVars, reqVars>>
    BY <1>6, OthersFrame
  <2>2. \A q \in Req : Admitted(q)' <=> Admitted(q)
    BY <2>1, AdmittedStill
  <2> QED
    BY <2>1, <2>2, PromiseFrame DEF PromiseStep
<1> QED
  BY <1>1, <1>2, <1>3, <1>4, <1>5, <1>6 DEF Next

LEMMA PromiseInit == Init => Promise!Init
  BY DEF Init, Promise!Init, decision, reply, notice, Open, Admitted

(* The plugin keeps the promise of ApprovalPromise in every run, whatever   *)
(* the number of requests, also when the platform's answers are lost: a     *)
(* decision is final and made by one party, only a click is answered, at    *)
(* most once, and a message is withdrawn only after the decision.           *)
THEOREM Refinement == Spec => KeepsPromise
<1>1. Spec => []TypeInv
  BY TypeInvInit, TypeInvNext, PTL DEF Spec
<1>2. Spec => []AnswerInv
  BY <1>1, AnswerInit, AnswerNext, PTL DEF Spec
<1>3. Spec => []AdmitInv
  BY <1>1, AdmitInit, AdmitNext, PTL DEF Spec
<1>4. Init => ReplyInv
  BY DEF Init, ReplyInv
<1>5. Spec => []ReplyInv
  BY <1>1, <1>4, ReplyNext, PTL DEF Spec
<1>6. AllInv /\ [Next]_vars => [Promise!Next]_(Promise!vars)
  BY PromiseNext DEF PromiseStep, Promise!vars
<1>7. AllInv <=> TypeInv /\ AnswerInv /\ AdmitInv /\ ReplyInv
  BY DEF AllInv
<1> QED
  BY <1>1, <1>2, <1>3, <1>5, <1>6, <1>7, PromiseInit, PTL
  DEF Spec, KeepsPromise, Promise!Spec

-----------------------------------------------------------------------------
(* The counter and the capacity                                            *)

Early == {"idle", "config", "reserve", "unreserve", "register"}

(* The winner of a request has given its place back.                         *)
GivenUp == {"answer", "recall", "done"}

(* A request that has not reached the maps is nobody's.                     *)
EarlyInv == \A r \in Req : pc[r] \in Early => ~Admitted(r)

(* No restart has begun.                                                    *)
CalmInv == applies = 0 => restart = "idle"

CountedSet == {r \in Req : Counted(r)}

(* Those that keep their place.                                             *)
Placed(r) == Counted(r) /\ pc[r] # "unreserve"

PlacedSet == {r \in Req : Placed(r)}

CountInv == applies = 0 => pendingCounter = Cardinality(CountedSet)

PlaceInv == applies = 0 => Cardinality(PlacedSet) <= Max

BaseInv == TypeInv /\ AnswerInv /\ AdmitInv /\ EarlyInv /\ CalmInv

-----------------------------------------------------------------------------

LEMMA EarlyNext ==
  ASSUME TypeInv, AdmitInv, EarlyInv, [Next]_vars
  PROVE  EarlyInv'
<1> SUFFICES ASSUME NEW q \in Req, pc'[q] \in Early PROVE ~Admitted(q)'
  BY DEF EarlyInv
<1>a. pc \in [Req -> PC]
  BY DEF TypeInv, TypeOK
<1>1. pc[q] \in Early
  <2>1. ASSUME NEW r \in Req, Process(r) PROVE pc[q] \in Early
    BY <2>1, <1>a DEF Early, Process, ReadConfig, Reserve, Unreserve,
       Register, Attach, CheckActive, Post, Refuse, SendReturns, AnswerLost,
       Publish, RecallOwn, Abort
  <2>2. ASSUME NEW r \in Req, Settle(r) PROVE pc[q] \in Early
    BY <2>2 DEF Settle, StopTimer, Unmap, Detach, Release, Answer,
       AnswerFails, Recall
  <2>3. ASSUME NEW r \in Req, NEW w \in Worker, Arrive(r, w)
        PROVE  pc[q] \in Early
    BY <2>3, <1>a DEF Arrive, Early
  <2>4. ASSUME NEW r \in Req,
               \/ Fire(r)
               \/ OnTimeout(r)
               \/ \E k \in Clicker, d \in {"approve", "deny"} : Press(r, k, d)
        PROVE  pc[q] \in Early
    BY <2>4 DEF Fire, OnTimeout, Press
  <2>5. ASSUME NEW c \in clicks, Resolve(c) PROVE pc[q] \in Early
    BY <2>5 DEF Resolve
  <2>6. ASSUME NEW t \in Walker, RangeStep(t) PROVE pc[q] \in Early
    BY <2>6 DEF RangeStep, Visit, Miss, Drop
  <2>7. ASSUME \/ \E w \in Worker : Connector(w)
               \/ RestartStep
               \/ \E c \in Config : ApplyConfig(c)
               \/ UNCHANGED vars
        PROVE  pc[q] \in Early
    BY <2>7, OthersFrame
  <2> QED
    BY <2>1, <2>2, <2>3, <2>4, <2>5, <2>6, <2>7 DEF Next
<1>2. ~Admitted(q)
  BY <1>1 DEF EarlyInv
<1>3. CASE Register(q)
  <2>1. pc'[q] # "attach"
    BY DEF Early
  <2>2. pc'[q] = "unreserve" /\ UNCHANGED <<by, timer>>
    BY <1>3, <1>a, <2>1 DEF Register
  <2> QED
    BY <1>2, <2>2 DEF Admitted
<1>4. CASE ~Register(q)
  BY <1>2, <1>4, OnlyRegisterAdmits
<1> QED
  BY <1>3, <1>4

LEMMA CalmNext == TypeInv /\ CalmInv /\ [Next]_vars => CalmInv'
  BY NoRestartYet DEF CalmInv, TypeInv, TypeOK

(* Only Release gives up the place of a settled request.                    *)
LEMMA GivenUpSame ==
  ASSUME TypeInv, AnswerInv, [Next]_vars, NEW q \in Req, ~Release(q)
  PROVE  settle'[q] \in GivenUp <=> settle[q] \in GivenUp
<1>a. /\ settle \in [Req -> SettlePC]
      /\ by[q] = "nobody" <=> settle[q] = "none"
  BY DEF AnswerInv, TypeInv, TypeOK
<1>1. ASSUME NEW r \in Req, Process(r)
      PROVE  settle'[q] \in GivenUp <=> settle[q] \in GivenUp
  BY <1>1, <1>a DEF GivenUp, Process, ReadConfig, Reserve, Unreserve,
     Register, Attach, CheckActive, Post, Refuse, SendReturns, AnswerLost,
     Publish, RecallOwn, Abort, Invalidate, Win
<1>2. ASSUME NEW r \in Req, Settle(r)
      PROVE  settle'[q] \in GivenUp <=> settle[q] \in GivenUp
  BY <1>2, <1>a DEF GivenUp, Settle, StopTimer, Unmap, Detach, Release,
     Answer, AnswerFails, Recall
<1>3. ASSUME NEW r \in Req,
             \/ \E w \in Worker : Arrive(r, w)
             \/ Fire(r)
             \/ OnTimeout(r)
             \/ \E k \in Clicker, d \in {"approve", "deny"} : Press(r, k, d)
      PROVE  settle'[q] \in GivenUp <=> settle[q] \in GivenUp
  BY <1>3, <1>a DEF GivenUp, Arrive, Fire, OnTimeout, Press, Win
<1>4. ASSUME NEW c \in clicks, Resolve(c)
      PROVE  settle'[q] \in GivenUp <=> settle[q] \in GivenUp
  BY <1>4, <1>a DEF GivenUp, Resolve, Win
<1>5. ASSUME NEW t \in Walker, RangeStep(t)
      PROVE  settle'[q] \in GivenUp <=> settle[q] \in GivenUp
  <2>1. ASSUME NEW i \in Id, Visit(t, i)
        PROVE  settle'[q] \in GivenUp <=> settle[q] \in GivenUp
    <3>1. Walked(t)[i] \in Req
      BY <2>1, WalkedType DEF Visit
    <3> QED
      BY <2>1, <3>1, <1>a DEF GivenUp, Visit, Invalidate, Win
  <2>2. CASE ~\E i \in Id : Visit(t, i)
    BY <1>5, <2>2 DEF RangeStep, Miss, Drop
  <2> QED
    BY <2>1, <2>2
<1>6. ASSUME \/ \E w \in Worker : Connector(w)
             \/ RestartStep
             \/ \E c \in Config : ApplyConfig(c)
             \/ UNCHANGED vars
      PROVE  UNCHANGED settle
  BY <1>6, OthersFrame
<1> QED
  BY <1>1, <1>2, <1>3, <1>4, <1>5, <1>6 DEF Next

(* Only Reserve, Unreserve and Release change who counts.                   *)
LEMMA CountedSame ==
  ASSUME BaseInv, [Next]_vars, NEW q \in Req,
         ~Reserve(q), ~Unreserve(q), ~Release(q)
  PROVE  Counted(q)' <=> Counted(q)
<1>a. pc \in [Req -> PC] /\ settle \in [Req -> SettlePC]
  BY DEF BaseInv, TypeInv, TypeOK
<1>b. settle' \in [Req -> SettlePC]
  BY TypeInvNext DEF BaseInv, TypeInv, TypeOK
<1>1. CASE Register(q)
  <2>1. ~Admitted(q) /\ settle[q] = "none" /\ Counted(q)
    BY <1>1 DEF Register, BaseInv, EarlyInv, AnswerInv, Admitted, Early,
       Counted
  <2>2. pc'[q] \in {"attach", "unreserve"} /\ UNCHANGED settle
    BY <1>1, <1>a DEF Register
  <2>3. Counted(q)'
    BY <2>1, <2>2 DEF Counted, Admitted
  <2> QED
    BY <2>1, <2>3
<1>2. CASE ~Register(q)
  <2>1. Admitted(q)' <=> Admitted(q)
    BY <1>2, AdmittedStays, OnlyRegisterAdmits DEF BaseInv
  <2>2. pc'[q] \in {"unreserve", "register"} <=> pc[q] \in {"unreserve", "register"}
    <3>1. ASSUME NEW r \in Req, Process(r)
          PROVE  pc'[q] \in {"unreserve", "register"}
                   <=> pc[q] \in {"unreserve", "register"}
      <4>1. CASE r = q
        BY <1>2, <3>1, <4>1, <1>a DEF Process, ReadConfig, Attach,
           CheckActive, Post, Refuse, SendReturns, AnswerLost, Publish,
           RecallOwn, Abort
      <4>2. CASE r # q
        BY <3>1, <4>2, <1>a DEF Process, ReadConfig, Reserve, Unreserve,
           Register, Attach, CheckActive, Post, Refuse, SendReturns,
           AnswerLost, Publish, RecallOwn, Abort
      <4> QED
        BY <4>1, <4>2
    <3>2. ASSUME NEW r \in Req, NEW w \in Worker, Arrive(r, w)
          PROVE  pc'[q] \in {"unreserve", "register"}
                   <=> pc[q] \in {"unreserve", "register"}
      BY <3>2, <1>a DEF Arrive
    <3>3. ASSUME ~\E r \in Req : Process(r) \/ \E w \in Worker : Arrive(r, w)
          PROVE  UNCHANGED pc
      BY <3>3, OthersFrame, ZenonT(60) DEF Next, Settle, StopTimer, Unmap, Detach,
         Release, Answer, AnswerFails, Recall, Fire, OnTimeout, Press,
         Resolve, RangeStep, Visit, Miss, Drop
    <3> QED
      BY <3>1, <3>2, <3>3
  <2>3. settle'[q] \in GivenUp <=> settle[q] \in GivenUp
    BY GivenUpSame DEF BaseInv
  <2> QED
    <3>1. settle[q] \in SettlePC /\ settle'[q] \in SettlePC
      BY <1>a, <1>b
    <3> QED
      BY <2>1, <2>2, <2>3, <3>1 DEF Counted, GivenUp, SettlePC
<1> QED
  BY <1>1, <1>2

LEMMA CounterFrame ==
  ASSUME [Next]_vars, restart = "idle",
         \A r \in Req : ~Reserve(r) /\ ~Unreserve(r) /\ ~Release(r)
  PROVE  UNCHANGED pendingCounter
<1>1. ASSUME NEW r \in Req, Process(r) \/ Settle(r)
      PROVE  UNCHANGED pendingCounter
  BY <1>1 DEF Process, Settle, ReadConfig, Register, Attach, CheckActive,
     Post, Refuse, SendReturns, AnswerLost, Publish, RecallOwn, Abort,
     StopTimer, Unmap, Detach, Answer, AnswerFails, Recall
<1>2. ASSUME NEW r \in Req,
             \/ \E w \in Worker : Arrive(r, w)
             \/ Fire(r)
             \/ OnTimeout(r)
             \/ \E k \in Clicker, d \in {"approve", "deny"} : Press(r, k, d)
      PROVE  UNCHANGED pendingCounter
  BY <1>2 DEF Arrive, Fire, OnTimeout, Press
<1>3. ASSUME NEW c \in clicks, Resolve(c) PROVE UNCHANGED pendingCounter
  BY <1>3 DEF Resolve
<1>4. ASSUME NEW t \in Walker, RangeStep(t) PROVE UNCHANGED pendingCounter
  BY <1>4 DEF RangeStep, Visit, Miss, Drop
<1>5. ASSUME NEW w \in Worker, Connector(w) PROVE UNCHANGED pendingCounter
  BY <1>5 DEF Connector, LeaveLoop, BeginDial, Dial, DialFails, Adopt,
     CloseOnStop, DecodeFails, Forget, Close, EndSweep
<1>6. ASSUME NEW c \in Config, ApplyConfig(c) PROVE UNCHANGED pendingCounter
  BY <1>6 DEF ApplyConfig
<1>7. CASE RestartStep
  BY <1>7 DEF RestartStep, StopWorker, CloseCurrent, EndConnWalk, EndMapWalk,
     ZeroCounter, Launch
<1>8. CASE UNCHANGED vars
  BY <1>8 DEF vars
<1> QED
  BY <1>1, <1>2, <1>3, <1>4, <1>5, <1>6, <1>7, <1>8 DEF Next

LEMMA FiniteSets == IsFiniteSet(CountedSet) /\ IsFiniteSet(PlacedSet)
  BY ReqAssumption, FS_Subset DEF CountedSet, PlacedSet

LEMMA OnlyUnreserveLeaves ==
  ASSUME TypeInv, [Next]_vars, NEW q \in Req, pc[q] = "unreserve",
         pc'[q] # "unreserve"
  PROVE  Unreserve(q)
<1>a. pc \in [Req -> PC]
  BY DEF TypeInv, TypeOK
<1>1. ASSUME NEW r \in Req, Process(r) PROVE Unreserve(q)
  <2>1. CASE r = q
    BY <1>1, <2>1 DEF Process, ReadConfig, Reserve, Register, Attach,
       CheckActive, Post, Refuse, SendReturns, AnswerLost, Publish,
       RecallOwn, Abort
  <2>2. CASE r # q
    BY <1>1, <2>2, <1>a DEF Process, ReadConfig, Reserve, Unreserve,
       Register, Attach, CheckActive, Post, Refuse, SendReturns, AnswerLost,
       Publish, RecallOwn, Abort
  <2> QED
    BY <2>1, <2>2
<1>2. ASSUME NEW r \in Req, NEW w \in Worker, Arrive(r, w)
      PROVE  Unreserve(q)
  BY <1>2, <1>a DEF Arrive
<1>3. ASSUME ~\E r \in Req : Process(r) \/ \E w \in Worker : Arrive(r, w)
      PROVE  UNCHANGED pc
  BY <1>3, OthersFrame, ZenonT(60) DEF Next, Settle, StopTimer, Unmap, Detach, Release,
     Answer, AnswerFails, Recall, Fire, OnTimeout, Press, Resolve, RangeStep,
     Visit, Miss, Drop
<1> QED
  BY <1>1, <1>2, <1>3

(* One request takes or leaves a place at a time.                           *)
LEMMA OthersCountedSame ==
  ASSUME BaseInv, [Next]_vars, NEW r \in Req,
         Reserve(r) \/ Unreserve(r) \/ Release(r),
         NEW q \in Req \ {r}
  PROVE  Counted(q)' <=> Counted(q)
<1>a. pc \in [Req -> PC] /\ settle \in [Req -> SettlePC]
  BY DEF BaseInv, TypeInv, TypeOK
<1>1. pc'[q] = pc[q] /\ settle'[q] = settle[q]
  BY <1>a DEF Reserve, Unreserve, Release
<1>2. UNCHANGED <<by, timer>>
  BY DEF Reserve, Unreserve, Release
<1> QED
  BY <1>1, <1>2 DEF Counted, Admitted

LEMMA ReserveAdds ==
  ASSUME BaseInv, [Next]_vars, NEW r \in Req, Reserve(r)
  PROVE  r \notin CountedSet /\ CountedSet' = CountedSet \cup {r}
<1>a. pc \in [Req -> PC]
  BY DEF BaseInv, TypeInv, TypeOK
<1>1. ~Counted(r)
  BY DEF Reserve, Counted, BaseInv, EarlyInv, Early
<1>2. Counted(r)'
  BY <1>a DEF Reserve, Counted
<1> QED
  BY <1>1, <1>2, OthersCountedSame DEF CountedSet

LEMMA GiveBackRemoves ==
  ASSUME BaseInv, [Next]_vars, NEW r \in Req, Unreserve(r) \/ Release(r)
  PROVE  r \in CountedSet /\ CountedSet' = CountedSet \ {r}
<1>a. pc \in [Req -> PC] /\ settle \in [Req -> SettlePC]
  BY DEF BaseInv, TypeInv, TypeOK
<1>1. Counted(r)
  BY DEF Unreserve, Release, Counted, Admitted, BaseInv, AnswerInv
<1>2. ~Counted(r)'
  <2>1. CASE Unreserve(r)
    <3>1. ~Admitted(r) /\ pc'[r] = "done" /\ UNCHANGED <<by, timer>>
      BY <2>1, <1>a DEF Unreserve, BaseInv, EarlyInv, Early
    <3> QED
      BY <3>1 DEF Counted, Admitted
  <2>2. CASE Release(r)
    <3>1. pc[r] \notin {"unreserve", "register"}
      BY <2>2 DEF Release, BaseInv, EarlyInv, Early, AnswerInv, Admitted
    <3>2. settle'[r] \in {"answer", "recall"} /\ UNCHANGED pc
      BY <2>2, <1>a DEF Release
    <3> QED
      BY <3>1, <3>2 DEF Counted
  <2> QED
    BY <2>1, <2>2
<1> QED
  BY <1>1, <1>2, OthersCountedSame DEF CountedSet

LEMMA CountNext ==
  ASSUME BaseInv, CountInv, [Next]_vars
  PROVE  CountInv'
<1> SUFFICES ASSUME applies' = 0
             PROVE  pendingCounter' = Cardinality(CountedSet)'
  BY DEF CountInv
<1>1. restart = "idle" /\ applies = 0
  BY NoRestartYet DEF BaseInv, CalmInv, TypeInv, TypeOK
<1>2. pendingCounter = Cardinality(CountedSet) /\ pendingCounter \in Int
  BY <1>1 DEF CountInv, BaseInv, TypeInv, TypeOK
<1>3. ASSUME NEW r \in Req, Reserve(r)
      PROVE  pendingCounter' = Cardinality(CountedSet)'
  <2>1. Cardinality(CountedSet \cup {r}) = Cardinality(CountedSet) + 1
    BY <1>3, ReserveAdds, FiniteSets, FS_AddElement
  <2>2. pendingCounter' = pendingCounter + 1
    BY <1>3 DEF Reserve
  <2> QED
    BY <1>2, <1>3, <2>1, <2>2, ReserveAdds
<1>4. ASSUME NEW r \in Req, Unreserve(r) \/ Release(r)
      PROVE  pendingCounter' = Cardinality(CountedSet)'
  <2>1. Cardinality(CountedSet \ {r}) = Cardinality(CountedSet) - 1
    BY <1>4, GiveBackRemoves, FiniteSets, FS_RemoveElement
  <2>2. pendingCounter' = pendingCounter - 1
    BY <1>4 DEF Unreserve, Release
  <2> QED
    BY <1>2, <1>4, <2>1, <2>2, GiveBackRemoves
<1>5. CASE \A r \in Req : ~Reserve(r) /\ ~Unreserve(r) /\ ~Release(r)
  <2>1. CountedSet' = CountedSet
    BY <1>5, CountedSame DEF CountedSet
  <2>2. UNCHANGED pendingCounter
    BY <1>1, <1>5, CounterFrame
  <2> QED
    BY <1>2, <2>1, <2>2
<1> QED
  BY <1>3, <1>4, <1>5

(* A place is only ever given out while the counter is at most Max.         *)
LEMMA PlaceNext ==
  ASSUME BaseInv, CountInv, CountInv', PlaceInv, [Next]_vars
  PROVE  PlaceInv'
<1> SUFFICES ASSUME applies' = 0 PROVE Cardinality(PlacedSet)' <= Max
  BY DEF PlaceInv
<1>a. pc \in [Req -> PC] /\ pendingCounter \in Int /\ Max \in Nat
  BY BoundAssumption DEF BaseInv, TypeInv, TypeOK
<1>1. applies = 0
  BY NoRestartYet DEF BaseInv, CalmInv, TypeInv, TypeOK
<1>2. Cardinality(PlacedSet) <= Max /\ IsFiniteSet(PlacedSet)
  BY <1>1, FiniteSets DEF PlaceInv
<1>3. IsFiniteSet(CountedSet')
  BY ReqAssumption, FS_Subset DEF CountedSet
<1>4. ASSUME PlacedSet' \subseteq PlacedSet
      PROVE  Cardinality(PlacedSet)' <= Max
  <2>1. /\ Cardinality(PlacedSet') <= Cardinality(PlacedSet)
        /\ Cardinality(PlacedSet') \in Nat /\ Cardinality(PlacedSet) \in Nat
    BY <1>2, <1>4, FS_Subset, FS_CardinalityType
  <2> QED
    BY <1>a, <1>2, <2>1
<1>5. ASSUME NEW r \in Req, Reserve(r) PROVE Cardinality(PlacedSet)' <= Max
  <2>1. CASE pc'[r] = "unreserve"
    <3>1. PlacedSet' \subseteq PlacedSet
      BY <1>5, <1>a, <2>1, OthersCountedSame
      DEF PlacedSet, Placed, Reserve
    <3> QED
      BY <1>4, <3>1
  <2>2. CASE pc'[r] # "unreserve"
    <3>1. pendingCounter' <= Max
      BY <1>5, <1>a, <2>2 DEF Reserve
    <3>2. Cardinality(CountedSet') <= Max
      BY <3>1 DEF CountInv
    <3>3. PlacedSet' \subseteq CountedSet'
      BY DEF PlacedSet, CountedSet, Placed
    <3>4. /\ Cardinality(PlacedSet') <= Cardinality(CountedSet')
          /\ Cardinality(PlacedSet') \in Nat /\ Cardinality(CountedSet') \in Nat
      BY <1>3, <3>3, FS_Subset, FS_CardinalityType
    <3> QED
      BY <1>a, <3>2, <3>4
  <2> QED
    BY <2>1, <2>2
<1>6. CASE \A r \in Req : ~Reserve(r)
  <2>1. ASSUME NEW q \in Req, Placed(q)' PROVE Placed(q)
    <3>1. Counted(q)
      <4>1. CASE \E r \in Req : Unreserve(r) \/ Release(r)
        BY <2>1, <4>1, GiveBackRemoves DEF CountedSet, Placed
      <4>2. CASE ~\E r \in Req : Unreserve(r) \/ Release(r)
        BY <1>6, <2>1, <4>2, CountedSame DEF Placed
      <4> QED
        BY <4>1, <4>2
    <3>2. pc[q] # "unreserve"
      <4> SUFFICES ASSUME pc[q] = "unreserve" PROVE FALSE
        OBVIOUS
      <4>1. pc'[q] # "unreserve"
        BY <2>1 DEF Placed
      <4>2. Unreserve(q)
        BY <1>a, <4>1, OnlyUnreserveLeaves DEF BaseInv
      <4>3. ~Counted(q)'
        BY <4>2, GiveBackRemoves DEF CountedSet
      <4> QED
        BY <2>1, <4>3 DEF Placed
    <3> QED
      BY <3>1, <3>2 DEF Placed
  <2>2. PlacedSet' \subseteq PlacedSet
    BY <2>1 DEF PlacedSet
  <2> QED
    BY <1>4, <2>2
<1> QED
  BY <1>5, <1>6

LEMMA BaseHolds == Spec => []BaseInv
<1>1. Spec => []TypeInv
  BY TypeInvInit, TypeInvNext, PTL DEF Spec
<1>2. Spec => []AnswerInv
  BY <1>1, AnswerInit, AnswerNext, PTL DEF Spec
<1>3. Spec => []AdmitInv
  BY <1>1, AdmitInit, AdmitNext, PTL DEF Spec
<1>4. Init => EarlyInv /\ CalmInv
  BY DEF Init, EarlyInv, CalmInv, Admitted
<1>5. TypeInv /\ AdmitInv /\ EarlyInv /\ [Next]_vars => EarlyInv'
  BY EarlyNext
<1> QED
  BY <1>1, <1>2, <1>3, <1>4, <1>5, CalmNext, PTL DEF Spec, BaseInv

LEMMA CapacityInvariants ==
  Spec => [](BaseInv /\ CountInv /\ PlaceInv)
<1>1. Init => CountInv /\ PlaceInv
  <2> SUFFICES ASSUME Init PROVE CountInv /\ PlaceInv
    OBVIOUS
  <2>1. CountedSet = {} /\ PlacedSet = {}
    BY DEF Init, CountedSet, PlacedSet, Placed, Counted, Admitted
  <2> QED
    BY <2>1, FS_EmptySet, BoundAssumption DEF Init, CountInv, PlaceInv
<1>2. BaseInv /\ CountInv /\ [Next]_vars => CountInv'
  BY CountNext
<1>3. BaseInv /\ CountInv /\ CountInv' /\ PlaceInv /\ [Next]_vars => PlaceInv'
  BY PlaceNext
<1> QED
  BY <1>1, <1>2, <1>3, BaseHolds, PTL DEF Spec

(* Until a configuration is applied pendingCounter is exactly the number of *)
(* requests that hold a place: every path of processApprovalRequest and     *)
(* cleanup that takes one gives it back once (sshauth.go 138, 432-451).     *)
THEOREM CounterCorrect == Spec => []CounterExact
<1>1. BaseInv /\ CountInv => CounterExact
  BY DEF CountInv, CounterExact, CountedSet
<1> QED
  BY <1>1, CapacityInvariants, PTL

(* Until a configuration is applied at most Max requests wait at a time.    *)
THEOREM CapacityKept == Spec => []CapacityUntilRestart
<1>1. BaseInv /\ PlaceInv => CapacityUntilRestart
  <2> SUFFICES ASSUME BaseInv, PlaceInv, applies = 0
               PROVE  Cardinality({r \in Req : Open(r)}) <= Max
    BY DEF CapacityUntilRestart
  <2>1. {r \in Req : Open(r)} \subseteq PlacedSet
    BY DEF PlacedSet, Placed, Counted, Open, BaseInv, EarlyInv, Early,
       AnswerInv
  <2>2. /\ Cardinality({r \in Req : Open(r)}) <= Cardinality(PlacedSet)
        /\ Cardinality({r \in Req : Open(r)}) \in Nat
        /\ Cardinality(PlacedSet) \in Nat
    BY <2>1, FiniteSets, FS_Subset, FS_CardinalityType
  <2>3. Cardinality(PlacedSet) <= Max /\ Max \in Nat
    BY BoundAssumption DEF PlaceInv
  <2> QED
    BY <2>2, <2>3
<1> QED
  BY <1>1, CapacityInvariants, PTL

-----------------------------------------------------------------------------
(* Clean-ups and restarts                                                  *)

(* ssh-qqauth never uses an identifier twice.                               *)
Distinct == \A r, q \in Req : IdOf[r] = IdOf[q] => r = q

(* Past the look at its connection, and waiting for a decision.             *)
Late(r) == Open(r) /\ pc[r] \notin {"attach", "check", "abort"}

(* Where a Range loop has invalidated, it will delete.                      *)
VisitInv ==
  \A t \in Walker, r \in Req : walk[t].at = IdOf[r] => by[r] # "nobody"

(* The clean-up of a connection that is closed, during and after its walk.  *)
SweepInv ==
  /\ \A c \in swept : link[c] = "closed"
  /\ \A w \in Worker : worker[w] = "sweep" =>
       /\ link[serves[w]] = "closed"
       /\ \A r \in Req : conn[r] = serves[w] /\ Late(r) =>
            IdOf[r] \in walk[w].due \ walk[w].seen
  /\ SweptLeavesNoneOpen

(* A click checked under an earlier configuration: the restart that follows *)
(* the change has yet to walk the global map, or has settled its request.   *)
StaleInv ==
  \A k \in clicks : ~Authorised(config, k.who) =>
    \/ restart \in {"stop", "close", "connWalk"}
    \/ by[k.req] # "nobody"
    \/ restart = "mapWalk" /\ IdOf[k.req] \in walk[Restarter].due \ walk[Restarter].seen

(* A settled request stays settled.                                         *)
LEMMA SettledStays ==
  ASSUME TypeInv, [Next]_vars, NEW q \in Req, by[q] # "nobody"
  PROVE  by'[q] # "nobody"
<1> DEFINE Won == \E r \in Req, who \in By \ {"nobody"} : by' = [by EXCEPT ![r] = who]
<1>a. by \in [Req -> By]
  BY DEF TypeInv, TypeOK
<1>1. ASSUME NEW r \in Req, Process(r) PROVE by' = by \/ Won
  <2>1. CASE Abort(r)
    BY <2>1 DEF Abort, Invalidate, Win, By
  <2>2. CASE ~Abort(r)
    BY <1>1, <2>2 DEF Process, ReadConfig, Reserve, Unreserve, Register,
       Attach, CheckActive, Post, Refuse, SendReturns, AnswerLost, Publish,
       RecallOwn
  <2> QED
    BY <2>1, <2>2
<1>2. ASSUME NEW r \in Req, Settle(r) PROVE by' = by
  BY <1>2 DEF Settle, StopTimer, Unmap, Detach, Release, Answer, AnswerFails, Recall
<1>3. ASSUME NEW r \in Req,
             \/ \E w \in Worker : Arrive(r, w)
             \/ Fire(r)
             \/ \E k \in Clicker, d \in {"approve", "deny"} : Press(r, k, d)
      PROVE  by' = by
  BY <1>3 DEF Arrive, Fire, Press
<1>4. ASSUME NEW r \in Req, OnTimeout(r) PROVE by' = by \/ Won
  BY <1>4 DEF OnTimeout, Win, By
<1>5. ASSUME NEW c \in clicks, Resolve(c) PROVE by' = by \/ Won
  <2>1. c.req \in Req /\ c.decision \in By \ {"nobody"}
    BY DEF TypeInv, TypeOK, Click, By
  <2> QED
    BY <1>5, <2>1 DEF Resolve, Win
<1>6. ASSUME NEW t \in Walker, RangeStep(t) PROVE by' = by \/ Won
  <2>1. ASSUME NEW i \in Id, Visit(t, i) PROVE by' = by \/ Won
    <3>1. Walked(t)[i] \in Req
      BY <2>1, WalkedType DEF Visit
    <3> QED
      BY <2>1, <3>1 DEF Visit, Invalidate, Win, By
  <2>2. CASE ~\E i \in Id : Visit(t, i)
    BY <1>6, <2>2 DEF RangeStep, Miss, Drop
  <2> QED
    BY <2>1, <2>2
<1>7. ASSUME \/ \E w \in Worker : Connector(w)
             \/ RestartStep
             \/ \E c \in Config : ApplyConfig(c)
             \/ UNCHANGED vars
      PROVE  by' = by
  BY <1>7, OthersFrame
<1>8. by' = by \/ Won
  BY <1>1, <1>2, <1>3, <1>4, <1>5, <1>6, <1>7 DEF Next
<1> QED
  BY <1>8, <1>a

(* A request moves by the steps of its own goroutine only.                  *)
LEMMA OwnMoves ==
  ASSUME TypeInv, [Next]_vars, NEW q \in Req, ~Process(q), \A w \in Worker : ~Arrive(q, w)
  PROVE  pc'[q] = pc[q] /\ conn'[q] = conn[q]
<1>a. pc \in [Req -> PC] /\ conn \in [Req -> Conn \cup {NULL}]
  BY DEF TypeInv, TypeOK
<1>1. ASSUME NEW r \in Req \ {q}, Process(r)
      PROVE  pc'[q] = pc[q] /\ conn'[q] = conn[q]
  <2>1. conn' = conn
    BY <1>1 DEF Process, ReadConfig, Reserve, Unreserve, Register, Attach, CheckActive,
       Post, Refuse, SendReturns, AnswerLost, Publish, RecallOwn, Abort
  <2>2. \/ pc' = pc
        \/ \E stage : pc' = [pc EXCEPT ![r] = stage]
    BY <1>1 DEF Process, ReadConfig, Reserve, Unreserve, Register, Attach, CheckActive,
       Post, Refuse, SendReturns, AnswerLost, Publish, RecallOwn, Abort
  <2> QED
    BY <2>1, <2>2, <1>a
<1>2. ASSUME NEW r \in Req \ {q}, NEW w \in Worker, Arrive(r, w)
      PROVE  pc'[q] = pc[q] /\ conn'[q] = conn[q]
  BY <1>2, <1>a DEF Arrive
<1>3. ASSUME NEW r \in Req,
             \/ Settle(r) \/ Fire(r) \/ OnTimeout(r)
             \/ \E k \in Clicker, d \in {"approve", "deny"} : Press(r, k, d)
      PROVE  UNCHANGED reqVars
  BY <1>3 DEF Settle, StopTimer, Unmap, Detach, Release, Answer, AnswerFails, Recall,
     Fire, OnTimeout, Press
<1>4. ASSUME NEW c \in clicks, Resolve(c) PROVE UNCHANGED reqVars
  BY <1>4 DEF Resolve
<1>5. ASSUME NEW t \in Walker, RangeStep(t) PROVE UNCHANGED reqVars
  BY <1>5 DEF RangeStep, Visit, Miss, Drop
<1>6. ASSUME \/ \E w \in Worker : Connector(w)
             \/ RestartStep
             \/ \E c \in Config : ApplyConfig(c)
             \/ UNCHANGED vars
      PROVE  UNCHANGED reqVars
  BY <1>6, OthersFrame
<1> QED
  BY <1>1, <1>2, <1>3, <1>4, <1>5, <1>6 DEF Next

(* Who waits has waited before, or registers.                               *)
LEMMA OpenBefore ==
  ASSUME TypeInv, AdmitInv, [Next]_vars, NEW q \in Req, Open(q)', ~Register(q)
  PROVE  Open(q)
<1>1. Admitted(q)' /\ by'[q] = "nobody"
  BY DEF Open
<1>2. by[q] = "nobody"
  BY <1>1, SettledStays
<1>3. Admitted(q)
  BY <1>1, OnlyRegisterAdmits
<1> QED
  BY <1>2, <1>3 DEF Open

(* Who is past its look at the connection has been there before, or finds   *)
(* the connection open.                                                     *)
LEMMA LateBefore ==
  ASSUME TypeInv, AdmitInv, EarlyInv, EarlyInv', [Next]_vars, NEW q \in Req, Late(q)'
  PROVE  /\ Open(q) /\ conn'[q] = conn[q]
         /\ Late(q) \/ (pc[q] = "check" /\ link[conn[q]] = "open")
<1>a. pc \in [Req -> PC] /\ by \in [Req -> By]
  BY DEF TypeInv, TypeOK
<1>b. Open(q)' /\ pc'[q] \notin {"attach", "check", "abort"} /\ by'[q] = "nobody"
  BY DEF Late, Open
<1>1. ~Register(q)
  <2>1. Admitted(q)' /\ pc'[q] \notin Early
    BY <1>b DEF Open, EarlyInv
  <2> QED
    BY <1>a, <1>b, <2>1 DEF Register, Early
<1>2. Open(q)
  BY <1>1, <1>b, OpenBefore
<1>3. pc[q] \notin Early
  BY <1>2 DEF Open, EarlyInv
<1>4. \A w \in Worker : ~Arrive(q, w)
  BY <1>3 DEF Arrive, Early
<1>5. CASE Process(q)
  <2>1. CASE CheckActive(q)
    BY <1>a, <1>b, <1>2, <2>1 DEF CheckActive, Late
  <2>2. CASE Attach(q) \/ Abort(q)
    BY <1>a, <1>b, <2>2 DEF Attach, Abort, Invalidate, Win
  <2>3. CASE Post(q) \/ Refuse(q) \/ SendReturns(q) \/ AnswerLost(q) \/ Publish(q)
             \/ RecallOwn(q)
    <3>1. conn' = conn /\ pc[q] \in {"send", "await", "publish", "recall"}
      BY <2>3 DEF Post, Refuse, SendReturns, AnswerLost, Publish, RecallOwn
    <3> QED
      BY <1>2, <3>1 DEF Late
  <2>4. CASE ReadConfig(q) \/ Reserve(q) \/ Unreserve(q)
    BY <1>3, <2>4 DEF ReadConfig, Reserve, Unreserve, Early
  <2> QED
    BY <1>1, <1>5, <2>1, <2>2, <2>3, <2>4 DEF Process
<1>6. CASE ~Process(q)
  <2>1. pc'[q] = pc[q] /\ conn'[q] = conn[q]
    BY <1>4, <1>6, OwnMoves
  <2> QED
    BY <1>b, <1>2, <2>1 DEF Late
<1> QED
  BY <1>5, <1>6

(* Who writes the maps.                                                     *)
LEMMA MapsWritten ==
  ASSUME [Next]_vars,
         \A r \in Req : ~Register(r) /\ ~Attach(r) /\ ~Unmap(r) /\ ~Detach(r),
         \A t \in Walker : ~Drop(t)
  PROVE  UNCHANGED <<pendingMap, pending>>
<1>1. ASSUME NEW r \in Req, Process(r) \/ Settle(r)
      PROVE  UNCHANGED <<pendingMap, pending>>
  BY <1>1 DEF Process, Settle, ReadConfig, Reserve, Unreserve,
     CheckActive, Post, Refuse, SendReturns, AnswerLost, Publish, RecallOwn,
     Abort, StopTimer, Release, Answer, AnswerFails, Recall
<1>2. ASSUME NEW r \in Req,
             \/ \E w \in Worker : Arrive(r, w)
             \/ Fire(r)
             \/ OnTimeout(r)
             \/ \E k \in Clicker, d \in {"approve", "deny"} : Press(r, k, d)
      PROVE  UNCHANGED <<pendingMap, pending>>
  BY <1>2 DEF Arrive, Fire, OnTimeout, Press
<1>3. ASSUME NEW c \in clicks, Resolve(c) PROVE UNCHANGED <<pendingMap, pending>>
  BY <1>3 DEF Resolve
<1>4. ASSUME NEW t \in Walker, RangeStep(t) PROVE UNCHANGED <<pendingMap, pending>>
  BY <1>4 DEF RangeStep, Visit, Miss
<1>5. ASSUME \/ \E w \in Worker : Connector(w)
             \/ RestartStep
             \/ \E c \in Config : ApplyConfig(c)
             \/ UNCHANGED vars
      PROVE  UNCHANGED <<pendingMap, pending>>
  BY <1>5, MapsFrame
<1> QED
  BY <1>1, <1>2, <1>3, <1>4, <1>5 DEF Next

(* The entries of a request that waits are nobody else's to remove.         *)
LEMMA EntriesStay ==
  ASSUME Distinct, TypeInv, AnswerInv, VisitInv, [Next]_vars,
         NEW q \in Req, by[q] = "nobody", NEW c \in Conn
  PROVE  /\ pendingMap[IdOf[q]] = q => pendingMap'[IdOf[q]] = q
         /\ pending[c][IdOf[q]] = q => pending'[c][IdOf[q]] = q
<1>a. /\ IdOf[q] \in Id /\ pendingMap \in [Id -> Req \cup {NULL}]
      /\ pending \in [Conn -> [Id -> Req \cup {NULL}]]
  BY IdAssumption DEF TypeInv, TypeOK
<1>b. q # NULL
  BY NullAssumption
<1>1. ASSUME NEW r \in Req, Register(r) \/ Attach(r)
      PROVE  /\ pendingMap[IdOf[q]] = q => pendingMap'[IdOf[q]] = q
             /\ pending[c][IdOf[q]] = q => pending'[c][IdOf[q]] = q
  <2>1. CASE r = q
    BY <1>1, <2>1, <1>a, <1>b DEF Register, Attach
  <2>2. CASE r # q
    <3>1. IdOf[r] # IdOf[q]
      BY <2>2 DEF Distinct
    <3> QED
      BY <1>1, <3>1, <1>a DEF Register, Attach
  <2> QED
    BY <2>1, <2>2
<1>2. ASSUME NEW r \in Req, Unmap(r) \/ Detach(r)
      PROVE  /\ pendingMap[IdOf[q]] = q => pendingMap'[IdOf[q]] = q
             /\ pending[c][IdOf[q]] = q => pending'[c][IdOf[q]] = q
  <2>1. r # q
    BY <1>2 DEF Unmap, Detach, AnswerInv
  <2>2. IdOf[r] # IdOf[q]
    BY <2>1 DEF Distinct
  <2> QED
    BY <1>2, <2>2, <1>a DEF Unmap, Detach
<1>3. ASSUME NEW t \in Walker, Drop(t)
      PROVE  /\ pendingMap[IdOf[q]] = q => pendingMap'[IdOf[q]] = q
             /\ pending[c][IdOf[q]] = q => pending'[c][IdOf[q]] = q
  <2>1. walk[t].at # IdOf[q]
    BY DEF VisitInv
  <2> DEFINE at == walk[t].at
             d  == IF t = Restarter THEN currentConn ELSE serves[t]
  <2>2. \/ pendingMap' = [pendingMap EXCEPT ![at] = NULL] /\ UNCHANGED pending
        \/ pending' = [pending EXCEPT ![d][at] = NULL] /\ UNCHANGED pendingMap
    BY <1>3 DEF Drop
  <2> HIDE DEF at, d
  <2>3. at # IdOf[q]
    BY <2>1 DEF at
  <2> QED
    BY <2>2, <2>3, <1>a
<1>4. CASE /\ \A r \in Req : ~Register(r) /\ ~Attach(r) /\ ~Unmap(r) /\ ~Detach(r)
           /\ \A t \in Walker : ~Drop(t)
  BY <1>4, MapsWritten
<1> QED
  BY <1>1, <1>2, <1>3, <1>4

LEMMA ListNext ==
  ASSUME Distinct, TypeInv, AnswerInv, AdmitInv, EarlyInv, EarlyInv', VisitInv,
         OpenIsListed, [Next]_vars
  PROVE  OpenIsListed'
<1> SUFFICES ASSUME NEW q \in Req, Open(q)'
             PROVE  /\ pendingMap'[IdOf[q]] = q
                    /\ pc'[q] # "attach" => pending'[conn'[q]][IdOf[q]] = q
  BY DEF OpenIsListed
<1>a. /\ IdOf[q] \in Id /\ pendingMap \in [Id -> Req \cup {NULL}]
      /\ pending \in [Conn -> [Id -> Req \cup {NULL}]]
      /\ pc \in [Req -> PC]
  BY IdAssumption DEF TypeInv, TypeOK
<1>1. CASE Register(q)
  <2>1. pc'[q] \notin Early
    BY DEF Open, EarlyInv
  <2> QED
    BY <1>1, <1>a, <2>1 DEF Register, Early
<1>2. CASE ~Register(q)
  <2>1. Open(q) /\ by[q] = "nobody"
    BY <1>2, OpenBefore DEF Open
  <2>2. pendingMap[IdOf[q]] = q /\ (pc[q] # "attach" => pending[conn[q]][IdOf[q]] = q)
    BY <2>1 DEF OpenIsListed
  <2>3. pc[q] \notin Early
    BY <2>1 DEF Open, EarlyInv
  <2>4. conn[q] \in Conn /\ \A w \in Worker : ~Arrive(q, w)
    BY <2>3 DEF Arrive, Early, TypeInv, ConnInv
  <2>5. pendingMap'[IdOf[q]] = q
    BY <2>1, <2>2, <2>4, EntriesStay
  <2>6. conn'[q] = conn[q]
    <3>1. CASE Process(q)
      BY <3>1 DEF Process, ReadConfig, Reserve, Unreserve, Register, Attach, CheckActive,
         Post, Refuse, SendReturns, AnswerLost, Publish, RecallOwn, Abort
    <3>2. CASE ~Process(q)
      BY <2>4, <3>2, OwnMoves
    <3> QED
      BY <3>1, <3>2
  <2>7. CASE pc[q] # "attach"
    BY <2>1, <2>2, <2>4, <2>5, <2>6, <2>7, EntriesStay
  <2>8. CASE pc[q] = "attach"
    <3>1. CASE Process(q)
      <4>1. Attach(q)
        BY <2>8, <3>1 DEF Process, ReadConfig, Reserve, Unreserve, Register, CheckActive,
           Post, Refuse, SendReturns, AnswerLost, Publish, RecallOwn, Abort
      <4> QED
        BY <1>a, <2>4, <2>5, <2>6, <4>1 DEF Attach
    <3>2. CASE ~Process(q)
      BY <2>4, <2>5, <2>8, <3>2, OwnMoves
    <3> QED
      BY <3>1, <3>2
  <2> QED
    BY <2>7, <2>8
<1> QED
  BY <1>1, <1>2

(* What a Range loop finds under an identifier has that identifier.         *)
LEMMA WalkedHasId ==
  ASSUME TypeInv, AdmitInv, NEW t \in Walker, NEW i \in Id, Walking(t), Walked(t)[i] # NULL
  PROVE  IdOf[Walked(t)[i]] = i
<1>1. CASE t = Restarter
  <2>1. CASE restart = "connWalk"
    <3>1. currentConn \in Conn /\ Walked(t)[i] = pending[currentConn][i]
      BY <1>1, <2>1 DEF TypeInv, ConnInv, Walked
    <3> QED
      BY <3>1 DEF AdmitInv
  <2>2. CASE restart # "connWalk"
    BY <1>1, <2>2 DEF Walked, AdmitInv
  <2> QED
    BY <2>1, <2>2
<1>2. CASE t # Restarter
  <2>1. serves[t] \in Conn /\ Walked(t)[i] = pending[serves[t]][i]
    BY <1>2 DEF Walking, Walker, TypeInv, ConnInv, Walked
  <2> QED
    BY <2>1 DEF AdmitInv
<1> QED
  BY <1>1, <1>2

(* A visit settles what it finds.                                           *)
LEMMA VisitSettles ==
  ASSUME TypeInv, NEW t \in Walker, NEW i \in Id, Visit(t, i)
  PROVE  Walked(t)[i] \in Req /\ by'[Walked(t)[i]] # "nobody"
<1>1. Walked(t)[i] \in Req
  BY WalkedType DEF Visit
<1>2. by \in [Req -> By]
  BY DEF TypeInv, TypeOK
<1> QED
  BY <1>1, <1>2 DEF Visit, Invalidate, Win

(* How a Range loop goes on: nothing else moves it.                         *)
LEMMA WalkMoves ==
  ASSUME TypeInv, [Next]_vars, NEW t \in Walker, ~RangeStep(t),
         t # Restarter => ~Connector(t), t = Restarter => ~RestartStep
  PROVE  walk'[t] = walk[t]
<1>a. walk \in [Walker -> WalkState]
  BY DEF TypeInv, TypeOK
<1>b. Restarter \in Walker /\ \A w \in Worker : w \in Walker /\ w # Restarter
  BY WalkerAssumption DEF Walker
<1>1. ASSUME NEW r \in Req, Process(r) \/ Settle(r)
      PROVE  UNCHANGED walk
  BY <1>1 DEF Process, Settle, ReadConfig, Reserve, Unreserve, Register, Attach,
     CheckActive, Post, Refuse, SendReturns, AnswerLost, Publish, RecallOwn,
     Abort, StopTimer, Unmap, Detach, Release, Answer, AnswerFails, Recall
<1>2. ASSUME NEW r \in Req,
             \/ \E w \in Worker : Arrive(r, w)
             \/ Fire(r)
             \/ OnTimeout(r)
             \/ \E k \in Clicker, d \in {"approve", "deny"} : Press(r, k, d)
      PROVE  UNCHANGED walk
  BY <1>2 DEF Arrive, Fire, OnTimeout, Press
<1>3. ASSUME NEW c \in clicks, Resolve(c) PROVE UNCHANGED walk
  BY <1>3 DEF Resolve
<1>4. ASSUME NEW o \in Walker \ {t}, RangeStep(o) PROVE walk'[t] = walk[t]
  BY <1>4, <1>a DEF RangeStep, Visit, Miss, Drop
<1>5. ASSUME NEW w \in Worker \ {t}, Connector(w) PROVE walk'[t] = walk[t]
  BY <1>5, <1>a DEF Connector, LeaveLoop, BeginDial, Dial, DialFails, Adopt,
     CloseOnStop, DecodeFails, Forget, Close, EndSweep
<1>6. ASSUME t # Restarter, RestartStep PROVE walk'[t] = walk[t]
  BY <1>6, <1>a, <1>b DEF RestartStep, StopWorker, CloseCurrent, EndConnWalk, EndMapWalk,
     ZeroCounter, Launch
<1>7. ASSUME NEW c \in Config, ApplyConfig(c) PROVE UNCHANGED walk
  BY <1>7 DEF ApplyConfig
<1>8. CASE UNCHANGED vars
  BY <1>8 DEF vars
<1> QED
  BY <1>b, <1>1, <1>2, <1>3, <1>4, <1>5, <1>6, <1>7, <1>8 DEF Next, Walker

LEMMA VisitNext ==
  ASSUME Distinct, TypeInv, AdmitInv, VisitInv, [Next]_vars
  PROVE  VisitInv'
<1> SUFFICES ASSUME NEW t \in Walker, NEW r \in Req, walk'[t].at = IdOf[r]
             PROVE  by'[r] # "nobody"
  BY DEF VisitInv
<1>a. walk \in [Walker -> WalkState] /\ IdOf[r] \in Id /\ NULL \notin Id
  BY IdAssumption, NullAssumption DEF TypeInv, TypeOK
<1>1. CASE walk'[t].at = walk[t].at
  BY <1>1, SettledStays DEF VisitInv
<1>2. ASSUME NEW i \in Id, Visit(t, i)
      PROVE  by'[r] # "nobody"
  <2>1. walk'[t].at = i
    BY <1>2, <1>a DEF Visit
  <2>2. IdOf[Walked(t)[i]] = i
    BY <1>2, WalkedHasId DEF Visit
  <2>3. r = Walked(t)[i]
    BY <1>2, <2>1, <2>2, VisitSettles DEF Distinct
  <2> QED
    BY <1>2, <2>3, VisitSettles
<1>3. CASE walk'[t].at = NULL
  BY <1>3, <1>a
<1>4. \/ walk'[t].at = walk[t].at
      \/ walk'[t].at = NULL
      \/ \E i \in Id : Visit(t, i)
  <2>1. ASSUME NEW i \in Id, Miss(t, i)
        PROVE  walk'[t].at = NULL
    BY <2>1, <1>a DEF Miss
  <2>2. CASE Drop(t)
    BY <2>2, <1>a DEF Drop
  <2>3. CASE t # Restarter /\ Connector(t)
    <3>1. walk' = walk \/ \E m : walk' = [walk EXCEPT ![t] = NewWalk(m)]
                       \/ walk' = [walk EXCEPT ![t] = IdleWalk]
      BY <2>3 DEF Connector, LeaveLoop, BeginDial, Dial, DialFails, Adopt,
         CloseOnStop, DecodeFails, Forget, Close, EndSweep
    <3> QED
      BY <3>1, <1>a DEF NewWalk, IdleWalk
  <2>4. CASE t = Restarter /\ RestartStep
    <3>1. walk' = walk \/ \E m : walk' = [walk EXCEPT ![t] = NewWalk(m)]
                       \/ walk' = [walk EXCEPT ![t] = IdleWalk]
      BY <2>4 DEF RestartStep, StopWorker, CloseCurrent, EndConnWalk, EndMapWalk,
         ZeroCounter, Launch
    <3> QED
      BY <3>1, <1>a DEF NewWalk, IdleWalk
  <2> QED
    BY <2>1, <2>2, <2>3, <2>4, WalkMoves DEF RangeStep
<1> QED
  BY <1>1, <1>2, <1>3, <1>4

(* A closed connection stays closed, and only the end of a walk says swept. *)
LEMMA LinkMoves ==
  ASSUME TypeInv, [Next]_vars
  PROVE  /\ \A c \in Conn : link[c] = "closed" => link'[c] = "closed"
         /\ \A c \in swept' : c \in swept \/ \E w \in Worker : EndSweep(w) /\ c = serves[w]
         /\ \A w \in Worker : worker'[w] = "sweep" =>
              Close(w) \/ (worker[w] = "sweep" /\ ~Connector(w) /\ serves'[w] = serves[w])
<1> DEFINE Goal ==
      /\ \A c \in Conn : link[c] = "closed" => link'[c] = "closed"
      /\ \A c \in swept' : c \in swept \/ \E w \in Worker : EndSweep(w) /\ c = serves[w]
      /\ \A w \in Worker : worker'[w] = "sweep" =>
           Close(w) \/ (worker[w] = "sweep" /\ ~Connector(w) /\ serves'[w] = serves[w])
<1>a. /\ link \in [Conn -> {"unused", "open", "closed"}] /\ worker \in [Worker -> WorkerPC]
      /\ serves \in [Worker -> Conn \cup {NULL}]
  BY DEF TypeInv, TypeOK
<1>b. \A w \in Worker : worker[w] = "sweep" /\ Connector(w) => EndSweep(w)
  BY DEF Connector, LeaveLoop, BeginDial, Dial, DialFails, Adopt,
     CloseOnStop, DecodeFails, Forget, Close
<1>c. \A w \in Worker : EndSweep(w) => worker'[w] = "loop"
  BY <1>a DEF EndSweep
<1>1. ASSUME UNCHANGED <<link, swept, worker, serves>>
      PROVE  Goal
  BY <1>1, <1>b, <1>c
<1>2. ASSUME NEW r \in Req, Process(r) \/ Settle(r)
      PROVE  UNCHANGED <<link, swept, worker, serves>>
  BY <1>2 DEF Process, Settle, ReadConfig, Reserve, Unreserve, Register, Attach,
     CheckActive, Post, Refuse, SendReturns, AnswerLost, Publish, RecallOwn,
     Abort, StopTimer, Unmap, Detach, Release, Answer, AnswerFails, Recall
<1>3. ASSUME NEW r \in Req,
             \/ \E w \in Worker : Arrive(r, w)
             \/ Fire(r)
             \/ OnTimeout(r)
             \/ \E k \in Clicker, d \in {"approve", "deny"} : Press(r, k, d)
      PROVE  UNCHANGED <<link, swept, worker, serves>>
  BY <1>3 DEF Arrive, Fire, OnTimeout, Press
<1>4. ASSUME NEW c \in clicks, Resolve(c) PROVE UNCHANGED <<link, swept, worker, serves>>
  BY <1>4 DEF Resolve
<1>5. ASSUME NEW t \in Walker, RangeStep(t) PROVE UNCHANGED <<link, swept, worker, serves>>
  BY <1>5 DEF RangeStep, Visit, Miss, Drop
<1>6. ASSUME NEW w \in Worker, Connector(w)
      PROVE  Goal
  <2>1. \A o \in Worker \ {w} : worker'[o] = worker[o] /\ serves'[o] = serves[o]
    BY <1>6, <1>a DEF Connector, LeaveLoop, BeginDial, Dial, DialFails, Adopt,
       CloseOnStop, DecodeFails, Forget, Close, EndSweep
  <2>2. \A o \in Worker \ {w} : ~Connector(o) \/ worker[o] # "sweep" \/ worker'[o] # "sweep"
    BY <1>b, <1>c
  <2>3. worker'[w] = "sweep" => Close(w)
    BY <1>6, <1>a DEF Connector, LeaveLoop, BeginDial, Dial, DialFails, Adopt,
       CloseOnStop, DecodeFails, Forget, EndSweep
  <2>4. \A c \in Conn : link[c] = "closed" => link'[c] = "closed"
    BY <1>6, <1>a DEF Connector, LeaveLoop, BeginDial, Dial, DialFails, Adopt,
       CloseOnStop, DecodeFails, Forget, Close, EndSweep
  <2>5. \A c \in swept' : c \in swept \/ (EndSweep(w) /\ c = serves[w])
    BY <1>6 DEF Connector, LeaveLoop, BeginDial, Dial, DialFails, Adopt,
       CloseOnStop, DecodeFails, Forget, Close, EndSweep
  <2> QED
    BY <2>1, <2>2, <2>3, <2>4, <2>5
<1>7. CASE RestartStep
  <2>1. UNCHANGED <<swept, serves>>
    BY <1>7 DEF RestartStep, StopWorker, CloseCurrent, EndConnWalk, EndMapWalk,
       ZeroCounter, Launch
  <2>2. \A w \in Worker : worker'[w] = "sweep" => worker[w] = "sweep"
    BY <1>7, <1>a DEF RestartStep, StopWorker, CloseCurrent, EndConnWalk, EndMapWalk,
       ZeroCounter, Launch
  <2>3. \A c \in Conn : link[c] = "closed" => link'[c] = "closed"
    BY <1>7, <1>a DEF RestartStep, StopWorker, CloseCurrent, EndConnWalk, EndMapWalk,
       ZeroCounter, Launch
  <2> QED
    BY <1>b, <1>c, <2>1, <2>2, <2>3
<1>8. ASSUME NEW c \in Config, ApplyConfig(c) PROVE UNCHANGED <<link, swept, worker, serves>>
  BY <1>8 DEF ApplyConfig
<1>9. CASE UNCHANGED vars
  BY <1>1, <1>9 DEF vars
<1> QED
  BY <1>1, <1>2, <1>3, <1>4, <1>5, <1>6, <1>7, <1>8, <1>9 DEF Next

(* While a loop over the entries of r's map goes on, r is still to come.    *)
LEMMA StillToCome ==
  ASSUME TypeInv, AdmitInv, [Next]_vars, NEW t \in Walker, RangeStep(t),
         NEW r \in Req, by'[r] = "nobody", Walked(t)[IdOf[r]] = r,
         IdOf[r] \in walk[t].due \ walk[t].seen
  PROVE  IdOf[r] \in walk'[t].due \ walk'[t].seen
<1>a. walk \in [Walker -> WalkState] /\ r # NULL
  BY NullAssumption DEF TypeInv, TypeOK
<1>1. ASSUME NEW i \in Id, Visit(t, i)
      PROVE  i # IdOf[r] /\ walk'[t].due = walk[t].due /\ walk'[t].seen = walk[t].seen \cup {i}
  BY <1>1, <1>a, VisitSettles DEF Visit
<1>2. ASSUME NEW i \in Id, Miss(t, i)
      PROVE  i # IdOf[r] /\ walk'[t].due = walk[t].due /\ walk'[t].seen = walk[t].seen \cup {i}
  BY <1>2, <1>a DEF Miss
<1>3. ASSUME Drop(t)
      PROVE  walk'[t].due = walk[t].due /\ walk'[t].seen = walk[t].seen
  BY <1>3, <1>a DEF Drop
<1> QED
  BY <1>1, <1>2, <1>3 DEF RangeStep

(* A walk that begins has the entries of its map before it.                 *)
LEMMA WalkBegins ==
  ASSUME NEW m, NEW r \in Req, m[IdOf[r]] = r
  PROVE  IdOf[r] \in NewWalk(m).due \ NewWalk(m).seen
  BY IdAssumption, NullAssumption DEF NewWalk, Entries

LEMMA SweepNext ==
  ASSUME TypeInv, AdmitInv, EarlyInv, EarlyInv', OpenIsListed, SweepInv, [Next]_vars
  PROVE  SweepInv'
<1>a. /\ link \in [Conn -> {"unused", "open", "closed"}] /\ swept \subseteq Conn
      /\ walk \in [Walker -> WalkState]
      /\ \A w \in Worker : w \in Walker /\ w # Restarter
      /\ \A w \in Worker : worker[w] \in {"close", "sweep"} => serves[w] \in Conn
  BY WalkerAssumption DEF TypeInv, TypeOK, ConnInv, Walker
<1>1. ASSUME NEW r \in Req, Late(r)', link[conn'[r]] = "closed"
      PROVE  /\ Late(r) /\ Open(r) /\ conn[r] = conn'[r] /\ by'[r] = "nobody"
             /\ pending[conn[r]][IdOf[r]] = r
  <2>1. Late(r) /\ conn[r] = conn'[r] /\ by'[r] = "nobody"
    BY <1>1, LateBefore DEF Late, Open
  <2> QED
    BY <2>1 DEF Late, OpenIsListed
<1>2. ASSUME NEW w \in Worker, EndSweep(w)
      PROVE  link[serves[w]] = "closed" /\ ~\E r \in Req : conn[r] = serves[w] /\ Late(r)
  BY <1>2 DEF EndSweep, WalkOver, SweepInv
<1>3. ASSUME NEW c \in swept'
      PROVE  link[c] = "closed" /\ link'[c] = "closed"
  <2>1. c \in swept \/ \E w \in Worker : EndSweep(w) /\ c = serves[w]
    BY <1>3, LinkMoves
  <2>2. link[c] = "closed" /\ c \in Conn
    BY <2>1, <1>2, <1>a DEF SweepInv, EndSweep
  <2> QED
    BY <2>2, LinkMoves
<1>4. SweptLeavesNoneOpen'
  <2>1. SUFFICES ASSUME NEW r \in Req, conn'[r] \in swept', Late(r)'
                 PROVE  FALSE
    BY DEF SweptLeavesNoneOpen, Late
  <2>2. Late(r) /\ Open(r) /\ conn[r] = conn'[r]
    BY <1>1, <1>3, <2>1
  <2>3. conn[r] \notin swept
    BY <2>2 DEF SweepInv, SweptLeavesNoneOpen, Late
  <2>4. \E w \in Worker : EndSweep(w) /\ conn[r] = serves[w]
    BY <2>1, <2>2, <2>3, LinkMoves
  <2> QED
    BY <1>2, <2>2, <2>4
<1>5. ASSUME NEW w \in Worker, Close(w)
      PROVE  /\ link'[serves'[w]] = "closed"
             /\ \A r \in Req : conn'[r] = serves'[w] /\ Late(r)' =>
                  IdOf[r] \in walk'[w].due \ walk'[w].seen
  <2>1. /\ serves' = serves /\ serves[w] \in Conn
        /\ link' = [link EXCEPT ![serves[w]] = "closed"] /\ UNCHANGED reqVars
        /\ walk'[w] = NewWalk(pending[serves[w]])
    BY <1>5, <1>a DEF Close
  <2>2. ASSUME NEW r \in Req, conn'[r] = serves'[w], Late(r)'
        PROVE  pending[serves[w]][IdOf[r]] = r
    <3>1. Open(r) /\ conn[r] = serves[w] /\ pc[r] # "attach"
      BY <2>1, <2>2, LateBefore DEF Late
    <3> QED
      BY <3>1 DEF OpenIsListed
  <2>3. link'[serves'[w]] = "closed"
    BY <2>1, <1>a
  <2> QED
    BY <2>1, <2>2, <2>3, WalkBegins
<1>6. ASSUME NEW w \in Worker, worker[w] = "sweep", ~Connector(w), serves'[w] = serves[w]
      PROVE  /\ link'[serves'[w]] = "closed"
             /\ \A r \in Req : conn'[r] = serves'[w] /\ Late(r)' =>
                  IdOf[r] \in walk'[w].due \ walk'[w].seen
  <2>1. link[serves[w]] = "closed" /\ link'[serves'[w]] = "closed"
    BY <1>6, <1>a, LinkMoves DEF SweepInv
  <2>2. ASSUME NEW r \in Req, conn'[r] = serves'[w], Late(r)'
        PROVE  IdOf[r] \in walk'[w].due \ walk'[w].seen
    <3>1. /\ Late(r) /\ conn[r] = serves[w] /\ by'[r] = "nobody"
          /\ pending[serves[w]][IdOf[r]] = r
      BY <1>1, <1>6, <2>1, <2>2
    <3>2. IdOf[r] \in walk[w].due \ walk[w].seen
      BY <1>6, <3>1 DEF SweepInv
    <3>3. Walked(w)[IdOf[r]] = r /\ w \in Walker /\ w # Restarter
      BY <1>a, <3>1 DEF Walked
    <3>4. CASE RangeStep(w)
      BY <3>1, <3>2, <3>3, <3>4, StillToCome
    <3>5. CASE ~RangeStep(w)
      BY <1>6, <3>2, <3>3, <3>5, WalkMoves
    <3> QED
      BY <3>4, <3>5
  <2> QED
    BY <2>1, <2>2
<1>7. \A w \in Worker : worker'[w] = "sweep" =>
        Close(w) \/ (worker[w] = "sweep" /\ ~Connector(w) /\ serves'[w] = serves[w])
  BY LinkMoves
<1> QED
  BY <1>3, <1>4, <1>5, <1>6, <1>7 DEF SweepInv

(* The restart goes its way: nothing else moves it.                         *)
LEMMA RestartMoves ==
  ASSUME [Next]_vars, ~RestartStep, \A c \in Config : ~ApplyConfig(c)
  PROVE  UNCHANGED <<restart, config>>
<1>1. ASSUME NEW r \in Req, Process(r) \/ Settle(r)
      PROVE  UNCHANGED <<restart, config>>
  BY <1>1 DEF Process, Settle, ReadConfig, Reserve, Unreserve, Register, Attach,
     CheckActive, Post, Refuse, SendReturns, AnswerLost, Publish, RecallOwn,
     Abort, StopTimer, Unmap, Detach, Release, Answer, AnswerFails, Recall
<1>2. ASSUME NEW r \in Req,
             \/ \E w \in Worker : Arrive(r, w)
             \/ Fire(r)
             \/ OnTimeout(r)
             \/ \E k \in Clicker, d \in {"approve", "deny"} : Press(r, k, d)
      PROVE  UNCHANGED <<restart, config>>
  BY <1>2 DEF Arrive, Fire, OnTimeout, Press
<1>3. ASSUME NEW c \in clicks, Resolve(c) PROVE UNCHANGED <<restart, config>>
  BY <1>3 DEF Resolve
<1>4. ASSUME NEW t \in Walker, RangeStep(t) PROVE UNCHANGED <<restart, config>>
  BY <1>4 DEF RangeStep, Visit, Miss, Drop
<1>5. ASSUME NEW w \in Worker, Connector(w) PROVE UNCHANGED <<restart, config>>
  BY <1>5 DEF Connector, LeaveLoop, BeginDial, Dial, DialFails, Adopt,
     CloseOnStop, DecodeFails, Forget, Close, EndSweep
<1>6. CASE UNCHANGED vars
  BY <1>6 DEF vars
<1> QED
  BY <1>1, <1>2, <1>3, <1>4, <1>5, <1>6 DEF Next

(* Every click that is under way was so before, or passes the check now.    *)
LEMMA ClicksMove ==
  ASSUME [Next]_vars, NEW k \in clicks'
  PROVE  k \in clicks \/ (Authorised(config, k.who) /\ UNCHANGED config)
<1>1. ASSUME NEW r \in Req, Process(r) \/ Settle(r)
      PROVE  UNCHANGED clicks
  BY <1>1 DEF Process, Settle, ReadConfig, Reserve, Unreserve, Register, Attach,
     CheckActive, Post, Refuse, SendReturns, AnswerLost, Publish, RecallOwn,
     Abort, StopTimer, Unmap, Detach, Release, Answer, AnswerFails, Recall
<1>2. ASSUME NEW r \in Req,
             \/ \E w \in Worker : Arrive(r, w)
             \/ Fire(r)
             \/ OnTimeout(r)
      PROVE  UNCHANGED clicks
  BY <1>2 DEF Arrive, Fire, OnTimeout
<1>3. ASSUME NEW r \in Req, NEW c \in Clicker, NEW d \in {"approve", "deny"}, Press(r, c, d)
      PROVE  k \in clicks \/ (Authorised(config, k.who) /\ UNCHANGED config)
  BY <1>3 DEF Press
<1>4. ASSUME NEW c \in clicks, Resolve(c) PROVE k \in clicks
  BY <1>4 DEF Resolve
<1>5. ASSUME NEW t \in Walker, RangeStep(t) PROVE UNCHANGED clicks
  BY <1>5 DEF RangeStep, Visit, Miss, Drop
<1>6. ASSUME \/ \E w \in Worker : Connector(w)
             \/ RestartStep
             \/ \E c \in Config : ApplyConfig(c)
             \/ UNCHANGED vars
      PROVE  UNCHANGED clicks
  BY <1>6, OthersFrame
<1> QED
  BY <1>1, <1>2, <1>3, <1>4, <1>5, <1>6 DEF Next

LEMMA StaleNext ==
  ASSUME TypeInv, AdmitInv, OpenIsListed, StaleInv, [Next]_vars
  PROVE  StaleInv'
<1> SUFFICES ASSUME NEW k \in clicks', ~Authorised(config', k.who), by'[k.req] = "nobody"
             PROVE  \/ restart' \in {"stop", "close", "connWalk"}
                    \/ /\ restart' = "mapWalk"
                       /\ IdOf[k.req] \in walk'[Restarter].due \ walk'[Restarter].seen
  BY DEF StaleInv, Authorised
<1>a. walk \in [Walker -> WalkState] /\ Restarter \in Walker
  BY DEF TypeInv, TypeOK, Walker
<1>1. ASSUME NEW c \in Config, ApplyConfig(c)
      PROVE  restart' = "stop"
  BY <1>1 DEF ApplyConfig
<1>2. ASSUME \A c \in Config : ~ApplyConfig(c)
      PROVE  \/ restart' \in {"stop", "close", "connWalk"}
             \/ /\ restart' = "mapWalk"
                /\ IdOf[k.req] \in walk'[Restarter].due \ walk'[Restarter].seen
  <2>1. config' = config
    <3>1. CASE RestartStep
      BY <3>1 DEF RestartStep, StopWorker, CloseCurrent, EndConnWalk, EndMapWalk,
         ZeroCounter, Launch
    <3> QED
      BY <1>2, <3>1, RestartMoves
  <2>2. k \in clicks /\ ~Authorised(config, k.who)
    BY <2>1, ClicksMove
  <2>3. k.req \in Req /\ Admitted(k.req)
    BY <2>2 DEF AdmitInv, TypeInv, TypeOK, Click
  <2>4. by[k.req] = "nobody"
    BY <2>3, SettledStays
  <2>5. pendingMap[IdOf[k.req]] = k.req
    BY <2>3, <2>4 DEF OpenIsListed, Open
  <2>6. \/ restart \in {"stop", "close", "connWalk"}
        \/ /\ restart = "mapWalk"
           /\ IdOf[k.req] \in walk[Restarter].due \ walk[Restarter].seen
    BY <2>2, <2>4 DEF StaleInv
  <2>7. CASE RestartStep
    <3>1. CASE StopWorker
      BY <3>1 DEF StopWorker
    <3>2. CASE CloseCurrent \/ EndConnWalk
      <4>1. \/ restart' = "connWalk"
            \/ restart' = "mapWalk" /\ walk'[Restarter] = NewWalk(pendingMap)
        BY <3>2, <1>a DEF CloseCurrent, EndConnWalk
      <4> QED
        BY <2>3, <2>5, <4>1, WalkBegins
    <3>3. CASE EndMapWalk
      BY <2>6, <3>3 DEF EndMapWalk, WalkOver
    <3>4. CASE ZeroCounter \/ Launch
      BY <2>6, <3>4 DEF ZeroCounter, Launch
    <3> QED
      BY <2>7, <3>1, <3>2, <3>3, <3>4 DEF RestartStep
  <2>8. CASE ~RestartStep
    <3>1. restart' = restart
      BY <1>2, <2>8, RestartMoves
    <3>2. CASE restart = "mapWalk" /\ RangeStep(Restarter)
      <4>1. Walked(Restarter)[IdOf[k.req]] = k.req
        BY <2>5, <3>2 DEF Walked
      <4> QED
        BY <1>a, <2>3, <2>6, <3>1, <3>2, <4>1, StillToCome
    <3>3. CASE ~RangeStep(Restarter)
      BY <1>a, <2>6, <2>8, <3>1, <3>3, WalkMoves
    <3> QED
      BY <2>6, <3>1, <3>2, <3>3
  <2> QED
    BY <2>7, <2>8
<1> QED
  BY <1>1, <1>2

(* Only a click approves or denies.                                         *)
LEMMA ClicksDecide ==
  ASSUME TypeInv, [Next]_vars, NEW q \in Req, by[q] = "nobody", by'[q] \in {"approve", "deny"}
  PROVE  \E k \in clicks : k.req = q /\ grant'[q] = k.who
<1>a. /\ by \in [Req -> By] /\ grant \in [Req -> Clicker \cup {NULL}]
      /\ \A k \in clicks : k.req \in Req
  BY DEF TypeInv, TypeOK, Click
<1>1. ASSUME NEW k \in clicks, Resolve(k)
      PROVE  k.req = q /\ grant'[q] = k.who
  <2>1. by[k.req] = "nobody"
    BY <1>1 DEF Resolve
  <2> QED
    BY <1>1, <2>1, <1>a DEF Resolve, Win
<1>2. ASSUME \A k \in clicks : ~Resolve(k)
      PROVE  by' = by \/ \E r \in Req, who \in {"timeout", "invalidate"} :
                           by' = [by EXCEPT ![r] = who]
  <2>1. ASSUME NEW r \in Req, Process(r)
        PROVE  by' = by \/ by' = [by EXCEPT ![r] = "invalidate"]
    <3>1. CASE Abort(r)
      BY <3>1 DEF Abort, Invalidate, Win
    <3>2. CASE ~Abort(r)
      BY <2>1, <3>2 DEF Process, ReadConfig, Reserve, Unreserve, Register,
         Attach, CheckActive, Post, Refuse, SendReturns, AnswerLost, Publish,
         RecallOwn
    <3> QED
      BY <3>1, <3>2
  <2>2. ASSUME NEW r \in Req,
               \/ Settle(r) \/ Fire(r)
               \/ \E w \in Worker : Arrive(r, w)
               \/ \E k \in Clicker, d \in {"approve", "deny"} : Press(r, k, d)
        PROVE  by' = by
    BY <2>2 DEF Settle, StopTimer, Unmap, Detach, Release, Answer, AnswerFails, Recall,
       Fire, Arrive, Press
  <2>3. ASSUME NEW r \in Req, OnTimeout(r)
        PROVE  by' = by \/ by' = [by EXCEPT ![r] = "timeout"]
    BY <2>3 DEF OnTimeout, Win
  <2>4. ASSUME NEW t \in Walker, RangeStep(t)
        PROVE  by' = by \/ \E r \in Req : by' = [by EXCEPT ![r] = "invalidate"]
    <3>1. ASSUME NEW i \in Id, Visit(t, i)
          PROVE  by' = by \/ \E r \in Req : by' = [by EXCEPT ![r] = "invalidate"]
      BY <3>1, VisitSettles DEF Visit, Invalidate, Win
    <3>2. CASE ~\E i \in Id : Visit(t, i)
      BY <2>4, <3>2 DEF RangeStep, Miss, Drop
    <3> QED
      BY <3>1, <3>2
  <2>5. ASSUME \/ \E w \in Worker : Connector(w)
               \/ RestartStep
               \/ \E c \in Config : ApplyConfig(c)
               \/ UNCHANGED vars
        PROVE  by' = by
    BY <2>5, OthersFrame
  <2> QED
    BY <1>2, <2>1, <2>2, <2>3, <2>4, <2>5 DEF Next
<1>3. ~\A k \in clicks : ~Resolve(k)
  BY <1>2, <1>a
<1> QED
  BY <1>1, <1>3

ListInv == BaseInv /\ VisitInv /\ OpenIsListed /\ SweepInv /\ StaleInv

LEMMA ListHolds ==
  ASSUME Distinct
  PROVE  Spec => []ListInv
<1>1. Init => VisitInv /\ OpenIsListed /\ SweepInv /\ StaleInv
  <2>1. SUFFICES ASSUME Init
                 PROVE  VisitInv /\ OpenIsListed /\ SweepInv /\ StaleInv
    OBVIOUS
  <2>2. VisitInv
    BY <2>1, IdAssumption, NullAssumption DEF Init, VisitInv, IdleWalk
  <2>3. \A r \in Req : ~Open(r)
    BY <2>1 DEF Init, Open, Admitted
  <2>4. \A w \in Worker : worker[w] # "sweep"
    BY <2>1 DEF Init
  <2>5. swept = {} /\ clicks = {}
    BY <2>1 DEF Init
  <2> QED
    BY <2>2, <2>3, <2>4, <2>5
       DEF OpenIsListed, SweepInv, SweptLeavesNoneOpen, StaleInv
<1>2. Spec => []BaseInv
  BY BaseHolds
<1>3. BaseInv /\ BaseInv' /\ VisitInv /\ OpenIsListed /\ SweepInv /\ StaleInv /\ [Next]_vars
        => VisitInv' /\ OpenIsListed' /\ SweepInv' /\ StaleInv'
  BY VisitNext, ListNext, SweepNext, StaleNext DEF BaseInv
<1> QED
  BY <1>1, <1>2, <1>3, PTL DEF Spec, ListInv

(* As long as ssh-qqauth uses no identifier twice, whoever looks for open   *)
(* requests finds them: LoadOrStore and Store in processApprovalRequest     *)
(* against the Deletes of cleanup and of the Range loops.                   *)
THEOREM OpenListed == Distinct => (Spec => []OpenIsListed)
<1>1. SUFFICES ASSUME Distinct PROVE Spec => []OpenIsListed
  OBVIOUS
<1>2. ListInv => OpenIsListed
  BY DEF ListInv
<1> QED
  BY <1>1, <1>2, ListHolds, PTL

(* As long as ssh-qqauth uses no identifier twice, the clean-up of a        *)
(* connection, which may race with requests that register, leaves no        *)
(* request waiting that will not see the closed connection itself:          *)
(* handleConnection's deferred clean-up and the check after the Store.      *)
THEOREM SweepComplete == Distinct => (Spec => []SweptLeavesNoneOpen)
<1>1. SUFFICES ASSUME Distinct PROVE Spec => []SweptLeavesNoneOpen
  OBVIOUS
<1>2. ListInv => SweptLeavesNoneOpen
  BY DEF ListInv, SweepInv
<1> QED
  BY <1>1, <1>2, ListHolds, PTL

(* As long as ssh-qqauth uses no identifier twice, a click that was checked *)
(* under an earlier configuration decides nothing once the restart that     *)
(* follows the change is over: handleApprovalCallback checks before the     *)
(* swap, restartWorker settles what is in the map.                          *)
THEOREM DecisionFollows == Distinct => (Spec => DecisionFollowsConfig)
<1>1. SUFFICES ASSUME Distinct PROVE Spec => DecisionFollowsConfig
  OBVIOUS
<1> DEFINE Follows == \A r \in Req :
       by[r] = "nobody" /\ by'[r] \in {"approve", "deny"} =>
         restart # "idle" \/ Authorised(config, grant'[r])
<1>2. ASSUME ListInv, [Next]_vars PROVE Follows
  <2>1. SUFFICES ASSUME NEW r \in Req, by[r] = "nobody", by'[r] \in {"approve", "deny"}
                 PROVE  restart # "idle" \/ Authorised(config, grant'[r])
    OBVIOUS
  <2>2. PICK k \in clicks : k.req = r /\ grant'[r] = k.who
    BY <1>2, <2>1, ClicksDecide DEF ListInv, BaseInv
  <2> QED
    BY <1>2, <2>1, <2>2 DEF ListInv, StaleInv
<1>3. ListInv /\ [Next]_vars => [Follows]_vars
  BY <1>2
<1> QED
  BY <1>1, <1>3, ListHolds, PTL DEF Spec, DecisionFollowsConfig

=============================================================================
