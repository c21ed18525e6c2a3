--------------------------- MODULE SshAuthSafety ---------------------------
(***************************************************************************)
(* Theorems about SshAuth, for every number of requests, connections and   *)
(* configurations and every capacity, with their proofs: types, and the    *)
(* safety of one login request: who settles it, what becomes of its        *)
(* message, its timer and its identifier.                                  *)
(***************************************************************************)
EXTENDS SshAuth, TLAPS

-----------------------------------------------------------------------------
(* Types                                                                   *)

(* Who uses a connection has one: a worker from its dial to the end of its  *)
(* clean-up, a restart that walks over it, and a request.                   *)
ConnInv ==
  /\ \A w \in Worker :
       worker[w] \in {"adopt", "serve", "forget", "close", "sweep"} =>
         serves[w] \in Conn
  /\ restart = "connWalk" => currentConn \in Conn
  /\ \A r \in Req : pc[r] # "idle" => conn[r] \in Conn

(* A request that may post has an attempt left, and each post took one.     *)
AttemptInv ==
  \A r \in Req :
    /\ pc[r] \in {"idle", "config", "reserve", "unreserve", "register",
                  "attach", "check"} => attempt[r] = 0
    /\ pc[r] = "send" => attempt[r] < MaxAttempts
    /\ posted[r] <= attempt[r]

TypeInv == TypeOK /\ ConnInv /\ AttemptInv

USE DEF authVars, sendVars, reqVars, mapVars, linkVars, restVars, linkRest

LEMMA TypeInvInit == Init => TypeInv
<1> SUFFICES ASSUME Init PROVE TypeInv
  OBVIOUS
<1> USE DEF Init
<1>1. TypeOK
  BY IdAssumption, ConfigAssumption, BoundAssumption, NullAssumption
  DEF TypeOK, PC, By, Status, SettlePC, WorkerPC, RestartPC, Click,
      WalkState, IdleWalk, Worker
<1>2. ConnInv
  BY DEF ConnInv
<1>3. AttemptInv
  BY BoundAssumption DEF AttemptInv
<1> QED
  BY <1>1, <1>2, <1>3 DEF TypeInv

(* A won swap keeps the types of what it writes. *)
LEMMA WinType ==
  ASSUME TypeOK, NEW r \in Req, NEW who \in By, NEW s \in Status,
         Win(r, who, s)
  PROVE  /\ by' \in [Req -> By]
         /\ status' \in [Req -> Status]
         /\ settle' \in [Req -> SettlePC]
  BY DEF TypeOK, Win, SettlePC

LEMMA TypeInvRequest ==
  ASSUME TypeInv, NEW r \in Req, Process(r)
  PROVE  TypeInv'
<1> USE DEF TypeInv, TypeOK, ConnInv, AttemptInv, PC
<1>1. CASE ReadConfig(r)
  BY <1>1 DEF ReadConfig
<1>2. CASE Reserve(r)
  BY <1>2 DEF Reserve
<1>3. CASE Unreserve(r)
  BY <1>3 DEF Unreserve
<1>4. CASE Register(r)
  <2>1. IdOf[r] \in Id
    BY IdAssumption
  <2>2. CASE pendingMap[IdOf[r]] = NULL
    BY <1>4, <2>1, <2>2, SMTT(40) DEF Register
  <2>3. CASE pendingMap[IdOf[r]] # NULL
    BY <1>4, <2>1, <2>3 DEF Register
  <2> QED
    BY <2>2, <2>3
<1>5. CASE Attach(r)
  BY <1>5, IdAssumption DEF Attach
<1>6. CASE CheckActive(r)
  BY <1>6, BoundAssumption DEF CheckActive
<1>7. CASE Post(r)
  BY <1>7, BoundAssumption DEF Post
<1>8. CASE Refuse(r)
  BY <1>8, BoundAssumption DEF Refuse
<1>9. CASE SendReturns(r)
  BY <1>9 DEF SendReturns
<1>10. CASE AnswerLost(r)
  BY <1>10 DEF AnswerLost
<1>11. CASE Publish(r)
  BY <1>11, ZenonT(60) DEF Publish
<1>12. CASE RecallOwn(r)
  BY <1>12 DEF RecallOwn
<1>13. CASE Abort(r)
  <2>1. CASE by[r] = "nobody"
    BY <1>13, <2>1, ZenonT(60) DEF Abort, Invalidate, Win, By, Status, SettlePC
  <2>2. CASE by[r] # "nobody"
    BY <1>13, <2>2 DEF Abort, Invalidate
  <2> QED
    BY <2>1, <2>2
<1> QED
  BY <1>1, <1>2, <1>3, <1>4, <1>5, <1>6, <1>7, <1>8, <1>9, <1>10, <1>11,
     <1>12, <1>13 DEF Process

LEMMA TypeInvSettle ==
  ASSUME TypeInv, NEW r \in Req, Settle(r)
  PROVE  TypeInv'
<1> USE DEF TypeInv, TypeOK, ConnInv, AttemptInv, SettlePC
<1>1. CASE StopTimer(r)
  BY <1>1 DEF StopTimer
<1>2. CASE Unmap(r)
  BY <1>2, IdAssumption DEF Unmap
<1>3. CASE Detach(r)
  BY <1>3, IdAssumption DEF Detach
<1>4. CASE Release(r)
  BY <1>4 DEF Release
<1>5. CASE Answer(r)
  BY <1>5 DEF Answer, Status
<1>6. CASE AnswerFails(r)
  BY <1>6 DEF AnswerFails, Status
<1>7. CASE Recall(r)
  BY <1>7 DEF Recall
<1> QED
  BY <1>1, <1>2, <1>3, <1>4, <1>5, <1>6, <1>7 DEF Settle

LEMMA TypeInvRace ==
  ASSUME TypeInv, NEW r \in Req,
         \/ \E w \in Worker : Arrive(r, w)
         \/ Fire(r)
         \/ OnTimeout(r)
         \/ \E k \in Clicker, d \in {"approve", "deny"} : Press(r, k, d)
  PROVE  TypeInv'
<1> USE DEF TypeInv, TypeOK, ConnInv, AttemptInv
<1>1. ASSUME NEW w \in Worker, Arrive(r, w) PROVE TypeInv'
  BY <1>1 DEF Arrive, PC
<1>2. CASE Fire(r)
  BY <1>2 DEF Fire
<1>3. CASE OnTimeout(r)
  BY <1>3, ZenonT(60) DEF OnTimeout, Win, By, Status, SettlePC
<1>4. ASSUME NEW k \in Clicker, NEW d \in {"approve", "deny"}, Press(r, k, d)
      PROVE  TypeInv'
  BY <1>4 DEF Press, Click
<1> QED
  BY <1>1, <1>2, <1>3, <1>4

LEMMA TypeInvResolve ==
  ASSUME TypeInv, NEW c \in clicks, Resolve(c)
  PROVE  TypeInv'
<1>1. c.req \in Req /\ c.who \in Clicker /\ c.decision \in {"approve", "deny"}
  BY DEF TypeInv, TypeOK, Click
<1>2. CASE by[c.req] = "nobody"
  <2>1. Win(c.req, c.decision, "pending")
    BY <1>2 DEF Resolve
  <2>2. /\ by' \in [Req -> By]
        /\ status' \in [Req -> Status]
        /\ settle' \in [Req -> SettlePC]
    BY <1>1, <2>1, WinType DEF TypeInv, By, Status
  <2>3. grant' \in [Req -> Clicker \cup {NULL}]
    BY <1>1, <1>2 DEF Resolve, TypeInv, TypeOK
  <2> QED
    BY <2>2, <2>3 DEF Resolve, TypeInv, TypeOK, ConnInv, AttemptInv
<1>3. CASE by[c.req] # "nobody"
  BY <1>1, <1>3 DEF Resolve, TypeInv, TypeOK, ConnInv, AttemptInv
<1> QED
  BY <1>2, <1>3

(* Deleting one entry of a connection's map leaves a map per connection.    *)
LEMMA DeleteType ==
  ASSUME pending \in [Conn -> [Id -> Req \cup {NULL}]],
         NEW c \in Conn, NEW i \in Id
  PROVE  [pending EXCEPT ![c][i] = NULL] \in [Conn -> [Id -> Req \cup {NULL}]]
  OBVIOUS

LEMMA NewWalkType == \A m : NewWalk(m) \in WalkState
  BY DEF NewWalk, Entries, WalkState

(* The map under a Range loop is one of the maps of the plugin. *)
LEMMA WalkedType ==
  ASSUME TypeInv, NEW t \in Walker, Walking(t)
  PROVE  Walked(t) \in [Id -> Req \cup {NULL}]
<1> USE DEF TypeInv, TypeOK, ConnInv, Walked, Walking
<1>1. CASE t = Restarter
  BY <1>1
<1>2. CASE t # Restarter
  BY <1>2 DEF Walker
<1> QED
  BY <1>1, <1>2

LEMMA TypeInvRange ==
  ASSUME TypeInv, NEW t \in Walker, RangeStep(t)
  PROVE  TypeInv'
<1> USE DEF TypeInv, TypeOK, ConnInv, AttemptInv
<1>1. ASSUME NEW i \in Id, Visit(t, i) PROVE TypeInv'
  <2>1. Walking(t)
    BY <1>1 DEF Visit
  <2>2. Walked(t) \in [Id -> Req \cup {NULL}]
    BY <2>1, WalkedType
  <2>3. PICK q \in Req : Walked(t)[i] = q
    BY <1>1, <2>2 DEF Visit
  <2>4. walk[t] \in WalkState
    OBVIOUS
  <2>5. [due |-> walk[t].due, seen |-> walk[t].seen \cup {i}, at |-> i,
         wait |-> IF by[q] = "nobody" THEN q ELSE NULL] \in WalkState
    BY <2>4 DEF WalkState
  <2>6. walk' \in [Walker -> WalkState]
    BY <1>1, <2>3, <2>5 DEF Visit
  <2>7. Invalidate(q)
    BY <1>1, <2>3 DEF Visit
  <2>8. /\ by' \in [Req -> By]
        /\ status' \in [Req -> Status]
        /\ settle' \in [Req -> SettlePC]
    BY <2>7, WinType DEF Invalidate, By, Status
  <2>9. UNCHANGED <<timer, grant, sendVars, reqVars, mapVars, linkVars,
                    restVars, clicks>>
    BY <1>1 DEF Visit
  <2> QED
    BY <2>6, <2>8, <2>9
<1>2. ASSUME NEW i \in Id, Miss(t, i) PROVE TypeInv'
  BY <1>2 DEF Miss, WalkState
<1>3. CASE Drop(t)
  <2>1. walk' \in [Walker -> WalkState] /\ walk[t].at \in Id
    BY <1>3 DEF Drop, WalkState
  <2>2. /\ pendingMap' \in [Id -> Req \cup {NULL}]
        /\ pending' \in [Conn -> [Id -> Req \cup {NULL}]]
    <3>1. CASE t = Restarter /\ restart = "mapWalk"
      BY <1>3, <2>1, <3>1 DEF Drop
    <3>2. CASE t = Restarter /\ restart = "connWalk"
      <4>1. currentConn \in Conn
        BY <3>2
      <4>2. /\ pending' = [pending EXCEPT ![currentConn][walk[t].at] = NULL]
            /\ UNCHANGED pendingMap
        BY <1>3, <3>2 DEF Drop
      <4> QED
        BY <2>1, <4>1, <4>2, DeleteType
    <3>3. CASE t # Restarter
      <4>1. serves[t] \in Conn
        BY <1>3, <3>3 DEF Drop, Walking, Walker
      <4>2. /\ pending' = [pending EXCEPT ![serves[t]][walk[t].at] = NULL]
            /\ UNCHANGED pendingMap
        BY <1>3, <3>3 DEF Drop
      <4> QED
        BY <2>1, <4>1, <4>2, DeleteType
    <3> QED
      BY <1>3, <3>1, <3>2, <3>3 DEF Drop, Walking
  <2>3. UNCHANGED <<authVars, sendVars, reqVars, pendingCounter, linkVars,
                    restVars, clicks>>
    BY <1>3 DEF Drop
  <2> QED
    BY <2>1, <2>2, <2>3
<1> QED
  BY <1>1, <1>2, <1>3 DEF RangeStep

LEMMA TypeInvConnector ==
  ASSUME TypeInv, NEW w \in Worker, Connector(w)
  PROVE  TypeInv'
<1> USE DEF TypeInv, TypeOK, ConnInv, AttemptInv, WorkerPC
<1>1. CASE LeaveLoop(w)
  BY <1>1 DEF LeaveLoop
<1>2. CASE BeginDial(w)
  BY <1>2 DEF BeginDial
<1>3. ASSUME NEW c \in Conn, Dial(w, c) PROVE TypeInv'
  BY <1>3 DEF Dial
<1>4. CASE DialFails(w)
  BY <1>4 DEF DialFails
<1>5. CASE Adopt(w)
  BY <1>5 DEF Adopt, workerMuFree
<1>6. CASE CloseOnStop(w)
  BY <1>6 DEF CloseOnStop
<1>7. CASE DecodeFails(w)
  BY <1>7 DEF DecodeFails
<1>8. CASE Forget(w)
  BY <1>8 DEF Forget, workerMuFree
<1>9. CASE Close(w)
  <2>1. walk' \in [Walker -> WalkState]
    BY <1>9, NewWalkType DEF Close
  <2> QED
    BY <1>9, <2>1 DEF Close
<1>10. CASE EndSweep(w)
  <2>1. walk' \in [Walker -> WalkState]
    BY <1>10 DEF EndSweep, IdleWalk, WalkState
  <2> QED
    BY <1>10, <2>1 DEF EndSweep
<1> QED
  BY <1>1, <1>2, <1>3, <1>4, <1>5, <1>6, <1>7, <1>8, <1>9, <1>10
  DEF Connector

LEMMA TypeInvRestart ==
  ASSUME TypeInv,
         RestartStep \/ \E c \in Config : ApplyConfig(c)
  PROVE  TypeInv'
<1> USE DEF TypeInv, TypeOK, ConnInv, AttemptInv, RestartPC
<1>1. ASSUME NEW c \in Config, ApplyConfig(c) PROVE TypeInv'
  BY <1>1, BoundAssumption DEF ApplyConfig
<1>2. CASE StopWorker
  BY <1>2 DEF StopWorker
<1>3. CASE CloseCurrent
  <2>1. CASE currentConn # NULL
    <3>1. walk' \in [Walker -> WalkState]
      BY <1>3, <2>1, NewWalkType, SMTT(40) DEF CloseCurrent
    <3>2. /\ link' \in [Conn -> {"unused", "open", "closed"}]
          /\ restart' \in RestartPC
          /\ restart' = "connWalk" => currentConn \in Conn
      BY <1>3, <2>1 DEF CloseCurrent
    <3>3. UNCHANGED <<authVars, sendVars, reqVars, mapVars, swept, worker,
                      serves, stopped, currentConn, config, workerStopCh,
                      applies, clicks>>
      BY <1>3, <2>1 DEF CloseCurrent
    <3> QED
      BY <3>1, <3>2, <3>3
  <2>2. CASE currentConn = NULL
    <3>1. walk' \in [Walker -> WalkState]
      BY <1>3, <2>2, NewWalkType DEF CloseCurrent
    <3>2. /\ link' \in [Conn -> {"unused", "open", "closed"}]
          /\ restart' \in RestartPC
          /\ restart' = "connWalk" => currentConn \in Conn
      BY <1>3, <2>2 DEF CloseCurrent
    <3>3. UNCHANGED <<authVars, sendVars, reqVars, mapVars, swept, worker,
                      serves, stopped, currentConn, config, workerStopCh,
                      applies, clicks>>
      BY <1>3, <2>2 DEF CloseCurrent
    <3> QED
      BY <3>1, <3>2, <3>3
  <2> QED
    BY <2>1, <2>2
<1>4. CASE EndConnWalk
  <2>1. walk' \in [Walker -> WalkState]
    BY <1>4, NewWalkType DEF EndConnWalk
  <2> QED
    BY <1>4, <2>1 DEF EndConnWalk
<1>5. CASE EndMapWalk
  <2>1. walk' \in [Walker -> WalkState]
    BY <1>5 DEF EndMapWalk, IdleWalk, WalkState
  <2> QED
    BY <1>5, <2>1 DEF EndMapWalk
<1>6. CASE ZeroCounter
  BY <1>6 DEF ZeroCounter
<1>7. CASE Launch
  <2>1. applies \in Worker
    BY DEF Worker
  <2> QED
    BY <1>7, <2>1, SMTT(40) DEF Launch, WorkerPC
<1> QED
  BY <1>1, <1>2, <1>3, <1>4, <1>5, <1>6, <1>7 DEF RestartStep

LEMMA TypeInvNext == TypeInv /\ [Next]_vars => TypeInv'
<1> SUFFICES ASSUME TypeInv, [Next]_vars PROVE TypeInv'
  OBVIOUS
<1>1. ASSUME NEW r \in Req, Process(r) PROVE TypeInv'
  BY <1>1, TypeInvRequest
<1>2. ASSUME NEW r \in Req, Settle(r) PROVE TypeInv'
  BY <1>2, TypeInvSettle
<1>3. ASSUME NEW r \in Req,
             \/ \E w \in Worker : Arrive(r, w)
             \/ Fire(r)
             \/ OnTimeout(r)
             \/ \E k \in Clicker, d \in {"approve", "deny"} : Press(r, k, d)
      PROVE  TypeInv'
  BY <1>3, TypeInvRace
<1>4. ASSUME NEW c \in clicks, Resolve(c) PROVE TypeInv'
  BY <1>4, TypeInvResolve
<1>5. ASSUME NEW t \in Walker, RangeStep(t) PROVE TypeInv'
  BY <1>5, TypeInvRange
<1>6. ASSUME NEW w \in Worker, Connector(w) PROVE TypeInv'
  BY <1>6, TypeInvConnector
<1>7. ASSUME RestartStep \/ \E c \in Config : ApplyConfig(c) PROVE TypeInv'
  BY <1>7, TypeInvRestart
<1>8. CASE UNCHANGED vars
  BY <1>8 DEF vars, TypeInv, TypeOK, ConnInv, AttemptInv
<1> QED
  BY <1>1, <1>2, <1>3, <1>4, <1>5, <1>6, <1>7, <1>8 DEF Next

(* Every variable keeps its type: pointers that are followed are not nil,   *)
(* and the HTTP client makes at most MaxAttempts attempts per message.      *)
THEOREM TypeCorrect == Spec => []TypeOK
<1>1. Spec => []TypeInv
  BY TypeInvInit, TypeInvNext, PTL DEF Spec
<1>2. TypeInv => TypeOK
  BY DEF TypeInv
<1> QED
  BY <1>1, <1>2, PTL

-----------------------------------------------------------------------------
(* Safety                                                                  *)

(* What the winner of a request may have done so far.                       *)
AnswerInv ==
  \A r \in Req :
    /\ by[r] = "nobody" <=> settle[r] = "none"
    /\ answers[r] = 0 \/ answers[r] = 1
    /\ answers[r] = 1 => settle[r] = "done" /\ by[r] \in {"approve", "deny"}
    /\ settle[r] = "answer" => by[r] \in {"approve", "deny"}
    /\ by[r] \in {"approve", "deny"} => grant[r] # NULL

(* Who is in a map, was posted or was clicked has been registered.          *)
AdmitInv ==
  /\ \A r \in Req : posted[r] > 0 => Admitted(r)
  /\ \A r \in Req : pc[r] = "recall" => by[r] # "nobody"
  /\ \A k \in clicks : Admitted(k.req)
  /\ \A i \in Id : pendingMap[i] # NULL =>
       IdOf[pendingMap[i]] = i /\ Admitted(pendingMap[i])
  /\ \A c \in Conn, i \in Id : pending[c][i] # NULL =>
       IdOf[pending[c][i]] = i /\ Admitted(pending[c][i])

(* Where the message is, when no answer of the platform is lost.            *)
MessageInv ==
  \A r \in Req :
    /\ pc[r] \notin {"await", "publish", "recall", "done"} =>
         posted[r] = 0 /\ ~msg[r] /\ ~recalled[r]
    /\ pc[r] \in {"await", "publish"} =>
         posted[r] = 1 /\ ~msg[r] /\ ~recalled[r]
    /\ pc[r] = "recall" => posted[r] = 1 /\ msg[r]
    /\ pc[r] = "done" => \/ posted[r] = 1 /\ msg[r]
                         \/ posted[r] = 0 /\ ~msg[r] /\ ~recalled[r]
    /\ pc[r] = "done" /\ msg[r] /\ settle[r] = "done"
         /\ status[r] # "delivered" => recalled[r]

(* The timer of a request nobody has settled is not over, and it is stopped *)
(* before anything else is cleaned up.                                      *)
TimerInv ==
  \A r \in Req :
    /\ by[r] = "nobody" => timer[r] # "over"
    /\ timer[r] = "armed" => settle[r] \in {"none", "stop"}

(* Before the first restart a registered request is the entry of its        *)
(* identifier until its winner removes it.                                  *)
EntryInv ==
  applies = 0 =>
    /\ restart = "idle"
    /\ \A r \in Req : Admitted(r) /\ settle[r] \in {"none", "stop", "unmap"}
                        => pendingMap[IdOf[r]] = r

-----------------------------------------------------------------------------
(* Who settles a request                                                   *)

answerVars == <<by, settle, answers, grant>>

LEMMA AnswerFrame == AnswerInv /\ UNCHANGED answerVars => AnswerInv'
  BY DEF AnswerInv, answerVars

(* A swap that succeeds on an unsettled request.                            *)
LEMMA AnswerWin ==
  ASSUME TypeInv, AnswerInv, NEW r \in Req, by[r] = "nobody",
         NEW who \in By \ {"nobody"}, NEW s, Win(r, who, s),
         UNCHANGED answers,
         \/ who \notin {"approve", "deny"} /\ UNCHANGED grant
         \/ \E k \in Clicker : grant' = [grant EXCEPT ![r] = k]
  PROVE  AnswerInv'
<1>1. /\ by' = [by EXCEPT ![r] = who]
      /\ settle' = [settle EXCEPT ![r] = "stop"]
  BY DEF Win
<1>2. by \in [Req -> By] /\ settle \in [Req -> SettlePC]
      /\ grant \in [Req -> Clicker \cup {NULL}]
  BY DEF TypeInv, TypeOK
<1>3. who \in {"approve", "deny"} => grant'[r] # NULL
  BY <1>2, NullAssumption
<1>4. \A q \in Req \ {r} : grant'[q] = grant[q]
  BY <1>2
<1>5. answers[r] = 0
  BY DEF AnswerInv
<1> QED
  BY <1>1, <1>2, <1>3, <1>4, <1>5 DEF AnswerInv, By

LEMMA AnswerInvalidate ==
  ASSUME TypeInv, AnswerInv, NEW r \in Req, Invalidate(r),
         UNCHANGED <<answers, grant>>
  PROVE  AnswerInv'
<1>1. CASE by[r] = "nobody"
  BY <1>1, AnswerWin DEF Invalidate, By
<1>2. CASE by[r] # "nobody"
  BY <1>2, AnswerFrame DEF Invalidate, answerVars
<1> QED
  BY <1>1, <1>2

LEMMA AnswerRequest ==
  ASSUME TypeInv, AnswerInv, NEW r \in Req, Process(r)
  PROVE  AnswerInv'
<1>1. CASE Abort(r)
  BY <1>1, AnswerInvalidate DEF Abort
<1>2. CASE ~Abort(r)
  <2>1. UNCHANGED answerVars
    BY <1>2 DEF Process, ReadConfig, Reserve, Unreserve, Register, Attach,
       CheckActive, Post, Refuse, SendReturns, AnswerLost, Publish, RecallOwn,
       answerVars
  <2> QED
    BY <2>1, AnswerFrame
<1> QED
  BY <1>1, <1>2

LEMMA AnswerSettle ==
  ASSUME TypeInv, AnswerInv, NEW r \in Req, Settle(r)
  PROVE  AnswerInv'
<1> USE DEF AnswerInv, TypeInv, TypeOK
<1>1. CASE StopTimer(r)
  BY <1>1 DEF StopTimer
<1>2. CASE Unmap(r)
  BY <1>2 DEF Unmap
<1>3. CASE Detach(r)
  BY <1>3 DEF Detach
<1>4. CASE Release(r)
  BY <1>4 DEF Release
<1>5. CASE Answer(r)
  BY <1>5 DEF Answer
<1>6. CASE AnswerFails(r)
  BY <1>6 DEF AnswerFails
<1>7. CASE Recall(r)
  BY <1>7 DEF Recall
<1> QED
  BY <1>1, <1>2, <1>3, <1>4, <1>5, <1>6, <1>7 DEF Settle

LEMMA AnswerRace ==
  ASSUME TypeInv, AnswerInv, NEW r \in Req,
         \/ \E w \in Worker : Arrive(r, w)
         \/ Fire(r)
         \/ OnTimeout(r)
         \/ \E k \in Clicker, d \in {"approve", "deny"} : Press(r, k, d)
  PROVE  AnswerInv'
<1>1. CASE OnTimeout(r)
  <2>1. UNCHANGED <<answers, grant>>
    BY <1>1 DEF OnTimeout
  <2>2. CASE by[r] = "nobody"
    BY <1>1, <2>1, <2>2, AnswerWin DEF OnTimeout, By
  <2>3. CASE by[r] # "nobody"
    BY <1>1, <2>3, AnswerFrame DEF OnTimeout, answerVars
  <2> QED
    BY <2>2, <2>3
<1>2. CASE ~OnTimeout(r)
  <2>1. UNCHANGED answerVars
    BY <1>2 DEF Arrive, Fire, Press, answerVars
  <2> QED
    BY <2>1, AnswerFrame
<1> QED
  BY <1>1, <1>2

LEMMA AnswerResolve ==
  ASSUME TypeInv, AnswerInv, NEW c \in clicks, Resolve(c)
  PROVE  AnswerInv'
<1>1. c.req \in Req /\ c.who \in Clicker /\ c.decision \in {"approve", "deny"}
  BY DEF TypeInv, TypeOK, Click
<1>2. CASE by[c.req] = "nobody"
  <2>1. Win(c.req, c.decision, "pending") /\ UNCHANGED answers
        /\ grant' = [grant EXCEPT ![c.req] = c.who]
    BY <1>2 DEF Resolve
  <2>2. c.decision \in By \ {"nobody"}
    BY <1>1 DEF By
  <2> QED
    BY <1>1, <1>2, <2>1, <2>2, AnswerWin
<1>3. CASE by[c.req] # "nobody"
  BY <1>3, AnswerFrame DEF Resolve, answerVars
<1> QED
  BY <1>2, <1>3

LEMMA AnswerRange ==
  ASSUME TypeInv, AnswerInv, NEW t \in Walker, RangeStep(t)
  PROVE  AnswerInv'
<1>1. ASSUME NEW i \in Id, Visit(t, i) PROVE AnswerInv'
  <2>1. Walked(t)[i] \in Req
    BY <1>1, WalkedType DEF Visit
  <2> QED
    BY <1>1, <2>1, AnswerInvalidate DEF Visit
<1>2. CASE ~\E i \in Id : Visit(t, i)
  <2>1. UNCHANGED answerVars
    BY <1>2 DEF RangeStep, Miss, Drop, answerVars
  <2> QED
    BY <2>1, AnswerFrame
<1> QED
  BY <1>1, <1>2

(* The connectors, a restart and the administrator settle nothing           *)
(* themselves: they leave every request as it is.                           *)
LEMMA OthersFrame ==
  ASSUME \/ \E w \in Worker : Connector(w)
         \/ RestartStep
         \/ \E c \in Config : ApplyConfig(c)
         \/ UNCHANGED vars
  PROVE  UNCHANGED <<authVars, sendVars, reqVars, clicks>>
<1>1. CASE \E w \in Worker : Connector(w)
  BY <1>1 DEF Connector, LeaveLoop, BeginDial, Dial, DialFails, Adopt,
     CloseOnStop, DecodeFails, Forget, Close, EndSweep
<1>2. CASE RestartStep
  BY <1>2 DEF RestartStep, StopWorker, CloseCurrent, EndConnWalk, EndMapWalk,
     ZeroCounter, Launch
<1>3. CASE \E c \in Config : ApplyConfig(c)
  BY <1>3 DEF ApplyConfig
<1>4. CASE UNCHANGED vars
  BY <1>4 DEF vars
<1> QED
  BY <1>1, <1>2, <1>3, <1>4

LEMMA MapsFrame ==
  ASSUME \/ \E w \in Worker : Connector(w)
         \/ RestartStep
         \/ \E c \in Config : ApplyConfig(c)
         \/ UNCHANGED vars
  PROVE  UNCHANGED <<pendingMap, pending>>
<1>1. CASE \E w \in Worker : Connector(w)
  BY <1>1 DEF Connector, LeaveLoop, BeginDial, Dial, DialFails, Adopt,
     CloseOnStop, DecodeFails, Forget, Close, EndSweep
<1>2. CASE RestartStep
  BY <1>2 DEF RestartStep, StopWorker, CloseCurrent, EndConnWalk, EndMapWalk,
     ZeroCounter, Launch
<1>3. CASE \E c \in Config : ApplyConfig(c)
  BY <1>3 DEF ApplyConfig
<1>4. CASE UNCHANGED vars
  BY <1>4 DEF vars
<1> QED
  BY <1>1, <1>2, <1>3, <1>4

LEMMA AnswerNext == TypeInv /\ AnswerInv /\ [Next]_vars => AnswerInv'
<1> SUFFICES ASSUME TypeInv, AnswerInv, [Next]_vars PROVE AnswerInv'
  OBVIOUS
<1>1. ASSUME NEW r \in Req, Process(r) PROVE AnswerInv'
  BY <1>1, AnswerRequest
<1>2. ASSUME NEW r \in Req, Settle(r) PROVE AnswerInv'
  BY <1>2, AnswerSettle
<1>3. ASSUME NEW r \in Req,
             \/ \E w \in Worker : Arrive(r, w)
             \/ Fire(r)
             \/ OnTimeout(r)
             \/ \E k \in Clicker, d \in {"approve", "deny"} : Press(r, k, d)
      PROVE  AnswerInv'
  BY <1>3, AnswerRace
<1>4. ASSUME NEW c \in clicks, Resolve(c) PROVE AnswerInv'
  BY <1>4, AnswerResolve
<1>5. ASSUME NEW t \in Walker, RangeStep(t) PROVE AnswerInv'
  BY <1>5, AnswerRange
<1>6. ASSUME \/ \E w \in Worker : Connector(w)
             \/ RestartStep
             \/ \E c \in Config : ApplyConfig(c)
             \/ UNCHANGED vars
      PROVE  AnswerInv'
  BY <1>6, OthersFrame, AnswerFrame DEF answerVars
<1> QED
  BY <1>1, <1>2, <1>3, <1>4, <1>5, <1>6 DEF Next

LEMMA AnswerInit == Init => AnswerInv
  BY DEF Init, AnswerInv

(* ssh-qqauth receives at most one response for a request, and only for a   *)
(* click that passed the permission check: the one swap on `resolved'       *)
(* (sshauth.go resolve, onTimeout, invalidate) decides, whatever the        *)
(* interleaving of clicks, timer, connection loss and restart.              *)
THEOREM AnsweredOnce == Spec => []AnsweredOnceByAClick
<1>1. Spec => []TypeInv
  BY TypeInvInit, TypeInvNext, PTL DEF Spec
<1>2. Spec => []AnswerInv
  BY <1>1, AnswerInit, AnswerNext, PTL DEF Spec
<1>3. AnswerInv => AnsweredOnceByAClick
  BY DEF AnswerInv, AnsweredOnceByAClick
<1> QED
  BY <1>2, <1>3, PTL

-----------------------------------------------------------------------------
(* Registered requests                                                     *)

LEMMA AdmittedStays ==
  ASSUME TypeInv, AdmitInv, [Next]_vars, NEW q \in Req, Admitted(q)
  PROVE  Admitted(q)'
<1> USE DEF Admitted, TypeInv, TypeOK, PC
<1>1. ASSUME NEW r \in Req, Process(r) PROVE Admitted(q)'
  <2>1. CASE ReadConfig(r)
    BY <2>1 DEF ReadConfig
  <2>2. CASE Reserve(r) \/ Unreserve(r)
    BY <2>2 DEF Reserve, Unreserve
  <2>3. CASE Register(r)
    BY <2>3 DEF Register
  <2>4. CASE Attach(r) \/ CheckActive(r)
    BY <2>4 DEF Attach, CheckActive
  <2>5. CASE Post(r) \/ Refuse(r) \/ SendReturns(r) \/ AnswerLost(r)
    BY <2>5 DEF Post, Refuse, SendReturns, AnswerLost
  <2>6. CASE Publish(r)
    BY <2>6 DEF Publish
  <2>7. CASE RecallOwn(r)
    BY <2>7 DEF RecallOwn, AdmitInv
  <2>8. CASE Abort(r)
    BY <2>8 DEF Abort, Invalidate, Win
  <2> QED
    BY <1>1, <2>1, <2>2, <2>3, <2>4, <2>5, <2>6, <2>7, <2>8 DEF Process
<1>2. ASSUME NEW r \in Req, Settle(r) PROVE Admitted(q)'
  BY <1>2 DEF Settle, StopTimer, Unmap, Detach, Release, Answer, AnswerFails,
     Recall
<1>3. ASSUME NEW r \in Req, NEW w \in Worker, Arrive(r, w) PROVE Admitted(q)'
  BY <1>3 DEF Arrive
<1>4. ASSUME NEW r \in Req, Fire(r) \/ OnTimeout(r) PROVE Admitted(q)'
  BY <1>4 DEF Fire, OnTimeout, Win
<1>5. ASSUME NEW r \in Req, NEW k \in Clicker, NEW d \in {"approve", "deny"},
             Press(r, k, d)
      PROVE  Admitted(q)'
  BY <1>5 DEF Press
<1>6. ASSUME NEW c \in clicks, Resolve(c) PROVE Admitted(q)'
  <2>1. c.req \in Req /\ c.decision \in {"approve", "deny"}
    BY DEF Click
  <2> QED
    BY <1>6, <2>1 DEF Resolve, Win
<1>7. ASSUME NEW t \in Walker, RangeStep(t) PROVE Admitted(q)'
  <2>1. ASSUME NEW i \in Id, Visit(t, i) PROVE Admitted(q)'
    <3>1. Walked(t)[i] \in Req
      BY <2>1, WalkedType DEF Visit
    <3> QED
      BY <2>1, <3>1 DEF Visit, Invalidate, Win
  <2>2. CASE ~\E i \in Id : Visit(t, i)
    BY <1>7, <2>2 DEF RangeStep, Miss, Drop
  <2> QED
    BY <2>1, <2>2
<1>8. ASSUME \/ \E w \in Worker : Connector(w)
             \/ RestartStep
             \/ \E c \in Config : ApplyConfig(c)
             \/ UNCHANGED vars
      PROVE  Admitted(q)'
  BY <1>8, OthersFrame
<1> QED
  BY <1>1, <1>2, <1>3, <1>4, <1>5, <1>6, <1>7, <1>8 DEF Next

(* The entries of a map stay those of registered requests when the map      *)
(* loses entries.                                                           *)
LEMMA AdmitFrame ==
  ASSUME TypeInv, AdmitInv,
         \A q \in Req : Admitted(q) => Admitted(q)',
         \A r \in Req : posted'[r] > 0 => posted[r] > 0 \/ Admitted(r),
         \A r \in Req : pc'[r] = "recall" => pc[r] = "recall" \/ by[r] # "nobody",
         \A r \in Req : by[r] # "nobody" => by'[r] # "nobody",
         \/ clicks' \subseteq clicks
         \/ \E r \in Req : \E k : /\ posted[r] > 0 /\ k.req = r
                                 /\ clicks' = clicks \cup {k},
         \A i \in Id : pendingMap'[i] \in {NULL, pendingMap[i]},
         \A c \in Conn, i \in Id : pending'[c][i] \in {NULL, pending[c][i]}
  PROVE  AdmitInv'
<1>2. \A i \in Id : pendingMap[i] \in Req \cup {NULL}
  BY DEF TypeInv, TypeOK
<1>3. \A c \in Conn, i \in Id : pending[c][i] \in Req \cup {NULL}
  BY DEF TypeInv, TypeOK
<1>4. \A k \in clicks : k.req \in Req
  BY DEF TypeInv, TypeOK, Click
<1> QED
  BY <1>2, <1>3, <1>4 DEF AdmitInv

LEMMA AdmitNext == TypeInv /\ AdmitInv /\ [Next]_vars => AdmitInv'
<1> SUFFICES ASSUME TypeInv, AdmitInv, [Next]_vars PROVE AdmitInv'
  OBVIOUS
<1>a. \A q \in Req : Admitted(q) => Admitted(q)'
  BY AdmittedStays
<1>b. /\ pc \in [Req -> PC] /\ by \in [Req -> By]
      /\ posted \in [Req -> 0 .. MaxAttempts]
      /\ pendingMap \in [Id -> Req \cup {NULL}]
      /\ pending \in [Conn -> [Id -> Req \cup {NULL}]]
      /\ clicks \subseteq Click
  BY DEF TypeInv, TypeOK
<1>1. ASSUME NEW r \in Req, Process(r) PROVE AdmitInv'
  <2>1. CASE Register(r)
    <3>1. CASE pendingMap[IdOf[r]] = NULL
      <4>1. Admitted(r)'
        BY <2>1, <3>1, <1>b DEF Register, Admitted
      <4>2. \A i \in Id : pendingMap'[i] # NULL =>
              IdOf[pendingMap'[i]] = i /\ Admitted(pendingMap[i])'
        BY <2>1, <3>1, <4>1, <1>a, <1>b, IdAssumption DEF Register, AdmitInv
      <4> QED
        BY <2>1, <3>1, <4>2, <1>a, <1>b DEF Register, AdmitInv, Click
    <3>2. CASE pendingMap[IdOf[r]] # NULL
      BY <2>1, <3>2, <1>a, <1>b, AdmitFrame DEF Register
    <3> QED
      BY <3>1, <3>2
  <2>2. CASE Attach(r)
    <3>1. Admitted(r)
      BY <2>2 DEF Attach, Admitted
    <3>2. conn[r] \in Conn /\ IdOf[r] \in Id
      BY <2>2, IdAssumption DEF Attach, TypeInv, ConnInv
    <3>3. \A c \in Conn, i \in Id :
            \/ pending'[c][i] = pending[c][i]
            \/ pending'[c][i] = r /\ i = IdOf[r]
      BY <2>2, <3>2, <1>b DEF Attach
    <3>4. \A c \in Conn, i \in Id : pending'[c][i] # NULL =>
            IdOf[pending'[c][i]] = i /\ Admitted(pending[c][i])'
      BY <3>1, <3>3, <1>a, <1>b DEF AdmitInv
    <3> QED
      BY <2>2, <3>4, <1>a, <1>b DEF Attach, AdmitInv, Click
  <2>3. CASE Post(r)
    <3>1. Admitted(r)
      BY <2>3 DEF Post, Admitted
    <3> QED
      BY <2>3, <3>1, <1>a, <1>b, AdmitFrame DEF Post
  <2>4. CASE Publish(r)
    BY <2>4, <1>a, <1>b, AdmitFrame DEF Publish
  <2>5. CASE Abort(r)
    BY <2>5, <1>a, <1>b, AdmitFrame DEF Abort, Invalidate, Win
  <2>6. CASE ReadConfig(r) \/ Reserve(r) \/ Unreserve(r)
    BY <2>6, <1>a, <1>b, AdmitFrame DEF ReadConfig, Reserve, Unreserve
  <2>7. CASE CheckActive(r) \/ Refuse(r) \/ SendReturns(r) \/ AnswerLost(r)
    BY <2>7, <1>a, <1>b, AdmitFrame DEF CheckActive, Refuse, SendReturns, AnswerLost
  <2>8. CASE RecallOwn(r)
    BY <2>8, <1>a, <1>b, AdmitFrame DEF RecallOwn
  <2> QED
    BY <1>1, <2>1, <2>2, <2>3, <2>4, <2>5, <2>6, <2>7, <2>8 DEF Process
<1>2. ASSUME NEW r \in Req, Settle(r) PROVE AdmitInv'
  <2>1. IdOf[r] \in Id
    BY IdAssumption
  <2>2. CASE Unmap(r)
    BY <2>1, <2>2, <1>a, <1>b, AdmitFrame DEF Unmap
  <2>3. CASE Detach(r)
    <3>1. \A c \in Conn, i \in Id : pending'[c][i] \in {NULL, pending[c][i]}
      BY <2>1, <2>3, <1>b DEF Detach
    <3> QED
      BY <2>3, <3>1, <1>a, <1>b, AdmitFrame DEF Detach
  <2>4. CASE ~Unmap(r) /\ ~Detach(r)
    BY <1>2, <2>4, <1>a, <1>b, AdmitFrame DEF Settle, StopTimer, Release, Answer,
       AnswerFails, Recall
  <2> QED
    BY <2>2, <2>3, <2>4
<1>3. ASSUME NEW r \in Req, NEW w \in Worker, Arrive(r, w) PROVE AdmitInv'
  BY <1>3, <1>a, <1>b, AdmitFrame DEF Arrive
<1>4. ASSUME NEW r \in Req, Fire(r) \/ OnTimeout(r) PROVE AdmitInv'
  BY <1>4, <1>a, <1>b, AdmitFrame DEF Fire, OnTimeout, Win
<1>5. ASSUME NEW r \in Req, NEW k \in Clicker, NEW d \in {"approve", "deny"},
             Press(r, k, d)
      PROVE  AdmitInv'
  BY <1>5, <1>a, <1>b, AdmitFrame DEF Press
<1>6. ASSUME NEW c \in clicks, Resolve(c) PROVE AdmitInv'
  <2>1. c.req \in Req /\ c.decision \in {"approve", "deny"}
    BY <1>b DEF Click
  <2> QED
    BY <1>6, <2>1, <1>a, <1>b, AdmitFrame DEF Resolve, Win
<1>7. ASSUME NEW t \in Walker, RangeStep(t) PROVE AdmitInv'
  <2>1. ASSUME NEW i \in Id, Visit(t, i) PROVE AdmitInv'
    <3>1. Walked(t)[i] \in Req
      BY <2>1, WalkedType DEF Visit
    <3> QED
      BY <2>1, <3>1, <1>a, <1>b, AdmitFrame DEF Visit, Invalidate, Win
  <2>2. ASSUME NEW i \in Id, Miss(t, i) PROVE AdmitInv'
    BY <2>2, <1>a, <1>b, AdmitFrame DEF Miss
  <2>3. CASE Drop(t)
    <3>1. walk[t].at \in Id
      BY <2>3 DEF Drop, TypeInv, TypeOK, WalkState
    <3>2. \/ UNCHANGED pending
             /\ pendingMap' = [pendingMap EXCEPT ![walk[t].at] = NULL]
          \/ UNCHANGED pendingMap
             /\ \E c :
               pending' = [pending EXCEPT ![c][walk[t].at] = NULL]
      BY <2>3 DEF Drop
    <3>3. \A c \in Conn, i \in Id : pending'[c][i] \in {NULL, pending[c][i]}
      BY <3>1, <3>2, <1>b
    <3>4. \A i \in Id : pendingMap'[i] \in {NULL, pendingMap[i]}
      BY <3>1, <3>2, <1>b
    <3> QED
      BY <2>3, <3>3, <3>4, <1>a, <1>b, AdmitFrame DEF Drop
  <2> QED
    BY <1>7, <2>1, <2>2, <2>3 DEF RangeStep
<1>8. ASSUME \/ \E w \in Worker : Connector(w)
             \/ RestartStep
             \/ \E c \in Config : ApplyConfig(c)
             \/ UNCHANGED vars
      PROVE  AdmitInv'
  <2>1. UNCHANGED <<authVars, sendVars, reqVars, clicks>>
    BY <1>8, OthersFrame
  <2>2. UNCHANGED <<pendingMap, pending>>
    BY <1>8, MapsFrame
  <2> QED
    BY <2>1, <2>2, <1>a, <1>b, AdmitFrame
<1> QED
  BY <1>1, <1>2, <1>3, <1>4, <1>5, <1>6, <1>7, <1>8 DEF Next

LEMMA AdmitInit == Init => AdmitInv
  BY DEF Init, AdmitInv

-----------------------------------------------------------------------------
(* Timers                                                                  *)

timerVars == <<by, settle, timer>>

LEMMA TimerFrame == TimerInv /\ UNCHANGED timerVars => TimerInv'
  BY DEF TimerInv, timerVars

LEMMA TimerWin ==
  ASSUME TypeInv, TimerInv, NEW r \in Req, NEW who \in By \ {"nobody"}, NEW s,
         Win(r, who, s),
         UNCHANGED timer
         \/ timer' = [timer EXCEPT ![r] = "over"]
  PROVE  TimerInv'
<1>1. /\ by \in [Req -> By] /\ settle \in [Req -> SettlePC]
      /\ timer \in [Req -> {"none", "armed", "fired", "over"}]
  BY DEF TypeInv, TypeOK
<1> QED
  BY <1>1 DEF TimerInv, Win

LEMMA TimerNext == TypeInv /\ AnswerInv /\ TimerInv /\ [Next]_vars => TimerInv'
<1> SUFFICES ASSUME TypeInv, AnswerInv, TimerInv, [Next]_vars PROVE TimerInv'
  OBVIOUS
<1>a. /\ by \in [Req -> By] /\ settle \in [Req -> SettlePC]
      /\ timer \in [Req -> {"none", "armed", "fired", "over"}]
  BY DEF TypeInv, TypeOK
<1>1. ASSUME NEW r \in Req, Process(r) PROVE TimerInv'
  <2>1. CASE Publish(r)
    BY <2>1, <1>a DEF Publish, TimerInv, AnswerInv
  <2>2. CASE Abort(r)
    BY <2>2, TimerWin, TimerFrame DEF Abort, Invalidate, By, timerVars
  <2>3. CASE ~Publish(r) /\ ~Abort(r)
    BY <1>1, <2>3, TimerFrame DEF Process, ReadConfig, Reserve, Unreserve,
       Register, Attach, CheckActive, Post, Refuse, SendReturns, AnswerLost,
       RecallOwn, timerVars
  <2> QED
    BY <2>1, <2>2, <2>3
<1>2. ASSUME NEW r \in Req, Settle(r) PROVE TimerInv'
  <2>1. CASE StopTimer(r)
    BY <2>1, <1>a DEF StopTimer, TimerInv, AnswerInv
  <2>2. CASE ~StopTimer(r)
    BY <1>2, <2>2, <1>a DEF Settle, Unmap, Detach, Release, Answer,
       AnswerFails, Recall, TimerInv
  <2> QED
    BY <2>1, <2>2
<1>3. ASSUME NEW r \in Req, NEW w \in Worker, Arrive(r, w) PROVE TimerInv'
  BY <1>3, TimerFrame DEF Arrive, timerVars
<1>4. ASSUME NEW r \in Req, Fire(r) PROVE TimerInv'
  BY <1>4, <1>a DEF Fire, TimerInv
<1>5. ASSUME NEW r \in Req, OnTimeout(r) PROVE TimerInv'
  <2>1. CASE by[r] = "nobody"
    BY <1>5, <2>1, TimerWin DEF OnTimeout, By
  <2>2. CASE by[r] # "nobody"
    BY <1>5, <2>2, <1>a DEF OnTimeout, TimerInv
  <2> QED
    BY <2>1, <2>2
<1>6. ASSUME NEW r \in Req, NEW k \in Clicker, NEW d \in {"approve", "deny"},
             Press(r, k, d)
      PROVE  TimerInv'
  BY <1>6, TimerFrame DEF Press, timerVars
<1>7. ASSUME NEW c \in clicks, Resolve(c) PROVE TimerInv'
  <2>1. c.req \in Req /\ c.decision \in By \ {"nobody"}
    BY DEF TypeInv, TypeOK, Click, By
  <2> QED
    BY <1>7, <2>1, TimerWin, TimerFrame DEF Resolve, timerVars
<1>8. ASSUME NEW t \in Walker, RangeStep(t) PROVE TimerInv'
  <2>1. ASSUME NEW i \in Id, Visit(t, i) PROVE TimerInv'
    <3>1. Walked(t)[i] \in Req
      BY <2>1, WalkedType DEF Visit
    <3> QED
      BY <2>1, <3>1, TimerWin, TimerFrame DEF Visit, Invalidate, By, timerVars
  <2>2. CASE ~\E i \in Id : Visit(t, i)
    BY <1>8, <2>2, TimerFrame DEF RangeStep, Miss, Drop, timerVars
  <2> QED
    BY <2>1, <2>2
<1>9. ASSUME \/ \E w \in Worker : Connector(w)
             \/ RestartStep
             \/ \E c \in Config : ApplyConfig(c)
             \/ UNCHANGED vars
      PROVE  TimerInv'
  BY <1>9, OthersFrame, TimerFrame DEF timerVars
<1> QED
  BY <1>1, <1>2, <1>3, <1>4, <1>5, <1>6, <1>7, <1>8, <1>9 DEF Next

(* A request whose message is out and that nobody has settled has a running *)
(* timer, and a settled request leaves none armed: the critical section     *)
(* after msg.Send (sshauth.go 557-568) and cleanup (126-131) exclude each   *)
(* other.                                                                   *)
THEOREM TimerCorrect == Spec => []TimerMatchesRequest
<1>1. Spec => []TypeInv
  BY TypeInvInit, TypeInvNext, PTL DEF Spec
<1>2. Spec => []AnswerInv
  BY <1>1, AnswerInit, AnswerNext, PTL DEF Spec
<1>3. Init => TimerInv
  BY DEF Init, TimerInv
<1>4. Spec => []TimerInv
  BY <1>1, <1>2, <1>3, TimerNext, PTL DEF Spec
<1>5. TypeInv /\ TimerInv => TimerMatchesRequest
  BY DEF TimerInv, TimerMatchesRequest, Open, Admitted, TypeInv, TypeOK
<1> QED
  BY <1>1, <1>4, <1>5, PTL

-----------------------------------------------------------------------------
(* Messages                                                                *)

messageVars == <<pc, by, settle, status, posted, msg, recalled>>

LEMMA MessageFrame == MessageInv /\ UNCHANGED messageVars => MessageInv'
  BY DEF MessageInv, messageVars

LEMMA MessageWin ==
  ASSUME TypeInv, MessageInv, NEW r \in Req, NEW who, NEW s, Win(r, who, s),
         UNCHANGED <<pc, posted, msg, recalled>>
  PROVE  MessageInv'
<1>1. settle \in [Req -> SettlePC] /\ status \in [Req -> Status]
  BY DEF TypeInv, TypeOK
<1> QED
  BY <1>1 DEF MessageInv, Win

LEMMA MessageRequest ==
  ASSUME ~LossySend, TypeInv, AnswerInv, AdmitInv, MessageInv, NEW r \in Req,
         Process(r)
  PROVE  MessageInv'
<1>a. /\ pc \in [Req -> PC] /\ settle \in [Req -> SettlePC]
      /\ posted \in [Req -> 0 .. MaxAttempts]
      /\ msg \in [Req -> BOOLEAN] /\ recalled \in [Req -> BOOLEAN]
  BY DEF TypeInv, TypeOK
<1> USE <1>a DEF MessageInv, PC
<1>1. CASE ReadConfig(r)
  BY <1>1 DEF ReadConfig
<1>2. CASE Reserve(r)
  BY <1>2 DEF Reserve
<1>3. CASE Unreserve(r)
  BY <1>3 DEF Unreserve
<1>4. CASE Register(r)
  BY <1>4 DEF Register
<1>5. CASE Attach(r)
  BY <1>5 DEF Attach
<1>6. CASE CheckActive(r)
  BY <1>6 DEF CheckActive
<1>7. CASE Post(r)
  BY <1>7 DEF Post
<1>8. CASE Refuse(r)
  BY <1>8 DEF Refuse
<1>9. CASE SendReturns(r)
  BY <1>9 DEF SendReturns
<1>10. CASE AnswerLost(r)
  BY <1>10 DEF AnswerLost
<1>11. CASE Publish(r)
  BY <1>11 DEF Publish, AnswerInv
<1>12. CASE RecallOwn(r)
  BY <1>12 DEF RecallOwn
<1>13. CASE Abort(r)
  <2>1. /\ pc' = [pc EXCEPT ![r] = "done"] /\ pc[r] = "abort"
        /\ UNCHANGED <<posted, msg, recalled>>
    BY <1>13 DEF Abort
  <2>2. /\ settle' = settle \/ settle' = [settle EXCEPT ![r] = "stop"]
        /\ by' = by \/ by'[r] # "nobody"
        /\ \A q \in Req \ {r} : status'[q] = status[q]
    BY <1>13 DEF Abort, Invalidate, Win, TypeInv, TypeOK
  <2> QED
    BY <2>1, <2>2
<1> QED
  BY <1>1, <1>2, <1>3, <1>4, <1>5, <1>6, <1>7, <1>8, <1>9, <1>10, <1>11,
     <1>12, <1>13 DEF Process

LEMMA MessageNext ==
  ASSUME ~LossySend, TypeInv, AnswerInv, AdmitInv, MessageInv, [Next]_vars
  PROVE  MessageInv'
<1>a. /\ pc \in [Req -> PC] /\ settle \in [Req -> SettlePC]
      /\ status \in [Req -> Status] /\ recalled \in [Req -> BOOLEAN]
  BY DEF TypeInv, TypeOK
<1>1. ASSUME NEW r \in Req, Process(r) PROVE MessageInv'
  BY <1>1, MessageRequest
<1>2. ASSUME NEW r \in Req, Settle(r) PROVE MessageInv'
  <2>1. CASE Recall(r)
    BY <2>1, <1>a DEF Recall, MessageInv
  <2>2. CASE Answer(r)
    BY <2>2, <1>a DEF Answer, MessageInv
  <2>3. CASE ~Recall(r) /\ ~Answer(r)
    BY <1>2, <2>3, <1>a DEF Settle, StopTimer, Unmap, Detach, Release,
       AnswerFails, MessageInv
  <2> QED
    BY <2>1, <2>2, <2>3
<1>3. ASSUME NEW r \in Req, NEW w \in Worker, Arrive(r, w) PROVE MessageInv'
  BY <1>3, <1>a DEF Arrive, MessageInv
<1>4. ASSUME NEW r \in Req, Fire(r) \/ OnTimeout(r) PROVE MessageInv'
  BY <1>4, MessageWin, MessageFrame DEF Fire, OnTimeout, messageVars
<1>5. ASSUME NEW r \in Req, NEW k \in Clicker, NEW d \in {"approve", "deny"},
             Press(r, k, d)
      PROVE  MessageInv'
  BY <1>5, MessageFrame DEF Press, messageVars
<1>6. ASSUME NEW c \in clicks, Resolve(c) PROVE MessageInv'
  <2>1. c.req \in Req
    BY DEF TypeInv, TypeOK, Click
  <2> QED
    BY <1>6, <2>1, MessageWin, MessageFrame DEF Resolve, messageVars
<1>7. ASSUME NEW t \in Walker, RangeStep(t) PROVE MessageInv'
  <2>1. ASSUME NEW i \in Id, Visit(t, i) PROVE MessageInv'
    <3>1. Walked(t)[i] \in Req
      BY <2>1, WalkedType DEF Visit
    <3> QED
      BY <2>1, <3>1, MessageWin, MessageFrame DEF Visit, Invalidate,
         messageVars
  <2>2. CASE ~\E i \in Id : Visit(t, i)
    BY <1>7, <2>2, MessageFrame DEF RangeStep, Miss, Drop, messageVars
  <2> QED
    BY <2>1, <2>2
<1>8. ASSUME \/ \E w \in Worker : Connector(w)
             \/ RestartStep
             \/ \E c \in Config : ApplyConfig(c)
             \/ UNCHANGED vars
      PROVE  MessageInv'
  BY <1>8, OthersFrame, MessageFrame DEF messageVars
<1> QED
  BY <1>1, <1>2, <1>3, <1>4, <1>5, <1>6, <1>7, <1>8 DEF Next

(* When the platform's answers are not lost, a request that ends without a  *)
(* delivered answer leaves no message in the group: of its goroutine (the   *)
(* check after msg.Send, sshauth.go 557-565) and its winner (invalidate,    *)
(* onTimeout, a failed resolve) at least one sees both the message and the  *)
(* settled request.                                                         *)
THEOREM MessageWithdrawn ==
  ASSUME ~LossySend
  PROVE  Spec => []NoMessageLeft
<1>1. Spec => []TypeInv
  BY TypeInvInit, TypeInvNext, PTL DEF Spec
<1>2. Spec => []AnswerInv
  BY <1>1, AnswerInit, AnswerNext, PTL DEF Spec
<1>3. Spec => []AdmitInv
  BY <1>1, AdmitInit, AdmitNext, PTL DEF Spec
<1>4. Init => MessageInv
  BY DEF Init, MessageInv
<1>5. TypeInv /\ AnswerInv /\ AdmitInv /\ MessageInv /\ [Next]_vars
        => MessageInv'
  BY MessageNext
<1>6. Spec => []MessageInv
  BY <1>1, <1>2, <1>3, <1>4, <1>5, PTL DEF Spec
<1>7. TypeInv /\ MessageInv => NoMessageLeft
  BY DEF MessageInv, NoMessageLeft, Finished, TypeInv, TypeOK
<1> QED
  BY <1>1, <1>6, <1>7, PTL

-----------------------------------------------------------------------------
(* Identifiers                                                             *)

LEMMA WalkedAdmitted ==
  ASSUME TypeInv, AdmitInv, NEW t \in Walker, NEW i \in Id, Visit(t, i)
  PROVE  Walked(t)[i] \in Req /\ Admitted(Walked(t)[i])
<1>1. Walking(t) /\ Walked(t)[i] # NULL
  BY DEF Visit
<1>2. Walked(t)[i] \in Req
  BY <1>1, WalkedType
<1>3. CASE t = Restarter
  <2>1. CASE restart = "connWalk"
    <3>1. currentConn \in Conn
      BY <2>1 DEF TypeInv, ConnInv
    <3>2. Walked(t)[i] = pending[currentConn][i]
      BY <1>3, <2>1 DEF Walked
    <3> QED
      BY <1>1, <1>2, <3>1, <3>2 DEF AdmitInv
  <2>2. CASE restart # "connWalk"
    <3>1. Walked(t)[i] = pendingMap[i]
      BY <1>3, <2>2 DEF Walked
    <3> QED
      BY <1>1, <1>2, <3>1 DEF AdmitInv
  <2> QED
    BY <2>1, <2>2
<1>4. CASE t # Restarter
  <2>1. serves[t] \in Conn
    BY <1>1, <1>4 DEF Walking, Walker, TypeInv, ConnInv
  <2>2. Walked(t)[i] = pending[serves[t]][i]
    BY <1>4 DEF Walked
  <2> QED
    BY <1>1, <1>2, <2>1, <2>2 DEF AdmitInv
<1> QED
  BY <1>2, <1>3, <1>4

(* Only Register admits a request.                                          *)
LEMMA OnlyRegisterAdmits ==
  ASSUME TypeInv, AdmitInv, [Next]_vars, NEW q \in Req, ~Admitted(q),
         ~Register(q)
  PROVE  ~Admitted(q)'
<1>a. /\ pc \in [Req -> PC] /\ by \in [Req -> By]
      /\ timer \in [Req -> {"none", "armed", "fired", "over"}]
  BY DEF TypeInv, TypeOK
<1> USE <1>a DEF Admitted, PC
<1>1. ASSUME NEW r \in Req, Process(r) PROVE ~Admitted(q)'
  <2>1. CASE ReadConfig(r) \/ Reserve(r) \/ Unreserve(r)
    BY <2>1 DEF ReadConfig, Reserve, Unreserve
  <2>2. CASE Register(r)
    BY <2>2 DEF Register
  <2>3. CASE Attach(r) \/ CheckActive(r)
    BY <2>3 DEF Attach, CheckActive
  <2>4. CASE Post(r) \/ Refuse(r) \/ SendReturns(r) \/ AnswerLost(r)
    BY <2>4 DEF Post, Refuse, SendReturns, AnswerLost
  <2>5. CASE Publish(r)
    BY <2>5 DEF Publish
  <2>6. CASE RecallOwn(r)
    BY <2>6 DEF RecallOwn
  <2>7. CASE Abort(r)
    BY <2>7 DEF Abort, Invalidate, Win
  <2> QED
    BY <1>1, <2>1, <2>2, <2>3, <2>4, <2>5, <2>6, <2>7 DEF Process
<1>2. ASSUME NEW r \in Req, Settle(r) PROVE ~Admitted(q)'
  <2>1. CASE StopTimer(r)
    BY <2>1 DEF StopTimer
  <2>2. CASE ~StopTimer(r)
    BY <1>2, <2>2 DEF Settle, Unmap, Detach, Release, Answer, AnswerFails,
       Recall
  <2> QED
    BY <2>1, <2>2
<1>3. ASSUME NEW r \in Req, NEW w \in Worker, Arrive(r, w)
      PROVE  ~Admitted(q)'
  BY <1>3 DEF Arrive
<1>4. ASSUME NEW r \in Req, Fire(r) \/ OnTimeout(r) PROVE ~Admitted(q)'
  BY <1>4 DEF Fire, OnTimeout, Win
<1>5. ASSUME NEW r \in Req, NEW k \in Clicker, NEW d \in {"approve", "deny"},
             Press(r, k, d)
      PROVE  ~Admitted(q)'
  BY <1>5 DEF Press
<1>6. ASSUME NEW c \in clicks, Resolve(c) PROVE ~Admitted(q)'
  <2>1. Admitted(c.req)
    BY DEF AdmitInv
  <2>2. c.req # q
    BY <2>1
  <2>3. by'[q] = by[q] /\ UNCHANGED <<pc, timer>>
    BY <1>6, <2>2 DEF Resolve, Win
  <2> QED
    BY <2>3
<1>7. ASSUME NEW t \in Walker, RangeStep(t) PROVE ~Admitted(q)'
  <2>1. ASSUME NEW i \in Id, Visit(t, i) PROVE ~Admitted(q)'
    <3>1. Admitted(Walked(t)[i])
      BY <2>1, WalkedAdmitted
    <3>2. Walked(t)[i] # q
      BY <3>1
    <3>3. by'[q] = by[q] /\ UNCHANGED <<pc, timer>>
      BY <2>1, <3>2 DEF Visit, Invalidate, Win
    <3> QED
      BY <3>3
  <2>2. CASE ~\E i \in Id : Visit(t, i)
    BY <1>7, <2>2 DEF RangeStep, Miss, Drop
  <2> QED
    BY <2>1, <2>2
<1>8. ASSUME \/ \E w \in Worker : Connector(w)
             \/ RestartStep
             \/ \E c \in Config : ApplyConfig(c)
             \/ UNCHANGED vars
      PROVE  ~Admitted(q)'
  BY <1>8, OthersFrame
<1> QED
  BY <1>1, <1>2, <1>3, <1>4, <1>5, <1>6, <1>7, <1>8 DEF Next

(* The restart a step belongs to has been counted.                          *)
LEMMA NoRestartYet ==
  ASSUME [Next]_vars, applies = 0 => restart = "idle", applies' = 0,
         applies \in Nat
  PROVE  restart' = "idle" /\ restart = "idle" /\ applies = 0
<1>1. ASSUME NEW r \in Req, Process(r) \/ Settle(r)
      PROVE  UNCHANGED <<restart, applies>>
  BY <1>1 DEF Process, Settle, ReadConfig, Reserve, Unreserve, Register,
     Attach, CheckActive, Post, Refuse, SendReturns, AnswerLost, Publish,
     RecallOwn, Abort, StopTimer, Unmap, Detach, Release, Answer, AnswerFails,
     Recall
<1>2. ASSUME NEW r \in Req,
             \/ \E w \in Worker : Arrive(r, w)
             \/ Fire(r)
             \/ OnTimeout(r)
             \/ \E k \in Clicker, d \in {"approve", "deny"} : Press(r, k, d)
      PROVE  UNCHANGED <<restart, applies>>
  BY <1>2 DEF Arrive, Fire, OnTimeout, Press
<1>3. ASSUME NEW c \in clicks, Resolve(c) PROVE UNCHANGED <<restart, applies>>
  BY <1>3 DEF Resolve
<1>4. ASSUME NEW t \in Walker, RangeStep(t)
      PROVE  UNCHANGED <<restart, applies>>
  BY <1>4 DEF RangeStep, Visit, Miss, Drop
<1>5. ASSUME NEW w \in Worker, Connector(w)
      PROVE  UNCHANGED <<restart, applies>>
  BY <1>5 DEF Connector, LeaveLoop, BeginDial, Dial, DialFails, Adopt,
     CloseOnStop, DecodeFails, Forget, Close, EndSweep
<1>6. ASSUME NEW c \in Config, ApplyConfig(c) PROVE applies' # 0
  BY <1>6 DEF ApplyConfig
<1>7. CASE RestartStep
  BY <1>7 DEF RestartStep, StopWorker, CloseCurrent, EndConnWalk, EndMapWalk,
     ZeroCounter, Launch
<1>8. CASE UNCHANGED vars
  BY <1>8 DEF vars
<1> QED
  BY <1>1, <1>2, <1>3, <1>4, <1>5, <1>6, <1>7, <1>8 DEF Next

(* Without a restart only Register and Unmap write the global map.          *)
LEMMA PendingMapFrame ==
  ASSUME [Next]_vars, restart = "idle",
         \A r \in Req : ~Register(r) /\ ~Unmap(r)
  PROVE  UNCHANGED pendingMap
<1>1. ASSUME NEW r \in Req, Process(r) \/ Settle(r) PROVE UNCHANGED pendingMap
  BY <1>1 DEF Process, Settle, ReadConfig, Reserve, Unreserve, Attach,
     CheckActive, Post, Refuse, SendReturns, AnswerLost, Publish, RecallOwn,
     Abort, StopTimer, Detach, Release, Answer, AnswerFails, Recall
<1>2. ASSUME NEW r \in Req,
             \/ \E w \in Worker : Arrive(r, w)
             \/ Fire(r)
             \/ OnTimeout(r)
             \/ \E k \in Clicker, d \in {"approve", "deny"} : Press(r, k, d)
      PROVE  UNCHANGED pendingMap
  BY <1>2 DEF Arrive, Fire, OnTimeout, Press
<1>3. ASSUME NEW c \in clicks, Resolve(c) PROVE UNCHANGED pendingMap
  BY <1>3 DEF Resolve
<1>4. ASSUME NEW t \in Walker, RangeStep(t) PROVE UNCHANGED pendingMap
  BY <1>4 DEF RangeStep, Visit, Miss, Drop
<1>5. ASSUME \/ \E w \in Worker : Connector(w)
             \/ RestartStep
             \/ \E c \in Config : ApplyConfig(c)
             \/ UNCHANGED vars
      PROVE  UNCHANGED pendingMap
  BY <1>5, MapsFrame
<1> QED
  BY <1>1, <1>2, <1>3, <1>4, <1>5 DEF Next

(* A settled request stays settled, and its clean-up only moves on.         *)
LEMMA SettleMovesOn ==
  ASSUME TypeInv, AnswerInv, [Next]_vars, NEW q \in Req,
         settle[q] \notin {"none", "stop", "unmap"}
  PROVE  settle'[q] \notin {"none", "stop", "unmap"}
<1>a. by[q] # "nobody" /\ settle \in [Req -> SettlePC]
  BY DEF AnswerInv, TypeInv, TypeOK
<1>1. ASSUME NEW r \in Req, Process(r)
      PROVE  settle'[q] \notin {"none", "stop", "unmap"}
  BY <1>1, <1>a DEF Process, ReadConfig, Reserve, Unreserve, Register,
     Attach, CheckActive, Post, Refuse, SendReturns, AnswerLost, Publish,
     RecallOwn, Abort, Invalidate, Win
<1>2. ASSUME NEW r \in Req, Settle(r)
      PROVE  settle'[q] \notin {"none", "stop", "unmap"}
  BY <1>2, <1>a DEF Settle, StopTimer, Unmap, Detach, Release, Answer,
     AnswerFails, Recall
<1>3. ASSUME NEW r \in Req,
             \/ \E w \in Worker : Arrive(r, w)
             \/ Fire(r)
             \/ OnTimeout(r)
             \/ \E k \in Clicker, d \in {"approve", "deny"} : Press(r, k, d)
      PROVE  settle'[q] \notin {"none", "stop", "unmap"}
  BY <1>3, <1>a DEF Arrive, Fire, OnTimeout, Press, Win
<1>4. ASSUME NEW c \in clicks, Resolve(c)
      PROVE  settle'[q] \notin {"none", "stop", "unmap"}
  BY <1>4, <1>a DEF Resolve, Win
<1>5. ASSUME NEW t \in Walker, RangeStep(t)
      PROVE  settle'[q] \notin {"none", "stop", "unmap"}
  <2>1. ASSUME NEW i \in Id, Visit(t, i)
        PROVE  settle'[q] \notin {"none", "stop", "unmap"}
    <3>1. Walked(t)[i] \in Req
      BY <2>1, WalkedType DEF Visit
    <3> QED
      BY <2>1, <3>1, <1>a DEF Visit, Invalidate, Win
  <2>2. CASE ~\E i \in Id : Visit(t, i)
    BY <1>5, <2>2 DEF RangeStep, Miss, Drop
  <2> QED
    BY <2>1, <2>2
<1>6. ASSUME \/ \E w \in Worker : Connector(w)
             \/ RestartStep
             \/ \E c \in Config : ApplyConfig(c)
             \/ UNCHANGED vars
      PROVE  settle'[q] \notin {"none", "stop", "unmap"}
  BY <1>6, OthersFrame
<1> QED
  BY <1>1, <1>2, <1>3, <1>4, <1>5, <1>6 DEF Next

LEMMA EntryNext ==
  ASSUME TypeInv, AnswerInv, AdmitInv, EntryInv, [Next]_vars
  PROVE  EntryInv'
<1> SUFFICES ASSUME applies' = 0 PROVE EntryInv'
  BY DEF EntryInv
<1>1. applies = 0 /\ restart = "idle" /\ restart' = "idle"
  BY NoRestartYet DEF EntryInv, TypeInv, TypeOK
<1> SUFFICES ASSUME NEW q \in Req, Admitted(q)',
                    settle'[q] \in {"none", "stop", "unmap"}
             PROVE  pendingMap'[IdOf[q]] = q
  BY <1>1 DEF EntryInv
<1>2. settle[q] \in {"none", "stop", "unmap"}
  BY SettleMovesOn
<1>3. IdOf[q] \in Id /\ pendingMap \in [Id -> Req \cup {NULL}]
  BY IdAssumption DEF TypeInv, TypeOK
<1>4. CASE Register(q)
  <2>1. CASE pendingMap[IdOf[q]] = NULL
    BY <1>3, <1>4, <2>1 DEF Register
  <2>2. CASE pendingMap[IdOf[q]] # NULL
    <3>1. UNCHANGED <<pendingMap, by, timer>> /\ pc'[q] = "unreserve"
      BY <1>4, <2>2 DEF Register, TypeInv, TypeOK
    <3>2. Admitted(q)
      BY <3>1 DEF Admitted
    <3> QED
      BY <1>1, <1>2, <3>1, <3>2 DEF EntryInv
  <2> QED
    BY <2>1, <2>2
<1>5. CASE ~Register(q)
  <2>1. Admitted(q)
    BY <1>5, OnlyRegisterAdmits
  <2>2. pendingMap[IdOf[q]] = q
    BY <1>1, <1>2, <2>1 DEF EntryInv
  <2>3. ASSUME NEW r \in Req, Register(r) PROVE pendingMap'[IdOf[q]] = q
    BY <1>3, <2>2, <2>3, NullAssumption DEF Register
  <2>4. ASSUME NEW r \in Req, Unmap(r) PROVE pendingMap'[IdOf[q]] = q
    <3>1. Admitted(r) /\ settle[r] = "unmap"
      BY <2>4 DEF Unmap, Admitted, AnswerInv
    <3>2. pendingMap[IdOf[r]] = r
      BY <1>1, <3>1 DEF EntryInv
    <3>3. r # q
      BY <2>4 DEF Unmap, TypeInv, TypeOK
    <3>4. IdOf[r] # IdOf[q]
      BY <2>2, <3>2, <3>3
    <3> QED
      BY <1>3, <2>2, <2>4, <3>4 DEF Unmap
  <2>5. CASE \A r \in Req : ~Register(r) /\ ~Unmap(r)
    BY <1>1, <2>2, <2>5, PendingMapFrame
  <2> QED
    BY <2>3, <2>4, <2>5
<1> QED
  BY <1>4, <1>5

(* Until a configuration is applied, no two requests with one identifier    *)
(* wait for a decision at once: LoadOrStore admits none while the entry of  *)
(* the identifier is there, and only the clean-up of its owner removes it   *)
(* (sshauth.go 126-139, 448-455).                                           *)
THEOREM OneOpenEach == Spec => []OneOpenPerId
<1>1. Spec => []TypeInv
  BY TypeInvInit, TypeInvNext, PTL DEF Spec
<1>2. Spec => []AnswerInv
  BY <1>1, AnswerInit, AnswerNext, PTL DEF Spec
<1>3. Spec => []AdmitInv
  BY <1>1, AdmitInit, AdmitNext, PTL DEF Spec
<1>4. Init => EntryInv
  BY DEF Init, EntryInv, Admitted
<1>5. TypeInv /\ AnswerInv /\ AdmitInv /\ EntryInv /\ [Next]_vars => EntryInv'
  BY EntryNext
<1>6. Spec => []EntryInv
  BY <1>1, <1>2, <1>3, <1>4, <1>5, PTL DEF Spec
<1>7. AnswerInv /\ EntryInv => OneOpenPerId
  BY DEF AnswerInv, EntryInv, OneOpenPerId, Open
<1> QED
  BY <1>2, <1>6, <1>7, PTL

=============================================================================
