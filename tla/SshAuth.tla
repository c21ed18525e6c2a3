------------------------------ MODULE SshAuth ------------------------------
(***************************************************************************)
(* The SSH login approval plugin, plugins/sshauth/sshauth.go.              *)
(*                                                                         *)
(* A connector worker dials the IPC socket of ssh-qqauth and reads login   *)
(* requests from it.  Each request gets a goroutine (Req) that reserves    *)
(* capacity, registers the request in two maps, posts a message with two   *)
(* buttons to the configured group and arms a timer.  Four kinds of        *)
(* goroutine then race for the request: a click on a button, the timer,    *)
(* the clean-up after a lost connection and the clean-up of a restart.     *)
(* The winner of one compare-and-swap (`by') settles it.                   *)
(*                                                                         *)
(* A step is one access to shared memory that another goroutine can see:   *)
(* one atomic operation, one sync.Map operation, one critical section, one *)
(* call of the platform's HTTP API or one write to the socket.             *)
(***************************************************************************)
EXTENDS Integers, FiniteSets

CONSTANTS
  Req,          \* the requests that may arrive, each one goroutine
  Id,           \* request identifiers
  IdOf,         \* [Req -> Id], the identifier ssh-qqauth gave each request
  Conn,         \* the connections that may be established (bound)
  Config,       \* the configurations the administrator may apply
  FirstConfig,  \* the one in force when the process starts
  Clicker,      \* who may press a button: records [group, user, role]
  Max,          \* MaxPendingRequests
  MaxClicks,    \* bound: button handlers between check and swap at a time
  MaxApply,     \* bound: how often the configuration is applied
  MaxAttempts,  \* attempts of the HTTP client for one post
  LossySend,    \* may the platform's answer to a post be lost?
  Restarter,    \* the goroutine that applies a configuration
  NULL

(* The connector workers, numbered by the restart that launches them. *)
Worker == 0 .. MaxApply

(* The goroutines that walk a sync.Map with Range. *)
Walker == Worker \cup {Restarter}

ASSUME ReqAssumption    == IsFiniteSet(Req)
ASSUME IdAssumption     == IdOf \in [Req -> Id]
ASSUME NullAssumption   == /\ NULL \notin Req \cup Id \cup Conn \cup Worker
                           /\ NULL \notin Clicker
ASSUME ConfigAssumption == FirstConfig \in Config
ASSUME BoundAssumption  == /\ Max \in Nat /\ MaxApply \in Nat
                           /\ MaxClicks \in Nat /\ MaxAttempts \in Nat \ {0}
ASSUME LossAssumption   == LossySend \in BOOLEAN
ASSUME WalkerAssumption == Restarter \notin Worker

VARIABLES
  config,         \* the package variable config
  pc,             \* where the goroutine of each request stands
  target,         \* the group a request's message goes to: cfg.GroupID
  conn,           \* pendingAuth.conn
  by,             \* who swapped pendingAuth.resolved: "nobody" while FALSE
  status,         \* pendingAuth.status
  settle,         \* where the winner of the swap stands
  timer,          \* pendingAuth.timer
  attempt,        \* attempts made to post the message
  posted,         \* how often the message was put into the group
  msg,            \* pendingAuth.msg is set and carries the message's id
  recalled,       \* DeleteMessage was called for the message
  answers,        \* responses for the request written to the socket
  pendingMap,     \* [Id -> Req], the global map
  pendingCounter,
  pending,        \* [Conn -> [Id -> Req]], ipcConnection.pending
  link,           \* each connection: "unused", "open" (active) or "closed"
  swept,          \* connections whose clean-up is complete (history)
  worker,         \* where each connector worker stands
  serves,         \* the connection a worker serves
  stopped,        \* the worker's stop channel is closed
  currentConn,
  workerStopCh,   \* the worker whose stop channel this is
  restart,        \* where the restarting goroutine stands
  applies,        \* how often a configuration was applied
  walk,           \* the Range loops under way
  clicks,         \* button handlers that passed the permission check
  grant           \* the click that won a request (history)

authVars == <<by, status, settle, timer, grant>>
sendVars == <<attempt, posted, msg, recalled, answers>>
reqVars  == <<pc, target, conn>>
mapVars  == <<pendingMap, pendingCounter, pending>>
linkVars == <<link, swept, worker, serves, stopped, currentConn>>
restVars == <<config, workerStopCh, restart, applies>>

vars == <<authVars, sendVars, reqVars, mapVars, linkVars, restVars, walk,
          clicks>>

-----------------------------------------------------------------------------
(* Shared operations                                                       *)

(* restartWorker holds workerMu from its first line to its last. *)
workerMuFree == restart \in {"idle", "stop"}

(* The compare-and-swap on resolved.  Every caller that wins stores the     *)
(* status it stands for (a click only when it has answered) and goes on to  *)
(* cleanup.                                                                 *)
Win(r, who, s) ==
  /\ by' = [by EXCEPT ![r] = who]
  /\ status' = [status EXCEPT ![r] = s]
  /\ settle' = [settle EXCEPT ![r] = "stop"]

(* pendingAuth.invalidate up to its cleanup. *)
Invalidate(r) ==
  IF by[r] = "nobody" THEN Win(r, "invalidate", "invalidated")
                      ELSE UNCHANGED <<by, status, settle>>

(* A permission check of handleApprovalCallback under configuration c: the  *)
(* right group, and a listed user or, when no user is listed, nobody whose  *)
(* role is known to be lower than administrator (clicks carry no role).     *)
Authorised(c, k) ==
  /\ k.group = c.group
  /\ IF c.allowed # {} THEN k.user \in c.allowed
                       ELSE k.role \in {"", "admin", "owner"}

Entries(m) == {i \in Id : m[i] # NULL}

NewWalk(m) == [due |-> Entries(m), seen |-> {}, at |-> NULL, wait |-> NULL]

IdleWalk == [due |-> {}, seen |-> {}, at |-> NULL, wait |-> NULL]

(* The map a walker ranges over. *)
Walked(t) ==
  IF t = Restarter
  THEN IF restart = "connWalk" THEN pending[currentConn] ELSE pendingMap
  ELSE pending[serves[t]]

Walking(t) ==
  IF t = Restarter THEN restart \in {"connWalk", "mapWalk"}
                   ELSE worker[t] = "sweep"

WalkOver(t) == walk[t].due \subseteq walk[t].seen /\ walk[t].at = NULL

-----------------------------------------------------------------------------
(* processApprovalRequest: the goroutine of a request                      *)

(* handleConnection decodes a request and starts its goroutine; what the    *)
(* decoder has buffered is still delivered after the connection is closed.  *)
Arrive(r, w) ==
  /\ pc[r] = "idle"
  /\ worker[w] = "serve"
  /\ pc' = [pc EXCEPT ![r] = "config"]
  /\ conn' = [conn EXCEPT ![r] = serves[w]]
  /\ UNCHANGED <<target, authVars, sendVars, mapVars, linkVars, restVars,
                 walk, clicks>>

ReadConfig(r) ==
  /\ pc[r] = "config"
  /\ IF config.enabled /\ config.group # NULL
     THEN /\ pc' = [pc EXCEPT ![r] = "reserve"]
          /\ target' = [target EXCEPT ![r] = config.group]
     ELSE /\ pc' = [pc EXCEPT ![r] = "done"]
          /\ UNCHANGED target
  /\ UNCHANGED <<conn, authVars, sendVars, mapVars, linkVars, restVars,
                 walk, clicks>>

(* Mutant: the limit is off by one. *)
ReserveOneMore(r) ==
  /\ pc[r] = "reserve"
  /\ pendingCounter' = pendingCounter + 1
  /\ pc' = [pc EXCEPT ![r] = IF pendingCounter' > Max + 1 THEN "unreserve"
                                                          ELSE "register"]
  /\ UNCHANGED <<target, conn, authVars, sendVars, pendingMap, pending,
                 linkVars, restVars, walk, clicks>>

Reserve(r) ==
  /\ pc[r] = "reserve"
  /\ pendingCounter' = pendingCounter + 1
  /\ pc' = [pc EXCEPT ![r] = IF pendingCounter' > Max THEN "unreserve"
                                                      ELSE "register"]
  /\ UNCHANGED <<target, conn, authVars, sendVars, pendingMap, pending,
                 linkVars, restVars, walk, clicks>>

(* Mutant: a refused request keeps its place. *)
UnreserveForgotten(r) ==
  /\ pc[r] = "unreserve"
  /\ pc' = [pc EXCEPT ![r] = "done"]
  /\ UNCHANGED <<target, conn, authVars, sendVars, mapVars, linkVars,
                 restVars, walk, clicks>>

Unreserve(r) ==
  /\ pc[r] = "unreserve"
  /\ pendingCounter' = pendingCounter - 1
  /\ pc' = [pc EXCEPT ![r] = "done"]
  /\ UNCHANGED <<target, conn, authVars, sendVars, pendingMap, pending,
                 linkVars, restVars, walk, clicks>>

(* LoadOrStore: a request whose identifier is taken gives its place back. *)
Register(r) ==
  /\ pc[r] = "register"
  /\ IF pendingMap[IdOf[r]] = NULL
     THEN /\ pendingMap' = [pendingMap EXCEPT ![IdOf[r]] = r]
          /\ pc' = [pc EXCEPT ![r] = "attach"]
     ELSE /\ pc' = [pc EXCEPT ![r] = "unreserve"]
          /\ UNCHANGED pendingMap
  /\ UNCHANGED <<target, conn, authVars, sendVars, pendingCounter, pending,
                 linkVars, restVars, walk, clicks>>

(* Mutant: the connection does not learn of its request. *)
AttachForgotten(r) ==
  /\ pc[r] = "attach"
  /\ pc' = [pc EXCEPT ![r] = "check"]
  /\ UNCHANGED <<target, conn, authVars, sendVars, mapVars, linkVars,
                 restVars, walk, clicks>>

Attach(r) ==
  /\ pc[r] = "attach"
  /\ pending' = [pending EXCEPT ![conn[r]][IdOf[r]] = r]
  /\ pc' = [pc EXCEPT ![r] = "check"]
  /\ UNCHANGED <<target, conn, authVars, sendVars, pendingMap,
                 pendingCounter, linkVars, restVars, walk, clicks>>

(* Mutant: no look at the connection after the request is attached. *)
CheckActiveDropped(r) ==
  /\ pc[r] = "check"
  /\ pc' = [pc EXCEPT ![r] = "send"]
  /\ UNCHANGED <<target, conn, authVars, sendVars, mapVars, linkVars,
                 restVars, walk, clicks>>

CheckActive(r) ==
  /\ pc[r] = "check"
  /\ pc' = [pc EXCEPT ![r] = IF link[conn[r]] = "open" THEN "send"
                                                       ELSE "abort"]
  /\ UNCHANGED <<target, conn, authVars, sendVars, mapVars, linkVars,
                 restVars, walk, clicks>>

(* msg.Send: an attempt of the HTTP client puts the message into the group  *)
Post(r) ==
  /\ pc[r] = "send"
  /\ attempt' = [attempt EXCEPT ![r] = @ + 1]
  /\ posted' = [posted EXCEPT ![r] = @ + 1]
  /\ pc' = [pc EXCEPT ![r] = "await"]
  /\ UNCHANGED <<target, conn, authVars, msg, recalled, answers, mapVars,
                 linkVars, restVars, walk, clicks>>

(* Mutant: one attempt too many. *)
RefuseOnceMore(r) ==
  /\ pc[r] = "send"
  /\ attempt' = [attempt EXCEPT ![r] = @ + 1]
  /\ \/ pc' = [pc EXCEPT ![r] = "abort"]
     \/ attempt[r] < MaxAttempts /\ UNCHANGED pc
  /\ UNCHANGED <<target, conn, authVars, posted, msg, recalled, answers,
                 mapVars, linkVars, restVars, walk, clicks>>

(* or is refused, for good or with a status that is tried again.            *)
Refuse(r) ==
  /\ pc[r] = "send"
  /\ attempt' = [attempt EXCEPT ![r] = @ + 1]
  /\ \/ pc' = [pc EXCEPT ![r] = "abort"]
     \/ attempt[r] + 1 < MaxAttempts /\ UNCHANGED pc
  /\ UNCHANGED <<target, conn, authVars, posted, msg, recalled, answers,
                 mapVars, linkVars, restVars, walk, clicks>>

(* The answer brings the message's id.                                      *)
SendReturns(r) ==
  /\ pc[r] = "await"
  /\ pc' = [pc EXCEPT ![r] = "publish"]
  /\ UNCHANGED <<target, conn, authVars, sendVars, mapVars, linkVars,
                 restVars, walk, clicks>>

(* The answer is lost: the client sends the message again, and gives up     *)
(* after its last attempt.                                                  *)
AnswerLost(r) ==
  /\ LossySend
  /\ pc[r] = "await"
  /\ pc' = [pc EXCEPT ![r] = IF attempt[r] < MaxAttempts THEN "send"
                                                         ELSE "abort"]
  /\ UNCHANGED <<target, conn, authVars, sendVars, mapVars, linkVars,
                 restVars, walk, clicks>>

(* Mutant: whether the request was settled during the send is not looked at. *)
PublishUnchecked(r) ==
  /\ pc[r] = "publish"
  /\ msg' = [msg EXCEPT ![r] = TRUE]
  /\ timer' = [timer EXCEPT ![r] = "armed"]
  /\ pc' = [pc EXCEPT ![r] = "done"]
  /\ UNCHANGED <<target, conn, by, status, settle, grant, attempt, posted,
                 recalled, answers, mapVars, linkVars, restVars, walk, clicks>>

(* Mutant: no timer is armed. *)
PublishUntimed(r) ==
  /\ pc[r] = "publish"
  /\ msg' = [msg EXCEPT ![r] = TRUE]
  /\ pc' = [pc EXCEPT ![r] = IF by[r] = "nobody" THEN "done" ELSE "recall"]
  /\ UNCHANGED <<target, conn, authVars, attempt, posted, recalled, answers,
                 mapVars, linkVars, restVars, walk, clicks>>

(* The critical section after Send: record the message, and either arm the *)
(* timer or, when somebody has settled the request meanwhile, leave to     *)
(* recall the message.                                                     *)
Publish(r) ==
  /\ pc[r] = "publish"
  /\ msg' = [msg EXCEPT ![r] = TRUE]
  /\ IF by[r] = "nobody"
     THEN /\ timer' = [timer EXCEPT ![r] = "armed"]
          /\ pc' = [pc EXCEPT ![r] = "done"]
     ELSE /\ pc' = [pc EXCEPT ![r] = "recall"]
          /\ UNCHANGED timer
  /\ UNCHANGED <<target, conn, by, status, settle, grant, attempt, posted,
                 recalled, answers, mapVars, linkVars, restVars, walk, clicks>>

RecallOwn(r) ==
  /\ pc[r] = "recall"
  /\ recalled' = [recalled EXCEPT ![r] = TRUE]
  /\ pc' = [pc EXCEPT ![r] = "done"]
  /\ UNCHANGED <<target, conn, authVars, attempt, posted, msg, answers, mapVars,
                 linkVars, restVars, walk, clicks>>

Abort(r) ==
  /\ pc[r] = "abort"
  /\ Invalidate(r)
  /\ pc' = [pc EXCEPT ![r] = "done"]
  /\ UNCHANGED <<target, conn, timer, grant, sendVars, mapVars, linkVars,
                 restVars, walk, clicks>>

-----------------------------------------------------------------------------
(* Racing for a request                                                    *)

(* handleApprovalCallback up to the permission check: a member of the group *)
(* presses a button (approve or deny) of a message in it.                   *)
Press(r, k, d) ==
  /\ Cardinality(clicks) < MaxClicks
  /\ posted[r] > 0
  /\ k.group = target[r]
  /\ Authorised(config, k)
  /\ clicks' = clicks \cup {[req |-> r, who |-> k, decision |-> d]}
  /\ UNCHANGED <<authVars, sendVars, reqVars, mapVars, linkVars, restVars,
                 walk>>

(* Mutant: a plain store in place of the swap. *)
ResolveUnchecked(c) ==
  /\ c \in clicks
  /\ clicks' = clicks \ {c}
  /\ Win(c.req, c.decision, "pending")
  /\ grant' = [grant EXCEPT ![c.req] = c.who]
  /\ UNCHANGED <<timer, sendVars, reqVars, mapVars, linkVars, restVars, walk>>

(* resolve: the swap. *)
Resolve(c) ==
  /\ c \in clicks
  /\ clicks' = clicks \ {c}
  /\ IF by[c.req] = "nobody"
     THEN /\ Win(c.req, c.decision, "pending")
          /\ grant' = [grant EXCEPT ![c.req] = c.who]
     ELSE UNCHANGED <<by, status, settle, grant>>
  /\ UNCHANGED <<timer, sendVars, reqVars, mapVars, linkVars, restVars, walk>>

Fire(r) ==
  /\ timer[r] = "armed"
  /\ timer' = [timer EXCEPT ![r] = "fired"]
  /\ UNCHANGED <<by, status, settle, grant, sendVars, reqVars, mapVars,
                 linkVars, restVars, walk, clicks>>

(* Mutant: the timer does not ask whether the request is settled. *)
OnTimeoutUnchecked(r) ==
  /\ timer[r] = "fired"
  /\ timer' = [timer EXCEPT ![r] = "over"]
  /\ Win(r, "timeout", "timedOut")
  /\ UNCHANGED <<grant, sendVars, reqVars, mapVars, linkVars, restVars, walk,
                 clicks>>

OnTimeout(r) ==
  /\ timer[r] = "fired"
  /\ timer' = [timer EXCEPT ![r] = "over"]
  /\ IF by[r] = "nobody" THEN Win(r, "timeout", "timedOut")
                         ELSE UNCHANGED <<by, status, settle>>
  /\ UNCHANGED <<grant, sendVars, reqVars, mapVars, linkVars, restVars, walk,
                 clicks>>

-----------------------------------------------------------------------------
(* Settling a request: cleanup, then what the winner does                  *)

StopTimer(r) ==
  /\ settle[r] = "stop"
  /\ timer' = [timer EXCEPT ![r] = IF @ = "armed" THEN "over" ELSE @]
  /\ settle' = [settle EXCEPT ![r] = "unmap"]
  /\ UNCHANGED <<by, status, grant, sendVars, reqVars, mapVars, linkVars,
                 restVars, walk, clicks>>

Unmap(r) ==
  /\ settle[r] = "unmap"
  /\ pendingMap' = [pendingMap EXCEPT ![IdOf[r]] = NULL]
  /\ settle' = [settle EXCEPT ![r] = "detach"]
  /\ UNCHANGED <<by, status, timer, grant, sendVars, reqVars, pendingCounter,
                 pending, linkVars, restVars, walk, clicks>>

Detach(r) ==
  /\ settle[r] = "detach"
  /\ pending' = [pending EXCEPT ![conn[r]][IdOf[r]] = NULL]
  /\ settle' = [settle EXCEPT ![r] = "release"]
  /\ UNCHANGED <<by, status, timer, grant, sendVars, reqVars, pendingMap,
                 pendingCounter, linkVars, restVars, walk, clicks>>

Release(r) ==
  /\ settle[r] = "release"
  /\ pendingCounter' = pendingCounter - 1
  /\ settle' = [settle EXCEPT
                  ![r] = IF by[r] \in {"approve", "deny"} THEN "answer"
                                                          ELSE "recall"]
  /\ UNCHANGED <<by, status, timer, grant, sendVars, reqVars, pendingMap,
                 pending, linkVars, restVars, walk, clicks>>

(* SendResponse on an active connection; the write itself may fail. *)
Answer(r) ==
  /\ settle[r] = "answer"
  /\ link[conn[r]] = "open"
  /\ answers' = [answers EXCEPT ![r] = @ + 1]
  /\ status' = [status EXCEPT ![r] = "delivered"]
  /\ settle' = [settle EXCEPT ![r] = "done"]
  /\ UNCHANGED <<by, timer, grant, attempt, posted, msg, recalled, reqVars,
                 mapVars, linkVars, restVars, walk, clicks>>

AnswerFails(r) ==
  /\ settle[r] = "answer"
  /\ status' = [status EXCEPT ![r] = "deliveryFailed"]
  /\ settle' = [settle EXCEPT ![r] = "recall"]
  /\ UNCHANGED <<by, timer, grant, sendVars, reqVars, mapVars, linkVars,
                 restVars, walk, clicks>>

(* Recall the message if the goroutine of the request has recorded it. *)
Recall(r) ==
  /\ settle[r] = "recall"
  /\ recalled' = [recalled EXCEPT ![r] = @ \/ msg[r]]
  /\ settle' = [settle EXCEPT ![r] = "done"]
  /\ UNCHANGED <<by, status, timer, grant, attempt, posted, msg, answers,
                 reqVars, mapVars, linkVars, restVars, walk, clicks>>

-----------------------------------------------------------------------------
(* sync.Map.Range with invalidate and Delete as its body                   *)

(* The loop reaches an entry; invalidate swaps, or finds the request taken. *)
Visit(t, i) ==
  /\ Walking(t) /\ walk[t].at = NULL /\ i \notin walk[t].seen
  /\ Walked(t)[i] # NULL
  /\ Invalidate(Walked(t)[i])
  /\ walk' = [walk EXCEPT
                ![t] = [due |-> walk[t].due, seen |-> walk[t].seen \cup {i},
                        at |-> i,
                        wait |-> IF by[Walked(t)[i]] = "nobody"
                                 THEN Walked(t)[i] ELSE NULL]]
  /\ UNCHANGED <<timer, grant, sendVars, reqVars, mapVars, linkVars,
                 restVars, clicks>>

(* An entry that was there at the start is gone when the loop comes by. *)
Miss(t, i) ==
  /\ Walking(t) /\ walk[t].at = NULL /\ i \in walk[t].due \ walk[t].seen
  /\ Walked(t)[i] = NULL
  /\ walk' = [walk EXCEPT
                ![t] = [due |-> walk[t].due, seen |-> walk[t].seen \cup {i},
                        at |-> NULL, wait |-> NULL]]
  /\ UNCHANGED <<authVars, sendVars, reqVars, mapVars, linkVars, restVars,
                 clicks>>

(* The body's Delete, once an invalidate that won has returned. *)
Drop(t) ==
  /\ Walking(t) /\ walk[t].at # NULL
  /\ walk[t].wait # NULL => settle[walk[t].wait] = "done"
  /\ walk' = [walk EXCEPT
                ![t] = [due |-> walk[t].due, seen |-> walk[t].seen,
                        at |-> NULL, wait |-> NULL]]
  /\ IF t = Restarter /\ restart = "mapWalk"
     THEN /\ pendingMap' = [pendingMap EXCEPT ![walk[t].at] = NULL]
          /\ UNCHANGED pending
     ELSE LET c == IF t = Restarter THEN currentConn ELSE serves[t]
          IN  /\ pending' = [pending EXCEPT ![c][walk[t].at] = NULL]
              /\ UNCHANGED pendingMap
  /\ UNCHANGED <<authVars, sendVars, reqVars, pendingCounter, linkVars,
                 restVars, clicks>>

-----------------------------------------------------------------------------
(* runConnector                                                            *)

linkRest == <<authVars, sendVars, reqVars, mapVars, restVars, clicks>>

(* The top of the loop, and the wait before another attempt: leave when the *)
(* stop channel is closed.                                                  *)
LeaveLoop(w) ==
  /\ worker[w] = "loop" /\ stopped[w]
  /\ worker' = [worker EXCEPT ![w] = "gone"]
  /\ UNCHANGED <<link, swept, serves, stopped, currentConn, walk, linkRest>>

BeginDial(w) ==
  /\ worker[w] = "loop" /\ ~stopped[w]
  /\ worker' = [worker EXCEPT ![w] = "dial"]
  /\ UNCHANGED <<link, swept, serves, stopped, currentConn, walk, linkRest>>

(* DialTimeout returns a connection, whatever has happened meanwhile. *)
Dial(w, c) ==
  /\ worker[w] = "dial"
  /\ link[c] = "unused"
  /\ link' = [link EXCEPT ![c] = "open"]
  /\ serves' = [serves EXCEPT ![w] = c]
  /\ worker' = [worker EXCEPT ![w] = "adopt"]
  /\ UNCHANGED <<swept, stopped, currentConn, walk, linkRest>>

DialFails(w) ==
  /\ worker[w] = "dial"
  /\ worker' = [worker EXCEPT ![w] = "loop"]
  /\ UNCHANGED <<link, swept, serves, stopped, currentConn, walk, linkRest>>

Adopt(w) ==
  /\ worker[w] = "adopt" /\ workerMuFree
  /\ currentConn' = serves[w]
  /\ worker' = [worker EXCEPT ![w] = "serve"]
  /\ UNCHANGED <<link, swept, serves, stopped, walk, linkRest>>

(* Mutant: nobody waits for the stop channel while a connection is served. *)
CloseOnStopDropped(w) == FALSE

(* The goroutine of handleConnection that waits for the stop channel. *)
CloseOnStop(w) ==
  /\ worker[w] = "serve" /\ stopped[w]
  /\ link[serves[w]] = "open"
  /\ link' = [link EXCEPT ![serves[w]] = "closed"]
  /\ UNCHANGED <<swept, worker, serves, stopped, currentConn, walk, linkRest>>

(* Decode returns an error: the peer is gone, has sent no JSON, or the      *)
(* connection was closed on this side.                                      *)
DecodeFails(w) ==
  /\ worker[w] = "serve"
  /\ worker' = [worker EXCEPT ![w] = "forget"]
  /\ UNCHANGED <<link, swept, serves, stopped, currentConn, walk, linkRest>>

Forget(w) ==
  /\ worker[w] = "forget" /\ workerMuFree
  /\ currentConn' = IF currentConn = serves[w] THEN NULL ELSE currentConn
  /\ worker' = [worker EXCEPT ![w] = "close"]
  /\ UNCHANGED <<link, swept, serves, stopped, walk, linkRest>>

Close(w) ==
  /\ worker[w] = "close"
  /\ link' = [link EXCEPT ![serves[w]] = "closed"]
  /\ walk' = [walk EXCEPT ![w] = NewWalk(pending[serves[w]])]
  /\ worker' = [worker EXCEPT ![w] = "sweep"]
  /\ UNCHANGED <<swept, serves, stopped, currentConn, linkRest>>

EndSweep(w) ==
  /\ worker[w] = "sweep" /\ WalkOver(w)
  /\ swept' = swept \cup {serves[w]}
  /\ serves' = [serves EXCEPT ![w] = NULL]
  /\ walk' = [walk EXCEPT ![w] = IdleWalk]
  /\ worker' = [worker EXCEPT ![w] = "loop"]
  /\ UNCHANGED <<link, stopped, currentConn, linkRest>>

-----------------------------------------------------------------------------
(* applyConfig and restartWorker                                           *)

ApplyConfig(c) ==
  /\ restart = "idle" /\ applies < MaxApply
  /\ config' = c
  /\ applies' = applies + 1
  /\ restart' = "stop"
  /\ UNCHANGED <<authVars, sendVars, reqVars, mapVars, linkVars,
                 workerStopCh, walk, clicks>>

(* Mutant: a restart that settles none of the requests waiting. *)
StopWorkerOnly ==
  /\ restart = "stop"
  /\ stopped' = [w \in Worker |-> stopped[w] \/ w = workerStopCh]
  /\ workerStopCh' = NULL
  /\ restart' = "zero"
  /\ UNCHANGED <<authVars, sendVars, reqVars, mapVars, link, swept, worker,
                 serves, currentConn, config, applies, walk, clicks>>

StopWorker ==
  /\ restart = "stop"
  /\ stopped' = [w \in Worker |-> stopped[w] \/ w = workerStopCh]
  /\ workerStopCh' = NULL
  /\ restart' = "close"
  /\ UNCHANGED <<authVars, sendVars, reqVars, mapVars, link, swept, worker,
                 serves, currentConn, config, applies, walk, clicks>>

(* Close the current connection and start the walk over its requests; with  *)
(* no connection the walk over the global map begins at once.               *)
CloseCurrent ==
  /\ restart = "close"
  /\ IF currentConn # NULL
     THEN /\ link' = [link EXCEPT ![currentConn] = "closed"]
          /\ restart' = "connWalk"
          /\ walk' = [walk EXCEPT ![Restarter] = NewWalk(pending[currentConn])]
     ELSE /\ restart' = "mapWalk"
          /\ walk' = [walk EXCEPT ![Restarter] = NewWalk(pendingMap)]
          /\ UNCHANGED link
  /\ UNCHANGED <<authVars, sendVars, reqVars, mapVars, swept, worker, serves,
                 stopped, currentConn, config, workerStopCh, applies, clicks>>

EndConnWalk ==
  /\ restart = "connWalk" /\ WalkOver(Restarter)
  /\ currentConn' = NULL
  /\ restart' = "mapWalk"
  /\ walk' = [walk EXCEPT ![Restarter] = NewWalk(pendingMap)]
  /\ UNCHANGED <<authVars, sendVars, reqVars, mapVars, link, swept, worker,
                 serves, stopped, config, workerStopCh, applies, clicks>>

EndMapWalk ==
  /\ restart = "mapWalk" /\ WalkOver(Restarter)
  /\ restart' = "zero"
  /\ walk' = [walk EXCEPT ![Restarter] = IdleWalk]
  /\ UNCHANGED <<authVars, sendVars, reqVars, mapVars, linkVars, config,
                 workerStopCh, applies, clicks>>

ZeroCounter ==
  /\ restart = "zero"
  /\ pendingCounter' = 0
  /\ restart' = "launch"
  /\ UNCHANGED <<authVars, sendVars, reqVars, pendingMap, pending, linkVars,
                 config, workerStopCh, applies, walk, clicks>>

Launch ==
  /\ restart = "launch"
  /\ restart' = "idle"
  /\ IF config.enabled
     THEN /\ worker' = [worker EXCEPT ![applies] = "loop"]
          /\ workerStopCh' = applies
     ELSE UNCHANGED <<worker, workerStopCh>>
  /\ UNCHANGED <<authVars, sendVars, reqVars, mapVars, link, swept, serves,
                 stopped, currentConn, config, applies, walk, clicks>>

-----------------------------------------------------------------------------

(* SetClient has run once: worker 0 is up when the plugin is enabled. *)
Init ==
  /\ config = FirstConfig
  /\ pc = [r \in Req |-> "idle"]
  /\ target = [r \in Req |-> NULL]
  /\ conn = [r \in Req |-> NULL]
  /\ by = [r \in Req |-> "nobody"]
  /\ status = [r \in Req |-> "pending"]
  /\ settle = [r \in Req |-> "none"]
  /\ timer = [r \in Req |-> "none"]
  /\ attempt = [r \in Req |-> 0]
  /\ posted = [r \in Req |-> 0]
  /\ msg = [r \in Req |-> FALSE]
  /\ recalled = [r \in Req |-> FALSE]
  /\ answers = [r \in Req |-> 0]
  /\ pendingMap = [i \in Id |-> NULL]
  /\ pendingCounter = 0
  /\ pending = [c \in Conn |-> [i \in Id |-> NULL]]
  /\ link = [c \in Conn |-> "unused"]
  /\ swept = {}
  /\ worker = [w \in Worker |-> IF w = 0 /\ FirstConfig.enabled THEN "loop"
                                                                ELSE "gone"]
  /\ serves = [w \in Worker |-> NULL]
  /\ stopped = [w \in Worker |-> FALSE]
  /\ currentConn = NULL
  /\ workerStopCh = IF FirstConfig.enabled THEN 0 ELSE NULL
  /\ restart = "idle"
  /\ applies = 0
  /\ walk = [t \in Walker |-> IdleWalk]
  /\ clicks = {}
  /\ grant = [r \in Req |-> NULL]

(* The goroutine of request r up to its end. *)
Process(r) ==
  \/ ReadConfig(r) \/ Reserve(r) \/ Unreserve(r) \/ Register(r) \/ Attach(r)
  \/ CheckActive(r) \/ Post(r) \/ Refuse(r) \/ SendReturns(r)
  \/ AnswerLost(r) \/ Publish(r) \/ RecallOwn(r) \/ Abort(r)

(* What the winner of request r does. *)
Settle(r) ==
  \/ StopTimer(r) \/ Unmap(r) \/ Detach(r) \/ Release(r) \/ Answer(r)
  \/ AnswerFails(r) \/ Recall(r)

RangeStep(t) == (\E i \in Id : Visit(t, i) \/ Miss(t, i)) \/ Drop(t)

Connector(w) ==
  \/ LeaveLoop(w) \/ BeginDial(w) \/ (\E c \in Conn : Dial(w, c))
  \/ DialFails(w) \/ Adopt(w) \/ CloseOnStop(w) \/ DecodeFails(w)
  \/ Forget(w) \/ Close(w) \/ EndSweep(w)

RestartStep ==
  \/ StopWorker \/ CloseCurrent \/ EndConnWalk \/ EndMapWalk \/ ZeroCounter
  \/ Launch

Next ==
  \/ \E r \in Req : \/ \E w \in Worker : Arrive(r, w)
                    \/ Process(r)
                    \/ Settle(r)
                    \/ Fire(r)
                    \/ OnTimeout(r)
                    \/ \E k \in Clicker, d \in {"approve", "deny"} :
                         Press(r, k, d)
  \/ \E c \in clicks : Resolve(c)
  \/ \E t \in Walker : RangeStep(t)
  \/ \E w \in Worker : Connector(w)
  \/ \E c \in Config : ApplyConfig(c)
  \/ RestartStep

(* Goroutines run, HTTP calls and the socket write have deadlines, timers    *)
(* fire, and Decode fails on a closed connection.  Nothing is assumed of    *)
(* ssh-qqauth, of the members of the group or of the administrator.         *)
Fairness ==
  /\ \A r \in Req : /\ WF_vars(Process(r)) /\ WF_vars(Settle(r))
                    /\ WF_vars(Fire(r)) /\ WF_vars(OnTimeout(r))
  /\ \A t \in Walker : WF_vars(RangeStep(t))
  /\ \A w \in Worker :
       /\ WF_vars(LeaveLoop(w)) /\ WF_vars(DialFails(w)) /\ WF_vars(Adopt(w))
       /\ WF_vars(CloseOnStop(w))
       /\ WF_vars(/\ worker[w] = "serve" /\ link[serves[w]] = "closed"
                  /\ DecodeFails(w))
       /\ WF_vars(Forget(w)) /\ WF_vars(Close(w)) /\ WF_vars(EndSweep(w))
  /\ WF_vars(RestartStep)

Spec == Init /\ [][Next]_vars

FairSpec == Spec /\ Fairness

-----------------------------------------------------------------------------
(* Properties                                                              *)

PC == {"idle", "config", "reserve", "unreserve", "register", "attach",
       "check", "send", "await", "publish", "recall", "abort", "done"}

By == {"nobody", "approve", "deny", "timeout", "invalidate"}

Status == {"pending", "delivered", "deliveryFailed", "timedOut",
           "invalidated"}

SettlePC == {"none", "stop", "unmap", "detach", "release", "answer",
             "recall", "done"}

WorkerPC == {"gone", "loop", "dial", "adopt", "serve", "forget", "close",
             "sweep"}

RestartPC == {"idle", "stop", "close", "connWalk", "mapWalk", "zero",
              "launch"}

Click == [req : Req, who : Clicker, decision : {"approve", "deny"}]

WalkState == [due : SUBSET Id, seen : SUBSET Id, at : Id \cup {NULL},
              wait : Req \cup {NULL}]

TypeOK ==
  /\ config \in Config
  /\ pc \in [Req -> PC]
  /\ conn \in [Req -> Conn \cup {NULL}]
  /\ by \in [Req -> By]
  /\ status \in [Req -> Status]
  /\ settle \in [Req -> SettlePC]
  /\ timer \in [Req -> {"none", "armed", "fired", "over"}]
  /\ attempt \in [Req -> 0 .. MaxAttempts]
  /\ posted \in [Req -> 0 .. MaxAttempts]
  /\ msg \in [Req -> BOOLEAN]
  /\ recalled \in [Req -> BOOLEAN]
  /\ answers \in [Req -> Nat]
  /\ pendingMap \in [Id -> Req \cup {NULL}]
  /\ pendingCounter \in Int
  /\ pending \in [Conn -> [Id -> Req \cup {NULL}]]
  /\ link \in [Conn -> {"unused", "open", "closed"}]
  /\ swept \subseteq Conn
  /\ worker \in [Worker -> WorkerPC]
  /\ serves \in [Worker -> Conn \cup {NULL}]
  /\ stopped \in [Worker -> BOOLEAN]
  /\ currentConn \in Conn \cup {NULL}
  /\ workerStopCh \in Worker \cup {NULL}
  /\ restart \in RestartPC
  /\ applies \in 0 .. MaxApply
  /\ walk \in [Walker -> WalkState]
  /\ clicks \subseteq Click
  /\ grant \in [Req -> Clicker \cup {NULL}]

(* The request has been registered in pendingMap. *)
Admitted(r) ==
  \/ pc[r] \in {"attach", "check", "send", "await", "publish", "recall",
                "abort"}
  \/ by[r] # "nobody"
  \/ timer[r] # "none"

(* It waits for a decision. *)
Open(r) == Admitted(r) /\ by[r] = "nobody"

(* Its own goroutine and that of its winner have ended. *)
Finished(r) == pc[r] = "done" /\ settle[r] = "done"

(* It counts in pendingCounter. *)
Counted(r) ==
  \/ pc[r] \in {"unreserve", "register"}
  \/ Admitted(r) /\ settle[r] \in {"none", "stop", "unmap", "detach",
                                   "release"}

(* ssh-qqauth receives at most one response for a request, and only when a  *)
(* click that passed the permission check won it: a timed-out or            *)
(* invalidated request is never answered.                                   *)
AnsweredOnceByAClick ==
  \A r \in Req :
    /\ answers[r] <= 1
    /\ answers[r] = 1 => by[r] \in {"approve", "deny"} /\ grant[r] # NULL

(* A request that ends without a delivered answer leaves no message behind, *)
(* whichever of its goroutine and its winner came to the message first.     *)
NoMessageLeft ==
  \A r \in Req :
    Finished(r) /\ status[r] # "delivered" =>
      posted[r] = IF recalled[r] THEN 1 ELSE 0

(* Until a configuration is applied, pendingCounter is the number of        *)
(* requests that hold a place.                                              *)
CounterExact ==
  applies = 0 => pendingCounter = Cardinality({r \in Req : Counted(r)})

(* MaxPendingRequests: until a configuration is applied, no more than Max   *)
(* requests wait for a decision.                                            *)
CapacityUntilRestart ==
  applies = 0 => Cardinality({r \in Req : Open(r)}) <= Max

(* The claim of the capacity test: once every request has given its place   *)
(* back, pendingCounter is zero again.                                      *)
CounterReturnsToZero ==
  (\A r \in Req : ~Counted(r)) => pendingCounter = 0

(* When the clean-up of a connection is over, every request that came over  *)
(* it is settled, except those about to see the closed connection.          *)
SweptLeavesNoneOpen ==
  \A r \in Req :
    conn[r] \in swept /\ Open(r) => pc[r] \in {"attach", "check", "abort"}

(* Whoever looks for open requests finds them: each is in the global map    *)
(* and, once attached, in the map of its connection.                        *)
OpenIsListed ==
  \A r \in Req :
    Open(r) => /\ pendingMap[IdOf[r]] = r
               /\ pc[r] # "attach" => pending[conn[r]][IdOf[r]] = r

(* LoadOrStore and the clean-up together: while no configuration is         *)
(* applied, no two requests with one identifier wait at the same time, also *)
(* when ssh-qqauth uses the identifier again.                               *)
OneOpenPerId ==
  applies = 0 =>
    \A r, q \in Req : Open(r) /\ Open(q) /\ IdOf[r] = IdOf[q] => r = q

(* A published open request has a timer that will settle it, and no timer   *)
(* is left armed behind a settled one.                                      *)
TimerMatchesRequest ==
  \A r \in Req :
    /\ pc[r] = "done" /\ Open(r) => timer[r] \in {"armed", "fired"}
    /\ settle[r] \notin {"none", "stop"} => timer[r] # "armed"

(* A click wins a request only if the clicker may decide under the          *)
(* configuration in force, or the restart that follows a change is still    *)
(* under way: the check is made before the swap, with the configuration of  *)
(* that moment.                                                             *)
DecisionFollowsConfig ==
  [][\A r \in Req :
       by[r] = "nobody" /\ by'[r] \in {"approve", "deny"} =>
         restart # "idle" \/ Authorised(config, grant'[r])]_vars

(* Every registered request is settled: by a click, by the timer, or by a   *)
(* clean-up.                                                                *)
EveryRequestSettles ==
  \A r \in Req : Admitted(r) ~> Finished(r)

(* Applying a configuration ends, and the workers it stopped go away.       *)
RestartCompletes ==
  LET Restarting == \/ restart # "idle"
                    \/ \E w \in Worker : stopped[w] /\ worker[w] # "gone"
  IN  Restarting ~> ~Restarting

-----------------------------------------------------------------------------
(* What the plugin promises                                                *)

decision ==
  [r \in Req |->
     CASE ~Admitted(r) -> "absent"
       [] Open(r) -> "open"
       [] by[r] \in {"approve", "deny"} -> by[r]
       [] OTHER -> "void"]

reply ==
  [r \in Req |->
     CASE status[r] = "delivered" -> "sent"
       [] status[r] = "deliveryFailed" -> "failed"
       [] OTHER -> "none"]

notice ==
  [r \in Req |->
     CASE recalled[r] -> "withdrawn"
       [] posted[r] > 0 /\ ~recalled[r] -> "shown"
       [] OTHER -> "none"]

Promise == INSTANCE ApprovalPromise
  WITH Req <- Req, decision <- decision, reply <- reply, notice <- notice

(* The plugin, with its goroutines, maps, timers and connections, keeps the *)
(* promise of ApprovalPromise: each step decides, answers, shows or         *)
(* withdraws as that specification allows, or changes nothing it sees.      *)
KeepsPromise == Promise!Spec

=============================================================================
