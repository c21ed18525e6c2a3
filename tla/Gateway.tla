------------------------------ MODULE Gateway ------------------------------
(***************************************************************************)
(* The WebSocket client of lib/gateway/client.go.                          *)
(*                                                                         *)
(* Start runs one goroutine that connects, greets, authenticates (a new    *)
(* session or a resumed one), reads until the connection is lost, and      *)
(* begins again.  Each authenticated connection has a heartbeat goroutine. *)
(* Both, and Stop, close the connection through closeConn, under writeMu;  *)
(* the reading goroutine uses the field conn without it.                   *)
(*                                                                         *)
(* A step is one critical section, one unlocked access to a shared field,  *)
(* or one call of the network.  The session (sessionID, latestSeq,         *)
(* canResume) is written by the reading goroutine alone.  The server is    *)
(* not trusted to be quick: it may answer, refuse, be silent or hang up.   *)
(***************************************************************************)
EXTENDS Integers, FiniteSets

CONSTANTS
  MaxConn,   \* bound: connections dialled
  MaxSession,\* bound: sessions the server opens
  MaxSeq,    \* bound: events of one session
  Silence,   \* heartbeat intervals without an answer that are put up with
  CanStop,   \* is Stop called?
  NULL

Conn == 1 .. MaxConn

Session == 1 .. MaxSession

ASSUME ConnAssumption    == MaxConn \in Nat \ {0}
ASSUME SessionAssumption == MaxSession \in Nat
ASSUME SeqAssumption     == MaxSeq \in Nat \ {0}
ASSUME SilenceAssumption == Silence \in Nat \ {0}
ASSUME StopAssumption    == CanStop \in BOOLEAN
ASSUME NullAssumption    == NULL \notin Session /\ NULL \notin Conn

VARIABLES
  pc,         \* where the goroutine of Start stands
  last,       \* the connection it dialled last, 0 before the first
  conn,       \* the field conn
  socket,     \* each connection: unused, open, reset (by the peer) or closed
  sessionID,
  latestSeq,
  canResume,
  beat,       \* where the heartbeat goroutine of each connection stands
  done,       \* heartbeatDone of the connection is closed
  quiet,      \* intervals since lastAckReceived, up to Silence
  stop,       \* where the caller of Stop stands
  serving,    \* the session the server streams: the one it was asked to
              \* resume, or a new one from READY on        (external)
  next,       \* sequence number of the next event it streams  (external)
  refused,    \* sessions the server has declared invalid      (external)
  handled     \* [Session -> last event handed to the plugins] (history)

sessVars == <<sessionID, latestSeq, canResume>>
wireVars == <<last, conn, socket>>
beatVars == <<beat, done>>
peerVars == <<serving, next, refused, handled>>

vars == <<pc, wireVars, sessVars, beatVars, quiet, stop, peerVars>>

-----------------------------------------------------------------------------

stopped == stop # "idle"

stopChanClosed == stop \in {"close", "done"}

(* closeConn: close what the field holds, and forget it. *)
CloseConn ==
  /\ socket' = IF conn = NULL THEN socket
                              ELSE [socket EXCEPT ![conn] = "closed"]
  /\ conn' = NULL
  /\ UNCHANGED last

(* An unlocked use of the field: nil is dereferenced, which nobody recovers. *)
UseConn(here, there) ==
  /\ pc = here
  /\ pc' = IF conn = NULL THEN "crashed" ELSE there

-----------------------------------------------------------------------------
(* Start and connect                                                       *)

Loop ==
  /\ pc = "loop"
  /\ pc' = IF stopped THEN "over" ELSE "dial"
  /\ UNCHANGED <<wireVars, sessVars, beatVars, quiet, stop, peerVars>>

Dial ==
  /\ pc = "dial" /\ last < MaxConn
  /\ last' = last + 1
  /\ socket' = [socket EXCEPT ![last'] = "open"]
  /\ pc' = "set"
  /\ serving' = NULL /\ next' = 1
  /\ UNCHANGED <<conn, sessVars, beatVars, quiet, stop, refused, handled>>

(* No address, or no connection: connect returns before its first defer. *)
DialFails ==
  /\ pc = "dial"
  /\ pc' = "back"
  /\ UNCHANGED <<wireVars, sessVars, beatVars, quiet, stop, peerVars>>

SetConn ==
  /\ pc = "set"
  /\ conn' = last
  /\ pc' = "deadline"
  /\ UNCHANGED <<last, socket, sessVars, beatVars, quiet, stop,
                 peerVars>>

(* waitHello uses the field three times: to set a deadline, to read, and to *)
(* clear the deadline.                                                      *)
SetDeadline ==
  /\ UseConn("deadline", "greet")
  /\ UNCHANGED <<wireVars, sessVars, beatVars, quiet, stop, peerVars>>

AwaitHello ==
  /\ UseConn("greet", "hello")
  /\ UNCHANGED <<wireVars, sessVars, beatVars, quiet, stop, peerVars>>

HelloArrives ==
  /\ pc = "hello" /\ socket[last] # "reset"
  /\ pc' = "clear"
  /\ UNCHANGED <<wireVars, sessVars, beatVars, quiet, stop, peerVars>>

(* Mutant: the connection is not closed when the greeting fails. *)
HelloFailsOpen ==
  /\ pc = "hello"
  /\ pc' = "back"
  /\ UNCHANGED <<wireVars, sessVars, beatVars, quiet, stop, peerVars>>

(* The read fails or its deadline passes. *)
HelloFails ==
  /\ pc = "hello"
  /\ pc' = "close"
  /\ UNCHANGED <<wireVars, sessVars, beatVars, quiet, stop, peerVars>>

ClearDeadline ==
  /\ UseConn("clear", "greeted")
  /\ UNCHANGED <<wireVars, sessVars, beatVars, quiet, stop, peerVars>>

(* The first message is a Hello, from which the heartbeat is timed, or not. *)
Greeted ==
  /\ pc = "greeted"
  /\ \/ pc' = "auth" /\ quiet' = 0
     \/ pc' = "close" /\ UNCHANGED quiet
  /\ UNCHANGED <<wireVars, sessVars, beatVars, stop, peerVars>>

(* Resume or Identify, whichever the session allows, and the heartbeat      *)
(* goroutine.  The server takes up the session after the number it is told. *)
Authenticate ==
  /\ pc = "auth" /\ conn # NULL
  /\ IF canResume /\ sessionID # NULL
     THEN serving' = sessionID /\ next' = latestSeq + 1
     ELSE UNCHANGED <<serving, next>>
  /\ beat' = [beat EXCEPT ![last] = "wait"]
  /\ pc' = "read"
  /\ UNCHANGED <<wireVars, sessVars, done, quiet, stop, refused, handled>>

(* No access token, or the write fails. *)
AuthenticateFails ==
  /\ pc = "auth"
  /\ pc' = "close"
  /\ UNCHANGED <<wireVars, sessVars, beatVars, quiet, stop, peerVars>>

-----------------------------------------------------------------------------
(* readLoop                                                                *)

Read ==
  /\ UseConn("read", "blocked")
  /\ UNCHANGED <<wireVars, sessVars, beatVars, quiet, stop, peerVars>>

(* A message arrives; what was received before closeConn is still delivered. *)
Receive == pc = "blocked" /\ socket[last] # "reset"

(* A session of its own for this connection; READY is its first event, and  *)
(* well formed.                                                             *)
Ready(s) ==
  /\ Receive /\ serving = NULL
  /\ \A t \in Session : handled[t] = 0 <=> t >= s
  /\ serving' = s /\ next' = 2
  /\ handled' = [handled EXCEPT ![s] = 1]
  /\ sessionID' = s /\ latestSeq' = 1 /\ canResume' = TRUE
  /\ pc' = "read"
  /\ UNCHANGED <<wireVars, beatVars, quiet, stop, refused>>

(* Mutant: the sequence number of the event is not kept. *)
DispatchUncounted ==
  /\ Receive /\ serving # NULL /\ next <= MaxSeq
  /\ next' = next + 1
  /\ handled' = [handled EXCEPT ![serving] = next]
  /\ pc' = "read"
  /\ UNCHANGED <<wireVars, sessVars, beatVars, quiet, stop, serving,
                 refused>>

(* An event, RESUMED among them; the plugins get it in a goroutine. *)
Dispatch ==
  /\ Receive /\ serving # NULL /\ next <= MaxSeq
  /\ next' = next + 1
  /\ handled' = [handled EXCEPT ![serving] = next]
  /\ latestSeq' = next
  /\ canResume' \in {canResume, TRUE}
  /\ pc' = "read"
  /\ UNCHANGED <<wireVars, sessionID, beatVars, quiet, stop, serving,
                 refused>>

HeartbeatAck ==
  /\ Receive
  /\ quiet' = 0
  /\ pc' = "read"
  /\ UNCHANGED <<wireVars, sessVars, beatVars, stop, peerVars>>

(* The server wants a heartbeat, or sends what the client does not know. *)
OtherMessage ==
  /\ Receive
  /\ pc' = "read"
  /\ UNCHANGED <<wireVars, sessVars, beatVars, quiet, stop, peerVars>>

Reconnect ==
  /\ Receive
  /\ canResume' = TRUE
  /\ pc' = "drop"
  /\ UNCHANGED <<wireVars, sessionID, latestSeq, beatVars, quiet, stop,
                 peerVars>>

(* The server gives up the session it was asked for or streams. *)
Refuse ==
  refused' = refused \cup {s \in {serving} : s # NULL}

ForgetSession == sessionID' = NULL /\ latestSeq' = 0 /\ canResume' = FALSE

(* Mutant: the session is marked but not forgotten. *)
InvalidSessionKept ==
  /\ Receive
  /\ Refuse
  /\ canResume' = FALSE
  /\ pc' = "drop"
  /\ UNCHANGED <<sessionID, latestSeq, wireVars, beatVars, quiet, stop,
                 serving, next, handled>>

InvalidSession ==
  /\ Receive
  /\ Refuse
  /\ ForgetSession
  /\ pc' = "drop"
  /\ UNCHANGED <<wireVars, beatVars, quiet, stop, serving, next,
                 handled>>

(* ReadMessage fails; handleDisconnect looks at the server's close code, if *)
(* there is one.                                                            *)
ReadFails ==
  /\ pc = "blocked"
  /\ canResume' = (canResume \/ sessionID # NULL)
  /\ pc' = "lost"
  /\ UNCHANGED <<wireVars, sessionID, latestSeq, beatVars, quiet, stop,
                 peerVars>>

(* 4008 and 4009. *)
ClosedResumable ==
  /\ Receive
  /\ canResume' = TRUE
  /\ pc' = "lost"
  /\ UNCHANGED <<wireVars, sessionID, latestSeq, beatVars, quiet, stop,
                 peerVars>>

(* 4006, 4007 and the fatal codes. *)
ClosedForGood ==
  /\ Receive
  /\ Refuse
  /\ ForgetSession
  /\ pc' = "lost"
  /\ UNCHANGED <<wireVars, beatVars, quiet, stop, serving, next,
                 handled>>

Drop ==
  /\ pc = "drop"
  /\ CloseConn
  /\ pc' = "lost"
  /\ UNCHANGED <<sessVars, beatVars, quiet, stop, peerVars>>

-----------------------------------------------------------------------------
(* The deferred calls of connect, and the wait of Start                    *)

(* Mutant: the heartbeat goroutine is not told. *)
EndHeartbeatForgotten ==
  /\ pc = "lost"
  /\ pc' = "close"
  /\ UNCHANGED <<wireVars, sessVars, beatVars, quiet, stop, peerVars>>

EndHeartbeat ==
  /\ pc = "lost"
  /\ done' = [done EXCEPT ![last] = TRUE]
  /\ pc' = "close"
  /\ UNCHANGED <<wireVars, sessVars, beat, quiet, stop, peerVars>>

Close ==
  /\ pc = "close"
  /\ CloseConn
  /\ pc' = "back"
  /\ UNCHANGED <<sessVars, beatVars, quiet, stop, peerVars>>

Back ==
  /\ pc = "back"
  /\ pc' = IF stopped THEN "over" ELSE "wait"
  /\ UNCHANGED <<wireVars, sessVars, beatVars, quiet, stop, peerVars>>

(* Mutant: the wait has no end of its own. *)
WaitForStop ==
  /\ pc = "wait"
  /\ stopChanClosed /\ pc' = "over"
  /\ UNCHANGED <<wireVars, sessVars, beatVars, quiet, stop, peerVars>>

(* Stop ends the wait, or the backoff is over. *)
Wait ==
  /\ pc = "wait"
  /\ \/ stopChanClosed /\ pc' = "over"
     \/ pc' = "loop"
  /\ UNCHANGED <<wireVars, sessVars, beatVars, quiet, stop, peerVars>>

-----------------------------------------------------------------------------
(* heartbeatLoop of connection c                                           *)

(* Mutant: one interval too many. *)
BeatTickLate(c) ==
  /\ beat[c] = "wait"
  /\ \/ /\ quiet >= Silence
        /\ beat' = [beat EXCEPT ![c] = "close"]
        /\ UNCHANGED quiet
     \/ /\ quiet <= Silence
        /\ beat' = [beat EXCEPT ![c] = "send"]
        /\ quiet' = IF c = last THEN quiet + 1 ELSE quiet
  /\ UNCHANGED <<pc, wireVars, sessVars, done, stop, peerVars>>

(* Mutant: nobody asks when the last answer came. *)
BeatTickBlind(c) ==
  /\ beat[c] = "wait"
  /\ beat' = [beat EXCEPT ![c] = "send"]
  /\ UNCHANGED <<pc, wireVars, sessVars, done, quiet, stop, peerVars>>

(* A tick, which select may take even if it has been told to end.  How long *)
(* the answer has been missing is counted in ticks of the last connection;  *)
(* when it equals Silence, one tick more or less is a matter of moments.    *)
(* A goroutine of an earlier connection may tick after any time.            *)
BeatTick(c) ==
  /\ beat[c] = "wait"
  /\ \/ /\ c = last => quiet >= Silence - 1
        /\ beat' = [beat EXCEPT ![c] = "close"]
        /\ UNCHANGED quiet
     \/ /\ c = last => quiet < Silence
        /\ beat' = [beat EXCEPT ![c] = "send"]
        /\ quiet' = IF c = last THEN quiet + 1 ELSE quiet
  /\ UNCHANGED <<pc, wireVars, sessVars, done, stop, peerVars>>

BeatEnds(c) ==
  /\ beat[c] = "wait"
  /\ done[c] \/ stopChanClosed
  /\ beat' = [beat EXCEPT ![c] = "gone"]
  /\ UNCHANGED <<pc, wireVars, sessVars, done, quiet, stop, peerVars>>

(* sendHeartbeat writes to whatever the field holds by now; a write to a    *)
(* connection the peer has reset may still succeed.                         *)
BeatSend(c) ==
  /\ beat[c] = "send"
  /\ \/ conn # NULL /\ beat' = [beat EXCEPT ![c] = "wait"]
     \/ /\ conn # NULL => socket[conn] = "reset"
        /\ beat' = [beat EXCEPT ![c] = "close"]
  /\ UNCHANGED <<pc, wireVars, sessVars, done, quiet, stop, peerVars>>

(* It closes whatever the field holds by now. *)
BeatClose(c) ==
  /\ beat[c] = "close"
  /\ CloseConn
  /\ beat' = [beat EXCEPT ![c] = "gone"]
  /\ UNCHANGED <<pc, sessVars, done, quiet, stop, peerVars>>

-----------------------------------------------------------------------------
(* Stop: the swap of stopped, close(stopChan), closeConn                   *)

StopBegin ==
  /\ CanStop /\ stop = "idle"
  /\ stop' = "signal"
  /\ UNCHANGED <<pc, wireVars, sessVars, beatVars, quiet, peerVars>>

StopSignal ==
  /\ stop = "signal"
  /\ stop' = "close"
  /\ UNCHANGED <<pc, wireVars, sessVars, beatVars, quiet, peerVars>>

StopClose ==
  /\ stop = "close"
  /\ CloseConn
  /\ stop' = "done"
  /\ UNCHANGED <<pc, sessVars, beatVars, quiet, peerVars>>

(* The peer or the network resets a connection. *)
Reset(c) ==
  /\ socket[c] = "open"
  /\ socket' = [socket EXCEPT ![c] = "reset"]
  /\ UNCHANGED <<pc, last, conn, sessVars, beatVars, quiet, stop,
                 peerVars>>

-----------------------------------------------------------------------------

Init ==
  /\ pc = "loop"
  /\ last = 0
  /\ conn = NULL
  /\ socket = [c \in Conn |-> "unused"]
  /\ sessionID = NULL
  /\ latestSeq = 0
  /\ canResume = FALSE
  /\ beat = [c \in Conn |-> "none"]
  /\ done = [c \in Conn |-> FALSE]
  /\ quiet = 0
  /\ stop = "idle"
  /\ serving = NULL
  /\ next = 1
  /\ refused = {}
  /\ handled = [s \in Session |-> 0]

(* What the goroutine of Start does of its own accord. *)
Advance ==
  \/ Loop \/ SetConn \/ SetDeadline \/ AwaitHello \/ ClearDeadline \/ Greeted
  \/ Authenticate \/ AuthenticateFails \/ Read \/ Drop \/ EndHeartbeat
  \/ Close \/ Back \/ Wait

Message ==
  \/ HelloArrives \/ (\E s \in Session : Ready(s)) \/ Dispatch
  \/ HeartbeatAck \/ OtherMessage \/ Reconnect \/ InvalidSession
  \/ ClosedResumable \/ ClosedForGood

Heartbeat(c) == BeatTick(c) \/ BeatEnds(c) \/ BeatSend(c) \/ BeatClose(c)

(* A panic ends the process, with all of its goroutines. *)
Next ==
  /\ pc # "crashed"
  /\ \/ Advance
     \/ Dial \/ DialFails
     \/ Message \/ HelloFails \/ ReadFails
     \/ \E c \in Conn : Heartbeat(c) \/ Reset(c)
     \/ StopBegin \/ StopSignal \/ StopClose

(* Goroutines run, timers fire, the greeting and the dialling have           *)
(* deadlines, and a read of a closed or reset connection fails.  Nothing is *)
(* assumed of the server.                                                   *)
Fairness ==
  /\ WF_vars(pc # "crashed" /\ Advance)
  /\ WF_vars(pc # "crashed" /\ (Dial \/ DialFails))
  /\ WF_vars(pc # "crashed" /\ HelloFails)
  /\ WF_vars(pc # "crashed" /\ last > 0 /\ socket[last] # "open" /\ ReadFails)
  /\ WF_vars(pc # "crashed" /\ (StopSignal \/ StopClose))
  /\ \A c \in Conn : WF_vars(pc # "crashed" /\ Heartbeat(c))

Spec == Init /\ [][Next]_vars

FairSpec == Spec /\ Fairness

-----------------------------------------------------------------------------
(* Properties                                                              *)

PC == {"loop", "dial", "set", "deadline", "greet", "hello", "clear",
       "greeted", "auth", "read", "blocked", "drop", "lost", "close", "back",
       "wait", "over", "crashed"}

TypeOK ==
  /\ pc \in PC
  /\ last \in 0 .. MaxConn
  /\ conn \in Conn \cup {NULL}
  /\ socket \in [Conn -> {"unused", "open", "reset", "closed"}]
  /\ sessionID \in Session \cup {NULL}
  /\ latestSeq \in 0 .. MaxSeq
  /\ canResume \in BOOLEAN
  /\ beat \in [Conn -> {"none", "wait", "send", "close", "gone"}]
  /\ done \in [Conn -> BOOLEAN]
  /\ quiet \in 0 .. Silence
  /\ stop \in {"idle", "signal", "close", "done"}
  /\ serving \in Session \cup {NULL}
  /\ next \in 1 .. MaxSeq + 1
  /\ refused \subseteq Session
  /\ handled \in [Session -> 0 .. MaxSeq]

(* The connection is in use between SetConn and the deferred closeConn. *)
Between == {"set", "deadline", "greet", "hello", "clear", "greeted", "auth",
            "read", "blocked", "drop", "lost", "close"}

(* Whichever way a connection ends, and whoever closes what in between, no  *)
(* connection is left behind when the client dials again or gives up.       *)
NoConnectionLeft ==
  \A c \in Conn :
    socket[c] \in {"open", "reset"} =>
      c = last /\ pc \in Between \cup {"crashed"}

(* There is one heartbeat goroutine that has not been told to end, at most, *)
(* and it belongs to the connection that is being read.                     *)
OneHeartbeat ==
  \A c \in Conn :
    beat[c] # "none" /\ ~done[c] =>
      c = last /\ pc \in {"read", "blocked", "drop", "lost", "crashed"}

(* Over any number of reconnections the plugins get each event of a session *)
(* once and in order: the server is always asked to go on right after the   *)
(* last event that was handed over.                                         *)
EachEventOnce == serving # NULL => next = handled[serving] + 1

(* A session that the server has declared invalid is never resumed.         *)
NeverResumesRefused ==
  [][serving' # serving => serving' \notin refused]_vars

(* A peer that falls silent is left: the heartbeat goroutine notices and    *)
(* ends the read.                                                           *)
LeavesSilentPeer == pc = "blocked" ~> pc # "blocked" \/ stopped

(* After a loss the client dials again, unless it is stopped or has died.   *)
RedialsAfterLoss ==
  pc = "lost" ~> pc \in {"dial", "crashed"} \/ stopped

(* The reconnecting that the comments of Start and heartbeatLoop describe:  *)
(* a connection closed under the reader does not end the process.           *)
NeverPanics == pc # "crashed"

=============================================================================
