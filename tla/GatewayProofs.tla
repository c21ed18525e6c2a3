--------------------------- MODULE GatewayProofs ---------------------------
(***************************************************************************)
(* What the WebSocket client keeps for any number of connections, sessions *)
(* and events, whenever the server, the heartbeat or Stop intervenes.      *)
(***************************************************************************)
EXTENDS Gateway, TLAPS

USE DEF sessVars, wireVars, beatVars, peerVars

(* The field and the sockets.                                              *)
WireInv ==
  /\ conn # NULL => conn = last /\ pc \in (Between \cup {"crashed"}) \ {"set"}
  /\ \A c \in Conn :
       socket[c] \in {"open", "reset"} =>
         /\ c = last
         /\ pc \in Between \cup {"crashed"}
         /\ conn = last \/ pc = "set"

(* Once it has dialled, the goroutine of Start is on a connection.          *)
Dialled == pc \in Between => last \in Conn

(* The session the client would resume, and the one it is being served.     *)
SessionInv ==
  /\ sessionID # NULL => /\ canResume
                         /\ handled[sessionID] = latestSeq
                         /\ handled[sessionID] > 0
                         /\ sessionID \notin refused
  /\ serving # NULL => handled[serving] > 0 /\ next = handled[serving] + 1
  /\ serving # NULL /\ pc \in {"read", "blocked"} => sessionID = serving
  /\ pc \in {"set", "deadline", "greet", "hello", "clear", "greeted", "auth"} =>
       serving = NULL
  /\ \A s \in refused : handled[s] > 0

USE ConnAssumption, SessionAssumption, SeqAssumption, SilenceAssumption,
    NullAssumption

LEMMA RefusedType == TypeOK /\ Refuse => refused' \subseteq Session
BY DEF TypeOK, Refuse

LEMMA TypeNext == TypeOK /\ Dialled /\ [Next]_vars => TypeOK'
<1> SUFFICES ASSUME TypeOK, Dialled, [Next]_vars PROVE TypeOK'
  OBVIOUS
<1> USE DEF TypeOK, PC, CloseConn, UseConn, Conn, Session, Receive
<1>1. CASE Loop \/ SetDeadline \/ AwaitHello \/ ClearDeadline \/ Read \/ Back \/ Wait
  BY <1>1 DEF Loop, SetDeadline, AwaitHello, ClearDeadline, Read, Back, Wait
<1>2. CASE SetConn
  BY <1>2 DEF SetConn, Dialled, Between
<1>3. CASE Greeted
  BY <1>3 DEF Greeted
<1>4. CASE Authenticate
  <2>1. serving' \in Session \cup {NULL} /\ next' \in 1 .. MaxSeq + 1
    BY <1>4 DEF Authenticate
  <2>2. beat' \in [Conn -> {"none", "wait", "send", "close", "gone"}]
    BY <1>4 DEF Authenticate
  <2> QED
    BY <1>4, <2>1, <2>2 DEF Authenticate
<1>5. CASE AuthenticateFails \/ DialFails \/ HelloFails \/ ReadFails \/ HelloArrives
  BY <1>5 DEF AuthenticateFails, DialFails, HelloFails, ReadFails, HelloArrives
<1>6. CASE EndHeartbeat
  BY <1>6 DEF EndHeartbeat
<1>7. CASE Dial
  BY <1>7 DEF Dial
<1>8. CASE Drop \/ Close \/ StopClose
  BY <1>8 DEF Drop, Close, StopClose
<1>9. ASSUME NEW s \in Session, Ready(s) PROVE TypeOK'
  BY <1>9 DEF Ready
<1>10. CASE Dispatch
  <2>1. /\ next \in 0 .. MaxSeq /\ next' \in 1 .. MaxSeq + 1
        /\ latestSeq' \in 0 .. MaxSeq
    BY <1>10 DEF Dispatch
  <2>2. handled' \in [Session -> 0 .. MaxSeq]
    BY <1>10, <2>1 DEF Dispatch
  <2>3. canResume' \in BOOLEAN
    BY <1>10, Zenon DEF Dispatch
  <2>4. /\ pc' \in PC
        /\ UNCHANGED <<last, conn, socket, sessionID, beat, done, quiet, stop,
                       serving, refused>>
    BY <1>10 DEF Dispatch
  <2> QED
    BY <2>1, <2>2, <2>3, <2>4
<1>11. CASE HeartbeatAck \/ OtherMessage
  <2>1. quiet' \in 0 .. Silence
    BY <1>11 DEF HeartbeatAck, OtherMessage
  <2> QED
    BY <1>11, <2>1 DEF HeartbeatAck, OtherMessage
<1>12. CASE Reconnect
  BY <1>12 DEF Reconnect
<1>13. CASE ClosedResumable
  BY <1>13 DEF ClosedResumable
<1>14. CASE InvalidSession \/ ClosedForGood
  <2>1. refused' \subseteq Session
    <3>1. Refuse
      BY <1>14 DEF InvalidSession, ClosedForGood
    <3> QED
      BY <3>1, RefusedType
  <2>2. latestSeq' \in 0 .. MaxSeq
    BY <1>14 DEF InvalidSession, ClosedForGood, ForgetSession
  <2>3. /\ pc' \in PC /\ sessionID' = NULL /\ canResume' = FALSE
        /\ UNCHANGED <<last, conn, socket, beat, done, quiet, stop, serving,
                       next, handled>>
    BY <1>14 DEF InvalidSession, ClosedForGood, ForgetSession
  <2> QED
    BY <2>1, <2>2, <2>3
<1>15. ASSUME NEW c \in Conn, BeatTick(c) PROVE TypeOK'
  BY <1>15, SMTT(40) DEF BeatTick
<1>16. ASSUME NEW c \in Conn, BeatEnds(c) PROVE TypeOK'
  BY <1>16, SMTT(40) DEF BeatEnds
<1>17. ASSUME NEW c \in Conn, BeatSend(c) PROVE TypeOK'
  BY <1>17 DEF BeatSend
<1>18. ASSUME NEW c \in Conn, BeatClose(c) \/ Reset(c) PROVE TypeOK'
  BY <1>18, ZenonT(60) DEF BeatClose, Reset
<1>19. CASE StopBegin \/ StopSignal
  BY <1>19 DEF StopBegin, StopSignal
<1>20. CASE UNCHANGED vars
  BY <1>20 DEF vars
<1> QED
  BY <1>1, <1>2, <1>3, <1>4, <1>5, <1>6, <1>7, <1>8, <1>9, <1>10, <1>11, <1>12, <1>13, <1>14, <1>15, <1>16, <1>17, <1>18, <1>19, <1>20
  DEF Next, Advance, Message, Heartbeat

-----------------------------------------------------------------------------

LEMMA DialledNext == TypeOK /\ Dialled /\ [Next]_vars => Dialled'
<1> SUFFICES ASSUME TypeOK, Dialled, [Next]_vars PROVE Dialled'
  OBVIOUS
<1> USE DEF Dialled, Between
<1>1. CASE Dial
  BY <1>1 DEF Dial, Conn, TypeOK
<1>2. CASE last' = last /\ (pc' \in Between => pc \in Between)
  BY <1>2
<1>3. CASE Advance
  <2>1. last' = last
    BY <1>3 DEF Advance, Loop, SetConn, SetDeadline, AwaitHello, ClearDeadline,
       Greeted, Authenticate, AuthenticateFails, Read, Drop, EndHeartbeat,
       Close, Back, Wait, CloseConn
  <2>2. pc' \in Between => pc \in Between
    BY <1>3 DEF Advance, Loop, SetConn, SetDeadline, AwaitHello, ClearDeadline,
       Greeted, Authenticate, AuthenticateFails, Read, Drop, EndHeartbeat,
       Close, Back, Wait, UseConn
  <2> QED
    BY <2>1, <2>2, <1>2
<1>4. CASE Message
  <2>1. last' = last
    BY <1>4 DEF Message, HelloArrives, Ready, Dispatch, HeartbeatAck,
       OtherMessage, Reconnect, InvalidSession, ClosedResumable, ClosedForGood
  <2>2. pc \in Between
    BY <1>4 DEF Message, Receive, HelloArrives, Ready, Dispatch, HeartbeatAck,
       OtherMessage, Reconnect, InvalidSession, ClosedResumable, ClosedForGood
  <2> QED
    BY <2>1, <2>2, <1>2
<1>5. CASE DialFails \/ HelloFails \/ ReadFails
  BY <1>5 DEF DialFails, HelloFails, ReadFails
<1>6. ASSUME NEW c \in Conn, Heartbeat(c) \/ Reset(c) PROVE Dialled'
  <2>1. last' = last /\ pc' = pc
    BY <1>6 DEF Heartbeat, BeatTick, BeatEnds, BeatSend, BeatClose, Reset,
       CloseConn
  <2> QED
    BY <2>1
<1>7. CASE StopBegin \/ StopSignal \/ StopClose
  BY <1>7 DEF StopBegin, StopSignal, StopClose, CloseConn
<1>8. CASE UNCHANGED vars
  BY <1>8 DEF vars
<1> QED
  BY <1>1, <1>3, <1>4, <1>5, <1>6, <1>7, <1>8 DEF Next

LEMMA InitInv == Init => TypeOK /\ Dialled /\ WireInv /\ SessionInv /\ OneHeartbeat
<1> SUFFICES ASSUME Init
             PROVE  TypeOK /\ Dialled /\ WireInv /\ SessionInv /\ OneHeartbeat
  OBVIOUS
<1>1. TypeOK
  <2>1. last \in 0 .. MaxConn /\ latestSeq \in 0 .. MaxSeq /\ quiet \in 0 .. Silence
    BY DEF Init
  <2>2. next \in 1 .. MaxSeq + 1 /\ handled \in [Session -> 0 .. MaxSeq]
    BY DEF Init
  <2>3. /\ pc \in PC /\ conn = NULL /\ sessionID = NULL /\ canResume \in BOOLEAN
        /\ stop \in {"idle", "signal", "close", "done"} /\ serving = NULL
        /\ refused \subseteq Session
    BY DEF Init, PC
  <2>4. /\ socket \in [Conn -> {"unused", "open", "reset", "closed"}]
        /\ beat \in [Conn -> {"none", "wait", "send", "close", "gone"}]
        /\ done \in [Conn -> BOOLEAN]
    BY DEF Init
  <2> QED
    BY <2>1, <2>2, <2>3, <2>4 DEF TypeOK
<1>2. Dialled
  BY DEF Init, Dialled, Between
<1>3. WireInv
  BY DEF Init, WireInv
<1>4. SessionInv
  BY DEF Init, SessionInv
<1>5. OneHeartbeat
  BY DEF Init, OneHeartbeat
<1> QED
  BY <1>1, <1>2, <1>3, <1>4, <1>5

(* Every variable keeps its type, so that the client never dials, reads or   *)
(* closes what it cannot have.                                              *)
THEOREM TypeCorrect == Spec => []TypeOK
<1>1. Init => TypeOK /\ Dialled
  BY InitInv
<1>2. TypeOK /\ Dialled /\ [Next]_vars => TypeOK' /\ Dialled'
  BY TypeNext, DialledNext
<1> QED
  BY <1>1, <1>2, PTL DEF Spec

-----------------------------------------------------------------------------

(* What closeConn leaves open is what the field does not hold yet.           *)
LEMMA Closes ==
  ASSUME TypeOK, WireInv, CloseConn
  PROVE  /\ conn' = NULL
         /\ last' = last
         /\ \A c \in Conn :
              socket'[c] \in {"open", "reset"} =>
                socket[c] \in {"open", "reset"} /\ c = last /\ pc = "set"
BY DEF CloseConn, WireInv, TypeOK

(* The goroutine of Start goes on, with a connection or without one.         *)
LEMMA WireKept ==
  ASSUME WireInv, UNCHANGED wireVars,
         \/ pc' = pc
         \/ /\ pc \in Between \ {"set"}
            /\ pc' \in (Between \cup {"crashed"}) \ {"set"}
         \/ pc \notin Between \cup {"crashed"}
  PROVE  WireInv'
BY DEF WireInv, Between

LEMMA WireNext == TypeOK /\ WireInv /\ [Next]_vars => WireInv'
<1> SUFFICES ASSUME TypeOK, WireInv, [Next]_vars PROVE WireInv'
  OBVIOUS
<1>1. CASE Loop \/ Back \/ Wait \/ DialFails
  <2>1. UNCHANGED wireVars /\ pc \notin Between \cup {"crashed"}
    BY <1>1 DEF Loop, Back, Wait, DialFails, Between
  <2> QED
    BY <2>1, WireKept
<1>2. CASE SetDeadline \/ AwaitHello \/ ClearDeadline \/ Read
  <2>1. /\ UNCHANGED wireVars
        /\ pc \in Between \ {"set"}
        /\ pc' \in (Between \cup {"crashed"}) \ {"set"}
    BY <1>2 DEF SetDeadline, AwaitHello, ClearDeadline, Read, UseConn, Between
  <2> QED
    BY <2>1, WireKept
<1>3. CASE Greeted \/ Authenticate \/ AuthenticateFails \/ EndHeartbeat
           \/ HelloFails \/ ReadFails
  <2>1. /\ UNCHANGED wireVars
        /\ pc \in Between \ {"set"}
        /\ pc' \in (Between \cup {"crashed"}) \ {"set"}
    BY <1>3 DEF Greeted, Authenticate, AuthenticateFails, EndHeartbeat,
       HelloFails, ReadFails, Between
  <2> QED
    BY <2>1, WireKept
<1>4. CASE Message
  <2>1. /\ UNCHANGED wireVars
        /\ pc \in Between \ {"set"}
    BY <1>4 DEF Message, Receive, HelloArrives, Ready, Dispatch, HeartbeatAck,
       OtherMessage, Reconnect, InvalidSession, ClosedResumable, ClosedForGood,
       Between
  <2>2. pc' \in (Between \cup {"crashed"}) \ {"set"}
    BY <1>4 DEF Message, HelloArrives, Ready, Dispatch, HeartbeatAck,
       OtherMessage, Reconnect, InvalidSession, ClosedResumable, ClosedForGood,
       Between
  <2> QED
    BY <2>1, <2>2, WireKept
<1>5. CASE Dial
  BY <1>5 DEF Dial, WireInv, TypeOK, Between, Conn
<1>6. CASE SetConn
  BY <1>6 DEF SetConn, WireInv, TypeOK, Between
<1>7. CASE Drop \/ Close
  <2>1. CloseConn /\ pc # "set"
    BY <1>7 DEF Drop, Close
  <2> QED
    BY <2>1, Closes DEF WireInv
<1>8. ASSUME NEW c \in Conn, BeatTick(c) \/ BeatEnds(c) \/ BeatSend(c)
      PROVE  WireInv'
  <2>1. UNCHANGED wireVars /\ pc' = pc
    BY <1>8 DEF BeatTick, BeatEnds, BeatSend
  <2> QED
    BY <2>1, WireKept
<1>9. ASSUME NEW c \in Conn, BeatClose(c) PROVE WireInv'
  <2>1. CloseConn /\ pc' = pc
    BY <1>9 DEF BeatClose
  <2> QED
    BY <2>1, Closes DEF WireInv
<1>10. CASE StopClose
  <2>1. CloseConn /\ pc' = pc
    BY <1>10 DEF StopClose
  <2> QED
    BY <2>1, Closes DEF WireInv
<1>11. ASSUME NEW c \in Conn, Reset(c) PROVE WireInv'
  BY <1>11 DEF Reset, WireInv, TypeOK
<1>12. CASE StopBegin \/ StopSignal \/ UNCHANGED vars
  <2>1. UNCHANGED wireVars /\ pc' = pc
    BY <1>12 DEF StopBegin, StopSignal, vars
  <2> QED
    BY <2>1, WireKept
<1> QED
  BY <1>1, <1>2, <1>3, <1>4, <1>5, <1>6, <1>7, <1>8, <1>9, <1>10, <1>11, <1>12
  DEF Next, Advance, Heartbeat

(* No connection is left open behind the client: an open one is the last one *)
(* dialled, and closeConn of connect is still to come.                       *)
THEOREM ConnectionsClosed == Spec => []NoConnectionLeft
<1>1. Init => TypeOK /\ Dialled /\ WireInv
  BY InitInv
<1>2. TypeOK /\ Dialled /\ WireInv /\ [Next]_vars =>
        TypeOK' /\ Dialled' /\ WireInv'
  BY TypeNext, DialledNext, WireNext
<1>3. WireInv => NoConnectionLeft
  BY DEF WireInv, NoConnectionLeft
<1> QED
  BY <1>1, <1>2, <1>3, PTL DEF Spec

-----------------------------------------------------------------------------

LEMMA OneHeartbeatNext ==
  TypeOK /\ OneHeartbeat /\ [Next]_vars => OneHeartbeat'
<1> SUFFICES ASSUME TypeOK, OneHeartbeat, [Next]_vars PROVE OneHeartbeat'
  OBVIOUS
<1> DEFINE Beaten == {"read", "blocked", "drop", "lost", "crashed"}
<1> USE DEF OneHeartbeat
<1>1. CASE /\ UNCHANGED <<last, beat, done>>
           /\ pc \in Beaten => pc' \in Beaten
  BY <1>1
<1>2. CASE Loop \/ Back \/ Wait \/ DialFails \/ SetConn \/ SetDeadline
           \/ AwaitHello \/ ClearDeadline
  <2>1. UNCHANGED <<last, beat, done>> /\ pc \notin Beaten
    BY <1>2 DEF Loop, Back, Wait, DialFails, SetConn, SetDeadline, AwaitHello,
       ClearDeadline, UseConn
  <2> QED
    BY <2>1, <1>1
<1>3. CASE Greeted \/ AuthenticateFails \/ HelloFails \/ Close
  <2>1. UNCHANGED <<last, beat, done>> /\ pc \notin Beaten
    BY <1>3 DEF Greeted, AuthenticateFails, HelloFails, Close, CloseConn
  <2> QED
    BY <2>1, <1>1
<1>4. CASE Dial
  <2>1. pc = "dial" /\ UNCHANGED <<beat, done>>
    BY <1>4 DEF Dial
  <2> QED
    BY <2>1
<1>5. CASE Authenticate
  BY <1>5 DEF Authenticate, TypeOK
<1>6. CASE Read \/ Drop \/ ReadFails
  <2>1. UNCHANGED <<last, beat, done>> /\ pc' \in Beaten
    BY <1>6 DEF Read, Drop, ReadFails, UseConn, CloseConn
  <2> QED
    BY <2>1, <1>1
<1>7. CASE EndHeartbeat
  BY <1>7 DEF EndHeartbeat, TypeOK
<1>8. CASE Message
  <2>1. UNCHANGED <<last, beat, done>>
    BY <1>8 DEF Message, HelloArrives, Ready, Dispatch, HeartbeatAck,
       OtherMessage, Reconnect, InvalidSession, ClosedResumable, ClosedForGood
  <2>2. pc \notin Beaten \/ pc' \in Beaten
    BY <1>8 DEF Message, HelloArrives, Ready, Dispatch, HeartbeatAck,
       OtherMessage, Reconnect, InvalidSession, ClosedResumable, ClosedForGood
  <2> QED
    BY <2>1, <2>2, <1>1
<1>9. ASSUME NEW c \in Conn, Heartbeat(c) PROVE OneHeartbeat'
  <2>1. UNCHANGED <<last, pc, done>> /\ beat[c] # "none"
    BY <1>9 DEF Heartbeat, BeatTick, BeatEnds, BeatSend, BeatClose, CloseConn
  <2>2. \A d \in Conn : d # c => beat'[d] = beat[d]
    BY <1>9 DEF Heartbeat, BeatTick, BeatEnds, BeatSend, BeatClose, TypeOK
  <2> QED
    BY <2>1, <2>2
<1>10. ASSUME NEW c \in Conn, Reset(c) PROVE OneHeartbeat'
  BY <1>10 DEF Reset
<1>11. CASE StopBegin \/ StopSignal \/ StopClose
  BY <1>11 DEF StopBegin, StopSignal, StopClose, CloseConn
<1>12. CASE UNCHANGED vars
  BY <1>12 DEF vars
<1> QED
  BY <1>2, <1>3, <1>4, <1>5, <1>6, <1>7, <1>8, <1>9, <1>10, <1>11, <1>12
  DEF Next, Advance

(* At most one heartbeat goroutine has not been told to end, however often   *)
(* the client reconnects.                                                    *)
THEOREM HeartbeatsEnd == Spec => []OneHeartbeat
<1>1. Init => TypeOK /\ Dialled /\ OneHeartbeat
  BY InitInv
<1>2. TypeOK /\ Dialled /\ OneHeartbeat /\ [Next]_vars =>
        TypeOK' /\ Dialled' /\ OneHeartbeat'
  BY TypeNext, DialledNext, OneHeartbeatNext
<1> QED
  BY <1>1, <1>2, PTL DEF Spec

-----------------------------------------------------------------------------

(* The reading goroutine goes on without touching the session: it is not     *)
(* about to read before it has authenticated.                                *)
LEMMA SessionKept ==
  ASSUME SessionInv, UNCHANGED sessVars, UNCHANGED peerVars,
         \/ pc' = pc
         \/ pc' \in {"read", "blocked"} /\ pc \in {"read", "blocked"}
         \/ /\ pc' \in {"deadline", "greet", "hello", "clear", "greeted", "auth"}
            /\ pc \in {"set", "deadline", "greet", "hello", "clear", "greeted"}
         \/ pc' \in {"loop", "dial", "drop", "lost", "close", "back", "wait",
                     "over", "crashed"}
  PROVE  SessionInv'
BY DEF SessionInv

LEMMA SessionNext == TypeOK /\ SessionInv /\ [Next]_vars => SessionInv'
<1> SUFFICES ASSUME TypeOK, SessionInv, [Next]_vars PROVE SessionInv'
  OBVIOUS
<1> DEFINE Idle == {"loop", "dial", "drop", "lost", "close", "back", "wait",
                    "over", "crashed"}
<1>1. CASE Loop \/ Back \/ Wait \/ DialFails \/ Drop \/ EndHeartbeat \/ Close
           \/ AuthenticateFails \/ HelloFails
  <2>1. UNCHANGED sessVars /\ UNCHANGED peerVars /\ pc' \in Idle
    BY <1>1 DEF Loop, Back, Wait, DialFails, Drop, EndHeartbeat, Close,
       AuthenticateFails, HelloFails
  <2> QED
    BY <2>1, SessionKept
<1>2. CASE SetConn \/ SetDeadline \/ AwaitHello \/ ClearDeadline \/ Greeted
           \/ HelloArrives
  <2>1. /\ UNCHANGED sessVars /\ UNCHANGED peerVars
        /\ pc \in {"set", "deadline", "greet", "hello", "clear", "greeted"}
        /\ \/ pc' \in Idle
           \/ pc' \in {"deadline", "greet", "hello", "clear", "greeted", "auth"}
    BY <1>2 DEF SetConn, SetDeadline, AwaitHello, ClearDeadline, Greeted,
       HelloArrives, UseConn
  <2> QED
    BY <2>1, SessionKept
<1>3. CASE Read \/ HeartbeatAck \/ OtherMessage
  <2>1. /\ UNCHANGED sessVars /\ UNCHANGED peerVars
        /\ pc \in {"read", "blocked"}
        /\ pc' \in Idle \cup {"read", "blocked"}
    BY <1>3 DEF Read, HeartbeatAck, OtherMessage, Receive, UseConn
  <2> QED
    BY <2>1, SessionKept
<1>4. CASE Dial
  BY <1>4 DEF Dial, SessionInv
<1>5. CASE Authenticate
  <2>1. CASE sessionID = NULL
    <3>1. UNCHANGED sessVars /\ UNCHANGED peerVars /\ serving = NULL
      BY <1>5, <2>1 DEF Authenticate, SessionInv
    <3> QED
      BY <1>5, <2>1, <3>1 DEF Authenticate, SessionInv
  <2>2. CASE sessionID # NULL
    <3>1. /\ UNCHANGED sessVars /\ UNCHANGED <<refused, handled>>
          /\ serving' = sessionID /\ next' = latestSeq + 1
          /\ pc' = "read"
      BY <1>5, <2>2 DEF Authenticate, SessionInv
    <3> QED
      BY <2>2, <3>1 DEF SessionInv
  <2> QED
    BY <2>1, <2>2
<1>6. ASSUME NEW s \in Session, Ready(s) PROVE SessionInv'
  <2>1. handled[s] = 0
    BY <1>6 DEF Ready, Session, TypeOK
  <2>2. s \notin refused
    BY <2>1 DEF SessionInv
  <2>3. /\ serving' = s /\ next' = 2 /\ pc' = "read" /\ refused' = refused
        /\ sessionID' = s /\ latestSeq' = 1 /\ canResume'
        /\ handled' = [handled EXCEPT ![s] = 1]
    BY <1>6 DEF Ready
  <2>4. handled'[s] = 1 /\ \A t \in Session : t # s => handled'[t] = handled[t]
    BY <2>3 DEF TypeOK
  <2> QED
    BY <2>2, <2>3, <2>4 DEF SessionInv, TypeOK
<1>7. CASE Dispatch
  <2>1. /\ serving # NULL /\ sessionID = serving /\ next \in Nat \ {0}
        /\ serving \in Session
    BY <1>7 DEF Dispatch, Receive, SessionInv, TypeOK
  <2>2. /\ next' = next + 1 /\ latestSeq' = next /\ pc' = "read"
        /\ UNCHANGED <<sessionID, serving, refused>>
        /\ handled' = [handled EXCEPT ![serving] = next]
    BY <1>7 DEF Dispatch
  <2>3. canResume'
    <3>1. canResume
      BY <2>1 DEF SessionInv
    <3> QED
      BY <1>7, <3>1, Zenon DEF Dispatch
  <2>4. /\ handled'[serving] = next
        /\ \A t \in Session : t # serving => handled'[t] = handled[t]
    BY <2>1, <2>2 DEF TypeOK
  <2> QED
    BY <2>1, <2>2, <2>3, <2>4 DEF SessionInv, TypeOK
<1>8. CASE Reconnect \/ ClosedResumable
  <2>1. /\ UNCHANGED <<sessionID, latestSeq>> /\ UNCHANGED peerVars
        /\ canResume' /\ pc' \in Idle
    BY <1>8 DEF Reconnect, ClosedResumable
  <2> QED
    BY <2>1 DEF SessionInv
<1>9. CASE ReadFails
  <2>1. /\ UNCHANGED <<sessionID, latestSeq>> /\ UNCHANGED peerVars
        /\ sessionID # NULL => canResume'
        /\ pc' = "lost"
    BY <1>9 DEF ReadFails
  <2> QED
    BY <2>1 DEF SessionInv
<1>10. CASE InvalidSession \/ ClosedForGood
  <2>1. /\ UNCHANGED <<serving, next, handled>> /\ sessionID' = NULL
        /\ pc' \in Idle
    BY <1>10 DEF InvalidSession, ClosedForGood, ForgetSession
  <2>2. refused' = refused \cup {s \in {serving} : s # NULL}
    BY <1>10 DEF InvalidSession, ClosedForGood, Refuse
  <2> QED
    BY <2>1, <2>2 DEF SessionInv
<1>11. ASSUME NEW c \in Conn, Heartbeat(c) \/ Reset(c) PROVE SessionInv'
  <2>1. UNCHANGED sessVars /\ UNCHANGED peerVars /\ pc' = pc
    BY <1>11 DEF Heartbeat, BeatTick, BeatEnds, BeatSend, BeatClose, Reset
  <2> QED
    BY <2>1, SessionKept
<1>12. CASE StopBegin \/ StopSignal \/ StopClose \/ UNCHANGED vars
  <2>1. UNCHANGED sessVars /\ UNCHANGED peerVars /\ pc' = pc
    BY <1>12 DEF StopBegin, StopSignal, StopClose, vars
  <2> QED
    BY <2>1, SessionKept
<1> QED
  BY <1>1, <1>2, <1>3, <1>4, <1>5, <1>6, <1>7, <1>8, <1>9, <1>10, <1>11, <1>12
  DEF Next, Advance, Message

LEMMA SessionAlways == Spec => [](TypeOK /\ SessionInv)
<1>1. Init => TypeOK /\ Dialled /\ SessionInv
  BY InitInv
<1>2. TypeOK /\ Dialled /\ SessionInv /\ [Next]_vars =>
        TypeOK' /\ Dialled' /\ SessionInv'
  BY TypeNext, DialledNext, SessionNext
<1> QED
  BY <1>1, <1>2, PTL DEF Spec

(* The plugins get the events of a session once and in order, over any       *)
(* number of resumptions.                                                    *)
THEOREM EventsOnce == Spec => []EachEventOnce
<1>1. SessionInv => EachEventOnce
  BY DEF SessionInv, EachEventOnce
<1> QED
  BY <1>1, SessionAlways, PTL

(* The client never asks for a session that the server has declared invalid. *)
THEOREM RefusedForgotten == Spec => NeverResumesRefused
<1>1. TypeOK /\ SessionInv /\ [Next]_vars =>
        [serving' # serving => serving' \notin refused]_vars
  <2> SUFFICES ASSUME TypeOK, SessionInv, Next, serving' # serving
               PROVE  serving' \notin refused
    BY DEF vars
  <2>1. CASE Dial
    BY <2>1 DEF Dial, TypeOK
  <2>2. CASE Authenticate
    BY <2>2 DEF Authenticate, SessionInv
  <2>3. ASSUME NEW s \in Session, Ready(s) PROVE serving' \notin refused
    BY <2>3 DEF Ready, SessionInv, TypeOK, Session
  <2>4. Dial \/ Authenticate \/ \E s \in Session : Ready(s)
    <3>1. CASE Advance
      BY <3>1 DEF Advance, Loop, SetConn, SetDeadline, AwaitHello,
         ClearDeadline, Greeted, AuthenticateFails, Read, Drop, EndHeartbeat,
         Close, Back, Wait
    <3>2. CASE Message
      BY <3>2 DEF Message, HelloArrives, Dispatch, HeartbeatAck, OtherMessage,
         Reconnect, InvalidSession, ClosedResumable, ClosedForGood
    <3>3. ASSUME NEW c \in Conn, Heartbeat(c) \/ Reset(c) PROVE FALSE
      BY <3>3 DEF Heartbeat, BeatTick, BeatEnds, BeatSend, BeatClose, Reset
    <3> QED
      BY <3>1, <3>2, <3>3 DEF Next, DialFails, HelloFails, ReadFails,
         StopBegin, StopSignal, StopClose
  <2> QED
    BY <2>1, <2>2, <2>3, <2>4
<1> QED
  BY <1>1, SessionAlways, PTL DEF Spec, NeverResumesRefused

=============================================================================
