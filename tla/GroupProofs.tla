---------------------------- MODULE GroupProofs ----------------------------
(***************************************************************************)
(* Theorems about GroupPlugins, and with it about TempRoutes and Storage,  *)
(* for every number of goroutines, members, links, files and restarts,     *)
(* with their proofs.                                                      *)
(***************************************************************************)
EXTENDS GroupPlugins, TLAPS

-----------------------------------------------------------------------------
(* Types                                                                   *)

(* A request to join, from its event to the mail. *)
JoinStage == {"joinGet", "joinDefault", "judge", "accept", "lift", "mute",
              "link", "notice", "mail"}

LinkStage == {"unmute", "welcome"}
ToggleStage == {"toggleDefault", "toggleSet"}
KeyStage  == {"setKey", "pushKey", "pushEnabled", "post"}
Stage     == {"idle", "toggleGet", "toggleDefault", "toggleSet", "statusGet",
              "statusDefault", "end", "enable", "disable"}
             \cup JoinStage \cup LinkStage \cup KeyStage

RunTypeInv ==
  /\ phase \in {"boot", "up", "down"}
  /\ pc \in [Goroutine -> Stage]
  /\ subject \in [Goroutine -> Token \cup PushKey \cup {NULL}]
  /\ local \in [Goroutine -> BOOLEAN \cup {NULL}]

MemberTypeInv ==
  /\ inGroup \subseteq Member /\ muted \subseteq Member /\ mailed \subseteq Member
  /\ lapsed \subseteq Member

(* What each handler is about, and the setting it has read. *)
SubjectInv ==
  \A t \in Goroutine :
    /\ pc[t] \in JoinStage \cup LinkStage => subject[t] \in Member
    /\ pc[t] \in KeyStage => subject[t] \in PushKey
    /\ pc[t] \in ToggleStage => local[t] \in BOOLEAN

(* Only the guard's handlers write the guard's setting. *)
DiskInv ==
  /\ disk \in [Path -> [Entry -> Value \cup {NULL}]]
  /\ \A path \in Path : disk[path]["guard"] \in BOOLEAN \cup {NULL}

HandleTypeInv ==
  dbPath \in Path /\ \A handle \in open : handle[1] \in Path

RouteTypeInv ==
  /\ routes \in [DOMAIN routes -> Route]
  /\ issued \in [DOMAIN issued -> Route]
  /\ DOMAIN issued \subseteq Token
  /\ ran \in [Token -> Nat]

OwnerTypeInv ==
  /\ held \in [Goroutine -> SUBSET {"key", "consent"}]
  /\ agreed \in BOOLEAN
  /\ keySet \in Value \cup {NULL}

TypeInv ==
  /\ RunTypeInv /\ MemberTypeInv /\ SubjectInv
  /\ DiskInv /\ HandleTypeInv /\ RouteTypeInv /\ OwnerTypeInv

(* A link in the table is one that was registered, it is alive until it is  *)
(* over, and nobody has used it if it can be used once.                     *)
RouteInv ==
  /\ \A tok \in DOMAIN routes :
       /\ tok \in DOMAIN issued
       /\ routes[tok].oneTime = issued[tok].oneTime
       /\ routes[tok].plugin = issued[tok].plugin
       /\ routes[tok].alive <=> tok \notin over
       /\ routes[tok].oneTime => ran[tok] = 0
  /\ \A tok \in over : tok \in DOMAIN issued
  /\ \A tok \in Token : tok \notin DOMAIN issued => ran[tok] = 0

(* A member who is in and can speak.                                        *)
EnterInv ==
  /\ NobodyEntersUnverified
  /\ \A t \in Goroutine : pc[t] \in LinkStage => ran[subject[t]] > 0

(* One request to join is handled for a member, and it draws the token.     *)
JoinInv ==
  /\ \A t, x \in Goroutine :
       pc[t] \in JoinStage /\ pc[x] \in JoinStage /\ subject[t] = subject[x] => t = x
  /\ \A t \in Goroutine :
       /\ pc[t] \in JoinStage \ {"notice", "mail"} => subject[t] \notin DOMAIN issued
       /\ pc[t] \in {"notice", "mail"} => subject[t] \in DOMAIN issued
       /\ pc[t] \in {"lift", "mute", "link"} => subject[t] \in inGroup \cup failed
  /\ \A m \in Member :
       /\ m \in DOMAIN issued => m \in inGroup \cup failed
       /\ m \in DOMAIN issued => issued[m].plugin = Guard

(* Who has been muted, and given a link, has a way out.                     *)
WayInv ==
  /\ \A m \in mailed : m \in DOMAIN issued
  /\ \A m \in muted : m \in DOMAIN issued =>
       Registered(m) \/ Busy(m, {"unmute"}) \/ m \in over \cup failed \cup wrongly

(* The store of a process that serves is the configured file, and what the  *)
(* owner has been told is what that file holds.                             *)
StoreInv ==
  /\ open \subseteq {db}
  /\ db # NULL => db[1] = dbPath
  /\ phase = "up" => db[1] = Configured /\ dbPath = Configured
  /\ phase = "boot" => \A t \in Goroutine : pc[t] = "idle"
  /\ agreed <=> disk[Configured]["enabled"] # NULL
  /\ keySet = disk[Configured]["key"]

(* What is known of a push before each of its steps.                        *)
PushAt(t) ==
  /\ pc[t] = "pushKey" => Speaks(subject[t], keySet, agreed) \subseteq held[t]
  /\ pc[t] = "pushEnabled" => "key" \in held[t] /\ (agreed => "consent" \in held[t])
  /\ pc[t] = "post" => held[t] = {"key", "consent"}

PushInv == phase = "up" => \A t \in Goroutine : PushAt(t)

-----------------------------------------------------------------------------
USE DEF storeVars, handleVars, holdVars, routeVars, runVars, memberVars,
        ownerVars, lifeVars, quiet

(* The two steps that reading the guard's setting takes, in each handler    *)
(* that reads it.                                                           *)
Reading(t) ==
  \/ ReadGuard(t, "toggleGet", "toggleDefault", "toggleSet")
  \/ ReadGuard(t, "statusGet", "statusDefault", "end")
  \/ ReadGuard(t, "joinGet", "joinDefault", "judge")

Defaulting(t) ==
  \/ WriteDefault(t, "toggleDefault", "toggleSet")
  \/ WriteDefault(t, "statusDefault", "end")
  \/ WriteDefault(t, "joinDefault", "judge")

Flip(t) == Toggle(t) /\ pc[t] = "toggleSet"

Unban(t) == Lift(t, "lift", "mute", "link")

Silence(t) == Mute(t, "mute", "link", "link")

Free(t) == Lift(t, "unmute", "welcome", "welcome")

Welcome(t) == Unmute(t) /\ pc[t] = "welcome"

(* The steps of a handler, one by one. *)
LEMMA HandlerSteps ==
  ASSUME NEW t \in Goroutine, Handler(t)
  PROVE  \/ Event(t) \/ Ensure(t) \/ Reading(t) \/ Defaulting(t) \/ Flip(t)
         \/ LeaveAlone(t) \/ Judge(t) \/ Accept(t) \/ Unban(t) \/ Silence(t)
         \/ Link(t) \/ Notice(t) \/ Mail(t) \/ Free(t) \/ Welcome(t)
         \/ EnablePush(t) \/ DisablePush(t) \/ SetPushKey(t)
         \/ VerifyPushKey(t) \/ CheckEnabled(t) \/ Post(t) \/ OtherLink(t)
         \/ \E k \in PushKey : PushArrives(t, k)
         \/ \E tok \in Token, plugin \in PluginId, method \in Method :
              Visit(t, tok, plugin, method)
<1>1. Toggle(t) => Reading(t) \/ Defaulting(t) \/ Flip(t)
  BY DEF Toggle, Reading, Defaulting, Flip
<1>2. Status(t) => Reading(t) \/ Defaulting(t)
  BY DEF Status, Reading, Defaulting
<1>3. Join(t) => \/ Reading(t) \/ Defaulting(t) \/ Judge(t) \/ Accept(t)
                 \/ Unban(t) \/ Silence(t) \/ Link(t) \/ Notice(t) \/ Mail(t)
  BY DEF Join, ReadForJoin, Ban, Reading, Defaulting, Unban, Silence
<1>4. Unmute(t) => Free(t) \/ Welcome(t)
  BY DEF Unmute, Free, Welcome, Calls
<1> QED
  BY <1>1, <1>2, <1>3, <1>4 DEF Handler, Push

(* What a step does to its goroutine: it starts, goes on, or ends.          *)
LEMMA FlipStep ==
  ASSUME NEW t \in Goroutine, Flip(t)
  PROVE  /\ pc[t] = "toggleSet"
         /\ Writes(t, "guard", ~local[t]) \/ Fails(t)
         /\ Return(t) /\ UNCHANGED <<quiet, ownerVars>>
  BY DEF Flip, Toggle, ReadGuard, WriteDefault

LEMMA WelcomeStep ==
  ASSUME NEW t \in Goroutine, Welcome(t)
  PROVE  /\ pc[t] = "welcome"
         /\ UNCHANGED failed \/ failed' = failed \cup {subject[t]}
         /\ Return(t)
         /\ UNCHANGED <<storeVars, routeVars, inGroup, muted, mailed, lapsed,
                        wrongly, ownerVars, lifeVars>>
  BY DEF Welcome, Unmute, Lift, Calls

LEMMA BeginRun ==
  ASSUME RunTypeInv, NEW t \in Goroutine, NEW stage \in Stage,
         NEW about \in Token \cup PushKey \cup {NULL}, Begin(t, stage, about),
         UNCHANGED phase
  PROVE  RunTypeInv'
  BY DEF RunTypeInv, Begin

LEMMA GotoRun ==
  ASSUME RunTypeInv, NEW t \in Goroutine, NEW stage \in Stage, Goto(t, stage),
         UNCHANGED phase
  PROVE  RunTypeInv'
  BY DEF RunTypeInv, Goto

LEMMA ReturnRun ==
  ASSUME RunTypeInv, NEW t \in Goroutine, Return(t), UNCHANGED phase
  PROVE  RunTypeInv'
  BY DEF RunTypeInv, Return, Stage

(* The guard's setting is read as a Boolean.                                *)
LEMMA GuardIsBoolean ==
  ASSUME DiskInv, HandleTypeInv, NEW t \in Goroutine, NEW v \in Value,
         Reads(t, "guard", v)
  PROVE  v \in BOOLEAN
  BY ValueAssumption DEF DiskInv, HandleTypeInv, Reads

LEMMA ReadGuardRun ==
  ASSUME RunTypeInv, DiskInv, HandleTypeInv, NEW t \in Goroutine,
         NEW get \in Stage, NEW default \in Stage, NEW next \in Stage,
         ReadGuard(t, get, default, next)
  PROVE  /\ RunTypeInv'
         /\ pc[t] = get
         /\ pc' \in {[pc EXCEPT ![t] = default], [pc EXCEPT ![t] = next]}
         /\ local'[t] \in BOOLEAN
         /\ \A x \in Goroutine \ {t} : local'[x] = local[x]
         /\ UNCHANGED <<subject, quiet, ownerVars, disk, handleVars>>
<1>1. PICK v \in BOOLEAN : local' = [local EXCEPT ![t] = v]
  BY GuardIsBoolean DEF ReadGuard
<1>2. pc' \in {[pc EXCEPT ![t] = default], [pc EXCEPT ![t] = next]}
  BY DEF ReadGuard
<1>3. UNCHANGED <<subject, quiet, ownerVars, disk, handleVars>> /\ pc[t] = get
  BY DEF ReadGuard, Reads, Fails, LetGo
<1> QED
  BY <1>1, <1>2, <1>3 DEF RunTypeInv

Others(t) ==
  \A x \in Goroutine \ {t} :
    pc'[x] = pc[x] /\ subject'[x] = subject[x] /\ local'[x] = local[x]

(* The setting a toggle is about to invert has been read.                   *)
LEMMA SubjectKept ==
  ASSUME RunTypeInv, SubjectInv, NEW t \in Goroutine, Others(t),
         pc'[t] \in JoinStage \cup LinkStage => subject'[t] \in Member,
         pc'[t] \in KeyStage => subject'[t] \in PushKey,
         pc'[t] \in ToggleStage => local'[t] \in BOOLEAN
  PROVE  SubjectInv'
  BY DEF SubjectInv, Others

LEMMA BeginSubject ==
  ASSUME RunTypeInv, SubjectInv, NEW t \in Goroutine, NEW stage, NEW about,
         Begin(t, stage, about), stage \notin ToggleStage,
         stage \in JoinStage \cup LinkStage => about \in Member,
         stage \in KeyStage => about \in PushKey
  PROVE  SubjectInv'
<1>1. Others(t) /\ pc'[t] = stage /\ subject'[t] = about
  BY DEF Begin, Others, RunTypeInv
<1> QED
  BY <1>1, SubjectKept

(* A step to a stage that needs no more than the stage before.              *)
LEMMA GotoSubject ==
  ASSUME RunTypeInv, SubjectInv, NEW t \in Goroutine, NEW stage, Goto(t, stage),
         stage \notin ToggleStage,
         stage \in JoinStage \cup LinkStage =>
           pc[t] \in JoinStage \cup LinkStage,
         stage \in KeyStage => pc[t] \in KeyStage
  PROVE  SubjectInv'
<1>1. Others(t) /\ pc'[t] = stage /\ subject'[t] = subject[t]
  BY DEF Goto, Others, RunTypeInv
<1> QED
  BY <1>1, SubjectKept DEF SubjectInv

LEMMA ReturnSubject ==
  ASSUME RunTypeInv, SubjectInv, NEW t \in Goroutine, Return(t)
  PROVE  SubjectInv'
<1>1. Others(t) /\ pc'[t] = "idle"
  BY DEF Return, Others, RunTypeInv
<1> QED
  BY <1>1, SubjectKept DEF JoinStage, LinkStage, KeyStage, ToggleStage

LEMMA ReadingRun ==
  ASSUME TypeInv, NEW t \in Goroutine, Reading(t)
  PROVE  /\ RunTypeInv' /\ SubjectInv' /\ Others(t)
         /\ UNCHANGED <<subject, quiet, ownerVars, disk, handleVars>>
         /\ \/ /\ pc[t] = "joinGet"
               /\ pc' \in {[pc EXCEPT ![t] = "joinDefault"], [pc EXCEPT ![t] = "judge"]}
            \/ /\ pc[t] \notin JoinStage \cup LinkStage \cup KeyStage
               /\ \E stage \in Stage \ (JoinStage \cup LinkStage \cup KeyStage) :
                    pc' = [pc EXCEPT ![t] = stage]
<1>1. PICK get \in Stage, default \in Stage, next \in Stage :
        /\ ReadGuard(t, get, default, next)
        /\ \/ get = "toggleGet" /\ default = "toggleDefault" /\ next = "toggleSet"
           \/ get = "statusGet" /\ default = "statusDefault" /\ next = "end"
           \/ get = "joinGet" /\ default = "joinDefault" /\ next = "judge"
  BY DEF Reading, Stage, JoinStage
<1>2. /\ RunTypeInv' /\ pc[t] = get
      /\ pc' \in {[pc EXCEPT ![t] = default], [pc EXCEPT ![t] = next]}
      /\ local'[t] \in BOOLEAN
      /\ \A x \in Goroutine \ {t} : local'[x] = local[x]
      /\ UNCHANGED <<subject, quiet, ownerVars, disk, handleVars>>
  BY <1>1, ReadGuardRun DEF TypeInv
<1>3. Others(t) /\ pc'[t] \in {default, next} /\ subject'[t] = subject[t]
  BY <1>2 DEF Others, TypeInv, RunTypeInv
<1> USE DEF JoinStage, LinkStage, KeyStage, ToggleStage
<1>4. pc'[t] \in JoinStage \cup LinkStage => subject'[t] \in Member
  BY <1>1, <1>2, <1>3 DEF TypeInv, SubjectInv
<1>5. pc'[t] \notin KeyStage
  BY <1>1, <1>3
<1>6. SubjectInv'
  BY <1>2, <1>3, <1>4, <1>5, SubjectKept DEF TypeInv
<1> QED
  BY <1>1, <1>2, <1>3, <1>6

LEMMA DefaultingRun ==
  ASSUME TypeInv, NEW t \in Goroutine, Defaulting(t)
  PROVE  /\ RunTypeInv' /\ SubjectInv'
         /\ Writes(t, "guard", FALSE) \/ Fails(t)
         /\ UNCHANGED <<subject, quiet, ownerVars>>
         /\ \/ /\ pc[t] = "joinDefault"
               /\ pc' = [pc EXCEPT ![t] = "judge"]
            \/ /\ pc[t] \notin JoinStage \cup LinkStage \cup KeyStage
               /\ \E stage \in Stage \ (JoinStage \cup LinkStage \cup KeyStage) :
                    pc' = [pc EXCEPT ![t] = stage]
<1>1. PICK default \in Stage, next \in Stage :
        /\ WriteDefault(t, default, next)
        /\ \/ default = "toggleDefault" /\ next = "toggleSet"
           \/ default = "statusDefault" /\ next = "end"
           \/ default = "joinDefault" /\ next = "judge"
  BY DEF Defaulting, Stage, JoinStage
<1>2. /\ pc[t] = default /\ pc' = [pc EXCEPT ![t] = next]
      /\ UNCHANGED <<subject, local, quiet, ownerVars>>
      /\ Writes(t, "guard", FALSE) \/ Fails(t)
  BY <1>1 DEF WriteDefault, Goto
<1>3. Others(t) /\ pc'[t] = next /\ UNCHANGED <<subject[t], local[t]>>
  BY <1>2 DEF Others, TypeInv, RunTypeInv
<1>4. RunTypeInv'
  BY <1>2 DEF TypeInv, RunTypeInv
<1> USE DEF JoinStage, LinkStage, KeyStage, ToggleStage
<1>5. /\ pc'[t] \in JoinStage \cup LinkStage => subject'[t] \in Member
      /\ pc'[t] \in ToggleStage => local'[t] \in BOOLEAN
      /\ pc'[t] \notin KeyStage
  BY <1>1, <1>2, <1>3 DEF TypeInv, SubjectInv
<1>6. SubjectInv'
  BY <1>3, <1>5, SubjectKept DEF TypeInv
<1> QED
  BY <1>1, <1>2, <1>4, <1>6

(* No handler opens the store or ends the process.                          *)
LEMMA HandlerServes ==
  ASSUME NEW t \in Goroutine, Handler(t)
  PROVE  UNCHANGED lifeVars
<1>1. Accept(t) \/ Unban(t) \/ Silence(t) \/ Notice(t) \/ Mail(t) \/ Free(t) =>
        UNCHANGED lifeVars
  BY DEF Accept, Unban, Silence, Notice, Mail, Free, Lift, Mute, Calls
<1>2. Reading(t) \/ Defaulting(t) \/ Flip(t) \/ Welcome(t) => UNCHANGED lifeVars
  BY FlipStep, WelcomeStep DEF Reading, Defaulting, ReadGuard, WriteDefault
<1>3. ASSUME \/ EnablePush(t) \/ DisablePush(t) \/ SetPushKey(t) \/ VerifyPushKey(t)
             \/ CheckEnabled(t) \/ Post(t) \/ \E k \in PushKey : PushArrives(t, k)
      PROVE  UNCHANGED lifeVars
  BY <1>3 DEF EnablePush, DisablePush, SetPushKey, VerifyPushKey, CheckEnabled,
              Post, PushArrives, Command
<1> QED
  BY <1>1, <1>2, <1>3, HandlerSteps
  DEF Event, Ensure, LeaveAlone, Judge, Link, OtherLink, Visit

LEMMA RunNext ==
  ASSUME TypeInv, Next
  PROVE  RunTypeInv' /\ SubjectInv'
<1> USE DEF TypeInv, Stage, JoinStage, LinkStage, KeyStage, ToggleStage
<1>1. ASSUME NEW t \in Goroutine, Handler(t)
      PROVE  RunTypeInv' /\ SubjectInv'
  <2>0. UNCHANGED phase
    BY <1>1, HandlerServes
  <2>1. CASE Event(t)
    <3>1. PICK stage \in Stage, about \in Token \cup PushKey \cup {NULL} :
            /\ Begin(t, stage, about) /\ stage \notin ToggleStage
            /\ stage \in JoinStage \cup LinkStage => about \in Member
            /\ stage \in KeyStage => about \in PushKey
      BY <2>1, TokenAssumption DEF Event
    <3> QED
      BY <2>0, <3>1, BeginRun, BeginSubject
  <2>2. ASSUME NEW k \in PushKey, PushArrives(t, k)
        PROVE  RunTypeInv' /\ SubjectInv'
    BY <2>0, <2>2, BeginRun, BeginSubject DEF PushArrives
  <2>3. CASE Ensure(t) 
    BY <2>3 DEF Ensure, RunTypeInv, SubjectInv
  <2>4. CASE Reading(t) \/ Defaulting(t)
    BY <2>4, ReadingRun, DefaultingRun
  <2>5. CASE Flip(t) \/ LeaveAlone(t) \/ Welcome(t) \/ Post(t)
    BY <2>0, <2>5, FlipStep, WelcomeStep, ReturnRun, ReturnSubject
    DEF LeaveAlone, Post
  <2>6. CASE EnablePush(t) \/ DisablePush(t) \/ SetPushKey(t)
    BY <2>0, <2>6, ReturnRun, ReturnSubject
    DEF EnablePush, DisablePush, SetPushKey, Command
  <2>7. CASE Judge(t)
    BY <2>0, <2>7, ReturnRun, ReturnSubject, GotoRun, GotoSubject DEF Judge
  <2>8. CASE Accept(t)
    BY <2>0, <2>8, ReturnRun, ReturnSubject, GotoRun, GotoSubject DEF Accept, Calls
  <2>9. CASE Unban(t)
    BY <2>0, <2>9, GotoRun, GotoSubject DEF Unban, Lift, Calls
  <2>10. CASE Silence(t)
    BY <2>0, <2>10, GotoRun, GotoSubject DEF Silence, Mute, Calls
  <2>11. CASE Link(t)
    BY <2>0, <2>11, GotoRun, GotoSubject DEF Link
  <2>12. CASE Notice(t)
    BY <2>0, <2>12, ReturnRun, ReturnSubject, GotoRun, GotoSubject DEF Notice, Calls
  <2>13. CASE Mail(t)
    BY <2>0, <2>13, ReturnRun, ReturnSubject DEF Mail, Calls
  <2>14. CASE Free(t)
    BY <2>0, <2>14, GotoRun, GotoSubject DEF Free, Lift, Calls
  <2>15. CASE VerifyPushKey(t)
    BY <2>0, <2>15, ReturnRun, ReturnSubject, GotoRun, GotoSubject DEF VerifyPushKey
  <2>16. CASE CheckEnabled(t)
    BY <2>0, <2>16, ReturnRun, ReturnSubject, GotoRun, GotoSubject DEF CheckEnabled
  <2>17. CASE OtherLink(t)
    BY <2>0, <2>17, BeginRun, BeginSubject, TokenAssumption DEF OtherLink
  <2>18. ASSUME NEW tok \in Token, NEW plugin \in PluginId, NEW method \in Method,
                Visit(t, tok, plugin, method)
         PROVE  RunTypeInv' /\ SubjectInv'
    <3>1. CASE UNCHANGED runVars
      BY <2>0, <3>1 DEF RunTypeInv, SubjectInv
    <3>2. CASE Begin(t, IF tok = Other THEN "end" ELSE "unmute", tok)
      BY <2>0, <3>2, BeginRun, BeginSubject, TokenAssumption
    <3> QED
      BY <2>18, <3>1, <3>2 DEF Visit
  <2> QED
    BY <1>1, HandlerSteps, <2>1, <2>2, <2>3, <2>4, <2>5, <2>6, <2>7, <2>8, <2>9,
       <2>10, <2>11, <2>12, <2>13, <2>14, <2>15, <2>16, <2>17, <2>18
<1>2. CASE Restart
  BY <1>2 DEF Restart, RunTypeInv, SubjectInv
<1>3. CASE TimePasses \/ EarlyAccess \/ Serve \/ Leave \/ \E m \in Member : MuteEnds(m)
  BY <1>3 DEF TimePasses, MuteEnds, EarlyAccess, Serve, Leave, RunTypeInv, SubjectInv
<1> QED
  BY <1>1, <1>2, <1>3 DEF Next

LEMMA MemberTypeNext ==
  ASSUME TypeInv, Next
  PROVE  MemberTypeInv'
<1> USE DEF TypeInv, MemberTypeInv
<1>1. ASSUME NEW t \in Goroutine, Handler(t)
      PROVE  MemberTypeInv'
  <2>0. pc[t] \in JoinStage \cup LinkStage => subject[t] \in Member
    BY DEF SubjectInv
  <2>1. CASE Accept(t) \/ Unban(t) \/ Silence(t) \/ Notice(t) \/ Mail(t) \/ Free(t)
    BY <2>0, <2>1
    DEF Accept, Unban, Silence, Notice, Mail, Free, Lift, Mute, Calls, JoinStage,
        LinkStage
  <2>2. CASE Reading(t) \/ Defaulting(t) \/ Flip(t) \/ Welcome(t)
    BY <2>2, ReadingRun, DefaultingRun, FlipStep, WelcomeStep
  <2>3. CASE Event(t) \/ Ensure(t) \/ LeaveAlone(t) \/ Judge(t) \/ Link(t)
             \/ OtherLink(t)
             \/ \E tok \in Token, plugin \in PluginId, method \in Method :
                  Visit(t, tok, plugin, method)
    BY <2>3 DEF Event, Ensure, LeaveAlone, Judge, Link, OtherLink, Visit
  <2>4. CASE \/ EnablePush(t) \/ DisablePush(t) \/ SetPushKey(t) \/ VerifyPushKey(t)
             \/ CheckEnabled(t) \/ Post(t) \/ \E k \in PushKey : PushArrives(t, k)
    BY <2>4 DEF EnablePush, DisablePush, SetPushKey, VerifyPushKey, CheckEnabled,
                Post, PushArrives, Command
  <2> QED
    BY <1>1, HandlerSteps, <2>1, <2>2, <2>3, <2>4
<1>2. CASE \/ TimePasses \/ EarlyAccess \/ Serve \/ Leave \/ Restart
           \/ \E m \in Member : MuteEnds(m)
  BY <1>2 DEF TimePasses, MuteEnds, EarlyAccess, Serve, Leave, Restart
<1> QED
  BY <1>1, <1>2 DEF Next

(* What an operation of the store does to the files and the handle.         *)
LEMMA WriteKeepsType ==
  ASSUME DiskInv, HandleTypeInv, NEW t \in Goroutine, NEW e \in Entry,
         NEW v \in Value \cup {NULL}, e = "guard" => v \in BOOLEAN \cup {NULL},
         Writes(t, e, v)
  PROVE  DiskInv' /\ HandleTypeInv'
<1>1. hold[t][1] \in Path /\ UNCHANGED <<dbPath, open>>
  BY DEF HandleTypeInv, Writes, LetGo
<1>2. disk' = [disk EXCEPT ![hold[t][1]][e] = v]
  BY DEF Writes
<1>3. DiskInv'
  BY <1>1, <1>2, EntryAssumption DEF DiskInv
<1> QED
  BY <1>1, <1>3 DEF HandleTypeInv

LEMMA OpenKeepsType ==
  ASSUME HandleTypeInv, NEW path \in Path, OpenLocked(path),
         dbPath' \in Path
  PROVE  HandleTypeInv'
  BY DEF HandleTypeInv, OpenLocked

LEMMA StoreTypeNext ==
  ASSUME TypeInv, Next
  PROVE  DiskInv' /\ HandleTypeInv'
<1> USE DEF TypeInv
<1>0. ASSUME UNCHANGED <<disk, handleVars>>
      PROVE  DiskInv' /\ HandleTypeInv'
  BY <1>0 DEF DiskInv, HandleTypeInv
<1>1. ASSUME NEW t \in Goroutine, Handler(t)
      PROVE  DiskInv' /\ HandleTypeInv'
  <2>0. ASSUME Fails(t)
        PROVE  DiskInv' /\ HandleTypeInv'
    BY <1>0, <2>0 DEF Fails, LetGo
  <2>1. CASE Accept(t) \/ Unban(t) \/ Silence(t) \/ Notice(t) \/ Mail(t) \/ Free(t)
    BY <1>0, <2>1 DEF Accept, Unban, Silence, Notice, Mail, Free, Lift, Mute, Calls
  <2>2. CASE Reading(t) \/ Welcome(t)
    BY <1>0, <2>2, ReadingRun, WelcomeStep
  <2>3. CASE Event(t) \/ LeaveAlone(t) \/ Judge(t) \/ Link(t) \/ OtherLink(t)
             \/ \E tok \in Token, plugin \in PluginId, method \in Method :
                  Visit(t, tok, plugin, method)
    BY <1>0, <2>3 DEF Event, LeaveAlone, Judge, Link, OtherLink, Visit
  <2>4. CASE Post(t) \/ \E k \in PushKey : PushArrives(t, k)
    BY <1>0, <2>4 DEF Post, PushArrives
  <2>5. CASE VerifyPushKey(t) \/ CheckEnabled(t)
    BY <1>0, <2>5 DEF VerifyPushKey, CheckEnabled, Reads, Fails, LetGo
  <2>6. CASE Defaulting(t)
    <3>1. FALSE \in Value
      BY SettingAssumption
    <3> QED
      BY <2>0, <2>6, <3>1, DefaultingRun, WriteKeepsType, EntryAssumption
  <2>7. CASE Flip(t)
    <3>1. pc[t] = "toggleSet"
      BY <2>7, FlipStep
    <3>2. local[t] \in BOOLEAN
      BY <3>1 DEF SubjectInv, ToggleStage
    <3>3. (~local[t]) \in BOOLEAN
      BY Zenon
    <3>4. (~local[t]) \in Value
      BY <3>3, SettingAssumption, Zenon
    <3> QED
      BY <2>0, <2>7, <3>3, <3>4, FlipStep, WriteKeepsType, EntryAssumption
  <2>8. CASE EnablePush(t) \/ DisablePush(t) \/ SetPushKey(t)
    <3>1. PICK e \in Entry \ {"guard"}, v \in Value \cup {NULL} : Writes(t, e, v) \/ Fails(t)
      <4>1. CASE EnablePush(t)
        <5>1. Writes(t, "enabled", TRUE) \/ Fails(t)
          BY <4>1, Zenon DEF EnablePush, Command
        <5>2. TRUE \in Value
          BY SettingAssumption
        <5>3. "enabled" \in Entry \ {"guard"}
          BY EntryAssumption
        <5> QED
          BY <5>1, <5>2, <5>3
      <4>2. CASE DisablePush(t)
        <5>1. Writes(t, "enabled", NULL) \/ Fails(t)
          BY <4>2, Zenon DEF DisablePush, Command
        <5> QED
          BY <5>1, EntryAssumption
      <4>3. CASE SetPushKey(t)
        BY <4>3, EntryAssumption, SettingAssumption
        DEF SetPushKey, Command, SubjectInv, KeyStage
      <4> QED
        BY <2>8, <4>1, <4>2, <4>3
    <3> QED
      BY <2>0, <3>1, WriteKeepsType
  <2>9. CASE Ensure(t)
    <3>1. UNCHANGED disk
      BY <2>9 DEF Ensure, Peek, OpenFirst
    <3>2. UNCHANGED handleVars \/ (OpenLocked(dbPath) /\ UNCHANGED dbPath)
      BY <2>9 DEF Ensure, Peek, OpenFirst
    <3>3. HandleTypeInv'
      BY <3>2, OpenKeepsType DEF HandleTypeInv
    <3> QED
      BY <3>1, <3>3 DEF DiskInv
  <2> QED
    BY <1>1, HandlerSteps, <2>1, <2>2, <2>3, <2>4, <2>5, <2>6, <2>7, <2>8, <2>9
<1>2. CASE TimePasses \/ \E m \in Member : MuteEnds(m)
  BY <1>0, <1>2 DEF TimePasses, MuteEnds
<1>3. CASE EarlyAccess \/ Serve \/ Leave \/ Restart
  <2>1. DiskInv'
    BY <1>3 DEF EarlyAccess, Serve, Open, Leave, Close, Restart, DiskInv
  <2>2. CASE EarlyAccess
    BY <2>1, <2>2, OpenKeepsType DEF EarlyAccess, HandleTypeInv
  <2>3. CASE Serve
    BY <2>1, <2>3, OpenKeepsType, ConfigAssumption DEF Serve, Open, HandleTypeInv
  <2>4. CASE Leave \/ Restart
    BY <2>1, <2>4, PathAssumption DEF Leave, Close, Restart, HandleTypeInv
  <2> QED
    BY <1>3, <2>2, <2>3, <2>4
<1> QED
  BY <1>1, <1>2, <1>3 DEF Next

LEMMA SpeaksType ==
  ASSUME NEW k, NEW key, NEW yes
  PROVE  Speaks(k, key, yes) \in SUBSET {"key", "consent"}
  BY DEF Speaks

LEMMA DecideType ==
  ASSUME OwnerTypeInv, NEW t \in Goroutine, NEW key \in Value \cup {NULL},
         NEW yes \in BOOLEAN, Decide(t, key, yes)
  PROVE  OwnerTypeInv'
<1>1. keySet' \in Value \cup {NULL}
  BY DEF Decide, OwnerTypeInv
<1>2. agreed' \in BOOLEAN
  BY Zenon DEF Decide, OwnerTypeInv
<1>3. \A x \in Goroutine :
        (IF pc[x] \in {"pushKey", "pushEnabled"}
         THEN held[x] \cup Speaks(subject[x], keySet', agreed') ELSE held[x])
          \in SUBSET {"key", "consent"}
  BY SpeaksType DEF OwnerTypeInv
<1>4. held' \in [Goroutine -> SUBSET {"key", "consent"}]
  BY <1>3, Zenon DEF Decide
<1> QED
  BY <1>1, <1>2, <1>4 DEF OwnerTypeInv

LEMMA OwnerTypeNext ==
  ASSUME TypeInv, Next
  PROVE  OwnerTypeInv'
<1> USE DEF TypeInv
<1>0. ASSUME UNCHANGED ownerVars
      PROVE  OwnerTypeInv'
  BY <1>0 DEF OwnerTypeInv
<1>1. ASSUME NEW t \in Goroutine, Handler(t)
      PROVE  OwnerTypeInv'
  <2>1. CASE Accept(t) \/ Unban(t) \/ Silence(t) \/ Notice(t) \/ Mail(t) \/ Free(t)
    BY <1>0, <2>1 DEF Accept, Unban, Silence, Notice, Mail, Free, Lift, Mute, Calls
  <2>2. CASE Reading(t) \/ Defaulting(t) \/ Flip(t) \/ Welcome(t)
    BY <1>0, <2>2, ReadingRun, DefaultingRun, FlipStep, WelcomeStep
  <2>3. CASE Event(t) \/ Ensure(t) \/ LeaveAlone(t) \/ Judge(t) \/ Link(t)
             \/ OtherLink(t)
             \/ \E tok \in Token, plugin \in PluginId, method \in Method :
                  Visit(t, tok, plugin, method)
    BY <1>0, <2>3 DEF Event, Ensure, LeaveAlone, Judge, Link, OtherLink, Visit
  <2>4. CASE VerifyPushKey(t) \/ CheckEnabled(t)
    BY <1>0, <2>4 DEF VerifyPushKey, CheckEnabled
  <2>5. CASE Post(t)
    BY <2>5 DEF Post, OwnerTypeInv
  <2>6. ASSUME NEW k \in PushKey, PushArrives(t, k)
        PROVE  OwnerTypeInv'
    <3>1. held' = [held EXCEPT ![t] = Speaks(k, keySet, agreed)]
      BY <2>6 DEF PushArrives
    <3>2. held' \in [Goroutine -> SUBSET {"key", "consent"}]
      BY <3>1, SpeaksType DEF OwnerTypeInv
    <3>3. UNCHANGED <<agreed, keySet>>
      BY <2>6 DEF PushArrives
    <3> QED
      BY <3>2, <3>3 DEF OwnerTypeInv
  <2>7. CASE EnablePush(t)
    <3>1. Decide(t, keySet, TRUE) \/ UNCHANGED ownerVars
      BY <2>7, Zenon DEF EnablePush, Command
    <3> QED
      BY <1>0, <3>1, DecideType, Zenon DEF OwnerTypeInv
  <2>8. CASE DisablePush(t)
    <3>1. Decide(t, keySet, FALSE) \/ UNCHANGED ownerVars
      BY <2>8, Zenon DEF DisablePush, Command
    <3> QED
      BY <1>0, <3>1, DecideType, Zenon DEF OwnerTypeInv
  <2>9. CASE SetPushKey(t)
    <3>1. Decide(t, subject[t], agreed) \/ UNCHANGED ownerVars
      BY <2>9, Zenon DEF SetPushKey, Command
    <3>2. pc[t] = "setKey"
      BY <2>9 DEF SetPushKey, Command
    <3>3. subject[t] \in Value \cup {NULL}
      BY <3>2, SettingAssumption DEF SubjectInv, KeyStage
    <3> QED
      BY <1>0, <3>1, <3>3, DecideType, Zenon DEF OwnerTypeInv
  <2> QED
    BY <1>1, HandlerSteps, <2>1, <2>2, <2>3, <2>4, <2>5, <2>6, <2>7, <2>8, <2>9
<1>2. CASE TimePasses \/ EarlyAccess \/ Serve \/ Leave \/ \E m \in Member : MuteEnds(m)
  BY <1>0, <1>2 DEF TimePasses, MuteEnds, EarlyAccess, Serve, Leave
<1>3. CASE Restart
  BY <1>3 DEF Restart, OwnerTypeInv
<1> QED
  BY <1>1, <1>2, <1>3 DEF Next

-----------------------------------------------------------------------------
(* The table of links                                                      *)

LinkInv == RouteTypeInv /\ RouteInv /\ HandledOnce

LEMMA RegisterLinks ==
  ASSUME LinkInv, NEW tok \in Token, NEW plugin \in PluginId,
         NEW method \in Method, NEW oneTime \in BOOLEAN,
         RegisterTemporaryRoute(tok, plugin, method, oneTime)
  PROVE  LinkInv'
<1> DEFINE route == [plugin |-> plugin, method |-> method, oneTime |-> oneTime,
                     alive |-> TRUE]
<1>1. route \in Route
  BY Zenon DEF Route
<1>2. /\ routes' = [x \in DOMAIN routes \cup {tok} |-> IF x = tok THEN route ELSE routes[x]]
      /\ issued' = [x \in DOMAIN issued \cup {tok} |-> IF x = tok THEN route ELSE issued[x]]
      /\ UNCHANGED <<over, ran, ranLate>> /\ tok \notin DOMAIN issued
  BY Zenon DEF RegisterTemporaryRoute
<1>3. /\ route.oneTime = oneTime /\ route.plugin = plugin /\ route.alive
  BY Zenon
<1> HIDE DEF route
<1>4. RouteTypeInv'
  BY <1>1, <1>2 DEF LinkInv, RouteTypeInv
<1>5. RouteInv'
  BY <1>2, <1>3 DEF LinkInv, RouteTypeInv, RouteInv
<1>6. HandledOnce'
  BY <1>2 DEF LinkInv, RouteTypeInv, RouteInv, HandledOnce
<1> QED
  BY <1>4, <1>5, <1>6 DEF LinkInv

LEMMA DropLinks ==
  ASSUME LinkInv, NEW tok \in DOMAIN issued, routes' = Without(tok),
         UNCHANGED <<issued, ran, ranLate>>,
         UNCHANGED over \/ over' = over \cup {tok}
  PROVE  LinkInv'
<1>1. RouteTypeInv'
  BY DEF LinkInv, RouteTypeInv, Without
<1>2. RouteInv'
  BY DEF LinkInv, RouteTypeInv, RouteInv, Without
<1> QED
  BY <1>1, <1>2 DEF LinkInv, HandledOnce

LEMMA ExpireLinks ==
  ASSUME LinkInv, NEW tok \in Token, Expire(tok)
  PROVE  LinkInv'
<1>1. /\ tok \in DOMAIN routes /\ tok \in DOMAIN issued
      /\ routes' = [routes EXCEPT ![tok].alive = FALSE]
      /\ over' = over \cup {tok}
      /\ UNCHANGED <<issued, ran, ranLate>>
  BY DEF Expire, Registered, LinkInv, RouteInv
<1>2. /\ DOMAIN routes' = DOMAIN routes
      /\ \A x \in DOMAIN routes : routes'[x] \in Route
      /\ \A x \in DOMAIN routes : routes'[x].oneTime = routes[x].oneTime
                                  /\ routes'[x].plugin = routes[x].plugin
      /\ \A x \in DOMAIN routes \ {tok} : routes'[x].alive = routes[x].alive
      /\ routes'[tok].alive = FALSE
  BY <1>1 DEF LinkInv, RouteTypeInv, Route
<1>3. routes' \in [DOMAIN routes' -> Route]
  BY <1>1, <1>2 DEF LinkInv, RouteTypeInv
<1>4. RouteTypeInv'
  BY <1>1, <1>3 DEF LinkInv, RouteTypeInv
<1>5. RouteInv'
  BY <1>1, <1>2 DEF LinkInv, RouteInv
<1> QED
  BY <1>1, <1>4, <1>5 DEF LinkInv, HandledOnce

LEMMA HandlerLinks ==
  ASSUME LinkInv, NEW tok \in DOMAIN issued, NEW plugin, NEW method,
         ServeHandler(tok, plugin, method)
  PROVE  LinkInv'
<1>1. /\ tok \in DOMAIN routes /\ routes[tok].alive
      /\ routes' = IF routes[tok].oneTime THEN Without(tok) ELSE routes
      /\ ran' = [ran EXCEPT ![tok] = @ + 1]
      /\ ranLate' = IF tok \in over THEN ranLate \cup {tok} ELSE ranLate
      /\ UNCHANGED <<issued, over>>
  BY DEF ServeHandler, Matches, Registered
<1>2. tok \in Token /\ UNCHANGED ranLate
  BY <1>1 DEF LinkInv, RouteTypeInv, RouteInv
<1>3. RouteTypeInv'
  BY <1>1, <1>2 DEF LinkInv, RouteTypeInv, Without
<1>4. RouteInv'
  BY <1>1, <1>2 DEF LinkInv, RouteTypeInv, RouteInv, Without
<1>5. HandledOnce'
  BY <1>1, <1>2 DEF LinkInv, RouteTypeInv, RouteInv, HandledOnce
<1> QED
  BY <1>3, <1>4, <1>5 DEF LinkInv

LEMMA LoseLinks ==
  ASSUME LinkInv, LoseRoutes
  PROVE  LinkInv'
  BY DEF LinkInv, LoseRoutes, NoRoutes, RouteTypeInv, RouteInv, HandledOnce

LEMMA LinkNext ==
  ASSUME TypeInv, LinkInv, Next
  PROVE  LinkInv'
<1> USE DEF TypeInv
<1>0. ASSUME UNCHANGED routeVars
      PROVE  LinkInv'
  BY <1>0 DEF LinkInv, RouteTypeInv, RouteInv, HandledOnce
<1>1. ASSUME NEW t \in Goroutine, Handler(t)
      PROVE  LinkInv'
  <2>1. CASE Accept(t) \/ Unban(t) \/ Silence(t) \/ Notice(t) \/ Mail(t) \/ Free(t)
    BY <1>0, <2>1 DEF Accept, Unban, Silence, Notice, Mail, Free, Lift, Mute, Calls
  <2>2. CASE Reading(t) \/ Defaulting(t) \/ Flip(t) \/ Welcome(t)
    BY <1>0, <2>2, ReadingRun, DefaultingRun, FlipStep, WelcomeStep
  <2>3. CASE Event(t) \/ Ensure(t) \/ LeaveAlone(t) \/ Judge(t)
    BY <1>0, <2>3 DEF Event, Ensure, LeaveAlone, Judge
  <2>4. CASE \/ EnablePush(t) \/ DisablePush(t) \/ SetPushKey(t) \/ VerifyPushKey(t)
             \/ CheckEnabled(t) \/ Post(t) \/ \E k \in PushKey : PushArrives(t, k)
    BY <1>0, <2>4 DEF EnablePush, DisablePush, SetPushKey, VerifyPushKey,
                      CheckEnabled, Post, PushArrives, Command
  <2>5. CASE Link(t)
    <3>1. pc[t] = "link" /\ RegisterTemporaryRoute(subject[t], Guard, "GET", TRUE)
      BY <2>5 DEF Link
    <3>2. subject[t] \in Token
      BY <3>1, TokenAssumption DEF SubjectInv, JoinStage
    <3>3. TRUE \in BOOLEAN
      BY Zenon
    <3> QED
      BY <3>1, <3>2, <3>3, RegisterLinks, RouteAssumption, Zenon DEF Guard
  <2>6. CASE OtherLink(t)
    <3>1. CASE RegisterTemporaryRoute(Other, "other", "GET", FALSE)
      <4>1. FALSE \in BOOLEAN /\ Other \in Token
        BY TokenAssumption, Zenon
      <4> QED
        BY <3>1, <4>1, RegisterLinks, RouteAssumption, Zenon
    <3>2. CASE RemoveRoute(Other)
      BY <3>2, DropLinks DEF RemoveRoute
    <3> QED
      BY <2>6, <3>1, <3>2 DEF OtherLink
  <2>7. ASSUME NEW tok \in Token, NEW plugin \in PluginId, NEW method \in Method,
               Visit(t, tok, plugin, method)
        PROVE  LinkInv'
    <3>1. CASE ServeNotFound(tok, plugin)
      BY <2>7, <3>1, DropLinks DEF Visit, ServeNotFound
    <3>2. CASE ServeNotAllowed(tok, plugin, method)
      BY <1>0, <3>2 DEF ServeNotAllowed
    <3>3. CASE ServeHandler(tok, plugin, method)
      BY <2>7, <3>3, HandlerLinks DEF Visit
    <3> QED
      BY <2>7, <3>1, <3>2, <3>3 DEF Visit
  <2> QED
    BY <1>1, HandlerSteps, <2>1, <2>2, <2>3, <2>4, <2>5, <2>6, <2>7
<1>2. CASE TimePasses
  BY <1>2, ExpireLinks DEF TimePasses
<1>3. CASE EarlyAccess \/ Serve \/ Leave \/ \E m \in Member : MuteEnds(m)
  BY <1>0, <1>3 DEF EarlyAccess, Serve, Leave, MuteEnds
<1>4. CASE Restart
  BY <1>4, LoseLinks DEF Restart
<1> QED
  BY <1>1, <1>2, <1>3, <1>4 DEF Next

(* What all later proofs rest on. *)
BaseInv == TypeInv /\ LinkInv

LEMMA BaseInit == Init => BaseInv
<1> SUFFICES ASSUME Init
             PROVE  BaseInv
  OBVIOUS
<1>1. RunTypeInv /\ MemberTypeInv /\ SubjectInv
  BY DEF Init, RunTypeInv, MemberTypeInv, SubjectInv, Stage, JoinStage, LinkStage,
         KeyStage, ToggleStage
<1>2. disk \in FirstDisk /\ DiskInv /\ HandleTypeInv
  BY DiskAssumption, SettingAssumption, PathAssumption
  DEF Init, StoreInit, DiskInv, HandleTypeInv
<1>3. LinkInv
  BY DEF Init, RouteInit, NoRoutes, LinkInv, RouteTypeInv, RouteInv, HandledOnce
<1>4. keySet \in Value \cup {NULL}
  BY <1>2, ConfigAssumption, EntryAssumption DEF Init, DiskInv
<1>5. agreed \in BOOLEAN
  BY Zenon DEF Init
<1>6. held \in [Goroutine -> SUBSET {"key", "consent"}]
  BY DEF Init
<1> QED
  BY <1>1, <1>2, <1>3, <1>4, <1>5, <1>6 DEF BaseInv, TypeInv, LinkInv, OwnerTypeInv

LEMMA BaseFrame == BaseInv /\ UNCHANGED vars => BaseInv'
<1> SUFFICES ASSUME BaseInv, UNCHANGED vars
             PROVE  BaseInv'
  OBVIOUS
<1>1. RunTypeInv' /\ MemberTypeInv' /\ SubjectInv'
  BY DEF vars, BaseInv, TypeInv, RunTypeInv, MemberTypeInv, SubjectInv
<1>2. DiskInv' /\ HandleTypeInv' /\ OwnerTypeInv'
  BY DEF vars, BaseInv, TypeInv, DiskInv, HandleTypeInv, OwnerTypeInv
<1>3. LinkInv'
  BY DEF vars, BaseInv, LinkInv, RouteTypeInv, RouteInv, HandledOnce
<1> QED
  BY <1>1, <1>2, <1>3 DEF BaseInv, TypeInv, LinkInv

LEMMA BaseNext == BaseInv /\ [Next]_vars => BaseInv'
<1>1. BaseInv /\ Next => BaseInv'
  BY RunNext, MemberTypeNext, StoreTypeNext, OwnerTypeNext, LinkNext
  DEF BaseInv, TypeInv, LinkInv
<1> QED
  BY <1>1, BaseFrame

LEMMA BaseHolds == Spec => []BaseInv
  BY BaseInit, BaseNext, PTL DEF Spec

(* Every variable keeps its type, each handler is about a member, a link or *)
(* a key as its stage says, and the guard's setting is a Boolean or absent  *)
(* in every file.                                                           *)
THEOREM TypeCorrect == Spec => []TypeInv
<1>1. BaseInv => TypeInv
  BY DEF BaseInv
<1> QED
  BY <1>1, BaseHolds, PTL

(* A one-time link runs its handler once at most, and no link runs it after *)
(* it was over, for any number of links, requests and restarts.             *)
THEOREM LinksOnce == Spec => []HandledOnce
<1>1. BaseInv => HandledOnce
  BY DEF BaseInv, LinkInv
<1> QED
  BY <1>1, BaseHolds, PTL

-----------------------------------------------------------------------------
(* The steps of a handler as the members and the links see them            *)

LateStage == {"accept", "lift", "mute", "link", "notice", "mail", "unmute", "welcome"}

(* A step that has to do with no member yet. *)
Plain(t) ==
  /\ UNCHANGED <<memberVars, routeVars, wrongly>>
  /\ \/ pc'[t] \notin JoinStage \cup LinkStage /\ pc[t] \notin LateStage
     \/ pc'[t] = pc[t] /\ subject'[t] = subject[t]
     \/ /\ pc[t] \in {"joinGet", "joinDefault", "judge"}
        /\ pc'[t] \in {"joinDefault", "judge", "accept"}
        /\ subject'[t] = subject[t]

Asks(t) ==
  /\ UNCHANGED <<memberVars, routeVars, wrongly>>
  /\ pc'[t] = "joinGet" /\ pc[t] = "idle"
  /\ subject'[t] \in Member \ (inGroup \cup failed)
  /\ \A x \in Goroutine : subject[x] # subject'[t]

LEMMA BeginStep ==
  ASSUME RunTypeInv, NEW t \in Goroutine, NEW stage, NEW about, Begin(t, stage, about)
  PROVE  Others(t) /\ pc[t] = "idle" /\ pc'[t] = stage /\ subject'[t] = about
  BY DEF RunTypeInv, Begin, Others

LEMMA GotoStep ==
  ASSUME RunTypeInv, NEW t \in Goroutine, NEW stage, Goto(t, stage)
  PROVE  Others(t) /\ pc'[t] = stage /\ subject'[t] = subject[t]
  BY DEF RunTypeInv, Goto, Others

LEMMA ReturnStep ==
  ASSUME RunTypeInv, NEW t \in Goroutine, Return(t)
  PROVE  Others(t) /\ pc'[t] = "idle"
  BY DEF RunTypeInv, Return, Others

LEMMA StepKinds ==
  ASSUME TypeInv, NEW t \in Goroutine, Handler(t)
  PROVE  \/ Plain(t) /\ Others(t)
         \/ Asks(t) /\ Others(t)
         \/ Accept(t) \/ Unban(t) \/ Silence(t) \/ Link(t) \/ Notice(t) \/ Mail(t)
         \/ Free(t) \/ Welcome(t) \/ OtherLink(t)
         \/ \E tok \in Token, plugin \in PluginId, method \in Method :
              Visit(t, tok, plugin, method)
<1> USE DEF TypeInv, JoinStage, LinkStage, LateStage, KeyStage
<1>1. CASE Event(t)
  <2>0. UNCHANGED <<memberVars, routeVars, wrongly>>
    BY <1>1 DEF Event
  <2>1. CASE \E m \in Member : /\ m \notin inGroup /\ ~\E x \in Goroutine : subject[x] = m
                               /\ m \notin failed /\ Begin(t, "joinGet", m)
    BY <2>0, <2>1, BeginStep DEF Asks
  <2>2. CASE \E stage \in {"toggleGet", "statusGet", "enable", "disable", "setKey"},
                about \in PushKey \cup {NULL} : Begin(t, stage, about)
    BY <2>0, <2>2, BeginStep DEF Plain
  <2> QED
    BY <1>1, <2>1, <2>2 DEF Event
<1>2. CASE Ensure(t)
  BY <1>2 DEF Ensure, Plain, Others
<1>3. CASE Reading(t)
  <2>1. UNCHANGED <<memberVars, routeVars, wrongly, subject>>
    BY <1>3, ReadingRun
  <2> QED
    BY <1>3, <2>1, ReadingRun DEF Plain, RunTypeInv
<1>4. CASE Defaulting(t)
  <2>1. UNCHANGED <<memberVars, routeVars, wrongly, subject>>
    BY <1>4, DefaultingRun
  <2>2. Others(t)
    BY <1>4, GotoStep DEF Defaulting, WriteDefault
  <2> QED
    BY <1>4, <2>1, <2>2, DefaultingRun DEF Plain, RunTypeInv
<1>5. CASE Flip(t) \/ LeaveAlone(t) \/ Post(t)
  BY <1>5, FlipStep, ReturnStep DEF LeaveAlone, Post, Plain
<1>6. CASE EnablePush(t) \/ DisablePush(t) \/ SetPushKey(t)
  <2>1. /\ Return(t) /\ UNCHANGED <<memberVars, routeVars, wrongly>>
        /\ pc[t] \in {"enable", "disable", "setKey"}
    BY <1>6 DEF EnablePush, DisablePush, SetPushKey, Command
  <2> QED
    BY <2>1, ReturnStep DEF Plain
<1>7. CASE Judge(t)
  BY <1>7, ReturnStep, GotoStep DEF Judge, Plain
<1>8. CASE VerifyPushKey(t) \/ CheckEnabled(t)
  <2>1. /\ Return(t) \/ Goto(t, "pushEnabled") \/ Goto(t, "post")
        /\ pc[t] \in {"pushKey", "pushEnabled"}
        /\ UNCHANGED <<memberVars, routeVars, wrongly>>
    BY <1>8 DEF VerifyPushKey, CheckEnabled
  <2> QED
    BY <2>1, ReturnStep, GotoStep DEF Plain
<1>9. CASE \E k \in PushKey : PushArrives(t, k)
  BY <1>9, BeginStep DEF PushArrives, Plain
<1> QED
  BY HandlerSteps, <1>1, <1>2, <1>3, <1>4, <1>5, <1>6, <1>7, <1>8, <1>9

(* What the calls of the platform leave behind. *)
LEMMA AcceptStep ==
  ASSUME RunTypeInv, NEW t \in Goroutine, Accept(t)
  PROVE  /\ Others(t) /\ pc[t] = "accept"
         /\ UNCHANGED <<muted, mailed, routeVars, wrongly>>
         /\ inGroup' = inGroup \/ inGroup' = inGroup \cup {subject[t]}
         /\ \/ /\ pc'[t] = "lift" /\ subject'[t] = subject[t]
               /\ UNCHANGED failed /\ subject[t] \in inGroup'
            \/ pc'[t] = "idle" /\ failed' = failed \cup {subject[t]}
  BY GotoStep, ReturnStep DEF Accept, Calls

LEMMA UnbanStep ==
  ASSUME RunTypeInv, NEW t \in Goroutine, Unban(t)
  PROVE  /\ Others(t) /\ pc[t] = "lift" /\ subject'[t] = subject[t]
         /\ UNCHANGED <<inGroup, mailed, routeVars, wrongly>>
         /\ muted' = muted \/ muted' = muted \ {subject[t]}
         /\ \/ pc'[t] = "mute" /\ UNCHANGED failed
            \/ pc'[t] = "link" /\ failed' = failed \cup {subject[t]}
  BY GotoStep DEF Unban, Lift, Calls

LEMMA SilenceStep ==
  ASSUME RunTypeInv, NEW t \in Goroutine, Silence(t)
  PROVE  /\ Others(t) /\ pc[t] = "mute" /\ subject'[t] = subject[t] /\ pc'[t] = "link"
         /\ UNCHANGED <<inGroup, mailed, routeVars, wrongly>>
         /\ muted' = muted \/ muted' = muted \cup {subject[t]}
         /\ \/ UNCHANGED failed /\ subject[t] \in muted'
            \/ failed' = failed \cup {subject[t]}
  BY GotoStep DEF Silence, Mute, Calls

LEMMA NoticeStep ==
  ASSUME RunTypeInv, NEW t \in Goroutine, Notice(t)
  PROVE  /\ Others(t) /\ pc[t] = "notice"
         /\ UNCHANGED <<inGroup, muted, mailed, routeVars, wrongly>>
         /\ failed' = failed \/ failed' = failed \cup {subject[t]}
         /\ pc'[t] = "idle" \/ (pc'[t] = "mail" /\ subject'[t] = subject[t])
  BY GotoStep, ReturnStep DEF Notice, Calls

LEMMA MailStep ==
  ASSUME RunTypeInv, NEW t \in Goroutine, Mail(t)
  PROVE  /\ Others(t) /\ pc[t] = "mail" /\ pc'[t] = "idle"
         /\ UNCHANGED <<inGroup, muted, routeVars, wrongly>>
         /\ failed' = failed \/ failed' = failed \cup {subject[t]}
         /\ mailed' = mailed \/ mailed' = mailed \cup {subject[t]}
  BY ReturnStep DEF Mail, Calls

LEMMA FreeStep ==
  ASSUME RunTypeInv, NEW t \in Goroutine, Free(t)
  PROVE  /\ Others(t) /\ pc[t] = "unmute" /\ pc'[t] = "welcome"
         /\ subject'[t] = subject[t]
         /\ UNCHANGED <<inGroup, mailed, routeVars, wrongly>>
         /\ muted' = muted \/ muted' = muted \ {subject[t]}
         /\ \/ UNCHANGED failed /\ subject[t] \notin muted'
            \/ failed' = failed \cup {subject[t]}
  BY GotoStep DEF Free, Lift, Calls

(* A visit drops a link for one of three reasons.                           *)
LEMMA VisitStep ==
  ASSUME BaseInv, JoinInv, NEW t \in Goroutine, NEW tok \in Token,
         NEW plugin \in PluginId, NEW method \in Method, Visit(t, tok, plugin, method)
  PROVE  /\ Others(t) /\ UNCHANGED <<memberVars, issued, over>>
         /\ wrongly \subseteq wrongly'
         /\ \/ pc'[t] = pc[t] /\ subject'[t] = subject[t] /\ UNCHANGED ran
            \/ /\ pc[t] = "idle" /\ subject'[t] = tok
               /\ \/ tok \notin Member /\ pc'[t] = "end"
                  \/ tok \in Member /\ pc'[t] = "unmute"
               /\ ran' = [ran EXCEPT ![tok] = @ + 1]
         /\ \A m \in Member : Registered(m) =>
              \/ Registered(m)' \/ m \in over \cup wrongly'
              \/ pc'[t] = "unmute" /\ subject'[t] = m
<1> USE DEF BaseInv, TypeInv
<1>0. /\ tok \in DOMAIN issued /\ UNCHANGED memberVars /\ wrongly \subseteq wrongly'
      /\ plugin # issued[tok].plugin => tok \in wrongly'
  BY DEF Visit
<1>1. CASE ServeNotFound(tok, plugin) /\ UNCHANGED runVars
  <2>1. /\ routes' = Without(tok) /\ UNCHANGED <<issued, over, ran>>
        /\ Registered(tok) => routes[tok].plugin # plugin \/ ~routes[tok].alive
    BY <1>1 DEF ServeNotFound
  <2>2. Registered(tok) => tok \in over \cup wrongly'
    BY <1>0, <2>1 DEF Registered, LinkInv, RouteInv
  <2>3. \A m \in Member : Registered(m) => Registered(m)' \/ m \in over \cup wrongly'
    BY <2>1, <2>2 DEF Registered, Without
  <2> QED
    BY <1>0, <1>1, <2>1, <2>3 DEF Others
<1>2. CASE ServeNotAllowed(tok, plugin, method) /\ UNCHANGED runVars
  BY <1>0, <1>2 DEF ServeNotAllowed, Others, Registered
<1>3. CASE /\ ServeHandler(tok, plugin, method)
           /\ Begin(t, IF tok = Other THEN "end" ELSE "unmute", tok)
  <2>1. /\ routes' = Without(tok) \/ routes' = routes
        /\ ran' = [ran EXCEPT ![tok] = @ + 1]
        /\ UNCHANGED <<issued, over>>
    BY <1>3 DEF ServeHandler
  <2>2. /\ Others(t) /\ pc[t] = "idle" /\ subject'[t] = tok
        /\ pc'[t] = IF tok = Other THEN "end" ELSE "unmute"
    BY <1>3, BeginStep
  <2>3. \A m \in Member : Registered(m) => Registered(m)' \/ m = tok
    BY <2>1 DEF Registered, Without
  <2> QED
    BY <1>0, <2>1, <2>2, <2>3, TokenAssumption
<1> QED
  BY <1>1, <1>2, <1>3 DEF Visit

(* The last link is another plugin's. *)
LEMMA OtherLinkStep ==
  ASSUME BaseInv, NEW t \in Goroutine, OtherLink(t)
  PROVE  /\ Others(t) /\ UNCHANGED <<memberVars, wrongly, ran>>
         /\ pc[t] = "idle" /\ pc'[t] = "end"
         /\ over \subseteq over'
         /\ \A m \in Member : /\ Registered(m)' <=> Registered(m)
                              /\ (m \in DOMAIN issued)' <=> m \in DOMAIN issued
                              /\ m \in DOMAIN issued => issued'[m] = issued[m]
<1>1. Begin(t, "end", Other) /\ UNCHANGED <<memberVars, wrongly>>
  BY DEF OtherLink
<1>2. Others(t) /\ pc[t] = "idle" /\ pc'[t] = "end"
  BY <1>1, BeginStep DEF BaseInv, TypeInv
<1>3. CASE RegisterTemporaryRoute(Other, "other", "GET", FALSE)
  BY <1>1, <1>2, <1>3, TokenAssumption DEF RegisterTemporaryRoute, Registered
<1>4. CASE RemoveRoute(Other)
  BY <1>1, <1>2, <1>4, TokenAssumption DEF RemoveRoute, Registered, Without
<1> QED
  BY <1>3, <1>4 DEF OtherLink

LEMMA LinkStep ==
  ASSUME BaseInv, NEW t \in Goroutine, Link(t)
  PROVE  /\ Others(t) /\ UNCHANGED <<memberVars, wrongly, over, ran>>
         /\ pc[t] = "link" /\ pc'[t] = "notice" /\ subject'[t] = subject[t]
         /\ \A m \in Member : /\ Registered(m)' <=> Registered(m) \/ m = subject[t]
                              /\ (m \in DOMAIN issued)' <=>
                                   m \in DOMAIN issued \/ m = subject[t]
                              /\ m \in DOMAIN issued => issued'[m] = issued[m]
                              /\ m = subject[t] => issued'[m].plugin = Guard
<1>1. /\ pc[t] = "link" /\ Goto(t, "notice") /\ UNCHANGED <<memberVars, wrongly>>
      /\ RegisterTemporaryRoute(subject[t], Guard, "GET", TRUE)
  BY DEF Link
<1>2. Others(t) /\ pc'[t] = "notice" /\ subject'[t] = subject[t]
  BY <1>1, GotoStep DEF BaseInv, TypeInv
<1> DEFINE route == [plugin |-> Guard, method |-> "GET", oneTime |-> TRUE, alive |-> TRUE]
<1>3. /\ routes' = [x \in DOMAIN routes \cup {subject[t]} |->
                      IF x = subject[t] THEN route ELSE routes[x]]
      /\ issued' = [x \in DOMAIN issued \cup {subject[t]} |->
                      IF x = subject[t] THEN route ELSE issued[x]]
      /\ UNCHANGED <<over, ran>> /\ subject[t] \notin DOMAIN issued
  BY <1>1 DEF RegisterTemporaryRoute
<1>4. route.plugin = Guard
  OBVIOUS
<1> HIDE DEF route
<1> QED
  BY <1>1, <1>2, <1>3, <1>4 DEF Registered

-----------------------------------------------------------------------------
(* Nobody enters unverified                                                *)

(* No handler waits for thirty days.                                        *)
LEMMA LapsedKept ==
  ASSUME TypeInv, NEW t \in Goroutine, Handler(t)
  PROVE  UNCHANGED lapsed
<1>1. CASE Plain(t) \/ Asks(t)
  BY <1>1 DEF Plain, Asks
<1>2. CASE \/ Accept(t) \/ Unban(t) \/ Silence(t) \/ Link(t) \/ Notice(t) \/ Mail(t)
           \/ Free(t) \/ Welcome(t)
  BY <1>2, WelcomeStep
     DEF Accept, Unban, Silence, Link, Notice, Mail, Free, Lift, Mute, Calls
<1>3. CASE \/ OtherLink(t)
           \/ \E tok \in Token, plugin \in PluginId, method \in Method :
                Visit(t, tok, plugin, method)
  BY <1>3 DEF OtherLink, Visit
<1> QED
  BY <1>1, <1>2, <1>3, StepKinds

(* A step keeps the invariant if it keeps it for its own goroutine.         *)
LEMMA EnterKept ==
  ASSUME BaseInv, EnterInv, NEW t \in Goroutine, Others(t), failed \subseteq failed',
         UNCHANGED lapsed,
         \A m \in Token : ran'[m] >= ran[m], ran' \in [Token -> Nat],
         inGroup' \subseteq Member,
         \A m \in inGroup' \ muted' :
           \/ m \in inGroup \ muted /\ (m = subject[t] => pc[t] \notin {"lift", "mute"})
           \/ m \in failed' \/ ran'[m] > 0
           \/ subject'[t] = m /\ pc'[t] \in {"lift", "mute"},
         pc'[t] \in LinkStage => ran'[subject'[t]] > 0
  PROVE  EnterInv'
<1> USE DEF BaseInv, TypeInv, RouteTypeInv
<1>1. ASSUME NEW m \in inGroup', m \notin muted'
      PROVE  m \in failed' \cup lapsed' \/ ran'[m] > 0 \/ Busy(m, {"lift", "mute"})'
  <2>1. CASE m \in failed' \/ ran'[m] > 0
    BY <2>1
  <2>2. CASE subject'[t] = m /\ pc'[t] \in {"lift", "mute"}
    BY <2>2 DEF Busy
  <2>3. CASE m \in inGroup \ muted /\ (m = subject[t] => pc[t] \notin {"lift", "mute"})
    <3>1. m \in failed \cup lapsed \/ ran[m] > 0 \/ Busy(m, {"lift", "mute"})
      BY <2>3 DEF EnterInv, NobodyEntersUnverified
    <3>2. m \in Token
      BY <1>1, TokenAssumption
    <3>3. CASE ran[m] > 0
      BY <3>2, <3>3 DEF LinkInv
    <3>4. CASE Busy(m, {"lift", "mute"})
      <4>1. PICK x \in Goroutine : subject[x] = m /\ pc[x] \in {"lift", "mute"}
        BY <3>4 DEF Busy
      <4>2. x # t
        BY <2>3, <4>1
      <4> QED
        BY <4>1, <4>2 DEF Others, Busy
    <3> QED
      BY <3>1, <3>3, <3>4
  <2> QED
    BY <1>1, <2>1, <2>2, <2>3
<1>2. ASSUME NEW x \in Goroutine, pc'[x] \in LinkStage
      PROVE  ran'[subject'[x]] > 0
  <2>1. CASE x = t
    BY <1>2, <2>1
  <2>2. CASE x # t
    <3>1. pc[x] \in LinkStage /\ subject'[x] = subject[x]
      BY <1>2, <2>2 DEF Others
    <3>2. subject[x] \in Token /\ ran[subject[x]] > 0
      BY <3>1, TokenAssumption DEF SubjectInv, EnterInv
    <3> QED
      BY <3>1, <3>2 DEF LinkInv
  <2> QED
    BY <2>1, <2>2
<1> QED
  BY <1>1, <1>2 DEF EnterInv, NobodyEntersUnverified

LEMMA EnterNext ==
  ASSUME BaseInv, BaseInv', JoinInv, EnterInv, Next
  PROVE  EnterInv'
<1> USE DEF BaseInv, TypeInv, LateStage, JoinStage, LinkStage
<1>0. /\ ran \in [Token -> Nat] /\ ran' \in [Token -> Nat]
      /\ inGroup \subseteq Member /\ inGroup' \subseteq Member
      /\ \A x \in Goroutine : pc[x] \in LateStage => subject[x] \in Token
      /\ \A x \in Goroutine : pc[x] \in LinkStage => ran[subject[x]] > 0
  BY TokenAssumption DEF RouteTypeInv, MemberTypeInv, SubjectInv, EnterInv
<1>1. ASSUME NEW t \in Goroutine, Handler(t)
      PROVE  EnterInv'
  <2>0. UNCHANGED lapsed
    BY <1>1, LapsedKept
  <2>1. CASE Plain(t) /\ Others(t)
    <3>1. pc'[t] \in LinkStage => ran'[subject'[t]] > 0
      BY <1>0, <2>1 DEF Plain
    <3>2. \A m \in inGroup' \ muted' :
           \/ m \in inGroup \ muted /\ (m = subject[t] => pc[t] \notin {"lift", "mute"})
           \/ subject'[t] = m /\ pc'[t] \in {"lift", "mute"}
      BY <2>1 DEF Plain
    <3> QED
      BY <1>0, <2>0, <2>1, <3>1, <3>2, EnterKept DEF Plain
  <2>2. CASE Asks(t) /\ Others(t)
    BY <1>0, <2>0, <2>2, EnterKept DEF Asks
  <2>3. CASE Accept(t)
    BY <1>0, <2>0, <2>3, AcceptStep, EnterKept
  <2>4. CASE Unban(t)
    BY <1>0, <2>0, <2>4, UnbanStep, EnterKept
  <2>5. CASE Silence(t)
    BY <1>0, <2>0, <2>5, SilenceStep, EnterKept
  <2>6. CASE Link(t)
    BY <1>0, <2>0, <2>6, LinkStep, EnterKept
  <2>7. CASE Notice(t)
    BY <1>0, <2>0, <2>7, NoticeStep, EnterKept
  <2>8. CASE Mail(t)
    BY <1>0, <2>0, <2>8, MailStep, EnterKept
  <2>9. CASE Free(t)
    BY <1>0, <2>0, <2>9, FreeStep, EnterKept
  <2>10. CASE Welcome(t)
    <3>1. Others(t) /\ pc'[t] = "idle"
      BY <2>10, WelcomeStep, ReturnStep
    <3> QED
      BY <1>0, <2>0, <2>10, <3>1, WelcomeStep, EnterKept
  <2>11. CASE OtherLink(t)
    BY <1>0, <2>0, <2>11, OtherLinkStep, EnterKept
  <2>12. ASSUME NEW tok \in Token, NEW plugin \in PluginId, NEW method \in Method,
                Visit(t, tok, plugin, method)
         PROVE  EnterInv'
    <3>1. \A m \in Token : ran'[m] >= ran[m]
      BY <1>0, <2>12, VisitStep
    <3>2. pc'[t] \in LinkStage => ran'[subject'[t]] > 0
      BY <1>0, <2>12, VisitStep
    <3> QED
      BY <1>0, <2>0, <2>12, <3>1, <3>2, VisitStep, EnterKept
  <2> QED
    BY <1>1, StepKinds, <2>1, <2>2, <2>3, <2>4, <2>5, <2>6, <2>7, <2>8, <2>9,
       <2>10, <2>11, <2>12
<1>2. CASE TimePasses \/ EarlyAccess \/ Serve \/ Leave
  <2>1. UNCHANGED <<pc, subject, inGroup, muted, failed, lapsed, ran>>
    BY <1>2 DEF TimePasses, Expire, EarlyAccess, Serve, Leave
  <2> QED
    BY <2>1 DEF EnterInv, NobodyEntersUnverified, Busy
<1>3. CASE Restart
  BY <1>3 DEF Restart, LoseRoutes, EnterInv, NobodyEntersUnverified, Busy, RunTypeInv,
              MemberTypeInv
<1>4. ASSUME NEW m \in Member, MuteEnds(m)
      PROVE  EnterInv'
  <2>1. /\ UNCHANGED <<pc, subject, inGroup, failed, ran>>
        /\ muted' = muted \ {m} /\ lapsed' = lapsed \cup {m}
    BY <1>4 DEF MuteEnds
  <2> QED
    BY <2>1 DEF EnterInv, NobodyEntersUnverified, Busy
<1> QED
  BY <1>1, <1>2, <1>3, <1>4 DEF Next

-----------------------------------------------------------------------------
(* One request to join for each member                                     *)

LEMMA JoinKept ==
  ASSUME BaseInv, JoinInv, NEW t \in Goroutine, Others(t),
         inGroup \subseteq inGroup', failed \subseteq failed',
         pc'[t] \in JoinStage =>
           \A x \in Goroutine \ {t} : pc[x] \in JoinStage => subject[x] # subject'[t],
         \A m \in Member : (m \in DOMAIN issued)' <=>
           m \in DOMAIN issued \/ (pc[t] = "link" /\ m = subject[t]),
         pc'[t] \in JoinStage \ {"notice", "mail"} => subject'[t] \notin DOMAIN issued',
         pc'[t] \in {"notice", "mail"} => subject'[t] \in DOMAIN issued',
         pc'[t] \in {"lift", "mute", "link"} => subject'[t] \in inGroup' \cup failed',
         \A m \in Member : m \in DOMAIN issued' => issued'[m].plugin = Guard
  PROVE  JoinInv'
<1> USE DEF BaseInv, TypeInv
<1>1. ASSUME NEW x \in Goroutine, NEW y \in Goroutine, pc'[x] \in JoinStage,
             pc'[y] \in JoinStage, subject'[x] = subject'[y]
      PROVE  x = y
  BY <1>1 DEF Others, JoinInv
<1>2. ASSUME NEW x \in Goroutine
      PROVE  /\ pc'[x] \in JoinStage \ {"notice", "mail"} => subject'[x] \notin DOMAIN issued'
             /\ pc'[x] \in {"notice", "mail"} => subject'[x] \in DOMAIN issued'
             /\ pc'[x] \in {"lift", "mute", "link"} => subject'[x] \in inGroup' \cup failed'
  <2>1. CASE x = t
    BY <2>1
  <2>2. CASE x # t
    <3>1. pc'[x] = pc[x] /\ subject'[x] = subject[x]
      BY <2>2 DEF Others
    <3>2. pc[x] \in JoinStage => subject[x] \in Member
      BY DEF SubjectInv
    <3>3. pc[x] \in JoinStage /\ pc[t] = "link" => subject[x] # subject[t]
      BY <2>2 DEF JoinInv, JoinStage
    <3> QED
      BY <3>1, <3>2, <3>3 DEF JoinInv, JoinStage
  <2> QED
    BY <2>1, <2>2
<1>3. ASSUME NEW m \in Member, m \in DOMAIN issued'
      PROVE  m \in inGroup' \cup failed'
  <2>1. CASE m \in DOMAIN issued
    BY <2>1 DEF JoinInv
  <2>2. CASE pc[t] = "link" /\ m = subject[t]
    BY <2>2 DEF JoinInv
  <2> QED
    BY <1>3, <2>1, <2>2
<1> QED
  BY <1>1, <1>2, <1>3 DEF JoinInv

LEMMA JoinNext ==
  ASSUME BaseInv, BaseInv', JoinInv, Next
  PROVE  JoinInv'
<1> USE DEF BaseInv, TypeInv, LateStage, JoinStage, LinkStage
<1>0. /\ \A x \in Goroutine : pc[x] \in JoinStage => subject[x] \in Member
      /\ \A m \in Member : m \in DOMAIN issued => issued[m].plugin = Guard
      /\ \A m \in Member : m \in DOMAIN issued => m \in inGroup \cup failed
      /\ \A x, y \in Goroutine :
           pc[x] \in JoinStage /\ pc[y] \in JoinStage /\ subject[x] = subject[y] => x = y
      /\ \A x \in Goroutine :
           /\ pc[x] \in JoinStage \ {"notice", "mail"} => subject[x] \notin DOMAIN issued
           /\ pc[x] \in {"notice", "mail"} => subject[x] \in DOMAIN issued
           /\ pc[x] \in {"lift", "mute", "link"} => subject[x] \in inGroup \cup failed
  BY DEF SubjectInv, JoinInv
<1>1. ASSUME NEW t \in Goroutine, Handler(t)
      PROVE  JoinInv'
  <2>1. CASE Plain(t) /\ Others(t)
    <3>1. pc[t] # "link" \/ pc'[t] = pc[t]
      BY <2>1 DEF Plain
    <3>2. CASE pc'[t] \notin JoinStage
      <4>1. pc[t] # "link"
        BY <3>1, <3>2
      <4> QED
        BY <1>0, <2>1, <3>2, <4>1, JoinKept DEF Plain
    <3>3. CASE pc'[t] \in JoinStage
      <4>1. pc[t] \in JoinStage /\ subject'[t] = subject[t]
        BY <2>1, <3>3 DEF Plain
      <4>2. CASE pc'[t] = pc[t]
        <5>1. UNCHANGED <<inGroup, failed, issued>>
          BY <2>1 DEF Plain
        <5>2. \A x \in Goroutine : pc'[x] = pc[x] /\ subject'[x] = subject[x]
          BY <2>1, <4>1, <4>2 DEF Others
        <5> QED
          BY <5>1, <5>2 DEF JoinInv
      <4>3. CASE pc[t] # "link" /\ pc'[t] \in {"joinDefault", "judge", "accept"}
        <5>1. pc[t] \in JoinStage \ {"notice", "mail"}
          BY <2>1, <3>3, <4>3 DEF Plain
        <5> QED
          BY <1>0, <2>1, <4>1, <4>3, <5>1, JoinKept DEF Plain
      <4> QED
        BY <2>1, <3>1, <3>3, <4>2, <4>3 DEF Plain
    <3> QED
      BY <3>2, <3>3
  <2>2. CASE Asks(t) /\ Others(t)
    BY <1>0, <2>2, JoinKept DEF Asks
  <2>3. CASE Accept(t)
    BY <1>0, <2>3, AcceptStep, JoinKept
  <2>4. CASE Unban(t)
    BY <1>0, <2>4, UnbanStep, JoinKept
  <2>5. CASE Silence(t)
    BY <1>0, <2>5, SilenceStep, JoinKept
  <2>6. CASE Link(t)
    BY <1>0, <2>6, LinkStep, JoinKept
  <2>7. CASE Notice(t)
    BY <1>0, <2>7, NoticeStep, JoinKept
  <2>8. CASE Mail(t)
    BY <1>0, <2>8, MailStep, JoinKept
  <2>9. CASE Free(t)
    BY <1>0, <2>9, FreeStep, JoinKept
  <2>10. CASE Welcome(t)
    <3>1. Others(t) /\ pc'[t] = "idle"
      BY <2>10, WelcomeStep, ReturnStep
    <3> QED
      BY <1>0, <2>10, <3>1, WelcomeStep, JoinKept
  <2>11. CASE OtherLink(t)
    BY <1>0, <2>11, OtherLinkStep, JoinKept
  <2>12. ASSUME NEW tok \in Token, NEW plugin \in PluginId, NEW method \in Method,
                Visit(t, tok, plugin, method)
         PROVE  JoinInv'
    <3>1. Others(t) /\ UNCHANGED <<memberVars, issued>>
      BY <2>12, VisitStep
    <3>2. CASE pc'[t] = pc[t] /\ subject'[t] = subject[t]
      <4>1. \A x \in Goroutine : pc'[x] = pc[x] /\ subject'[x] = subject[x]
        BY <3>1, <3>2 DEF Others
      <4> QED
        BY <3>1, <4>1 DEF JoinInv
    <3>3. CASE pc[t] = "idle" /\ pc'[t] \in {"end", "unmute"}
      BY <1>0, <3>1, <3>3, JoinKept
    <3> QED
      BY <2>12, <3>2, <3>3, VisitStep
  <2> QED
    BY <1>1, StepKinds, <2>1, <2>2, <2>3, <2>4, <2>5, <2>6, <2>7, <2>8, <2>9,
       <2>10, <2>11, <2>12
<1>2. CASE TimePasses \/ EarlyAccess \/ Serve \/ Leave \/ \E m \in Member : MuteEnds(m)
  <2>1. UNCHANGED <<pc, subject, inGroup, failed, issued>>
    BY <1>2 DEF TimePasses, Expire, MuteEnds, EarlyAccess, Serve, Leave
  <2> QED
    BY <2>1 DEF JoinInv
<1>3. CASE Restart
  <2>1. /\ UNCHANGED <<inGroup, issued>> /\ failed \subseteq failed'
        /\ \A x \in Goroutine : pc'[x] = "idle"
    BY <1>3 DEF Restart, LoseRoutes
  <2> QED
    BY <1>0, <2>1 DEF JoinInv
<1> QED
  BY <1>1, <1>2, <1>3 DEF Next

-----------------------------------------------------------------------------
(* The way out of the mute                                                 *)

LEMMA WayKept ==
  ASSUME BaseInv, WayInv, NEW t \in Goroutine, Others(t),
         muted \subseteq Member, mailed' \subseteq Member,
         over \subseteq over', failed \subseteq failed', wrongly \subseteq wrongly',
         \A m \in mailed' : m \in mailed \/ m \in DOMAIN issued',
         \A m \in Member : m \in DOMAIN issued => m \in DOMAIN issued',
         \A m \in muted' : m \in DOMAIN issued' =>
           \/ m \in muted /\ m \in DOMAIN issued
           \/ Registered(m)',
         \A m \in muted' : Registered(m) =>
           \/ Registered(m)' \/ m \in over' \cup wrongly'
           \/ pc'[t] = "unmute" /\ subject'[t] = m,
         \A m \in muted' : pc[t] = "unmute" /\ subject[t] = m =>
           m \in failed' \/ (pc'[t] = "unmute" /\ subject'[t] = m)
  PROVE  WayInv'
<1>1. ASSUME NEW m \in mailed'
      PROVE  m \in DOMAIN issued'
  BY DEF WayInv
<1>2. ASSUME NEW m \in muted', m \in DOMAIN issued'
      PROVE  \/ Registered(m)' \/ Busy(m, {"unmute"})'
             \/ m \in over' \cup failed' \cup wrongly'
  <2>1. CASE Registered(m)'
    BY <2>1
  <2>2. CASE m \in muted /\ m \in DOMAIN issued
    <3>1. Registered(m) \/ Busy(m, {"unmute"}) \/ m \in over \cup failed \cup wrongly
      BY <2>2 DEF WayInv
    <3>2. CASE Registered(m)
      BY <3>2 DEF Busy
    <3>3. CASE Busy(m, {"unmute"})
      <4>1. PICK x \in Goroutine : subject[x] = m /\ pc[x] \in {"unmute"}
        BY <3>3 DEF Busy
      <4>2. CASE x = t
        BY <4>1, <4>2 DEF Busy
      <4>3. CASE x # t
        BY <4>1, <4>3 DEF Busy, Others
      <4> QED
        BY <4>2, <4>3
    <3> QED
      BY <3>1, <3>2, <3>3
  <2> QED
    BY <1>2, <2>1, <2>2
<1> QED
  BY <1>1, <1>2 DEF WayInv

LEMMA WayNext ==
  ASSUME BaseInv, BaseInv', JoinInv, WayInv, Next
  PROVE  WayInv'
<1> USE DEF BaseInv, TypeInv, LateStage, JoinStage, LinkStage
<1>0. /\ muted \subseteq Member /\ mailed \subseteq Member /\ mailed' \subseteq Member
      /\ \A x \in Goroutine : pc[x] \in LateStage => subject[x] \in Member
      /\ \A x \in Goroutine :
           /\ pc[x] \in {"lift", "mute", "link"} => subject[x] \notin DOMAIN issued
           /\ pc[x] = "mail" => subject[x] \in DOMAIN issued
  BY DEF MemberTypeInv, SubjectInv, JoinInv
<1>1. ASSUME NEW t \in Goroutine, Handler(t)
      PROVE  WayInv'
  <2>1. CASE Plain(t) /\ Others(t)
    <3>1. /\ UNCHANGED <<muted, mailed, failed, issued, over, wrongly, routes>>
          /\ pc[t] = "unmute" => pc'[t] = "unmute" /\ subject'[t] = subject[t]
      BY <2>1 DEF Plain
    <3> QED
      BY <1>0, <2>1, <3>1, WayKept DEF Registered
  <2>2. CASE Asks(t) /\ Others(t)
    <3>1. /\ UNCHANGED <<muted, mailed, failed, issued, over, wrongly, routes>>
          /\ pc[t] # "unmute"
      BY <2>2 DEF Asks
    <3> QED
      BY <1>0, <2>2, <3>1, WayKept DEF Registered
  <2>3. CASE Accept(t)
    <3>1. /\ UNCHANGED <<muted, mailed, issued, over, wrongly, routes>>
          /\ pc[t] # "unmute" /\ Others(t) /\ failed \subseteq failed'
      BY <2>3, AcceptStep
    <3> QED
      BY <1>0, <3>1, WayKept DEF Registered
  <2>4. CASE Unban(t)
    <3>1. /\ UNCHANGED <<mailed, issued, over, wrongly, routes>> /\ muted' \subseteq muted
          /\ pc[t] # "unmute" /\ Others(t) /\ failed \subseteq failed'
      BY <2>4, UnbanStep
    <3> QED
      BY <1>0, <3>1, WayKept DEF Registered
  <2>5. CASE Silence(t)
    <3>1. /\ UNCHANGED <<mailed, issued, over, wrongly, routes>>
          /\ muted' \subseteq muted \cup {subject[t]}
          /\ pc[t] = "mute" /\ Others(t) /\ failed \subseteq failed'
      BY <2>5, SilenceStep
    <3> QED
      BY <1>0, <3>1, WayKept DEF Registered
  <2>6. CASE Link(t)
    BY <1>0, <2>6, LinkStep, WayKept
  <2>7. CASE Notice(t)
    <3>1. /\ UNCHANGED <<muted, mailed, issued, over, wrongly, routes>>
          /\ pc[t] # "unmute" /\ Others(t) /\ failed \subseteq failed'
      BY <2>7, NoticeStep
    <3> QED
      BY <1>0, <3>1, WayKept DEF Registered
  <2>8. CASE Mail(t)
    <3>1. /\ UNCHANGED <<muted, issued, over, wrongly, routes>>
          /\ mailed' \subseteq mailed \cup {subject[t]} /\ pc[t] = "mail"
          /\ Others(t) /\ failed \subseteq failed'
      BY <2>8, MailStep
    <3> QED
      BY <1>0, <3>1, WayKept DEF Registered
  <2>9. CASE Free(t)
    <3>1. /\ UNCHANGED <<mailed, issued, over, wrongly, routes>> /\ muted' \subseteq muted
          /\ subject[t] \in muted' => subject[t] \in failed'
          /\ Others(t) /\ failed \subseteq failed'
      BY <2>9, FreeStep
    <3> QED
      BY <1>0, <3>1, WayKept DEF Registered
  <2>10. CASE Welcome(t)
    <3>1. /\ UNCHANGED <<muted, mailed, issued, over, wrongly, routes>>
          /\ pc[t] # "unmute" /\ Others(t) /\ failed \subseteq failed'
      BY <2>10, WelcomeStep, ReturnStep
    <3> QED
      BY <1>0, <3>1, WayKept DEF Registered
  <2>11. CASE OtherLink(t)
    BY <1>0, <2>11, OtherLinkStep, WayKept
  <2>12. ASSUME NEW tok \in Token, NEW plugin \in PluginId, NEW method \in Method,
                Visit(t, tok, plugin, method)
         PROVE  WayInv'
    BY <1>0, <2>12, VisitStep, WayKept
  <2> QED
    BY <1>1, StepKinds, <2>1, <2>2, <2>3, <2>4, <2>5, <2>6, <2>7, <2>8, <2>9,
       <2>10, <2>11, <2>12
<1>2. CASE TimePasses \/ \E m \in Member : MuteEnds(m)
  <2>1. /\ muted' \subseteq muted /\ UNCHANGED <<pc, subject, mailed, failed, issued, wrongly>>
        /\ DOMAIN routes' = DOMAIN routes /\ over \subseteq over'
    BY <1>2 DEF TimePasses, Expire, MuteEnds
  <2> QED
    BY <2>1 DEF WayInv, Busy, Registered
<1>3. CASE EarlyAccess \/ Serve \/ Leave
  <2>1. UNCHANGED <<pc, subject, muted, mailed, failed, routeVars, wrongly>>
    BY <1>3 DEF EarlyAccess, Serve, Leave
  <2> QED
    BY <2>1 DEF WayInv, Busy, Registered
<1>4. CASE Restart
  <2>1. /\ UNCHANGED <<muted, mailed, issued, wrongly>>
        /\ over' = over \cup DOMAIN routes
        /\ failed' = failed \cup {m \in Member : \E x \in Goroutine : subject[x] = m}
    BY <1>4 DEF Restart, LoseRoutes
  <2> QED
    BY <1>0, <2>1 DEF WayInv, Busy, Registered
<1> QED
  BY <1>1, <1>2, <1>3, <1>4 DEF Next

-----------------------------------------------------------------------------

MemberInv == BaseInv /\ EnterInv /\ JoinInv /\ WayInv

LEMMA MemberInit == Init => MemberInv
<1> SUFFICES ASSUME Init
             PROVE  MemberInv
  OBVIOUS
<1>1. EnterInv /\ JoinInv /\ WayInv
  BY DEF Init, RouteInit, NoRoutes, EnterInv, NobodyEntersUnverified, JoinInv, WayInv,
         JoinStage, LinkStage
<1> QED
  BY <1>1, BaseInit DEF MemberInv

LEMMA MemberNext == MemberInv /\ [Next]_vars => MemberInv'
<1>1. MemberInv /\ Next => MemberInv'
  BY BaseNext, EnterNext, JoinNext, WayNext DEF MemberInv
<1>2. MemberInv /\ UNCHANGED vars => MemberInv'
  BY BaseFrame
  DEF MemberInv, vars, EnterInv, NobodyEntersUnverified, JoinInv, WayInv, Busy,
      Registered
<1> QED
  BY <1>1, <1>2

LEMMA MemberHolds == Spec => []MemberInv
  BY MemberInit, MemberNext, PTL DEF Spec

(* Whoever is in the group and not muted has followed the link, unless the  *)
(* thirty days of the mute are over, a call of the platform failed or the   *)
(* process ended in between: handle and Ban in plugins/group.               *)
THEOREM Verified == Spec => []NobodyEntersUnverified
<1>1. MemberInv => NobodyEntersUnverified
  BY DEF MemberInv, EnterInv
<1> QED
  BY <1>1, MemberHolds, PTL

(* Whoever is muted and has the mail can get out of the mute, unless the    *)
(* link is over, a call failed or somebody asked under another name.        *)
THEOREM WayOut == Spec => []MutedHasWayOut
<1>1. MemberInv => MutedHasWayOut
  BY DEF MemberInv, WayInv, MutedHasWayOut
<1> QED
  BY <1>1, MemberHolds, PTL

-----------------------------------------------------------------------------
(* The store and the pushes                                                *)

(* A goroutine that reads or writes while the process serves holds the one  *)
(* handle that is open, and it is the configured file's.                    *)
LEMMA HeldHandle ==
  ASSUME StoreInv, phase = "up", NEW t \in Goroutine, hold[t] \in open
  PROVE  hold[t][1] = Configured
  BY DEF StoreInv

(* A step that neither opens nor writes, and answers no owner.              *)
LEMMA StoreFrame ==
  ASSUME StoreInv, UNCHANGED <<handleVars, disk, phase, agreed, keySet>>,
         phase = "boot" => \A t \in Goroutine : pc'[t] = "idle"
  PROVE  StoreInv'
  BY DEF StoreInv

LEMMA StoreOpen ==
  ASSUME StoreInv, OpenLocked(dbPath), UNCHANGED <<dbPath, disk, phase, agreed, keySet>>,
         phase = "boot" => \A t \in Goroutine : pc'[t] = "idle"
  PROVE  StoreInv'
  BY DEF StoreInv, OpenLocked

(* The guard's setting is another entry than the owner's.                   *)
LEMMA GuardWrite ==
  ASSUME BaseInv, StoreInv, NEW t \in Goroutine, NEW v, Writes(t, "guard", v),
         UNCHANGED <<phase, agreed, keySet>>, phase # "boot"
  PROVE  StoreInv'
<1>1. /\ disk' = [disk EXCEPT ![hold[t][1]]["guard"] = v]
      /\ UNCHANGED handleVars
  BY DEF Writes, LetGo
<1>2. /\ disk'[Configured]["enabled"] = disk[Configured]["enabled"]
      /\ disk'[Configured]["key"] = disk[Configured]["key"]
  BY <1>1, ConfigAssumption, EntryAssumption DEF BaseInv, TypeInv, DiskInv
<1> QED
  BY <1>1, <1>2 DEF StoreInv

(* The owner's commands: what is answered is what the file holds.           *)
LEMMA EnabledWrite ==
  ASSUME BaseInv, StoreInv, NEW t \in Goroutine, NEW v \in Value \cup {NULL},
         NEW yes \in BOOLEAN, yes <=> v # NULL,
         Writes(t, "enabled", v), Decide(t, keySet, yes),
         UNCHANGED phase, phase # "boot"
  PROVE  StoreInv'
<1>1. /\ disk' = [disk EXCEPT ![hold[t][1]]["enabled"] = v]
      /\ UNCHANGED handleVars /\ hold[t] \in open
  BY DEF Writes, LetGo
<1>2. disk'[Configured]["key"] = disk[Configured]["key"]
  BY <1>1, ConfigAssumption, EntryAssumption DEF BaseInv, TypeInv, DiskInv
<1>3. keySet' = keySet
  BY DEF Decide
<1>4. CASE hold[t][1] = Configured
  <2>1. disk'[Configured]["enabled"] = v
    BY <1>1, <1>4, ConfigAssumption, EntryAssumption DEF BaseInv, TypeInv, DiskInv
  <2>2. agreed' = yes
    BY <1>4 DEF Decide
  <2> QED
    BY <1>1, <1>2, <1>3, <2>1, <2>2 DEF StoreInv
<1>5. CASE hold[t][1] # Configured
  <2>1. disk'[Configured]["enabled"] = disk[Configured]["enabled"]
    BY <1>1, <1>5, ConfigAssumption DEF BaseInv, TypeInv, DiskInv
  <2>2. phase # "up"
    BY <1>1, <1>5, HeldHandle
  <2>3. agreed' = agreed
    BY <1>5, <2>2 DEF Decide
  <2> QED
    BY <1>1, <1>2, <1>3, <2>1, <2>3 DEF StoreInv
<1> QED
  BY <1>4, <1>5

LEMMA KeyWrite ==
  ASSUME BaseInv, StoreInv, NEW t \in Goroutine, NEW k \in PushKey,
         Writes(t, "key", k), Decide(t, k, agreed), UNCHANGED phase, phase # "boot"
  PROVE  StoreInv'
<1>1. /\ disk' = [disk EXCEPT ![hold[t][1]]["key"] = k]
      /\ UNCHANGED handleVars /\ hold[t] \in open
  BY DEF Writes, LetGo
<1>2. disk'[Configured]["enabled"] = disk[Configured]["enabled"]
  BY <1>1, ConfigAssumption, EntryAssumption DEF BaseInv, TypeInv, DiskInv
<1>3. agreed' = agreed
  BY DEF Decide
<1>4. CASE hold[t][1] = Configured
  <2>1. disk'[Configured]["key"] = k
    BY <1>1, <1>4, ConfigAssumption, EntryAssumption DEF BaseInv, TypeInv, DiskInv
  <2>2. keySet' = k
    BY <1>4 DEF Decide
  <2> QED
    BY <1>1, <1>2, <1>3, <2>1, <2>2 DEF StoreInv
<1>5. CASE hold[t][1] # Configured
  <2>1. disk'[Configured]["key"] = disk[Configured]["key"]
    BY <1>1, <1>5, ConfigAssumption DEF BaseInv, TypeInv, DiskInv
  <2>2. phase # "up"
    BY <1>1, <1>5, HeldHandle
  <2>3. keySet' = keySet
    BY <1>5, <2>2 DEF Decide
  <2> QED
    BY <1>1, <1>2, <1>3, <2>1, <2>3 DEF StoreInv
<1> QED
  BY <1>4, <1>5

(* Nothing is handled before the store has been opened. *)
LEMMA HandlerAwake ==
  ASSUME StoreInv, NEW t \in Goroutine, Handler(t)
  PROVE  phase # "boot"
<1> SUFFICES ASSUME phase = "boot"
             PROVE  FALSE
  OBVIOUS
<1>1. pc[t] = "idle"
  BY DEF StoreInv
<1>2. CASE Accept(t) \/ Unban(t) \/ Silence(t) \/ Notice(t) \/ Mail(t) \/ Free(t)
  BY <1>1, <1>2 DEF Accept, Unban, Silence, Notice, Mail, Free, Lift, Mute, Calls
<1>3. CASE Reading(t) \/ Defaulting(t) \/ Flip(t) \/ Welcome(t)
  BY <1>1, <1>3, FlipStep, WelcomeStep DEF Reading, Defaulting, ReadGuard, WriteDefault
<1>4. CASE Event(t) \/ Ensure(t) \/ LeaveAlone(t) \/ Judge(t) \/ Link(t) \/ OtherLink(t)
           \/ \E tok \in Token, plugin \in PluginId, method \in Method :
                Visit(t, tok, plugin, method)
  BY <1>1, <1>4 DEF Event, Begin, Ensure, StoreStage, LeaveAlone, Judge, Link, OtherLink,
                    Visit
<1>5. CASE \/ EnablePush(t) \/ DisablePush(t) \/ SetPushKey(t) \/ VerifyPushKey(t)
           \/ CheckEnabled(t) \/ Post(t) \/ \E k \in PushKey : PushArrives(t, k)
  BY <1>1, <1>5 DEF EnablePush, DisablePush, SetPushKey, VerifyPushKey, CheckEnabled,
                    Post, PushArrives, Command, Begin
<1> QED
  BY HandlerSteps, <1>2, <1>3, <1>4, <1>5

LEMMA StoreNext ==
  ASSUME BaseInv, StoreInv, Next
  PROVE  StoreInv'
<1>1. ASSUME NEW t \in Goroutine, Handler(t)
      PROVE  StoreInv'
  <2>0. phase # "boot" /\ UNCHANGED phase
    BY <1>1, HandlerAwake, HandlerServes
  <2>1. CASE Accept(t) \/ Unban(t) \/ Silence(t) \/ Notice(t) \/ Mail(t) \/ Free(t)
    BY <2>0, <2>1, StoreFrame
    DEF Accept, Unban, Silence, Notice, Mail, Free, Lift, Mute, Calls
  <2>2. CASE Reading(t) \/ Welcome(t)
    BY <2>0, <2>2, ReadingRun, WelcomeStep, StoreFrame DEF BaseInv
  <2>3. CASE Event(t) \/ LeaveAlone(t) \/ Judge(t) \/ Link(t) \/ OtherLink(t)
             \/ \E tok \in Token, plugin \in PluginId, method \in Method :
                  Visit(t, tok, plugin, method)
    BY <2>0, <2>3, StoreFrame DEF Event, LeaveAlone, Judge, Link, OtherLink, Visit
  <2>4. CASE \/ VerifyPushKey(t) \/ CheckEnabled(t) \/ Post(t)
             \/ \E k \in PushKey : PushArrives(t, k)
    BY <2>0, <2>4, StoreFrame
    DEF VerifyPushKey, CheckEnabled, Post, PushArrives, Reads, Fails, LetGo
  <2>5. ASSUME Fails(t), UNCHANGED <<agreed, keySet>>
        PROVE  StoreInv'
    BY <2>0, <2>5, StoreFrame DEF Fails, LetGo
  <2>6. CASE Defaulting(t)
    BY <2>0, <2>5, <2>6, DefaultingRun, GuardWrite DEF BaseInv
  <2>7. CASE Flip(t)
    BY <2>0, <2>5, <2>7, FlipStep, GuardWrite
  <2>8. CASE EnablePush(t)
    <3>1. \/ Writes(t, "enabled", TRUE) /\ Decide(t, keySet, TRUE)
          \/ Fails(t) /\ UNCHANGED ownerVars
      BY <2>8, Zenon DEF EnablePush, Command
    <3>2. TRUE \in Value \cup {NULL} /\ TRUE \in BOOLEAN /\ TRUE # NULL
      BY SettingAssumption, ValueAssumption
    <3>3. Writes(t, "enabled", TRUE) /\ Decide(t, keySet, TRUE) => StoreInv'
      BY <2>0, <3>2, EnabledWrite, Zenon
    <3> QED
      BY <2>5, <3>1, <3>3
  <2>9. CASE DisablePush(t)
    <3>1. \/ Writes(t, "enabled", NULL) /\ Decide(t, keySet, FALSE)
          \/ Fails(t) /\ UNCHANGED ownerVars
      BY <2>9, Zenon DEF DisablePush, Command
    <3>2. NULL \in Value \cup {NULL} /\ FALSE \in BOOLEAN
      BY Zenon
    <3>3. Writes(t, "enabled", NULL) /\ Decide(t, keySet, FALSE) => StoreInv'
      BY <2>0, <3>2, EnabledWrite, Zenon
    <3> QED
      BY <2>5, <3>1, <3>3
  <2>10. CASE SetPushKey(t)
    <3>1. /\ pc[t] = "setKey"
          /\ \/ Writes(t, "key", subject[t]) /\ Decide(t, subject[t], agreed)
             \/ Fails(t) /\ UNCHANGED ownerVars
      BY <2>10, Zenon DEF SetPushKey, Command
    <3>2. subject[t] \in PushKey
      BY <3>1 DEF BaseInv, TypeInv, SubjectInv, KeyStage
    <3> QED
      BY <2>0, <2>5, <3>1, <3>2, KeyWrite
  <2>11. CASE Ensure(t)
    <3>1. UNCHANGED <<disk, phase, agreed, keySet>>
      BY <2>11 DEF Ensure, Peek, OpenFirst
    <3>2. UNCHANGED handleVars \/ (OpenLocked(dbPath) /\ UNCHANGED dbPath)
      BY <2>11 DEF Ensure, Peek, OpenFirst
    <3> QED
      BY <2>0, <3>1, <3>2, StoreFrame, StoreOpen
  <2> QED
    BY <1>1, HandlerSteps, <2>1, <2>2, <2>3, <2>4, <2>6, <2>7, <2>8, <2>9, <2>10, <2>11
<1>2. CASE TimePasses \/ \E m \in Member : MuteEnds(m)
  BY <1>2, StoreFrame DEF TimePasses, MuteEnds, StoreInv
<1>3. CASE EarlyAccess
  BY <1>3, StoreOpen DEF EarlyAccess, StoreInv
<1>4. CASE Serve
  <2>1. CASE db # NULL /\ dbPath = Configured /\ UNCHANGED handleVars
    BY <1>4, <2>1 DEF Serve, Open, StoreInv
  <2>2. CASE dbPath' = Configured /\ OpenLocked(Configured)
    BY <1>4, <2>2 DEF Serve, Open, OpenLocked, StoreInv
  <2> QED
    BY <1>4, <2>1, <2>2 DEF Serve, Open
<1>5. CASE Leave
  BY <1>5 DEF Leave, Close, StoreInv
<1>6. CASE Restart
  BY <1>6 DEF Restart, StoreInv
<1> QED
  BY <1>1, <1>2, <1>3, <1>4, <1>5, <1>6 DEF Next

PushStage == {"pushKey", "pushEnabled", "post"}

(* A step that answers no owner keeps what is known of the other pushes.    *)
LEMMA PushFrame ==
  ASSUME PushInv, phase = "up", NEW t \in Goroutine, Others(t),
         UNCHANGED <<agreed, keySet>>,
         \A x \in Goroutine \ {t} : held'[x] = held[x],
         PushAt(t)'
  PROVE  PushInv'
  BY DEF PushInv, PushAt, Others

(* An answer reaches every push that is under way.                          *)
LEMMA PushDecide ==
  ASSUME BaseInv, PushInv, phase = "up", NEW t \in Goroutine, Others(t),
         pc'[t] = "idle", NEW key, NEW yes, Decide(t, key, yes)
  PROVE  PushInv'
<1> SUFFICES ASSUME NEW x \in Goroutine
             PROVE  PushAt(x)'
  BY DEF PushInv
<1>1. CASE x = t
  BY <1>1 DEF PushAt
<1>2. CASE x # t
  <2>1. /\ pc'[x] = pc[x] /\ subject'[x] = subject[x]
        /\ PushAt(x)
        /\ held'[x] = IF pc[x] \in {"pushKey", "pushEnabled"}
                      THEN held[x] \cup Speaks(subject[x], keySet', agreed')
                      ELSE held[x]
    BY <1>2 DEF Others, PushInv, Decide
  <2>2. agreed' => "consent" \in Speaks(subject[x], keySet', agreed')
    BY DEF Speaks
  <2>3. CASE pc[x] = "pushKey"
    BY <2>1, <2>3 DEF PushAt
  <2>4. CASE pc[x] = "pushEnabled"
    BY <2>1, <2>2, <2>4 DEF PushAt
  <2>5. CASE pc[x] \notin {"pushKey", "pushEnabled"}
    BY <2>1, <2>5 DEF PushAt
  <2> QED
    BY <2>3, <2>4, <2>5
<1> QED
  BY <1>1, <1>2

LEMMA PushNext ==
  ASSUME BaseInv, StoreInv, PushInv, Next
  PROVE  PushInv'
<1> USE DEF BaseInv, TypeInv
<1>1. ASSUME NEW t \in Goroutine, Handler(t), phase = "up"
      PROVE  PushInv'
  <2>0. UNCHANGED phase /\ PushAt(t)
    BY <1>1, HandlerServes DEF PushInv
  <2>1. ASSUME Others(t), UNCHANGED ownerVars, pc'[t] \notin PushStage
        PROVE  PushInv'
    BY <1>1, <2>1, PushFrame DEF PushAt, PushStage
  <2>2. CASE Accept(t) \/ Unban(t) \/ Silence(t) \/ Notice(t) \/ Mail(t) \/ Free(t)
    <3>1. UNCHANGED ownerVars
      BY <2>2 DEF Accept, Unban, Silence, Notice, Mail, Free, Lift, Mute, Calls
    <3>2. Others(t) /\ pc'[t] \notin PushStage
      BY <2>2, AcceptStep, UnbanStep, SilenceStep, NoticeStep, MailStep, FreeStep
      DEF PushStage
    <3> QED
      BY <2>1, <3>1, <3>2
  <2>3. CASE Reading(t)
    <3>1. Others(t) /\ UNCHANGED ownerVars
      BY <2>3, ReadingRun
    <3>2. pc'[t] \notin PushStage
      BY <2>3, ReadingRun DEF RunTypeInv, PushStage, JoinStage, LinkStage, KeyStage
    <3> QED
      BY <2>1, <3>1, <3>2
  <2>4. CASE Defaulting(t)
    <3>1. Others(t) /\ UNCHANGED ownerVars
      BY <2>4, DefaultingRun, GotoStep DEF Defaulting, WriteDefault
    <3>2. pc'[t] \notin PushStage
      BY <2>4, DefaultingRun DEF RunTypeInv, PushStage, JoinStage, LinkStage, KeyStage
    <3> QED
      BY <2>1, <3>1, <3>2
  <2>5. CASE Flip(t) \/ Welcome(t) \/ LeaveAlone(t)
    BY <2>1, <2>5, FlipStep, WelcomeStep, ReturnStep DEF LeaveAlone, PushStage
  <2>6. CASE Judge(t)
    BY <2>1, <2>6, ReturnStep, GotoStep DEF Judge, PushStage
  <2>7. CASE Event(t)
    <3>1. PICK stage \in {"toggleGet", "statusGet", "enable", "disable", "setKey", "joinGet"},
               about \in PushKey \cup Member \cup {NULL} : Begin(t, stage, about)
      BY <2>7 DEF Event
    <3>2. UNCHANGED ownerVars
      BY <2>7 DEF Event
    <3> QED
      BY <2>1, <3>1, <3>2, BeginStep DEF PushStage
  <2>8. CASE Link(t) \/ OtherLink(t)
    BY <2>1, <2>8, LinkStep, OtherLinkStep DEF Link, OtherLink, PushStage
  <2>9. CASE Ensure(t)
    BY <2>9, <1>1, <2>0 DEF Ensure, PushInv, PushAt
  <2>10. ASSUME NEW tok \in Token, NEW plugin \in PluginId, NEW method \in Method,
                Visit(t, tok, plugin, method)
         PROVE  PushInv'
    <3>1. CASE UNCHANGED runVars
      BY <2>0, <2>10, <3>1 DEF Visit, PushInv, PushAt
    <3>2. CASE Begin(t, IF tok = Other THEN "end" ELSE "unmute", tok)
      BY <2>1, <2>10, <3>2, BeginStep DEF Visit, PushStage
    <3> QED
      BY <2>10, <3>1, <3>2 DEF Visit
  <2>11. CASE EnablePush(t) \/ DisablePush(t) \/ SetPushKey(t)
    <3>1. /\ Return(t)
          /\ \/ \E key \in {keySet, subject[t]}, yes \in {TRUE, FALSE, agreed} :
                  Decide(t, key, yes)
             \/ UNCHANGED ownerVars
      BY <2>11, Zenon DEF EnablePush, DisablePush, SetPushKey, Command
    <3>2. Others(t) /\ pc'[t] = "idle"
      BY <3>1, ReturnStep
    <3> QED
      BY <1>1, <2>1, <3>1, <3>2, PushDecide DEF PushStage
  <2>12. ASSUME NEW k \in PushKey, PushArrives(t, k)
         PROVE  PushInv'
    <3>1. Others(t) /\ pc'[t] = "pushKey" /\ subject'[t] = k
      BY <2>12, BeginStep DEF PushArrives
    <3>2. /\ held' = [held EXCEPT ![t] = Speaks(k, keySet, agreed)]
          /\ UNCHANGED <<agreed, keySet>>
      BY <2>12 DEF PushArrives
    <3>3. PushAt(t)'
      BY <3>1, <3>2 DEF PushAt, OwnerTypeInv
    <3> QED
      BY <1>1, <3>1, <3>2, <3>3, PushFrame DEF OwnerTypeInv
  <2>13. CASE VerifyPushKey(t)
    <3>0. pc[t] = "pushKey" /\ UNCHANGED ownerVars
      BY <2>13 DEF VerifyPushKey
    <3>1. CASE Return(t)
      BY <2>1, <3>0, <3>1, ReturnStep DEF PushStage
    <3>2. CASE Reads(t, "key", subject[t]) /\ Goto(t, "pushEnabled")
      <4>1. Others(t) /\ pc'[t] = "pushEnabled"
        BY <3>2, GotoStep
      <4>2. hold[t] \in open /\ subject[t] = disk[hold[t][1]]["key"]
        BY <3>2 DEF Reads
      <4>3. keySet = subject[t]
        BY <1>1, <4>2, HeldHandle DEF StoreInv
      <4>4. "key" \in held[t] /\ (agreed => "consent" \in held[t])
        BY <2>0, <3>0, <4>3 DEF PushAt, Speaks
      <4>5. PushAt(t)'
        BY <3>0, <4>1, <4>4 DEF PushAt
      <4> QED
        BY <1>1, <3>0, <4>1, <4>5, PushFrame
    <3> QED
      BY <2>13, <3>1, <3>2 DEF VerifyPushKey
  <2>14. CASE CheckEnabled(t)
    <3>0. pc[t] = "pushEnabled" /\ UNCHANGED ownerVars
      BY <2>14 DEF CheckEnabled
    <3>1. CASE Return(t)
      BY <2>1, <3>0, <3>1, ReturnStep DEF PushStage
    <3>2. CASE (\E v \in Value : Reads(t, "enabled", v)) /\ Goto(t, "post")
      <4>1. Others(t) /\ pc'[t] = "post"
        BY <3>2, GotoStep
      <4>2. hold[t] \in open /\ disk[hold[t][1]]["enabled"] \in Value
        BY <3>2 DEF Reads
      <4>3. agreed
        BY <1>1, <4>2, HeldHandle, ValueAssumption DEF StoreInv
      <4>4. held[t] = {"key", "consent"}
        BY <2>0, <3>0, <4>3 DEF PushAt, OwnerTypeInv
      <4>5. PushAt(t)'
        BY <3>0, <4>1, <4>4 DEF PushAt
      <4> QED
        BY <1>1, <3>0, <4>1, <4>5, PushFrame
    <3> QED
      BY <2>14, <3>1, <3>2 DEF CheckEnabled
  <2>15. CASE Post(t)
    <3>1. Others(t) /\ pc'[t] = "idle"
      BY <2>15, ReturnStep DEF Post
    <3>2. held' = [held EXCEPT ![t] = {}] /\ UNCHANGED <<agreed, keySet>>
      BY <2>15 DEF Post
    <3>3. PushAt(t)'
      BY <3>1 DEF PushAt
    <3> QED
      BY <1>1, <3>1, <3>2, <3>3, PushFrame DEF OwnerTypeInv
  <2> QED
    BY <1>1, HandlerSteps, <2>2, <2>3, <2>4, <2>5, <2>6, <2>7, <2>8, <2>9, <2>10,
       <2>11, <2>12, <2>13, <2>14, <2>15
<1>2. ASSUME NEW t \in Goroutine, Handler(t), phase # "up"
      PROVE  PushInv'
  BY <1>2, HandlerServes DEF PushInv
<1>3. CASE TimePasses \/ EarlyAccess \/ \E m \in Member : MuteEnds(m)
  BY <1>3 DEF TimePasses, MuteEnds, EarlyAccess, PushInv, PushAt
<1>4. CASE Serve
  BY <1>4 DEF Serve, StoreInv, PushInv, PushAt
<1>5. CASE Leave \/ Restart
  BY <1>5 DEF Leave, Restart, PushInv
<1> QED
  BY <1>1, <1>2, <1>3, <1>4, <1>5 DEF Next

OwnerInv == BaseInv /\ StoreInv /\ PushInv

LEMMA OwnerInit == Init => OwnerInv
<1> SUFFICES ASSUME Init
             PROVE  OwnerInv
  OBVIOUS
<1>1. StoreInv
  BY Zenon DEF Init, StoreInit, StoreInv
<1>2. PushInv
  BY DEF Init, PushInv
<1> QED
  BY <1>1, <1>2, BaseInit DEF OwnerInv

LEMMA OwnerNext == OwnerInv /\ [Next]_vars => OwnerInv'
<1>1. OwnerInv /\ Next => OwnerInv'
  BY BaseNext, StoreNext, PushNext DEF OwnerInv
<1>2. OwnerInv /\ UNCHANGED vars => OwnerInv'
  BY BaseFrame DEF OwnerInv, vars, StoreInv, PushInv, PushAt
<1> QED
  BY <1>1, <1>2

(* A push is posted only if its key was the group's and the owner's consent *)
(* stood since the request came, whichever file an early access opened and  *)
(* whatever commands run between the two look-ups.                          *)
THEOREM PushAllowed == Spec => []PushIsAllowed
<1>1. OwnerInv => PushIsAllowed
  BY DEF OwnerInv, PushInv, PushAt, PushIsAllowed
<1> QED
  BY <1>1, OwnerInit, OwnerNext, PTL DEF Spec

=============================================================================
