---------------------------- MODULE GroupPlugins ----------------------------
(***************************************************************************)
(* The two plugins that keep a group's settings in the store, as they run  *)
(* in one process: plugins/group, which lets a member in muted and mails   *)
(* them a link that lifts the mute, and plugins/push, which posts for      *)
(* whoever holds the group's key.  Every event and every HTTP request has  *)
(* a goroutine of its own.                                                 *)
(*                                                                         *)
(* One group; a member asks to join once, and the token of their link is   *)
(* known by their name.  SMTP is configured.  A call of the platform that  *)
(* fails may have been carried out (PlatformClient).                       *)
(***************************************************************************)
EXTENDS Storage, TempRoutes

CONSTANTS
  Member,     \* who asks to join; their names are tokens too
  Other,      \* the token of a link of another plugin
  PushKey,    \* the push keys
  Configured, \* the file main opens
  MaxRuns,    \* bound: handlers started
  MaxRestart  \* bound: crashes

ASSUME TokenAssumption == Token = Member \cup {Other} /\ Other \notin Member
ASSUME EntryAssumption == Entry = {"guard", "key", "enabled"}
ASSUME ConfigAssumption == Configured \in Path
ASSUME SettingAssumption ==
  /\ BOOLEAN \cup PushKey \subseteq Value
  /\ \A d \in FirstDisk, path \in Path : d[path]["guard"] \in BOOLEAN \cup {NULL}
ASSUME RouteAssumption ==
  {"GroupGuard", "other"} \subseteq PluginId /\ "GET" \in Method

VARIABLES
  phase,    \* "boot", "up" or "down": before Open, serving, after Close
  pc,       \* where each goroutine stands in its handler
  subject,  \* the member it is about, or the key the push came with
  local,    \* the setting it has read
  runs,
  restarts,
  inGroup, muted, mailed,
  failed,   \* members for whom a step failed or was cut off      (history)
  lapsed,   \* members whose mute has ended by itself             (history)
  wrongly,  \* tokens asked for under another plugin's name       (history)
  agreed,   \* the owner's consent to pushes, as last answered    (history)
  keySet,   \* the push key, as last answered                     (history)
  held      \* what held of each push since it came               (history)

runVars    == <<pc, subject, local, runs>>
memberVars == <<inGroup, muted, mailed, failed, lapsed>>
ownerVars  == <<agreed, keySet, held>>
lifeVars   == <<phase, restarts>>
vars == <<storeVars, routeVars, runVars, memberVars, wrongly, ownerVars,
          lifeVars>>

Guard == "GroupGuard"

-----------------------------------------------------------------------------
(* Handlers                                                                *)

Begin(t, stage, about) ==
  /\ phase = "up" /\ pc[t] = "idle" /\ runs < MaxRuns
  /\ pc' = [pc EXCEPT ![t] = stage]
  /\ subject' = [subject EXCEPT ![t] = about]
  /\ runs' = runs + 1
  /\ UNCHANGED local

Goto(t, stage) ==
  /\ pc' = [pc EXCEPT ![t] = stage]
  /\ UNCHANGED <<subject, local, runs>>

Return(t) ==
  /\ pc' = [pc EXCEPT ![t] = "idle"]
  /\ subject' = [subject EXCEPT ![t] = NULL]
  /\ local' = [local EXCEPT ![t] = NULL]
  /\ UNCHANGED runs

(* Commands of the owner and requests to join. *)
Event(t) ==
  /\ \/ \E stage \in {"toggleGet", "statusGet", "enable", "disable"} :
          Begin(t, stage, NULL)
     \/ \E k \in PushKey : Begin(t, "setKey", k)
     \/ \E m \in Member : /\ m \notin inGroup /\ ~\E x \in Goroutine : subject[x] = m
                          /\ m \notin failed /\ Begin(t, "joinGet", m)
  /\ UNCHANGED <<storeVars, routeVars, memberVars, wrongly, ownerVars, lifeVars>>

StoreStage == {"toggleGet", "toggleDefault", "toggleSet", "statusGet",
               "statusDefault", "joinGet", "joinDefault", "enable", "disable",
               "setKey", "pushKey", "pushEnabled"}

(* ensureDB, for whichever operation is next. *)
Ensure(t) ==
  /\ pc[t] \in StoreStage
  /\ Peek(t) \/ OpenFirst(t)
  /\ UNCHANGED <<routeVars, runVars, memberVars, wrongly, ownerVars, lifeVars>>

quiet == <<routeVars, memberVars, wrongly, lifeVars>>

-----------------------------------------------------------------------------
(* plugins/group: the setting                                              *)

(* The setting is read; when there is none, or it cannot be read, it is     *)
(* taken for off and written as off.                                        *)
ReadGuard(t, get, default, next) ==
  /\ pc[t] = get
  /\ \/ \E v \in Value : /\ Reads(t, "guard", v)
                         /\ local' = [local EXCEPT ![t] = v]
                         /\ pc' = [pc EXCEPT ![t] = next]
     \/ /\ Reads(t, "guard", NULL) \/ Fails(t)
        /\ local' = [local EXCEPT ![t] = FALSE]
        /\ pc' = [pc EXCEPT ![t] = default]
  /\ UNCHANGED <<subject, runs, quiet, ownerVars>>

(* The result of the write is ignored. *)
WriteDefault(t, default, next) ==
  /\ pc[t] = default
  /\ Writes(t, "guard", FALSE) \/ Fails(t)
  /\ Goto(t, next)
  /\ UNCHANGED <<quiet, ownerVars>>

Toggle(t) ==
  \/ ReadGuard(t, "toggleGet", "toggleDefault", "toggleSet")
  \/ WriteDefault(t, "toggleDefault", "toggleSet")
  \/ /\ pc[t] = "toggleSet"
     /\ Writes(t, "guard", ~local[t]) \/ Fails(t)
     /\ Return(t)
     /\ UNCHANGED <<quiet, ownerVars>>

Status(t) ==
  \/ ReadGuard(t, "statusGet", "statusDefault", "end")
  \/ WriteDefault(t, "statusDefault", "end")

-----------------------------------------------------------------------------
(* plugins/group: a request to join                                        *)

ReadForJoin(t) ==
  \/ ReadGuard(t, "joinGet", "joinDefault", "judge")
  \/ WriteDefault(t, "joinDefault", "judge")

(* The guard is off, or the answer is no mail address and is denied. *)
Judge(t) ==
  /\ pc[t] = "judge"
  /\ \/ local[t] = TRUE /\ Goto(t, "accept")
     \/ Return(t)
  /\ UNCHANGED <<storeVars, quiet, ownerVars>>

LeaveAlone(t) ==
  /\ pc[t] = "end"
  /\ Return(t)
  /\ UNCHANGED <<storeVars, quiet, ownerVars>>

(* A call of the platform about m: after success the handler goes on at     *)
(* next, after failure at other; what fails may have been carried out.      *)
Calls(t, stage, next, other, done, undone) ==
  LET m == subject[t] IN
  /\ pc[t] = stage
  /\ \/ done /\ UNCHANGED failed
        /\ IF next = "idle" THEN Return(t) ELSE Goto(t, next)
     \/ /\ done \/ undone
        /\ failed' = failed \cup {m}
        /\ IF other = "idle" THEN Return(t) ELSE Goto(t, other)
  /\ UNCHANGED <<storeVars, routeVars, lapsed, wrongly, ownerVars, lifeVars>>

Accept(t) ==
  Calls(t, "accept", "lift", "idle",
        inGroup' = inGroup \cup {subject[t]} /\ UNCHANGED <<muted, mailed>>,
        UNCHANGED <<inGroup, muted, mailed>>)

(* BanUser lifts a mute that may be there, and then mutes.  Its error is    *)
(* ignored.                                                                 *)
Lift(t, stage, next, other) ==
  Calls(t, stage, next, other,
        muted' = muted \ {subject[t]} /\ UNCHANGED <<inGroup, mailed>>,
        UNCHANGED <<inGroup, muted, mailed>>)

Mute(t, stage, next, other) ==
  Calls(t, stage, next, other,
        muted' = muted \cup {subject[t]} /\ UNCHANGED <<inGroup, mailed>>,
        UNCHANGED <<inGroup, muted, mailed>>)

(* Mutant: the mute that may be there is lifted after the new one is set. *)
BanSwapped(t) == Mute(t, "lift", "mute", "link") \/ Lift(t, "mute", "link", "link")

Ban(t) == Lift(t, "lift", "mute", "link") \/ Mute(t, "mute", "link", "link")

Link(t) ==
  /\ pc[t] = "link"
  /\ RegisterTemporaryRoute(subject[t], Guard, "GET", TRUE)
  /\ Goto(t, "notice")
  /\ UNCHANGED <<storeVars, memberVars, wrongly, ownerVars, lifeVars>>

(* The notice in the group; without it, no mail. *)
Notice(t) ==
  Calls(t, "notice", "mail", "idle", UNCHANGED <<inGroup, muted, mailed>>,
        UNCHANGED <<inGroup, muted, mailed>>)

Mail(t) ==
  Calls(t, "mail", "idle", "idle",
        mailed' = mailed \cup {subject[t]} /\ UNCHANGED <<inGroup, muted>>,
        UNCHANGED <<inGroup, muted, mailed>>)

Join(t) ==
  ReadForJoin(t) \/ Judge(t) \/ Accept(t) \/ Ban(t) \/ Link(t) \/ Notice(t) \/ Mail(t)

-----------------------------------------------------------------------------
(* The links                                                               *)

(* A request for a link whose token was sent out. *)
Visit(t, tok, plugin, method) ==
  /\ phase = "up" /\ tok \in DOMAIN issued
  /\ \/ /\ ServeNotFound(tok, plugin) \/ ServeNotAllowed(tok, plugin, method)
        /\ UNCHANGED runVars
     \/ /\ ServeHandler(tok, plugin, method)
        /\ Begin(t, IF tok = Other THEN "end" ELSE "unmute", tok)
  /\ wrongly' = IF plugin # issued[tok].plugin THEN wrongly \cup {tok} ELSE wrongly
  /\ UNCHANGED <<storeVars, memberVars, ownerVars, lifeVars>>

(* The guard's handler: its errors are ignored. *)
Unmute(t) ==
  \/ Lift(t, "unmute", "welcome", "welcome")
  \/ Calls(t, "welcome", "idle", "idle", UNCHANGED <<inGroup, muted, mailed>>,
           UNCHANGED <<inGroup, muted, mailed>>)

(* Another plugin's link, which stays until it is removed. *)
OtherLink(t) ==
  /\ \/ Begin(t, "end", Other) /\ RegisterTemporaryRoute(Other, "other", "GET", FALSE)
     \/ Begin(t, "end", Other) /\ RemoveRoute(Other)
  /\ UNCHANGED <<storeVars, memberVars, wrongly, ownerVars, lifeVars>>

TimePasses ==
  /\ \E tok \in Token : Expire(tok)
  /\ UNCHANGED <<storeVars, runVars, memberVars, wrongly, ownerVars, lifeVars>>

(* The guard mutes for 43200 minutes, after which the platform lets the     *)
(* member speak.  They outlast the handlers about the member and the ten    *)
(* minutes of the link.                                                     *)
MuteEnds(m) ==
  /\ m \in muted
  /\ \A t \in Goroutine : subject[t] # m
  /\ Registered(m) => ~routes[m].alive
  /\ muted' = muted \ {m}
  /\ lapsed' = lapsed \cup {m}
  /\ UNCHANGED <<storeVars, routeVars, runVars, inGroup, mailed, failed, wrongly,
                 ownerVars, lifeVars>>

-----------------------------------------------------------------------------
(* plugins/push                                                            *)

Speaks(k, key, yes) == {x \in {"key", "consent"} : IF x = "key" THEN k = key ELSE yes}

(* The owner's command has been carried out and is answered.  What is        *)
(* written after Close does not count, unless the default file is the one   *)
(* that is configured.                                                      *)
Decide(t, key, yes) ==
  /\ IF phase = "up" \/ hold[t][1] = Configured
     THEN keySet' = key /\ agreed' = yes
     ELSE UNCHANGED <<keySet, agreed>>
  /\ held' = [x \in Goroutine |->
                IF pc[x] \in {"pushKey", "pushEnabled"}
                THEN held[x] \cup Speaks(subject[x], keySet', agreed') ELSE held[x]]

Command(t, stage, e, v, key, yes) ==
  /\ pc[t] = stage
  /\ \/ Writes(t, e, v) /\ Decide(t, key, yes)
     \/ Fails(t) /\ UNCHANGED ownerVars
  /\ Return(t)
  /\ UNCHANGED quiet

EnablePush(t) == Command(t, "enable", "enabled", TRUE, keySet, TRUE)
DisablePush(t) == Command(t, "disable", "enabled", NULL, keySet, FALSE)
SetPushKey(t) == Command(t, "setKey", "key", subject[t], subject[t], agreed)

PushArrives(t, k) ==
  /\ Begin(t, "pushKey", k)
  /\ held' = [held EXCEPT ![t] = Speaks(k, keySet, agreed)]
  /\ UNCHANGED <<storeVars, quiet, agreed, keySet>>

VerifyPushKey(t) ==
  /\ pc[t] = "pushKey"
  /\ \/ Reads(t, "key", subject[t]) /\ Goto(t, "pushEnabled")
     \/ /\ Fails(t) \/ \E k \in PushKey \cup {NULL} : k # subject[t] /\ Reads(t, "key", k)
        /\ Return(t)
  /\ UNCHANGED <<quiet, ownerVars>>

(* Has: the entry counts by being there, whatever it holds. *)
CheckEnabled(t) ==
  /\ pc[t] = "pushEnabled"
  /\ \/ (\E v \in Value : Reads(t, "enabled", v)) /\ Goto(t, "post")
     \/ (Fails(t) \/ Reads(t, "enabled", NULL)) /\ Return(t)
  /\ UNCHANGED <<quiet, ownerVars>>

Post(t) ==
  /\ pc[t] = "post"
  /\ Return(t)
  /\ held' = [held EXCEPT ![t] = {}]
  /\ UNCHANGED <<storeVars, quiet, agreed, keySet>>

Push(t) ==
  \/ EnablePush(t) \/ DisablePush(t) \/ SetPushKey(t)
  \/ VerifyPushKey(t) \/ CheckEnabled(t) \/ Post(t)

-----------------------------------------------------------------------------
(* The process                                                             *)

(* A plugin's init() reads the store before main has opened it. *)
EarlyAccess ==
  /\ phase = "boot" /\ db = NULL
  /\ OpenLocked(dbPath)
  /\ UNCHANGED <<dbPath, disk, holdVars, routeVars, runVars, memberVars, wrongly,
                 ownerVars, lifeVars>>

Serve ==
  /\ phase = "boot" /\ Open(Configured)
  /\ phase' = "up"
  /\ UNCHANGED <<routeVars, runVars, memberVars, wrongly, ownerVars, restarts>>

(* The server has ended: main closes the store, goroutines are still there. *)
Leave ==
  /\ phase = "up" /\ Close
  /\ phase' = "down"
  /\ UNCHANGED <<routeVars, runVars, memberVars, wrongly, ownerVars, restarts>>

(* The process ends, at any time, and is started anew. *)
Restart ==
  /\ restarts < MaxRestart
  /\ restarts' = restarts + 1
  /\ phase' = "boot"
  /\ db' = NULL /\ dbPath' = DefaultPath /\ open' = {}
  /\ hold' = [t \in Goroutine |-> NULL] /\ opening' = {}
  /\ pc' = [t \in Goroutine |-> "idle"]
  /\ subject' = [t \in Goroutine |-> NULL]
  /\ local' = [t \in Goroutine |-> NULL]
  /\ failed' = failed \cup {m \in Member : \E t \in Goroutine : subject[t] = m}
  /\ held' = [t \in Goroutine |-> {}]
  /\ LoseRoutes
  /\ UNCHANGED <<opens, disk, runs, inGroup, muted, mailed, lapsed, wrongly, agreed,
                 keySet>>

-----------------------------------------------------------------------------

Init ==
  /\ StoreInit /\ RouteInit
  /\ phase = "boot" /\ restarts = 0
  /\ pc = [t \in Goroutine |-> "idle"]
  /\ subject = [t \in Goroutine |-> NULL]
  /\ local = [t \in Goroutine |-> NULL]
  /\ runs = 0
  /\ inGroup = {} /\ muted = {} /\ mailed = {}
  /\ failed = {} /\ lapsed = {} /\ wrongly = {}
  /\ agreed = (disk[Configured]["enabled"] # NULL)
  /\ keySet = disk[Configured]["key"]
  /\ held = [t \in Goroutine |-> {}]

Handler(t) ==
  \/ Event(t)
  \/ \E k \in PushKey : PushArrives(t, k)
  \/ Ensure(t) \/ Toggle(t) \/ Status(t) \/ LeaveAlone(t) \/ Join(t) \/ Unmute(t)
  \/ Push(t) \/ OtherLink(t)
  \/ \E tok \in Token, plugin \in PluginId, method \in Method :
       Visit(t, tok, plugin, method)

Next ==
  \/ \E t \in Goroutine : Handler(t)
  \/ TimePasses \/ \E m \in Member : MuteEnds(m)
  \/ EarlyAccess \/ Serve \/ Leave \/ Restart

Spec == Init /\ [][Next]_vars

-----------------------------------------------------------------------------
(* Properties                                                              *)

Busy(m, stages) == \E t \in Goroutine : subject[t] = m /\ pc[t] \in stages

(* Whoever the guard has let in can speak only after following the link, or *)
(* when the thirty days of the mute are over, unless a call of the platform *)
(* failed or the process ended in between (Ban's error is ignored).         *)
NobodyEntersUnverified ==
  \A m \in inGroup \ muted :
    m \in failed \cup lapsed \/ ran[m] > 0 \/ Busy(m, {"lift", "mute"})

(* A member who is muted and has the mail can get out of the mute: the link *)
(* works, or was used and the mute is being lifted, unless its ten minutes  *)
(* are over, the process has ended, a call failed, or somebody has asked    *)
(* for the token under another plugin's name, which deletes it.             *)
MutedHasWayOut ==
  \A m \in muted \cap mailed :
    Registered(m) \/ Busy(m, {"unmute"}) \/ m \in over \cup failed \cup wrongly

(* A push is posted only if its key was the group's and the owner's consent *)
(* stood, at some moment since the request came, in the file that is        *)
(* configured: whichever file an early access has opened, and whatever      *)
(* commands run between HTTPHandle's two lookups.                           *)
PushIsAllowed ==
  \A t \in Goroutine :
    pc[t] = "post" /\ phase = "up" => held[t] = {"key", "consent"}

=============================================================================
