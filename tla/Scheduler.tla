----------------------------- MODULE Scheduler -----------------------------
(***************************************************************************)
(* The scheduler of lib/schedule/schedule.go.                              *)
(*                                                                         *)
(* A job is one successful call of Register: an object in the table jobs,  *)
(* which a later Register with the same Id replaces.  An interval job has  *)
(* a goroutine of its own, all cron jobs share one.  Register, Cancel,     *)
(* Pause, Resume, Start and Stop may be called by any goroutine; jobsLock  *)
(* guards the table, startMu the flags started and cronLoopOn.  Start      *)
(* holds startMu while it waits for jobsLock; the loops read stopCh        *)
(* without a lock, each time they come round.                              *)
(*                                                                         *)
(* Time is counted in minutes, the grain of lastFire.  Two histories serve  *)
(* properties that hold until the scheduler is started a second time, and  *)
(* are kept until then.                                                    *)
(***************************************************************************)
EXTENDS Integers, FiniteSets

CONSTANTS
  Job,       \* registrations
  Id,        \* identifiers
  IdOf,      \* [Job -> Id]
  Cron,      \* the jobs without an interval
  Due,       \* <<job, minute>>: the cron expression matches
  MaxMinute, \* bound: minutes
  MaxLoop,   \* bound: goroutines at one time
  MaxStart,  \* bound: calls of Start that start
  Shared,    \* stands for the cron goroutine where a job is expected
  NULL

Minute == 1 .. MaxMinute

Loop == 1 .. MaxLoop

ASSUME JobAssumption    == IdOf \in [Job -> Id] /\ Cron \subseteq Job
ASSUME FiniteAssumption == IsFiniteSet(Job)
ASSUME DueAssumption    == Due \subseteq Cron \X Minute
ASSUME MinuteAssumption == MaxMinute \in Nat \ {0}
ASSUME LoopAssumption   == MaxLoop \in Nat
ASSUME StartAssumption  == MaxStart \in Nat
ASSUME NullAssumption   == Shared \notin Job /\ NULL \notin Job \cup {Shared}

VARIABLES
  reg,        \* where each Register stands: "none", "table" (entered), "done"
  table,      \* jobs: the object registered under each identifier
  cancelled,  \* objects whose channel cancel is closed
  paused,
  lastFire,   \* 0: the zero time
  started,
  starting,   \* Start holds startMu and has yet to copy the table
  cronLoopOn,
  stopCh,     \* number of the channel in the variable, 0 before the first
  runs,       \* what each goroutine runs: a job, Shared, or nothing
  at,         \* where it stands
  watch,      \* the stop channel it is selecting on, 0 elsewhere
  tick,       \* minute of the tick a cron goroutine is working on, else 1
  since,      \* minute in which it received the one before, else 1
  now,
  starts,     \* calls of Start so far                              (history)
  straddled,  \* jobs a Start met halfway through their Register    (history)
  fired       \* [Job -> [Minute -> times the cron job was started]]  (history)

jobVars == <<reg, table, cancelled, paused, lastFire>>
startVars == <<started, starting, cronLoopOn, stopCh>>
loopVars == <<runs, at, watch, tick, since>>
histVars == <<starts, straddled, fired>>

vars == <<jobVars, startVars, loopVars, now, histVars>>

-----------------------------------------------------------------------------

Listed(j) == table[IdOf[j]] = j

(* A stop channel is closed by Stop, and each Start makes a new one. *)
Closed(ch) == ch < stopCh \/ ~started

Unfired == [j \in Job |-> [m \in Minute |-> 0]]

Free == {l \in Loop : runs[l] = NULL}

(* A goroutine for each of S, which has yet to run. *)
Launch(S) ==
  /\ Cardinality(S) <= Cardinality(Free)
  /\ LET slot == CHOOSE f \in [S -> Free] : \A x, y \in S : f[x] = f[y] => x = y
         runner(l) == CHOOSE x \in S : slot[x] = l
         new == {slot[x] : x \in S}
     IN  /\ runs' = [l \in Loop |-> IF l \in new THEN runner(l) ELSE runs[l]]
         /\ at' = [l \in Loop |-> IF l \in new THEN "new" ELSE at[l]]
         /\ since' = [l \in Loop |-> IF l \in new /\ runner(l) = Shared THEN now
                                                                    ELSE since[l]]
  /\ UNCHANGED <<watch, tick>>

-----------------------------------------------------------------------------
(* Register, Cancel, Pause, Resume                                         *)

(* Not registered, and no longer referred to: each Register makes an object. *)
Unused(j) ==
  \/ reg[j] = "none"
  \/ reg[j] = "done" /\ ~Listed(j) /\ \A l \in Loop : runs[l] # j

(* Mutant: the job that is replaced is not stopped. *)
RegisterTableKeeping(j) ==
  /\ Unused(j)
  /\ reg' = [reg EXCEPT ![j] = "table"]
  /\ cancelled' = cancelled \ {j}
  /\ table' = [table EXCEPT ![IdOf[j]] = j]
  /\ paused' = paused \ {j}
  /\ lastFire' = [lastFire EXCEPT ![j] = 0]
  /\ straddled' = straddled \ {j}
  /\ fired' = [fired EXCEPT ![j] = [m \in Minute |-> 0]]
  /\ UNCHANGED <<startVars, loopVars, now, starts>>

(* Under jobsLock. *)
RegisterTable(j) ==
  /\ Unused(j)
  /\ reg' = [reg EXCEPT ![j] = "table"]
  /\ cancelled' = (cancelled \cup ({table[IdOf[j]]} \ {NULL})) \ {j}
  /\ table' = [table EXCEPT ![IdOf[j]] = j]
  /\ paused' = paused \ {j}
  /\ lastFire' = [lastFire EXCEPT ![j] = 0]
  /\ straddled' = straddled \ {j}
  /\ fired' = [fired EXCEPT ![j] = [m \in Minute |-> 0]]
  /\ UNCHANGED <<startVars, loopVars, now, starts>>

(* Mutant: the flag of the cron goroutine is set before there is one. *)
RegisterLoopFlagging(j) ==
  /\ reg[j] = "table" /\ ~starting
  /\ reg' = [reg EXCEPT ![j] = "done"]
  /\ LET needCron == j \in Cron /\ ~cronLoopOn
     IN  /\ cronLoopOn' = (cronLoopOn \/ needCron)
         /\ Launch(IF started /\ needCron THEN {Shared}
                   ELSE IF started /\ j \notin Cron THEN {j} ELSE {})
  /\ UNCHANGED <<table, cancelled, paused, lastFire, started, starting, stopCh,
                 now, histVars>>

(* Under startMu, and the go statement after it. *)
RegisterLoop(j) ==
  /\ reg[j] = "table" /\ ~starting
  /\ reg' = [reg EXCEPT ![j] = "done"]
  /\ LET needCron == started /\ j \in Cron /\ ~cronLoopOn
     IN  /\ cronLoopOn' = (cronLoopOn \/ needCron)
         /\ Launch(IF needCron THEN {Shared}
                   ELSE IF started /\ j \notin Cron THEN {j} ELSE {})
  /\ UNCHANGED <<table, cancelled, paused, lastFire, started, starting, stopCh,
                 now, histVars>>

Cancel(i) ==
  /\ table[i] # NULL
  /\ cancelled' = cancelled \cup {table[i]}
  /\ table' = [table EXCEPT ![i] = NULL]
  /\ UNCHANGED <<reg, paused, lastFire, startVars, loopVars, now, histVars>>

Pause(i) ==
  /\ table[i] # NULL
  /\ paused' = paused \cup {table[i]}
  /\ UNCHANGED <<reg, table, cancelled, lastFire, startVars, loopVars, now,
                 histVars>>

Resume(i) ==
  /\ table[i] # NULL
  /\ paused' = paused \ {table[i]}
  /\ UNCHANGED <<reg, table, cancelled, lastFire, startVars, loopVars, now,
                 histVars>>

-----------------------------------------------------------------------------
(* Start and Stop                                                          *)

StartOpen ==
  /\ ~started /\ starts < MaxStart
  /\ started' = TRUE /\ starting' = TRUE
  /\ stopCh' = stopCh + 1
  /\ starts' = starts + 1
  /\ straddled' = {} /\ fired' = Unfired
  /\ UNCHANGED <<jobVars, cronLoopOn, loopVars, now>>

(* Mutant: the flag of the cron goroutine is left to Register. *)
StartLaunchUnflagged ==
  /\ starting
  /\ starting' = FALSE
  /\ LET snapshot == {j \in Job : Listed(j)}
     IN  Launch((snapshot \ Cron) \cup
                (IF snapshot \cap Cron = {} THEN {} ELSE {Shared}))
  /\ straddled' = {j \in Job : starts = 1 /\ reg[j] = "table"}
  /\ UNCHANGED <<jobVars, started, cronLoopOn, stopCh, now, starts, fired>>

(* The snapshot and the go statements. *)
StartLaunch ==
  /\ starting
  /\ starting' = FALSE
  /\ LET snapshot == {j \in Job : Listed(j)}
         needCron == snapshot \cap Cron # {}
     IN  /\ cronLoopOn' = (cronLoopOn \/ needCron)
         /\ Launch((snapshot \ Cron) \cup (IF needCron THEN {Shared} ELSE {}))
  /\ straddled' = {j \in Job : starts = 1 /\ reg[j] = "table"}
  /\ UNCHANGED <<jobVars, started, stopCh, now, starts, fired>>

Stop ==
  /\ started /\ ~starting
  /\ started' = FALSE /\ cronLoopOn' = FALSE
  /\ UNCHANGED <<jobVars, starting, stopCh, loopVars, now, histVars>>

-----------------------------------------------------------------------------
(* The goroutines runInterval and runCronLoop                              *)

(* The loop reads stopCh and blocks in select; before that the cron        *)
(* goroutine has slept until the next second.                              *)
Select(l) ==
  /\ at[l] \in {"new", "round"} /\ runs[l] # NULL
  /\ at' = [at EXCEPT ![l] = "select"]
  /\ watch' = [watch EXCEPT ![l] = stopCh]
  /\ UNCHANGED <<jobVars, startVars, runs, tick, since, now, histVars>>

(* tryFire, on a tick or at once if the job is Immediate: neither paused nor *)
(* cancelled, the handler runs in this goroutine.                           *)
TryFire(l) ==
  /\ at[l] \in {"new", "select"} /\ runs[l] \in Job
  /\ at' = [at EXCEPT ![l] = IF runs[l] \in paused \cup cancelled THEN "round"
                                                                 ELSE "handle"]
  /\ watch' = [watch EXCEPT ![l] = 0]
  /\ UNCHANGED <<jobVars, startVars, runs, tick, since, now, histVars>>

(* The handler returns, or panics and is recovered. *)
HandlerEnds(l) ==
  /\ at[l] = "handle"
  /\ at' = [at EXCEPT ![l] = "round"]
  /\ UNCHANGED <<jobVars, startVars, runs, watch, tick, since, now, histVars>>

(* The ticker keeps one tick, sent at any time since the one before was      *)
(* received.                                                                *)
Tick(l) ==
  /\ at[l] = "select" /\ runs[l] = Shared
  /\ \E t \in since[l] .. now : tick' = [tick EXCEPT ![l] = t]
  /\ since' = [since EXCEPT ![l] = now]
  /\ at' = [at EXCEPT ![l] = "scan"]
  /\ watch' = [watch EXCEPT ![l] = 0]
  /\ UNCHANGED <<jobVars, startVars, runs, now, histVars>>

Fires(j, t) ==
  Listed(j) /\ j \in Cron \ paused /\ <<j, t>> \in Due /\ lastFire[j] # t

(* Mutant: lastFire is not set. *)
ScanForgetful(l) ==
  /\ at[l] = "scan"
  /\ fired' = [j \in Job |-> IF Fires(j, tick[l]) /\ starts = 1
                             THEN [fired[j] EXCEPT ![tick[l]] = @ + 1]
                             ELSE fired[j]]
  /\ at' = [at EXCEPT ![l] = "round"] /\ tick' = [tick EXCEPT ![l] = 1]
  /\ UNCHANGED <<jobVars, startVars, runs, watch, since, now, starts, straddled>>

(* Under jobsLock; each handler then runs in a goroutine of its own. *)
Scan(l) ==
  /\ at[l] = "scan"
  /\ LET due == {j \in Job : Fires(j, tick[l])}
     IN  /\ lastFire' = [j \in Job |-> IF j \in due THEN tick[l] ELSE lastFire[j]]
         /\ fired' = [j \in Job |-> IF j \in due /\ starts = 1
                                    THEN [fired[j] EXCEPT ![tick[l]] = @ + 1]
                                    ELSE fired[j]]
  /\ at' = [at EXCEPT ![l] = "round"] /\ tick' = [tick EXCEPT ![l] = 1]
  /\ UNCHANGED <<reg, table, cancelled, paused, startVars, runs, watch, since,
                 now, starts, straddled>>

(* Mutant: select does not listen to the stop channel. *)
EndsOnCancel(l) ==
  /\ at[l] = "select"
  /\ runs[l] \in cancelled
  /\ runs' = [runs EXCEPT ![l] = NULL]
  /\ at' = [at EXCEPT ![l] = "new"]
  /\ watch' = [watch EXCEPT ![l] = 0] /\ since' = [since EXCEPT ![l] = 1]
  /\ UNCHANGED <<jobVars, startVars, tick, now, histVars>>

Ends(l) ==
  /\ at[l] = "select"
  /\ Closed(watch[l]) \/ runs[l] \in cancelled
  /\ runs' = [runs EXCEPT ![l] = NULL]
  /\ at' = [at EXCEPT ![l] = "new"]
  /\ watch' = [watch EXCEPT ![l] = 0] /\ since' = [since EXCEPT ![l] = 1]
  /\ UNCHANGED <<jobVars, startVars, tick, now, histVars>>

Clock ==
  /\ now < MaxMinute
  /\ now' = now + 1
  /\ UNCHANGED <<jobVars, startVars, loopVars, histVars>>

-----------------------------------------------------------------------------

Init ==
  /\ reg = [j \in Job |-> "none"]
  /\ table = [i \in Id |-> NULL]
  /\ cancelled = {} /\ paused = {}
  /\ lastFire = [j \in Job |-> 0]
  /\ started = FALSE /\ starting = FALSE /\ cronLoopOn = FALSE
  /\ stopCh = 0
  /\ runs = [l \in Loop |-> NULL]
  /\ at = [l \in Loop |-> "new"]
  /\ watch = [l \in Loop |-> 0]
  /\ tick = [l \in Loop |-> 1] /\ since = [l \in Loop |-> 1]
  /\ now = 1
  /\ starts = 0 /\ straddled = {}
  /\ fired = Unfired

Go(l) == Select(l) \/ HandlerEnds(l) \/ Scan(l)

Next ==
  \/ \E j \in Job : RegisterTable(j) \/ RegisterLoop(j)
  \/ \E i \in Id : Cancel(i) \/ Pause(i) \/ Resume(i)
  \/ StartOpen \/ StartLaunch \/ Stop
  \/ \E l \in Loop : Go(l) \/ TryFire(l) \/ Tick(l) \/ Ends(l)
  \/ Clock

Spec == Init /\ [][Next]_vars

(* Goroutines run and handlers return; select picks any channel that is      *)
(* ready, again and again, so that one that stays ready is picked in the end.*)
Fairness ==
  /\ \A j \in Job : WF_vars(RegisterLoop(j))
  /\ WF_vars(StartLaunch)
  /\ \A l \in Loop : WF_vars(Go(l)) /\ SF_vars(Ends(l))

FairSpec == Spec /\ Fairness

-----------------------------------------------------------------------------
(* Properties                                                              *)

TypeOK ==
  /\ reg \in [Job -> {"none", "table", "done"}]
  /\ table \in [Id -> Job \cup {NULL}]
  /\ cancelled \subseteq Job /\ paused \subseteq Job
  /\ lastFire \in [Job -> 0 .. MaxMinute]
  /\ started \in BOOLEAN /\ starting \in BOOLEAN /\ cronLoopOn \in BOOLEAN
  /\ stopCh \in 0 .. MaxStart
  /\ runs \in [Loop -> Job \cup {Shared, NULL}]
  /\ at \in [Loop -> {"new", "round", "select", "handle", "scan"}]
  /\ watch \in [Loop -> 0 .. MaxStart]
  /\ tick \in [Loop -> Minute] /\ since \in [Loop -> Minute]
  /\ now \in Minute
  /\ starts \in 0 .. MaxStart
  /\ straddled \subseteq Job
  /\ fired \in [Job -> [Minute -> Nat]]

RunnerOf(j) == IF j \in Cron THEN Shared ELSE j

RunnersOf(j) == {l \in Loop : runs[l] = RunnerOf(j)}

(* However Register, Start, Stop and Cancel interleave, a registered job of  *)
(* a scheduler that has been started once has a goroutine that neither Stop  *)
(* nor a Cancel ends.  Nothing is said of a scheduler started again: its     *)
(* loops come back, which docs/schedule.md says they do not.                 *)
EveryJobIsServed ==
  started /\ ~starting /\ starts <= 1 =>
    \A j \in Job :
      Listed(j) /\ reg[j] = "done" =>
        /\ j \notin cancelled
        /\ \E l \in RunnersOf(j) : at[l] = "select" => ~Closed(watch[l])

(* Until it is started again, the scheduler runs a job in one goroutine, and *)
(* all cron jobs in one, unless Start met the Register of the job halfway.   *)
OneRunnerEach ==
  starts <= 1 =>
    \A j \in Job :
      j \in Cron \/ j \notin straddled => Cardinality(RunnersOf(j)) <= 1

(* Until the scheduler is started again, a registered cron job is started    *)
(* once in a minute at most, although the goroutine looks every second and   *)
(* a tick may be late.                                                       *)
OncePerMinute ==
  starts <= 1 => \A j \in Job, m \in Minute : fired[j][m] <= 1

(* The goroutine of an interval job ends once the job is cancelled or        *)
(* replaced.                                                                 *)
CancelEndsLoop ==
  \A j \in Job \ Cron :
    reg[j] = "done" /\ ~Listed(j) ~> RunnersOf(j) = {}

(* After Stop every goroutine ends, unless the scheduler is started again.   *)
StopEndsLoops == ~started ~> started \/ Free = Loop

=============================================================================
