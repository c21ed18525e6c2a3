--------------------------- MODULE CronScheduler ---------------------------
(***************************************************************************)
(* Scheduler with the cron expressions of its jobs: a job is due in the    *)
(* minutes that lib/schedule/cron.go makes of its expression.              *)
(***************************************************************************)
EXTENDS Scheduler

CONSTANTS
  ExprOf,    \* [Cron -> expression]: a set of parts for each field
  MomentOf,  \* [Minute -> what the clock shows]: a value for each field
  Sample,    \* fields as parseField is called with them: parts, min and max
  Bits

Expr == INSTANCE CronExpr

(* Register keeps what parseCron has read beside the job. *)
Table == [j \in Cron |-> Expr!ParseCron(ExprOf[j])]

(* A job whose expression is refused is not registered. *)
Matches(j, m) == Expr!Accepted(Table[j]) /\ Expr!Match(Table[j], MomentOf[m])

ASSUME MatchAssumption == Due = {jm \in Cron \X Minute : Matches(jm[1], jm[2])}
ASSUME ExprAssumption  ==
  \A j \in Cron, f \in DOMAIN Expr!Ends : \A p \in ExprOf[j][f] : Expr!IsPart(p)
ASSUME FieldAssumption ==
  \A s \in Sample :
    /\ s.min \in Int /\ s.max \in Int
    /\ Expr!Least <= s.min /\ s.min <= s.max
    /\ \A p \in s.parts : Expr!IsPart(p)
(* What holds of the powers of two that bound an int of any width.          *)
ASSUME WidthAssumption ==
  /\ 2 ^ (Bits - 1) \in Nat \ {0}
  /\ 2 ^ Bits = 2 ^ (Bits - 1) + 2 ^ (Bits - 1)

-----------------------------------------------------------------------------

FieldsMeanDocs ==
  \A s \in Sample :
    (\A p \in s.parts : Expr!Fits(p, s.max)) => Expr!MeansDocs(s.parts, s.min, s.max)

FitsAll(j) ==
  \A f \in DOMAIN Expr!Ends : \A p \in ExprOf[j][f] : Expr!Fits(p, Expr!Ends[f][2])

(* Every field whose steps do not take int around means what                *)
(* docs/schedule.md says, as parseField reads it, and a job with such       *)
(* fields has fired only in minutes in which all of them, so understood,    *)
(* are met.                                                                 *)
CronMeansDocs ==
  /\ FieldsMeanDocs
  /\ \A j \in Cron, m \in Minute :
       fired[j][m] > 0 /\ FitsAll(j) => Expr!MetByDocs(ExprOf[j], MomentOf[m])

=============================================================================
