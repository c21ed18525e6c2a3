--------------------------- MODULE SchedulerProofs ---------------------------
(***************************************************************************)
(* What the scheduler keeps for any number of jobs, goroutines, minutes    *)
(* and starts, in whatever order its operations interleave, and what a     *)
(* cron expression makes of any minute.                                    *)
(***************************************************************************)
EXTENDS CronScheduler, FiniteSetTheorems, FunctionTheorems, WellFoundedInduction,
        TLAPS

-----------------------------------------------------------------------------
(* Numbers                                                                 *)

LEMMA DivFact ==
  ASSUME NEW n \in Int, NEW d \in Nat \ {0}
  PROVE  \E q \in Int : n = d * q + (n % d)
<1>1. n = d * (n \div d) + (n % d)
  OBVIOUS
<1>2. n \div d \in Int
  OBVIOUS
<1> QED
  BY <1>1, <1>2

LEMMA Distributes ==
  ASSUME NEW p \in Int, NEW q \in Int, NEW d \in Int
  PROVE  d * p - d * q = d * (p - q) /\ d * (q + 1) = d * q + d
  OBVIOUS

LEMMA AtLeastOnce ==
  ASSUME NEW k \in Int, NEW d \in Nat \ {0}, k >= 1
  PROVE  d * k >= d
  OBVIOUS

LEMMA OneRemainder ==
  ASSUME NEW d \in Nat \ {0}, NEW p \in Int, NEW q \in Int,
         NEW r \in 0 .. d - 1, NEW s \in 0 .. d - 1, d * p + r = d * q + s
  PROVE  r = s
<1>1. CASE p - q >= 1
  <2>1. d * (p - q) >= d
    BY <1>1, AtLeastOnce
  <2> QED
    BY <2>1, Distributes
<1>2. CASE q - p >= 1
  <2>1. d * (q - p) >= d
    BY <1>2, AtLeastOnce
  <2> QED
    BY <2>1, Distributes
<1>3. CASE p = q
  BY <1>3
<1> QED
  BY <1>1, <1>2, <1>3

(* One step further leaves the same remainder.                              *)
LEMMA StepKeepsRemainder ==
  ASSUME NEW n \in Int, NEW d \in Nat \ {0}
  PROVE  (n + d) % d = n % d
<1>1. PICK q \in Int : n = d * q + (n % d)
  BY DivFact
<1>2. PICK p \in Int : n + d = d * p + ((n + d) % d)
  <2>1. n + d \in Int
    OBVIOUS
  <2> QED
    BY <2>1, DivFact
<1>3. n % d \in 0 .. d - 1 /\ (n + d) % d \in 0 .. d - 1
  OBVIOUS
<1>4. d * (q + 1) = d * q + d
  BY Distributes
<1>5. d * q \in Int /\ d * p \in Int /\ n % d \in Int /\ (n + d) % d \in Int
  OBVIOUS
<1>6. d * (q + 1) + (n % d) = d * p + ((n + d) % d)
  BY <1>1, <1>2, <1>4, <1>5
<1>7. q + 1 \in Int
  OBVIOUS
<1> QED
  BY <1>3, <1>6, <1>7, OneRemainder

(* int wraps around to an int, and leaves an int as it is.                  *)
LEMMA Wrapped ==
  ASSUME NEW n \in Int
  PROVE  /\ Expr!Wrap(n) \in Int
         /\ Expr!Least <= Expr!Wrap(n) /\ Expr!Wrap(n) < -Expr!Least
         /\ Expr!Least <= n /\ n < -Expr!Least => Expr!Wrap(n) = n
<1> DEFINE h == 2 ^ (Bits - 1)
           k == n + h
<1>1. Expr!Wrap(n) = (k % (h + h)) - h /\ Expr!Least = -h
  BY WidthAssumption DEF Expr!Wrap, Expr!Least
<1>2. h \in Nat \ {0} /\ k \in Int
  BY WidthAssumption
<1>3. k - h = n
  BY <1>2
<1> HIDE DEF h, k
<1>4. h + h \in Nat \ {0}
  BY <1>2
<1>5. k % (h + h) \in 0 .. h + h - 1
  BY <1>2, <1>4
<1>6. 0 <= k /\ k < h + h => k % (h + h) = k
  BY <1>2, <1>4
<1> QED
  BY <1>1, <1>2, <1>3, <1>5, <1>6

-----------------------------------------------------------------------------
(* The loop of parseField                                                  *)

(* What a range with a step stands for, from v on.                          *)
Series(v, end, step) == {u \in Int : v <= u /\ u <= end /\ (u - v) % step = 0}

LEMMA SeriesStep ==
  ASSUME NEW v \in Int, NEW end \in Int, NEW step \in Nat \ {0}, v <= end
  PROVE  Series(v, end, step) = {v} \cup Series(v + step, end, step)
<1>1. ASSUME NEW u \in Int
      PROVE  (u - v) % step = (u - (v + step)) % step
  <2>1. u - (v + step) \in Int /\ u - (v + step) + step = u - v
    OBVIOUS
  <2> HIDE DEF Series
  <2> QED
    BY <2>1, StepKeepsRemainder
<1>2. (v - v) % step = 0
  OBVIOUS
<1>3. ASSUME NEW u \in Int, v <= u, u < v + step, (u - v) % step = 0
      PROVE  u = v
  <2>1. u - v \in Int /\ 0 <= u - v /\ u - v < step
    BY <1>3
  <2>2. (u - v) % step = u - v
    BY <2>1
  <2> QED
    BY <1>3, <2>2
<1>4. ASSUME NEW u
      PROVE  u \in Series(v, end, step) <=> u = v \/ u \in Series(v + step, end, step)
  <2>1. CASE u \in Int /\ u < v + step
    <3>1. u \notin Series(v + step, end, step)
      BY <2>1 DEF Series
    <3>2. u \in Series(v, end, step) <=> v <= u /\ u <= end /\ (u - v) % step = 0
      BY <2>1 DEF Series
    <3>3. u = v => u \in Series(v, end, step)
      BY <1>2, <3>2
    <3> QED
      BY <1>3, <2>1, <3>1, <3>2, <3>3
  <2>2. CASE u \in Int /\ v + step <= u
    <3>1. u \in Series(v, end, step) <=> u <= end /\ (u - v) % step = 0
      BY <2>2 DEF Series
    <3>2. u \in Series(v + step, end, step) <=> u <= end /\ (u - (v + step)) % step = 0
      BY <2>2 DEF Series
    <3>3. (u - v) % step = (u - (v + step)) % step
      BY <1>1, <2>2
    <3>4. u # v
      BY <2>2
    <3> QED
      BY <3>1, <3>2, <3>3, <3>4
  <2>3. CASE u \notin Int
    BY <2>3 DEF Series
  <2> QED
    BY <2>1, <2>2, <2>3
<1> QED
  BY <1>4

LEMMA SeriesOver ==
  ASSUME NEW v \in Int, NEW end \in Int, NEW step \in Nat \ {0}, ~(v <= end)
  PROVE  Series(v, end, step) = {}
  BY DEF Series

(* The function that Count calls from.                                      *)
IsLoop(from, end, step) ==
  from = [v \in Int |-> IF v <= end THEN {v} \cup from[Expr!Wrap(v + step)] ELSE {}]

(* No step takes a number up to the end around.                             *)
LEMMA NextFits ==
  ASSUME NEW v \in Int, NEW end \in Int, NEW step \in Nat \ {0},
         end + step < -Expr!Least, Expr!Least <= v, v <= end
  PROVE  Expr!Wrap(v + step) = v + step /\ v + step \in Int /\ Expr!Least <= v + step
<1>1. Expr!Least \in Int
  BY WidthAssumption DEF Expr!Least
<1>2. v + step \in Int /\ Expr!Least <= v + step /\ v + step < -Expr!Least
  BY <1>1
<1> QED
  BY <1>2, Wrapped

LEMMA LoopExists ==
  ASSUME NEW end \in Int, NEW step \in Nat \ {0}, end + step < -Expr!Least
  PROVE  \E from : IsLoop(from, end, step)
<1> DEFINE S(v) == Series(v, end, step)
           from == [v \in Int |-> IF Expr!Least <= v THEN S(v)
                                  ELSE IF v <= end THEN {v} \cup S(Expr!Wrap(v + step))
                                  ELSE {}]
<1>1. Expr!Least \in Int
  BY WidthAssumption DEF Expr!Least
<1>2. ASSUME NEW v \in Int
      PROVE  from[v] = IF v <= end THEN {v} \cup from[Expr!Wrap(v + step)] ELSE {}
  <2>1. v + step \in Int
    OBVIOUS
  <2>2. Expr!Wrap(v + step) \in Int /\ Expr!Least <= Expr!Wrap(v + step)
    BY <2>1, Wrapped
  <2>3. from[Expr!Wrap(v + step)] = S(Expr!Wrap(v + step))
    BY <2>2
  <2>4. CASE Expr!Least <= v /\ v <= end
    <3>1. Expr!Wrap(v + step) = v + step
      BY <2>4, NextFits
    <3>2. S(v) = {v} \cup S(v + step)
      BY <2>4, SeriesStep
    <3>3. from[v] = S(v)
      BY <2>4
    <3> HIDE DEF S, from
    <3> QED
      BY <2>3, <2>4, <3>1, <3>2, <3>3
  <2>5. CASE Expr!Least <= v /\ ~(v <= end)
    <3>1. S(v) = {}
      BY <2>5, SeriesOver
    <3> QED
      BY <2>5, <3>1
  <2>6. CASE ~(Expr!Least <= v)
    <3>1. from[v] = IF v <= end THEN {v} \cup S(Expr!Wrap(v + step)) ELSE {}
      BY <2>6
    <3> HIDE DEF S, from
    <3> QED
      BY <2>3, <3>1
  <2> QED
    BY <2>4, <2>5, <2>6
<1>3. from = [v \in Int |-> from[v]]
  OBVIOUS
<1> HIDE DEF from
<1>4. from = [v \in Int |-> IF v <= end THEN {v} \cup from[Expr!Wrap(v + step)] ELSE {}]
  BY <1>2, <1>3
<1> QED
  BY <1>4 DEF IsLoop

(* There is one such function on the numbers of an int: were there a number *)
(* at which it is something else, the last of them would have a next one.   *)
LEMMA LoopMeans ==
  ASSUME NEW end \in Int, NEW step \in Nat \ {0}, end + step < -Expr!Least,
         NEW from, IsLoop(from, end, step),
         NEW start \in Int, Expr!Least <= start
  PROVE  from[start] = Series(start, end, step)
<1> DEFINE Right(v) == from[v] = Series(v, end, step)
           left == {n \in Nat : ~(Expr!Least <= end - n => Right(end - n))}
<1>1. ASSUME NEW v \in Int
      PROVE  from[v] = IF v <= end THEN {v} \cup from[Expr!Wrap(v + step)] ELSE {}
  BY DEF IsLoop
<1>2. ASSUME NEW v \in Int, ~(v <= end)
      PROVE  Right(v)
  BY <1>1, <1>2, SeriesOver
<1>3. left = {}
  <2>1. SUFFICES ASSUME left # {} PROVE FALSE
    OBVIOUS
  <2>2. left \subseteq Nat
    OBVIOUS
  <2>3. PICK n \in left : \A m \in left : <<m, n>> \notin OpToRel(<, Nat)
    BY <2>1, <2>2, WFMin, NatLessThanWellFounded
  <2> DEFINE v == end - n
  <2>4. n \in Nat /\ v \in Int /\ v <= end /\ Expr!Least <= v /\ ~Right(v)
    <3>1. n \in Nat /\ Expr!Least <= v /\ ~Right(v)
      OBVIOUS
    <3> HIDE DEF Right
    <3> QED
      BY <3>1
  <2>5. /\ Expr!Wrap(v + step) = v + step /\ v + step \in Int
        /\ Expr!Least <= v + step
    BY <2>4, NextFits
  <2>6. Right(v + step)
    <3>1. CASE v + step <= end
      <4> DEFINE m == n - step
      <4>1. m \in Nat /\ m < n /\ v + step = end - m
        BY <2>4, <3>1
      <4>2. m \notin left
        BY <2>3, <2>4, <4>1 DEF OpToRel
      <4> HIDE DEF Right, m, v
      <4>3. ~(m \in Nat /\ ~(Expr!Least <= end - m => Right(end - m)))
        BY <4>2
      <4> QED
        BY <2>5, <4>1, <4>3
    <3>2. CASE ~(v + step <= end)
      BY <1>2, <2>5, <3>2
    <3> QED
      BY <3>1, <3>2
  <2>7. from[v] = {v} \cup from[v + step]
    BY <1>1, <2>4, <2>5
  <2>8. Series(v, end, step) = {v} \cup Series(v + step, end, step)
    BY <2>4, SeriesStep
  <2> QED
    BY <2>4, <2>6, <2>7, <2>8
<1>4. CASE start <= end
  <2> DEFINE n == end - start
  <2>1. n \in Nat /\ end - n = start
    BY <1>4
  <2> HIDE DEF Right, n
  <2>2. Expr!Least <= end - n => Right(end - n)
    BY <1>3, <2>1
  <2>3. Right(start)
    BY <2>1, <2>2
  <2> QED
    BY <2>3 DEF Right
<1>5. CASE ~(start <= end)
  BY <1>2, <1>5
<1> QED
  BY <1>4, <1>5

(* The loop of parseField collects what the range stands for.               *)
LEMMA CountMeans ==
  ASSUME NEW start \in Int, NEW end \in Int, NEW step \in Nat \ {0},
         end + step < -Expr!Least, Expr!Least <= start
  PROVE  Expr!Count(start, end, step) = Series(start, end, step)
<1> DEFINE from == CHOOSE from : IsLoop(from, end, step)
<1>1. IsLoop(from, end, step)
  BY LoopExists
<1>2. Expr!Count(start, end, step) = from[start]
  BY DEF Expr!Count, IsLoop
<1> HIDE DEF from
<1> QED
  BY <1>1, <1>2, LoopMeans

-----------------------------------------------------------------------------
(* What a field stands for                                                 *)

LEMMA LegalMeans ==
  ASSUME NEW p, Expr!IsPart(p), NEW min \in Int, NEW max \in Int, min <= max
  PROVE  Expr!Legal(p, min, max) <=>
           ~(\/ p.step = 0
             \/ p.form = "one" /\ p.from \notin min .. max
             \/ p.form = "range" /\ ~(min <= p.from /\ p.from <= p.to /\ p.to <= max))
<1> USE DEF Expr!IsPart, Expr!Legal, Expr!Start, Expr!End
<1>1. CASE p.form = "all"
  BY <1>1
<1>2. CASE p.form = "one"
  BY <1>2
<1>3. CASE p.form = "range"
  BY <1>3
<1> QED
  BY <1>1, <1>2, <1>3

LEMMA PartMeans ==
  ASSUME NEW p, Expr!IsPart(p), NEW min \in Int, NEW max \in Int,
         Expr!Least <= min, Expr!Fits(p, max), Expr!Legal(p, min, max)
  PROVE  Expr!Count(Expr!Start(p, min), Expr!End(p, max), p.step)
           = {v \in min .. max : Expr!Stands(p, min, max, v)}
<1> DEFINE start == Expr!Start(p, min)
           end == Expr!End(p, max)
<1>1. start \in Int /\ end \in Int
  BY DEF Expr!IsPart, Expr!Start, Expr!End
<1>2. p.step \in Nat \ {0} /\ min <= start /\ end <= max /\ start <= end
  BY DEF Expr!IsPart, Expr!Legal
<1>3. Expr!Least \in Int /\ max + p.step < -Expr!Least
  BY WidthAssumption DEF Expr!Fits, Expr!Least
<1>4. end + p.step < -Expr!Least /\ Expr!Least <= start
  <2> HIDE DEF start, end
  <2> QED
    BY <1>1, <1>2, <1>3
<1>5. Expr!Count(start, end, p.step) = Series(start, end, p.step)
  <2> HIDE DEF start, end
  <2> QED
    BY <1>1, <1>2, <1>4, CountMeans
<1>6. ASSUME NEW v \in Int
      PROVE  v \in Series(start, end, p.step) <=>
               v \in min .. max /\ Expr!Stands(p, min, max, v)
  <2>1. v \in Series(start, end, p.step) <=>
          v \in min .. max /\ start <= v /\ v <= end /\ (v - start) % p.step = 0
    <3> HIDE DEF start, end
    <3> QED
      BY <1>1, <1>2 DEF Series
  <2>2. CASE p.form = "all"
    BY <2>1, <2>2 DEF Expr!Stands, Expr!Start, Expr!End
  <2>3. CASE p.form = "one"
    <3>1. start = p.from /\ end = p.from
      BY <2>3 DEF Expr!Start, Expr!End
    <3>2. (p.from - p.from) % p.step = 0
      BY <1>1, <1>2, <3>1
    <3>3. Expr!Stands(p, min, max, v) <=> v \in min .. max /\ v = p.from
      BY <2>3 DEF Expr!Stands
    <3> HIDE DEF start, end
    <3> QED
      BY <1>1, <2>1, <3>1, <3>2, <3>3
  <2>4. CASE p.form = "range"
    <3>1. start = p.from /\ end = p.to
      BY <2>4 DEF Expr!Start, Expr!End
    <3>2. Expr!Stands(p, min, max, v) <=>
            /\ v \in min .. max /\ v \in p.from .. p.to
            /\ (v - p.from) % p.step = 0
      BY <2>4 DEF Expr!Stands
    <3> HIDE DEF start, end
    <3> QED
      BY <1>1, <2>1, <3>1, <3>2
  <2> QED
    BY <2>2, <2>3, <2>4 DEF Expr!IsPart
<1>7. /\ Series(start, end, p.step) \subseteq Int
      /\ min .. max \subseteq Int
  BY DEF Series
<1> QED
  BY <1>5, <1>6, <1>7

(* parseField reads a field as docs/schedule.md describes it.               *)
LEMMA FieldMeans ==
  ASSUME NEW parts, NEW min \in Int, NEW max \in Int, Expr!Least <= min, min <= max,
         \A p \in parts : Expr!IsPart(p) /\ Expr!Fits(p, max)
  PROVE  Expr!MeansDocs(parts, min, max)
<1> DEFINE Bad(p) == \/ p.step = 0
                     \/ p.form = "one" /\ p.from \notin min .. max
                     \/ p.form = "range" /\ ~(min <= p.from /\ p.from <= p.to /\ p.to <= max)
           Counted(p) == Expr!Count(Expr!Start(p, min), Expr!End(p, max), p.step)
           Meant(p) == {v \in min .. max : Expr!Stands(p, min, max, v)}
<1>1. ASSUME NEW p \in parts
      PROVE  Expr!Legal(p, min, max) <=> ~Bad(p)
  BY LegalMeans
<1>2. ASSUME NEW p \in parts, Expr!Legal(p, min, max)
      PROVE  Counted(p) = Meant(p)
  BY <1>2, PartMeans
<1> HIDE DEF Bad, Counted
<1>3. CASE \E p \in parts : Bad(p)
  <2>1. ~Expr!ParseField(parts, min, max).ok
    BY <1>1, <1>3 DEF Expr!ParseField
  <2> QED
    BY <1>3, <2>1 DEF Expr!MeansDocs, Bad
<1>4. CASE ~\E p \in parts : Bad(p)
  <2>1. Expr!ParseField(parts, min, max)
          = [ok |-> TRUE, values |-> UNION {Counted(p) : p \in parts}]
    BY <1>1, <1>4 DEF Expr!ParseField, Counted
  <2>2. UNION {Counted(p) : p \in parts} = UNION {Meant(p) : p \in parts}
    BY <1>1, <1>2, <1>4
  <2>3. UNION {Meant(p) : p \in parts}
          = {v \in min .. max : \E p \in parts : Expr!Stands(p, min, max, v)}
    OBVIOUS
  <2> HIDE DEF Meant
  <2>4. /\ Expr!ParseField(parts, min, max).ok
        /\ Expr!ParseField(parts, min, max).values
             = {v \in min .. max : \E p \in parts : Expr!Stands(p, min, max, v)}
    BY <2>1, <2>2, <2>3
  <2> QED
    BY <1>4, <2>4 DEF Expr!MeansDocs, Bad
<1> QED
  BY <1>3, <1>4

(* What matches is met.                                                     *)
LEMMA MatchMeans ==
  ASSUME NEW j \in Cron, NEW m \in Minute, <<j, m>> \in Due, FitsAll(j)
  PROVE  Expr!MetByDocs(ExprOf[j], MomentOf[m])
<1> DEFINE ends(f) == Expr!Ends[f]
<1>1. Expr!Accepted(Table[j]) /\ Expr!Match(Table[j], MomentOf[m])
  BY MatchAssumption DEF Matches
<1>2. SUFFICES ASSUME NEW f \in DOMAIN Expr!Ends
               PROVE  \E p \in ExprOf[j][f] :
                        Expr!Stands(p, ends(f)[1], ends(f)[2], MomentOf[m][f])
  BY DEF Expr!MetByDocs
<1>3. /\ ends(f)[1] \in Int /\ ends(f)[2] \in Int
      /\ 0 <= ends(f)[1] /\ ends(f)[1] <= ends(f)[2]
  BY DEF Expr!Ends
<1>4. Expr!Least <= ends(f)[1]
  BY <1>3, WidthAssumption DEF Expr!Least
<1>5. Table[j][f] = Expr!ParseField(ExprOf[j][f], ends(f)[1], ends(f)[2])
  BY DEF Table, Expr!ParseCron
<1>6. Table[j][f].ok /\ MomentOf[m][f] \in Table[j][f].values
  BY <1>1 DEF Expr!Accepted, Expr!Match
<1>7. \A p \in ExprOf[j][f] : Expr!IsPart(p) /\ Expr!Fits(p, ends(f)[2])
  BY ExprAssumption DEF FitsAll
<1> HIDE DEF ends
<1>8. Expr!MeansDocs(ExprOf[j][f], ends(f)[1], ends(f)[2])
  BY <1>3, <1>4, <1>7, FieldMeans
<1> QED
  BY <1>5, <1>6, <1>8 DEF Expr!MeansDocs

-----------------------------------------------------------------------------
(* The jobs and their goroutines                                           *)

USE JobAssumption, FiniteAssumption, DueAssumption, MinuteAssumption,
    LoopAssumption, StartAssumption, NullAssumption
USE DEF jobVars, startVars, loopVars, histVars, Minute

(* What the table holds is registered under that identifier and not         *)
(* cancelled.                                                               *)
TableInv ==
  \A i \in Id : table[i] # NULL =>
    /\ IdOf[table[i]] = i
    /\ reg[table[i]] # "none"
    /\ table[i] \notin cancelled

(* The flags, the stop channels, and the goroutine that scans.             *)
StateInv ==
  /\ stopCh = starts
  /\ starting => started /\ ~cronLoopOn
  /\ cronLoopOn => started
  /\ \A l \in Loop : /\ watch[l] <= stopCh
                     /\ at[l] = "scan" => runs[l] = Shared

(* No Stop so far ends the goroutine.                                      *)
Live(l) == at[l] = "select" => watch[l] = stopCh

(* Register and Start look at the table and at started in opposite order,   *)
(* so that one of them launches the goroutine of a job.                     *)
ServedInv ==
  started /\ ~starting =>
    /\ \A j \in Job : Listed(j) /\ reg[j] = "done" =>
         IF j \in Cron THEN cronLoopOn ELSE \E l \in Loop : runs[l] = j /\ Live(l)
    /\ cronLoopOn => \E l \in Loop : runs[l] = Shared /\ Live(l)

(* Until a second start a goroutine is launched once for each job, and once *)
(* for all cron jobs.                                                       *)
RunnerInv ==
  starts <= 1 =>
    /\ starts = 0 => ~started
    /\ starts = 0 \/ starting => \A l \in Loop : runs[l] = NULL
    /\ started /\ ~cronLoopOn => \A l \in Loop : runs[l] # Shared
    /\ \A k, l \in Loop : runs[k] = Shared /\ runs[l] = Shared => k = l
    /\ \A j \in straddled : reg[j] # "none"
    /\ \A j \in Job \ straddled :
         /\ \A k, l \in Loop : runs[k] = j /\ runs[l] = j => k = l
         /\ reg[j] # "done" => \A l \in Loop : runs[l] # j

(* The only cron goroutine never goes back: its ticks are not older than    *)
(* the last firing of any job.                                              *)
FiredInv ==
  /\ \A l \in Loop : since[l] <= now /\ (at[l] = "scan" => tick[l] <= since[l])
  /\ \A j \in Job : lastFire[j] <= now
  /\ starts <= 1 =>
       /\ \A l \in Loop, j \in Job : runs[l] = Shared =>
            /\ lastFire[j] <= since[l]
            /\ at[l] = "scan" => lastFire[j] <= tick[l]
       /\ \A j \in Job, m \in Minute :
            /\ fired[j][m] <= 1
            /\ fired[j][m] = 1 => m <= lastFire[j]

ScheduleInv ==
  TypeOK /\ TableInv /\ StateInv /\ ServedInv /\ RunnerInv /\ FiredInv

-----------------------------------------------------------------------------

(* Go statements.                                                          *)

LEMMA SlotExists ==
  ASSUME NEW S, NEW T, IsFiniteSet(S), IsFiniteSet(T),
         Cardinality(S) <= Cardinality(T)
  PROVE  \E f \in [S -> T] : \A x, y \in S : f[x] = f[y] => x = y
<1> DEFINE s == Cardinality(S)  t == Cardinality(T)
<1>1. s \in Nat /\ ExistsBijection(1 .. s, S)
  BY FS_CardinalityType
<1>2. t \in Nat /\ ExistsBijection(1 .. t, T)
  BY FS_CardinalityType
<1>3. PICK g : g \in Bijection(1 .. s, S)
  BY <1>1 DEF ExistsBijection
<1>4. PICK h : h \in Bijection(1 .. t, T)
  BY <1>2 DEF ExistsBijection
<1>5. /\ g \in [1 .. s -> S] /\ \A x \in S : \E i \in 1 .. s : g[i] = x
      /\ h \in [1 .. t -> T] /\ \A a, b \in 1 .. t : h[a] = h[b] => a = b
  BY <1>3, <1>4 DEF Bijection, Injection, IsInjective, Surjection
<1> DEFINE slot_(x) == CHOOSE i \in 1 .. s : g[i] = x
           f == [x \in S |-> h[slot_(x)]]
<1>6. \A x \in S : slot_(x) \in 1 .. s /\ g[slot_(x)] = x
  BY <1>5
<1>7. 1 .. s \subseteq 1 .. t
  BY <1>1, <1>2
<1>8. f \in [S -> T]
  BY <1>5, <1>6, <1>7
<1>9. \A x, y \in S : f[x] = f[y] => x = y
  BY <1>5, <1>6, <1>7
<1> HIDE DEF f
<1> QED
  BY <1>8, <1>9

LEMMA Launched ==
  ASSUME TypeOK, NEW S \in SUBSET (Job \cup {Shared}), Launch(S)
  PROVE  /\ \A l \in Loop :
              \/ runs'[l] = runs[l] /\ at'[l] = at[l] /\ since'[l] = since[l]
              \/ /\ runs[l] = NULL /\ runs'[l] \in S /\ at'[l] = "new"
                 /\ since'[l] = IF runs'[l] = Shared THEN now ELSE since[l]
         /\ \A x \in S : \E l \in Loop : runs'[l] = x /\ at'[l] = "new"
         /\ \A k, l \in Loop :
              runs[k] = NULL /\ runs[l] = NULL /\ runs'[k] = runs'[l] /\ runs'[k] # NULL
                => k = l
         /\ runs' \in [Loop -> Job \cup {Shared, NULL}]
         /\ at' \in [Loop -> {"new", "round", "select", "handle", "scan"}]
         /\ since' \in [Loop -> Minute]
         /\ UNCHANGED <<watch, tick>>
<1>1. IsFiniteSet(S)
  <2>1. IsFiniteSet(Job \cup {Shared})
    BY FS_AddElement
  <2> QED
    BY <2>1, FS_Subset
<1>2. IsFiniteSet(Free)
  <2>1. IsFiniteSet(Loop) /\ Free \in SUBSET Loop
    BY FS_Interval DEF Loop, Free
  <2> QED
    BY <2>1, FS_Subset
<1> DEFINE slot == CHOOSE f \in [S -> Free] : \A x, y \in S : f[x] = f[y] => x = y
           runner(l) == CHOOSE x \in S : slot[x] = l
           new == {slot[x] : x \in S}
<1>3. slot \in [S -> Free] /\ \A x, y \in S : slot[x] = slot[y] => x = y
  <2>1. \E f \in [S -> Free] : \A x, y \in S : f[x] = f[y] => x = y
    BY <1>1, <1>2, SlotExists DEF Launch
  <2> QED
    BY <2>1
<1>4. /\ runs' = [l \in Loop |-> IF l \in new THEN runner(l) ELSE runs[l]]
      /\ at' = [l \in Loop |-> IF l \in new THEN "new" ELSE at[l]]
      /\ since' = [l \in Loop |-> IF l \in new /\ runner(l) = Shared THEN now
                                                                ELSE since[l]]
      /\ UNCHANGED <<watch, tick>>
  BY DEF Launch
<1> HIDE DEF slot
<1>5. \A l \in new : runner(l) \in S /\ slot[runner(l)] = l
  OBVIOUS
<1>6. \A x \in S : slot[x] \in new /\ runner(slot[x]) = x
  BY <1>3, <1>5
<1>7. new \subseteq Loop /\ \A l \in new : runs[l] = NULL
  BY <1>3 DEF Free
<1> HIDE DEF runner, new
<1>8. \A x \in S : x # NULL
  OBVIOUS
<1> QED
  BY <1>3, <1>4, <1>5, <1>6, <1>7, <1>8 DEF TypeOK

(* What the three actions with go statements launch.                       *)

LEMMA LoopLaunches ==
  ASSUME TypeOK, NEW j \in Job, RegisterLoop(j)
  PROVE  \E S \in SUBSET {j, Shared} :
           /\ Launch(S)
           /\ Shared \in S <=> started /\ j \in Cron /\ ~cronLoopOn
           /\ j \in S <=> started /\ j \notin Cron
<1> DEFINE needCron == started /\ j \in Cron /\ ~cronLoopOn
           S == IF needCron THEN {Shared}
                ELSE IF started /\ j \notin Cron THEN {j} ELSE {}
<1>1. Launch(S)
  BY DEF RegisterLoop
<1>2. j # Shared
  OBVIOUS
<1>3. S \in SUBSET {j, Shared}
  OBVIOUS
<1>4. Shared \in S <=> needCron
  BY <1>2
<1>5. j \in S <=> started /\ j \notin Cron
  BY <1>2
<1> HIDE DEF S
<1> QED
  BY <1>1, <1>3, <1>4, <1>5

LEMMA StartLaunches ==
  ASSUME TypeOK, StartLaunch
  PROVE  \E S \in SUBSET (Job \cup {Shared}) :
           /\ Launch(S)
           /\ Shared \in S <=> \E j \in Cron : Listed(j)
           /\ \A j \in Job : j \in S <=> Listed(j) /\ j \notin Cron
           /\ cronLoopOn' <=> cronLoopOn \/ Shared \in S
<1> DEFINE snapshot == {j \in Job : Listed(j)}
           needCron == snapshot \cap Cron # {}
           S == (snapshot \ Cron) \cup (IF needCron THEN {Shared} ELSE {})
<1>1. Launch(S) /\ cronLoopOn' = (cronLoopOn \/ needCron)
  BY DEF StartLaunch
<1>2. Shared \in S <=> needCron
  OBVIOUS
<1>3. needCron <=> \E j \in Cron : Listed(j)
  OBVIOUS
<1>4. S \in SUBSET (Job \cup {Shared})
  OBVIOUS
<1>5. \A j \in Job : j \in S <=> Listed(j) /\ j \notin Cron
  OBVIOUS
<1>6. cronLoopOn' <=> cronLoopOn \/ Shared \in S
  BY <1>1, <1>2
<1> HIDE DEF S
<1> QED
  BY <1>1, <1>2, <1>3, <1>4, <1>5, <1>6

-----------------------------------------------------------------------------
(* Types                                                                   *)

LEMMA TypeInit == Init => TypeOK
<1> SUFFICES ASSUME Init PROVE TypeOK
  OBVIOUS
<1>1. started \in BOOLEAN /\ starting \in BOOLEAN /\ cronLoopOn \in BOOLEAN
  BY Zenon DEF Init
<1>2. fired \in [Job -> [Minute -> Nat]]
  BY DEF Init, Unfired
<1> QED
  BY <1>1, <1>2 DEF Init, TypeOK

LEMMA TypeNext ==
  ASSUME TypeOK, StateInv, [Next]_vars
  PROVE  TypeOK'
<1> USE DEF TypeOK
<1>1. ASSUME NEW j \in Job, RegisterTable(j) PROVE TypeOK'
  <2>1. fired' \in [Job -> [Minute -> Nat]]
    BY <1>1 DEF RegisterTable
  <2> QED
    BY <1>1, <2>1 DEF RegisterTable
<1>2. ASSUME NEW j \in Job, RegisterLoop(j) PROVE TypeOK'
  <2>1. PICK S \in SUBSET {j, Shared} : Launch(S)
    BY <1>2, LoopLaunches
  <2>2. /\ runs' \in [Loop -> Job \cup {Shared, NULL}]
        /\ at' \in [Loop -> {"new", "round", "select", "handle", "scan"}]
        /\ since' \in [Loop -> Minute]
        /\ UNCHANGED <<watch, tick>>
    BY <2>1, Launched
  <2>3. cronLoopOn' \in BOOLEAN
    BY <1>2, Zenon DEF RegisterLoop
  <2> QED
    BY <1>2, <2>2, <2>3 DEF RegisterLoop
<1>3. ASSUME NEW i \in Id, Cancel(i) \/ Pause(i) \/ Resume(i) PROVE TypeOK'
  BY <1>3 DEF Cancel, Pause, Resume
<1>4. CASE StartOpen
  <2>1. fired' \in [Job -> [Minute -> Nat]]
    BY <1>4 DEF StartOpen, Unfired
  <2>2. started' \in BOOLEAN /\ starting' \in BOOLEAN
    BY <1>4, Zenon DEF StartOpen
  <2>3. stopCh' \in 0 .. MaxStart /\ starts' \in 0 .. MaxStart
    BY <1>4 DEF StartOpen, StateInv
  <2> QED
    BY <1>4, <2>1, <2>2, <2>3 DEF StartOpen
<1>5. CASE StartLaunch
  <2>1. PICK S \in SUBSET (Job \cup {Shared}) : Launch(S)
    BY <1>5, StartLaunches
  <2>2. /\ runs' \in [Loop -> Job \cup {Shared, NULL}]
        /\ at' \in [Loop -> {"new", "round", "select", "handle", "scan"}]
        /\ since' \in [Loop -> Minute]
        /\ UNCHANGED <<watch, tick>>
    BY <2>1, Launched
  <2>3. starting' \in BOOLEAN
    BY <1>5, Zenon DEF StartLaunch
  <2>4. cronLoopOn' \in BOOLEAN
    BY <1>5, Zenon DEF StartLaunch
  <2> QED
    BY <1>5, <2>2, <2>3, <2>4 DEF StartLaunch
<1>6. CASE Stop
  BY <1>6 DEF Stop
<1>7. ASSUME NEW l \in Loop, Select(l) \/ HandlerEnds(l) \/ TryFire(l) \/ Ends(l)
      PROVE  TypeOK'
  <2>1. CASE Select(l)
    BY <2>1 DEF Select
  <2>2. CASE HandlerEnds(l)
    BY <2>2 DEF HandlerEnds
  <2>3. CASE TryFire(l)
    <3>1. at' \in [Loop -> {"new", "round", "select", "handle", "scan"}]
      BY <2>3 DEF TryFire
    <3>2. watch' \in [Loop -> 0 .. MaxStart]
      BY <2>3 DEF TryFire
    <3>3. UNCHANGED <<jobVars, startVars, runs, tick, since, now, histVars>>
      BY <2>3 DEF TryFire
    <3> QED
      BY <3>1, <3>2, <3>3
  <2>4. CASE Ends(l)
    BY <2>4 DEF Ends
  <2> QED
    BY <1>7, <2>1, <2>2, <2>3, <2>4
<1>8. ASSUME NEW l \in Loop, Tick(l) PROVE TypeOK'
  <2>1. PICK t \in since[l] .. now : tick' = [tick EXCEPT ![l] = t]
    BY <1>8 DEF Tick
  <2>2. t \in Minute
    OBVIOUS
  <2>3. /\ tick' \in [Loop -> Minute]
        /\ since' \in [Loop -> Minute]
    BY <1>8, <2>1, <2>2 DEF Tick
  <2>4. /\ at' \in [Loop -> {"new", "round", "select", "handle", "scan"}]
        /\ watch' \in [Loop -> 0 .. MaxStart]
    BY <1>8 DEF Tick
  <2>5. UNCHANGED <<jobVars, startVars, runs, now, histVars>>
    BY <1>8 DEF Tick
  <2> QED
    BY <2>3, <2>4, <2>5
<1>9. ASSUME NEW l \in Loop, Scan(l) PROVE TypeOK'
  <2>1. fired' \in [Job -> [Minute -> Nat]]
    <3> SUFFICES ASSUME NEW j \in Job
                 PROVE  (IF Fires(j, tick[l]) /\ starts = 1
                         THEN [fired[j] EXCEPT ![tick[l]] = @ + 1]
                         ELSE fired[j]) \in [Minute -> Nat]
      BY <1>9 DEF Scan
    <3>1. fired[j] \in [Minute -> Nat] /\ tick[l] \in Minute
      OBVIOUS
    <3> QED
      BY <3>1
  <2>2. lastFire' \in [Job -> 0 .. MaxMinute]
    BY <1>9 DEF Scan
  <2> QED
    BY <1>9, <2>1, <2>2 DEF Scan
<1>10. CASE Clock
  BY <1>10 DEF Clock
<1>11. CASE UNCHANGED vars
  BY <1>11 DEF vars
<1> QED
  BY <1>1, <1>2, <1>3, <1>4, <1>5, <1>6, <1>7, <1>8, <1>9, <1>10, <1>11
     DEF Next, Go

-----------------------------------------------------------------------------
(* The table and the flags                                                 *)

LEMMA TableNext ==
  ASSUME TypeOK, TableInv, [Next]_vars
  PROVE  TableInv'
<1> USE DEF TypeOK, TableInv
<1>1. ASSUME NEW j \in Job, RegisterTable(j) PROVE TableInv'
  <2> SUFFICES ASSUME NEW i \in Id, table'[i] # NULL
               PROVE  /\ IdOf[table'[i]] = i
                      /\ reg'[table'[i]] # "none"
                      /\ table'[i] \notin cancelled'
    OBVIOUS
  <2>1. CASE i = IdOf[j]
    BY <1>1, <2>1 DEF RegisterTable
  <2>2. CASE i # IdOf[j]
    BY <1>1, <2>2 DEF RegisterTable
  <2> QED
    BY <2>1, <2>2
<1>2. ASSUME NEW j \in Job, RegisterLoop(j) PROVE TableInv'
  BY <1>2 DEF RegisterLoop
<1>3. ASSUME NEW i \in Id, Cancel(i) PROVE TableInv'
  BY <1>3 DEF Cancel
<1>4. CASE UNCHANGED <<reg, table, cancelled>>
  BY <1>4
<1> QED
  BY <1>1, <1>2, <1>3, <1>4
     DEF Next, Go, vars, Pause, Resume, StartOpen, StartLaunch, Stop, Select,
         HandlerEnds, Scan, TryFire, Tick, Ends, Clock

LEMMA StateNext ==
  ASSUME TypeOK, StateInv, [Next]_vars
  PROVE  StateInv'
<1> DEFINE Loops == \A l \in Loop : /\ watch[l] <= stopCh
                                    /\ at[l] = "scan" => runs[l] = Shared
           Flags == /\ stopCh = starts
                    /\ starting => started /\ ~cronLoopOn
                    /\ cronLoopOn => started
<1>1. Loops /\ Flags
  BY DEF StateInv
<1>2. StateInv' <=> Loops' /\ Flags'
  BY DEF StateInv
<1> USE DEF TypeOK
<1>3. ASSUME NEW S \in SUBSET (Job \cup {Shared}), Launch(S), UNCHANGED stopCh
      PROVE  Loops'
  BY <1>1, <1>3, Launched
<1>5. ASSUME NEW j \in Job, RegisterTable(j) PROVE StateInv'
  BY <1>1, <1>2, <1>5 DEF RegisterTable
<1>6. ASSUME NEW j \in Job, RegisterLoop(j) PROVE StateInv'
  <2>1. PICK S \in SUBSET {j, Shared} : Launch(S)
    BY <1>6, LoopLaunches
  <2>2. Loops'
    BY <1>3, <1>6, <2>1 DEF RegisterLoop
  <2>3. UNCHANGED <<stopCh, starts, started, starting>> /\ ~starting
    BY <1>6 DEF RegisterLoop
  <2>4. cronLoopOn' => started
    BY <1>1, <1>6, Zenon DEF RegisterLoop
  <2> QED
    BY <1>1, <1>2, <2>2, <2>3, <2>4
<1>7. ASSUME NEW i \in Id, Cancel(i) \/ Pause(i) \/ Resume(i) PROVE StateInv'
  BY <1>1, <1>2, <1>7 DEF Cancel, Pause, Resume
<1>8. CASE StartOpen
  BY <1>1, <1>2, <1>8 DEF StartOpen
<1>9. CASE StartLaunch
  <2>1. PICK S \in SUBSET (Job \cup {Shared}) : Launch(S)
    BY <1>9, StartLaunches
  <2>2. Loops'
    BY <1>3, <1>9, <2>1 DEF StartLaunch
  <2>3. UNCHANGED <<stopCh, starts, started>> /\ starting /\ ~starting'
    BY <1>9 DEF StartLaunch
  <2> QED
    BY <1>1, <1>2, <2>2, <2>3
<1>10. CASE Stop
  BY <1>1, <1>2, <1>10 DEF Stop
<1>11. ASSUME NEW l \in Loop, Select(l) PROVE StateInv'
  BY <1>1, <1>2, <1>11 DEF Select
<1>12. ASSUME NEW l \in Loop, HandlerEnds(l) PROVE StateInv'
  BY <1>1, <1>2, <1>12 DEF HandlerEnds
<1>13. ASSUME NEW l \in Loop, Scan(l) PROVE StateInv'
  BY <1>1, <1>2, <1>13 DEF Scan
<1>14. ASSUME NEW l \in Loop, TryFire(l) PROVE StateInv'
  BY <1>1, <1>2, <1>14 DEF TryFire
<1>15. ASSUME NEW l \in Loop, Tick(l) PROVE StateInv'
  BY <1>1, <1>2, <1>15 DEF Tick
<1>16. ASSUME NEW l \in Loop, Ends(l) PROVE StateInv'
  BY <1>1, <1>2, <1>16 DEF Ends
<1>17. CASE Clock
  BY <1>1, <1>2, <1>17 DEF Clock
<1>18. CASE UNCHANGED vars
  BY <1>1, <1>2, <1>18 DEF vars
<1> QED
  BY <1>5, <1>6, <1>7, <1>8, <1>9, <1>10, <1>11, <1>12, <1>13, <1>14, <1>15,
     <1>16, <1>17, <1>18 DEF Next, Go

-----------------------------------------------------------------------------
(* Every job is served                                                     *)

JobsServed ==
  \A j \in Job : Listed(j) /\ reg[j] = "done" =>
    IF j \in Cron THEN cronLoopOn ELSE \E l \in Loop : runs[l] = j /\ Live(l)

CronServed == cronLoopOn => \E l \in Loop : runs[l] = Shared /\ Live(l)

(* A goroutine that no Stop and no Cancel has ended so far goes on.        *)
LEMMA LiveStays ==
  ASSUME TypeOK, TableInv, StateInv, [Next]_vars, started, started', UNCHANGED stopCh,
         NEW k \in Loop, runs[k] # NULL, runs[k] \notin cancelled, Live(k)
  PROVE  runs'[k] = runs[k] /\ Live(k)'
<1> USE DEF TypeOK, Live
<1>1. ASSUME NEW S \in SUBSET (Job \cup {Shared}), Launch(S) PROVE runs'[k] = runs[k] /\ Live(k)'
  BY <1>1, Launched
<1>2. CASE UNCHANGED loopVars
  BY <1>2
<1>3. ASSUME NEW j \in Job, RegisterLoop(j) PROVE runs'[k] = runs[k] /\ Live(k)'
  <2>1. PICK S \in SUBSET {j, Shared} : Launch(S)
    BY <1>3, LoopLaunches
  <2> QED
    BY <1>1, <2>1
<1>4. CASE StartLaunch
  BY <1>1, <1>4, StartLaunches
<1>5. ASSUME NEW l \in Loop, Select(l) PROVE runs'[k] = runs[k] /\ Live(k)'
  BY <1>5 DEF Select
<1>6. ASSUME NEW l \in Loop, HandlerEnds(l) PROVE runs'[k] = runs[k] /\ Live(k)'
  BY <1>6 DEF HandlerEnds
<1>7. ASSUME NEW l \in Loop, Scan(l) PROVE runs'[k] = runs[k] /\ Live(k)'
  BY <1>7 DEF Scan
<1>8. ASSUME NEW l \in Loop, TryFire(l) PROVE runs'[k] = runs[k] /\ Live(k)'
  BY <1>8 DEF TryFire
<1>9. ASSUME NEW l \in Loop, Tick(l) PROVE runs'[k] = runs[k] /\ Live(k)'
  BY <1>9 DEF Tick
<1>10. ASSUME NEW l \in Loop, Ends(l) PROVE runs'[k] = runs[k] /\ Live(k)'
  <2>1. l # k
    BY <1>10 DEF Ends, Closed
  <2> QED
    BY <1>10, <2>1 DEF Ends
<1> QED
  BY <1>2, <1>3, <1>4, <1>5, <1>6, <1>7, <1>8, <1>9, <1>10
     DEF Next, Go, vars, RegisterTable, Cancel, Pause, Resume, StartOpen, Stop, Clock

(* Neither the table nor the state of a Register changes but to the worse.  *)
LEMMA ServedStays ==
  ASSUME TypeOK, TableInv, StateInv, [Next]_vars, started, ~starting, started',
         UNCHANGED stopCh, JobsServed, CronServed, cronLoopOn' <=> cronLoopOn,
         \A j \in Job : Listed(j)' /\ reg'[j] = "done" => Listed(j) /\ reg[j] = "done"
  PROVE  JobsServed' /\ CronServed'
<1>1. \A k \in Loop : runs[k] # NULL /\ runs[k] \notin cancelled /\ Live(k)
                        => runs'[k] = runs[k] /\ Live(k)'
  BY LiveStays
<1>2. ASSUME NEW j \in Job, Listed(j)', reg'[j] = "done"
      PROVE  IF j \in Cron THEN cronLoopOn' ELSE \E l \in Loop : runs'[l] = j /\ Live(l)'
  <2>1. Listed(j) /\ reg[j] = "done"
    BY <1>2
  <2>2. j \notin cancelled
    BY <2>1 DEF Listed, TableInv
  <2>3. CASE j \in Cron
    BY <2>1, <2>3 DEF JobsServed
  <2>4. CASE j \notin Cron
    <3>1. PICK l \in Loop : runs[l] = j /\ Live(l)
      BY <2>1, <2>4 DEF JobsServed
    <3>2. runs'[l] = j /\ Live(l)'
      BY <1>1, <2>2, <3>1
    <3> QED
      BY <2>4, <3>2
  <2> QED
    BY <2>3, <2>4
<1>3. ASSUME cronLoopOn' PROVE \E l \in Loop : runs'[l] = Shared /\ Live(l)'
  <2>1. PICK l \in Loop : runs[l] = Shared /\ Live(l)
    BY <1>3 DEF CronServed
  <2>2. Shared \notin cancelled
    BY DEF TypeOK
  <2> QED
    BY <1>1, <2>1, <2>2
<1> QED
  BY <1>2, <1>3 DEF JobsServed, CronServed

LEMMA ServedNext ==
  ASSUME TypeOK, TableInv, StateInv, ServedInv, [Next]_vars
  PROVE  ServedInv'
<1>1. started /\ ~starting => JobsServed /\ CronServed
  BY DEF ServedInv, JobsServed, CronServed
<1>2. SUFFICES ASSUME started', ~starting' PROVE JobsServed' /\ CronServed'
  BY DEF ServedInv, JobsServed, CronServed
<1>3. ASSUME NEW j \in Job, RegisterLoop(j) PROVE JobsServed' /\ CronServed'
  <2>1. PICK S \in SUBSET {j, Shared} :
          /\ Launch(S)
          /\ Shared \in S <=> started /\ j \in Cron /\ ~cronLoopOn
          /\ j \in S <=> started /\ j \notin Cron
    BY <1>3, LoopLaunches
  <2>2. /\ started /\ ~starting /\ UNCHANGED <<stopCh, table, cancelled>>
        /\ reg' = [reg EXCEPT ![j] = "done"]
    BY <1>2, <1>3 DEF RegisterLoop
  <2>3. cronLoopOn' <=> cronLoopOn \/ (started /\ j \in Cron /\ ~cronLoopOn)
    BY <1>3 DEF RegisterLoop
  <2>4. \A x \in S : \E l \in Loop : runs'[l] = x /\ at'[l] = "new"
    <3>1. S \in SUBSET (Job \cup {Shared})
      OBVIOUS
    <3> QED
      BY <2>1, <3>1, Launched
  <2>5. \A k \in Loop : runs[k] # NULL /\ runs[k] \notin cancelled /\ Live(k)
                          => runs'[k] = runs[k] /\ Live(k)'
    BY <1>2, <2>2, LiveStays
  <2>6. CronServed'
    <3>1. CASE cronLoopOn
      <4>1. PICK l \in Loop : runs[l] = Shared /\ Live(l)
        BY <1>1, <2>2, <3>1 DEF CronServed
      <4>2. Shared \notin cancelled
        BY DEF TypeOK
      <4> QED
        BY <2>5, <4>1, <4>2 DEF CronServed
    <3>2. CASE ~cronLoopOn
      BY <2>1, <2>3, <2>4, <3>2 DEF CronServed, Live
    <3> QED
      BY <3>1, <3>2
  <2>7. ASSUME NEW x \in Job, Listed(x)', reg'[x] = "done"
        PROVE  IF x \in Cron THEN cronLoopOn' ELSE \E l \in Loop : runs'[l] = x /\ Live(l)'
    <3>1. Listed(x) /\ x \notin cancelled
      BY <2>2, <2>7 DEF Listed, TableInv
    <3>2. CASE x = j
      <4>1. CASE j \in Cron
        BY <2>2, <2>3, <3>2, <4>1
      <4>2. CASE j \notin Cron
        <5>1. PICK l \in Loop : runs'[l] = j /\ at'[l] = "new"
          BY <2>1, <2>2, <2>4, <4>2
        <5> QED
          BY <3>2, <4>2, <5>1 DEF Live
      <4> QED
        BY <4>1, <4>2
    <3>3. CASE x # j
      <4>1. reg[x] = "done"
        BY <2>2, <2>7, <3>3 DEF TypeOK
      <4>2. CASE x \in Cron
        BY <1>1, <2>2, <2>3, <3>1, <4>1, <4>2 DEF JobsServed
      <4>3. CASE x \notin Cron
        <5>1. PICK l \in Loop : runs[l] = x /\ Live(l)
          BY <1>1, <2>2, <3>1, <4>1, <4>3 DEF JobsServed
        <5>2. runs'[l] = x /\ Live(l)'
          BY <2>5, <3>1, <5>1
        <5> QED
          BY <4>3, <5>2
      <4> QED
        BY <4>2, <4>3
    <3> QED
      BY <3>2, <3>3
  <2> QED
    BY <2>6, <2>7 DEF JobsServed
<1>4. CASE StartLaunch
  <2>1. PICK S \in SUBSET (Job \cup {Shared}) :
          /\ Launch(S)
          /\ Shared \in S <=> \E j \in Cron : Listed(j)
          /\ \A j \in Job : j \in S <=> Listed(j) /\ j \notin Cron
          /\ cronLoopOn' <=> cronLoopOn \/ Shared \in S
    BY <1>4, StartLaunches
  <2>2. \A x \in S : \E l \in Loop : runs'[l] = x /\ at'[l] = "new"
    BY <2>1, Launched
  <2>3. ~cronLoopOn /\ UNCHANGED <<table, reg>>
    BY <1>4 DEF StartLaunch, StateInv
  <2>4. CronServed'
    BY <2>1, <2>2, <2>3 DEF CronServed, Live
  <2>5. ASSUME NEW x \in Job, Listed(x)'
        PROVE  IF x \in Cron THEN cronLoopOn' ELSE \E l \in Loop : runs'[l] = x /\ Live(l)'
    <3>1. Listed(x)
      BY <2>3, <2>5 DEF Listed
    <3>2. CASE x \in Cron
      BY <2>1, <3>1, <3>2
    <3>3. CASE x \notin Cron
      <4>1. PICK l \in Loop : runs'[l] = x /\ at'[l] = "new"
        BY <2>1, <2>2, <3>1, <3>3
      <4> QED
        BY <3>3, <4>1 DEF Live
    <3> QED
      BY <3>2, <3>3
  <2> QED
    BY <2>4, <2>5 DEF JobsServed
<1>5. CASE StartOpen \/ Stop
  BY <1>2, <1>5 DEF StartOpen, Stop
<1>6. ASSUME started, ~starting, UNCHANGED <<stopCh, cronLoopOn>>,
             \A j \in Job : Listed(j)' /\ reg'[j] = "done" => Listed(j) /\ reg[j] = "done"
      PROVE  JobsServed' /\ CronServed'
  BY <1>1, <1>2, <1>6, ServedStays
<1>7. ASSUME NEW j \in Job, RegisterTable(j) PROVE JobsServed' /\ CronServed'
  <2>1. \A x \in Job : Listed(x)' /\ reg'[x] = "done" => Listed(x) /\ reg[x] = "done"
    BY <1>7 DEF RegisterTable, Listed, TypeOK
  <2>2. started /\ ~starting /\ UNCHANGED <<stopCh, cronLoopOn>>
    BY <1>2, <1>7 DEF RegisterTable
  <2> QED
    BY <1>6, <2>1, <2>2
<1>8. ASSUME NEW i \in Id, Cancel(i) PROVE JobsServed' /\ CronServed'
  <2>1. \A x \in Job : Listed(x)' /\ reg'[x] = "done" => Listed(x) /\ reg[x] = "done"
    BY <1>8 DEF Cancel, Listed, TypeOK
  <2>2. started /\ ~starting /\ UNCHANGED <<stopCh, cronLoopOn>>
    BY <1>2, <1>8 DEF Cancel
  <2> QED
    BY <1>6, <2>1, <2>2
<1>9. CASE UNCHANGED <<reg, table, startVars>>
  <2>1. \A x \in Job : Listed(x)' /\ reg'[x] = "done" => Listed(x) /\ reg[x] = "done"
    BY <1>9 DEF Listed
  <2> QED
    BY <1>2, <1>6, <1>9, <2>1
<1> QED
  BY <1>3, <1>4, <1>5, <1>7, <1>8, <1>9
     DEF Next, Go, vars, Pause, Resume, Select, HandlerEnds, Scan, TryFire, Tick,
         Ends, Clock

-----------------------------------------------------------------------------
(* One goroutine each                                                      *)

OneEach(x) == \A k, l \in Loop : runs[k] = x /\ runs[l] = x => k = l

NoneOf(x) == \A l \in Loop : runs[l] # x

LEMMA LaunchedOnce ==
  ASSUME TypeOK, NEW S \in SUBSET (Job \cup {Shared}), Launch(S),
         NEW x \in Job \cup {Shared}, OneEach(x), x \in S => NoneOf(x)
  PROVE  OneEach(x)' /\ (NoneOf(x) /\ x \notin S => NoneOf(x)')
<1>1. \A l \in Loop : runs'[l] = runs[l] \/ (runs[l] = NULL /\ runs'[l] \in S)
  BY Launched
<1>2. \A k, l \in Loop :
        runs[k] = NULL /\ runs[l] = NULL /\ runs'[k] = runs'[l] /\ runs'[k] # NULL => k = l
  BY Launched
<1>3. x # NULL
  OBVIOUS
<1>4. CASE x \in S
  BY <1>1, <1>2, <1>3, <1>4 DEF OneEach, NoneOf
<1>5. CASE x \notin S
  BY <1>1, <1>3, <1>5 DEF OneEach, NoneOf
<1> QED
  BY <1>4, <1>5

(* What a step that launches nothing leaves of these.                      *)
LEMMA RunnerFrame ==
  ASSUME TypeOK, RunnerInv, starts <= 1, UNCHANGED <<reg, startVars, starts, straddled>>,
         \A l \in Loop : runs'[l] \in {runs[l], NULL}
  PROVE  RunnerInv'
<1>1. Shared # NULL /\ \A j \in Job : j # NULL
  OBVIOUS
<1> QED
  BY <1>1, Zenon DEF RunnerInv, startVars

LEMMA RunnerNext ==
  ASSUME TypeOK, TableInv, StateInv, RunnerInv, [Next]_vars
  PROVE  RunnerInv'
<1>1. SUFFICES ASSUME starts' <= 1 PROVE RunnerInv'
  BY DEF RunnerInv
<1>2. starts <= 1
  <2>1. starts \in Nat
    BY DEF TypeOK
  <2>2. CASE StartOpen
    BY <1>1, <2>1, <2>2 DEF StartOpen
  <2>3. CASE UNCHANGED starts
    BY <1>1, <2>3
  <2> QED
    BY <2>2, <2>3
       DEF Next, Go, vars, RegisterTable, RegisterLoop, Cancel, Pause, Resume,
           StartLaunch, Stop, Select, HandlerEnds, Scan, TryFire, Tick, Ends, Clock
<1>3. /\ starts = 0 => ~started
      /\ starts = 0 \/ starting => \A l \in Loop : runs[l] = NULL
      /\ started /\ ~cronLoopOn => NoneOf(Shared)
      /\ OneEach(Shared)
      /\ \A j \in straddled : reg[j] # "none"
      /\ \A j \in Job \ straddled : OneEach(j) /\ (reg[j] # "done" => NoneOf(j))
  BY <1>2 DEF RunnerInv, OneEach, NoneOf
<1> DEFINE Goal == /\ starts' = 0 => ~started'
                   /\ starts' = 0 \/ starting' => \A l \in Loop : runs'[l] = NULL
                   /\ started' /\ ~cronLoopOn' => NoneOf(Shared)'
                   /\ OneEach(Shared)'
                   /\ \A j \in straddled' : reg'[j] # "none"
                   /\ \A j \in Job \ straddled' :
                        OneEach(j)' /\ (reg'[j] # "done" => NoneOf(j)')
<1>4. Goal => RunnerInv'
  BY <1>1 DEF RunnerInv, OneEach, NoneOf
<1>5. ASSUME NEW j \in Job, RegisterTable(j) PROVE Goal
  <2>1. /\ UNCHANGED <<starts, started, starting, cronLoopOn, runs>>
        /\ reg' = [reg EXCEPT ![j] = "table"]
        /\ straddled' = straddled \ {j}
        /\ reg[j] = "none" \/ (reg[j] = "done" /\ NoneOf(j))
    BY <1>5 DEF RegisterTable, Unused, NoneOf
  <2>2. NoneOf(j)
    BY <1>3, <2>1
  <2>3. \A x : (NoneOf(x)' <=> NoneOf(x)) /\ (OneEach(x)' <=> OneEach(x))
    BY <2>1 DEF NoneOf, OneEach
  <2>4. OneEach(j)
    BY <2>2 DEF NoneOf, OneEach
  <2>5. \A x \in Job : reg'[x] = IF x = j THEN "table" ELSE reg[x]
    BY <2>1 DEF TypeOK
  <2>6. straddled' \subseteq Job
    BY <2>1 DEF TypeOK
  <2> QED
    BY <1>3, <2>1, <2>2, <2>3, <2>4, <2>5, <2>6
<1>6. ASSUME NEW j \in Job, RegisterLoop(j) PROVE Goal
  <2>1. PICK S \in SUBSET {j, Shared} :
          /\ Launch(S)
          /\ Shared \in S <=> started /\ j \in Cron /\ ~cronLoopOn
          /\ j \in S <=> started /\ j \notin Cron
    BY <1>6, LoopLaunches
  <2>2. /\ ~starting /\ reg[j] = "table"
        /\ UNCHANGED <<starts, started, starting, straddled>>
        /\ reg' = [reg EXCEPT ![j] = "done"]
        /\ cronLoopOn' <=> cronLoopOn \/ (started /\ j \in Cron /\ ~cronLoopOn)
    BY <1>6 DEF RegisterLoop
  <2>3. S \in SUBSET (Job \cup {Shared})
    OBVIOUS
  <2>4. ~starting' /\ (starts' = 0 => ~started')
    BY <1>3, <2>2
  <2>5. starts' = 0 => \A l \in Loop : runs'[l] = NULL
    BY <1>3, <2>1, <2>2, <2>3, Launched
  <2>6. OneEach(Shared)' /\ (started' /\ ~cronLoopOn' => NoneOf(Shared)')
    BY <1>3, <2>1, <2>2, <2>3, LaunchedOnce
  <2>7. \A x \in Job : reg'[x] = IF x = j THEN "done" ELSE reg[x]
    BY <2>2 DEF TypeOK
  <2>8. \A x \in straddled' : reg'[x] # "none"
    BY <1>3, <2>2, <2>7 DEF TypeOK
  <2>9. ASSUME NEW x \in Job \ straddled'
        PROVE  OneEach(x)' /\ (reg'[x] # "done" => NoneOf(x)')
    <3>1. x \in Job \ straddled /\ x # Shared
      BY <2>2
    <3>2. OneEach(x) /\ (reg[x] # "done" => NoneOf(x))
      BY <1>3, <3>1
    <3>3. x \in S => x = j /\ NoneOf(x)
      BY <2>2, <3>1, <3>2
    <3> QED
      BY <2>1, <2>3, <2>7, <3>2, <3>3, LaunchedOnce
  <2> QED
    BY <2>4, <2>5, <2>6, <2>8, <2>9
<1>7. CASE StartLaunch
  <2>1. PICK S \in SUBSET (Job \cup {Shared}) :
          /\ Launch(S)
          /\ Shared \in S <=> \E j \in Cron : Listed(j)
          /\ \A j \in Job : j \in S <=> Listed(j) /\ j \notin Cron
          /\ cronLoopOn' <=> cronLoopOn \/ Shared \in S
    BY <1>7, StartLaunches
  <2>2. /\ starting /\ ~starting' /\ UNCHANGED <<starts, started, reg, table>>
        /\ straddled' = {j \in Job : starts = 1 /\ reg[j] = "table"}
    BY <1>7 DEF StartLaunch
  <2>3. \A x \in Job \cup {Shared} : NoneOf(x) /\ OneEach(x)
    BY <1>3, <2>2 DEF NoneOf, OneEach
  <2>4. starts = 1 /\ started
    BY <1>2, <1>3, <2>2 DEF TypeOK, StateInv
  <2>5. \A x \in Job \cup {Shared} : OneEach(x)' /\ (x \notin S => NoneOf(x)')
    BY <2>1, <2>3, LaunchedOnce
  <2>6. ASSUME NEW x \in Job \ straddled', reg'[x] # "done" PROVE NoneOf(x)'
    <3>1. reg[x] = "none"
      BY <2>2, <2>4, <2>6 DEF TypeOK
    <3>2. ~Listed(x)
      BY <3>1 DEF Listed, TableInv
    <3> QED
      BY <2>1, <2>5, <3>2
  <2> QED
    BY <1>4, <2>1, <2>2, <2>4, <2>5, <2>6
<1>8. CASE StartOpen
  <2>1. /\ starts' = starts + 1 /\ straddled' = {} /\ UNCHANGED <<reg, runs, cronLoopOn>>
    BY <1>8 DEF StartOpen
  <2>2. starts = 0
    BY <1>1, <2>1 DEF TypeOK
  <2>3. \A l \in Loop : runs'[l] = NULL
    BY <1>3, <2>1, <2>2
  <2>4. \A x \in Job \cup {Shared} : NoneOf(x)' /\ OneEach(x)'
    BY <2>3 DEF NoneOf, OneEach
  <2> QED
    BY <1>4, <2>1, <2>2, <2>3, <2>4
<1>9. CASE Stop
  <2>1. ~started' /\ ~starting /\ UNCHANGED <<starts, starting, straddled, reg, runs>>
    BY <1>9 DEF Stop
  <2>2. \A x : (NoneOf(x)' <=> NoneOf(x)) /\ (OneEach(x)' <=> OneEach(x))
    BY <2>1 DEF NoneOf, OneEach
  <2> QED
    BY <1>4, <1>3, <2>1, <2>2
<1>10. ASSUME NEW l \in Loop, Ends(l) PROVE RunnerInv'
  <2>1. /\ runs' = [runs EXCEPT ![l] = NULL]
        /\ UNCHANGED <<reg, startVars, starts, straddled>>
    BY <1>10 DEF Ends
  <2>2. \A k \in Loop : runs'[k] \in {runs[k], NULL}
    BY <2>1 DEF TypeOK
  <2> QED
    BY <1>2, <2>1, <2>2, RunnerFrame
<1>11. CASE UNCHANGED <<reg, startVars, starts, straddled, runs>>
  <2>1. \A l \in Loop : runs'[l] \in {runs[l], NULL}
    BY <1>11
  <2> QED
    BY <1>2, <1>11, <2>1, RunnerFrame
<1> HIDE DEF Goal
<1> QED
  BY <1>4, <1>5, <1>6, <1>7, <1>8, <1>9, <1>10, <1>11
     DEF Next, Go, vars, Cancel, Pause, Resume, Select, HandlerEnds, Scan,
         TryFire, Tick, Clock

-----------------------------------------------------------------------------
(* Once in a minute                                                        *)

LEMMA FiredNext ==
  ASSUME TypeOK, StateInv, RunnerInv, FiredInv, [Next]_vars
  PROVE  FiredInv'
<1> USE DEF TypeOK
<1> DEFINE Times == /\ \A l \in Loop : /\ since[l] <= now
                                       /\ at[l] = "scan" => tick[l] <= since[l]
                    /\ \A j \in Job : lastFire[j] <= now
           Past == \A l \in Loop, j \in Job : runs[l] = Shared =>
                     /\ lastFire[j] <= since[l]
                     /\ at[l] = "scan" => lastFire[j] <= tick[l]
           Once == \A j \in Job, m \in Minute : /\ fired[j][m] <= 1
                                                /\ fired[j][m] = 1 => m <= lastFire[j]
<1>1. Times /\ (starts <= 1 => Past /\ Once)
  BY DEF FiredInv
<1>2. FiredInv' <=> Times' /\ (starts' <= 1 => Past' /\ Once')
  BY DEF FiredInv
<1>3. ASSUME NEW S \in SUBSET (Job \cup {Shared}), Launch(S), UNCHANGED <<lastFire, now>>
      PROVE  Times' /\ (starts <= 1 => Past')
  <2>1. /\ \A l \in Loop :
             \/ runs'[l] = runs[l] /\ at'[l] = at[l] /\ since'[l] = since[l]
             \/ /\ runs[l] = NULL /\ runs'[l] \in S /\ at'[l] = "new"
                /\ since'[l] = IF runs'[l] = Shared THEN now ELSE since[l]
        /\ UNCHANGED tick
    BY <1>3, Launched
  <2>2. Times'
    <3>1. ASSUME NEW l \in Loop
          PROVE  since'[l] <= now' /\ (at'[l] = "scan" => tick'[l] <= since'[l])
      <4>1. CASE at'[l] = at[l] /\ since'[l] = since[l]
        BY <1>1, <1>3, <2>1, <4>1
      <4>2. CASE at'[l] = "new" /\ since'[l] \in {now, since[l]}
        BY <1>1, <1>3, <4>2
      <4> QED
        BY <2>1, <4>1, <4>2
    <3> QED
      BY <1>1, <1>3, <3>1
  <2>3. ASSUME starts <= 1, NEW l \in Loop, NEW j \in Job, runs'[l] = Shared
        PROVE  /\ lastFire'[j] <= since'[l]
               /\ at'[l] = "scan" => lastFire'[j] <= tick'[l]
    <3>1. CASE runs'[l] = runs[l] /\ at'[l] = at[l] /\ since'[l] = since[l]
      BY <1>1, <1>3, <2>1, <2>3, <3>1
    <3>2. CASE at'[l] = "new" /\ since'[l] = now
      BY <1>1, <1>3, <3>2
    <3> QED
      BY <2>1, <2>3, <3>1, <3>2
  <2> QED
    BY <2>2, <2>3
<1>4. ASSUME NEW j \in Job, RegisterTable(j) PROVE FiredInv'
  <2>1. /\ UNCHANGED <<loopVars, now, starts>>
        /\ lastFire' = [lastFire EXCEPT ![j] = 0]
        /\ fired' = [fired EXCEPT ![j] = [m \in Minute |-> 0]]
    BY <1>4 DEF RegisterTable
  <2>2. /\ \A x \in Job : lastFire'[x] = IF x = j THEN 0 ELSE lastFire[x]
        /\ \A x \in Job, m \in Minute : fired'[x][m] = IF x = j THEN 0 ELSE fired[x][m]
    BY <2>1
  <2>3. /\ \A x \in Job : lastFire'[x] \in {0, lastFire[x]}
        /\ \A l \in Loop : 0 <= since[l] /\ 0 <= tick[l]
        /\ 0 <= now
    BY <2>2
  <2>4. Times'
    BY <1>1, <2>1, <2>3
  <2>5. starts <= 1 => Past'
    BY <1>1, <2>1, <2>3
  <2>6. ASSUME starts <= 1, NEW x \in Job, NEW m \in Minute
        PROVE  fired'[x][m] <= 1 /\ (fired'[x][m] = 1 => m <= lastFire'[x])
    <3>1. CASE x = j
      BY <2>2, <3>1
    <3>2. CASE x # j
      <4>1. fired'[x][m] = fired[x][m] /\ lastFire'[x] = lastFire[x]
        BY <2>2, <3>2
      <4>2. fired[x][m] <= 1 /\ (fired[x][m] = 1 => m <= lastFire[x])
        BY <1>1, <2>6
      <4> QED
        BY <4>1, <4>2
    <3> QED
      BY <3>1, <3>2
  <2> QED
    BY <1>2, <2>1, <2>4, <2>5, <2>6
<1>5. ASSUME NEW j \in Job, RegisterLoop(j) PROVE FiredInv'
  <2>1. PICK S \in SUBSET {j, Shared} : Launch(S)
    BY <1>5, LoopLaunches
  <2>2. UNCHANGED <<lastFire, now, starts, fired>>
    BY <1>5 DEF RegisterLoop
  <2>3. Times' /\ (starts <= 1 => Past')
    BY <1>3, <2>1, <2>2
  <2> QED
    BY <1>1, <1>2, <2>2, <2>3
<1>6. CASE StartLaunch
  <2>1. PICK S \in SUBSET (Job \cup {Shared}) : Launch(S)
    BY <1>6, StartLaunches
  <2>2. UNCHANGED <<lastFire, now, starts, fired>>
    BY <1>6 DEF StartLaunch
  <2>3. Times' /\ (starts <= 1 => Past')
    BY <1>3, <2>1, <2>2
  <2> QED
    BY <1>1, <1>2, <2>2, <2>3
<1>7. CASE StartOpen
  <2>1. /\ starts' = starts + 1 /\ UNCHANGED <<lastFire, now, loopVars>>
        /\ \A j \in Job, m \in Minute : fired'[j][m] = 0
    BY <1>7 DEF StartOpen, Unfired
  <2>2. Times' /\ Once'
    BY <1>1, <2>1
  <2>3. starts' <= 1 => Past'
    BY <1>1, <2>1
  <2> QED
    BY <1>2, <2>2, <2>3
<1>8. ASSUME NEW k \in Loop, Tick(k) PROVE FiredInv'
  <2>1. PICK t \in since[k] .. now : tick' = [tick EXCEPT ![k] = t]
    BY <1>8 DEF Tick
  <2>2. /\ at' = [at EXCEPT ![k] = "scan"]
        /\ since' = [since EXCEPT ![k] = now]
        /\ UNCHANGED <<runs, lastFire, now, starts, fired>>
    BY <1>8 DEF Tick
  <2>3. t \in Int /\ since[k] <= t /\ t <= now
    OBVIOUS
  <2>4. Times'
    BY <1>1, <2>1, <2>2, <2>3
  <2>5. starts <= 1 => Past'
    <3> SUFFICES ASSUME starts <= 1, NEW l \in Loop, NEW j \in Job, runs'[l] = Shared
                 PROVE  /\ lastFire'[j] <= since'[l]
                        /\ at'[l] = "scan" => lastFire'[j] <= tick'[l]
      OBVIOUS
    <3>1. lastFire[j] <= since[l]
      BY <1>1, <2>2
    <3>2. CASE l = k
      BY <2>1, <2>2, <2>3, <3>1, <3>2
    <3>3. CASE l # k
      BY <1>1, <2>1, <2>2, <3>3
    <3> QED
      BY <3>2, <3>3
  <2> QED
    BY <1>1, <1>2, <2>2, <2>4, <2>5
<1>9. ASSUME NEW k \in Loop, Scan(k) PROVE FiredInv'
  <2> DEFINE t == tick[k]
  <2>1. /\ \A j \in Job : lastFire'[j] = IF Fires(j, t) THEN t ELSE lastFire[j]
        /\ \A j \in Job : fired'[j] = IF Fires(j, t) /\ starts = 1
                                      THEN [fired[j] EXCEPT ![t] = @ + 1]
                                      ELSE fired[j]
        /\ at' = [at EXCEPT ![k] = "round"] /\ tick' = [tick EXCEPT ![k] = 1]
        /\ UNCHANGED <<runs, since, now, starts>>
    BY <1>9 DEF Scan
  <2>2. at[k] = "scan" /\ runs[k] = Shared
    BY <1>9 DEF Scan, StateInv
  <2>3. t \in Minute /\ t <= since[k] /\ since[k] <= now
    BY <1>1, <2>2
  <2>4. Times'
    <3>1. ASSUME NEW l \in Loop
          PROVE  since'[l] <= now' /\ (at'[l] = "scan" => tick'[l] <= since'[l])
      <4>1. CASE l = k
        BY <2>1, <2>3, <4>1
      <4>2. CASE l # k
        BY <1>1, <2>1, <4>2
      <4> QED
        BY <4>1, <4>2
    <3>2. t <= now
      BY <2>3
    <3>3. \A j \in Job : lastFire'[j] <= now'
      BY <1>1, <2>1, <3>2
    <3> QED
      BY <3>1, <3>3
  <2>5. ASSUME starts <= 1 PROVE Past'
    <3> SUFFICES ASSUME NEW l \in Loop, NEW j \in Job, runs'[l] = Shared
                 PROVE  /\ lastFire'[j] <= since'[l]
                        /\ at'[l] = "scan" => lastFire'[j] <= tick'[l]
      OBVIOUS
    <3>1. l = k
      BY <2>1, <2>2, <2>5 DEF RunnerInv
    <3> QED
      BY <1>1, <2>1, <2>2, <2>3, <2>5, <3>1
  <2>6. ASSUME starts <= 1, NEW j \in Job, NEW m \in Minute
        PROVE  fired'[j][m] <= 1 /\ (fired'[j][m] = 1 => m <= lastFire'[j])
    <3>1. lastFire[j] <= t /\ lastFire[j] \in Int /\ t \in Int /\ m \in Int
      BY <1>1, <2>2, <2>3, <2>6
    <3>2. /\ fired[j] \in [Minute -> Nat] /\ fired[j][m] \in Nat /\ fired[j][m] <= 1
          /\ fired[j][m] = 1 => m <= lastFire[j]
      BY <1>1, <2>6
    <3>3. CASE ~Fires(j, t)
      BY <2>1, <3>2, <3>3
    <3>4. CASE Fires(j, t)
      <4>1. lastFire'[j] = t /\ lastFire[j] < t
        BY <2>1, <3>1, <3>4 DEF Fires
      <4>2. CASE m = t
        <5>1. fired[j][m] = 0
          BY <3>1, <3>2, <4>1, <4>2
        <5>2. fired'[j][m] \in {fired[j][m], fired[j][m] + 1}
          BY <2>1, <3>2, <4>2
        <5> QED
          BY <4>1, <4>2, <5>1, <5>2, <3>1
      <4>3. CASE m # t
        <5>1. fired'[j][m] = fired[j][m]
          BY <2>1, <3>2, <4>3
        <5> QED
          BY <3>1, <3>2, <4>1, <5>1
      <4> QED
        BY <4>2, <4>3
    <3> QED
      BY <3>3, <3>4
  <2> QED
    BY <1>2, <2>1, <2>4, <2>5, <2>6
<1>10. ASSUME NEW l \in Loop, Select(l) PROVE FiredInv'
  BY <1>1, <1>2, <1>10 DEF Select
<1>11. ASSUME NEW l \in Loop, HandlerEnds(l) PROVE FiredInv'
  BY <1>1, <1>2, <1>11 DEF HandlerEnds
<1>12. ASSUME NEW l \in Loop, TryFire(l) PROVE FiredInv'
  BY <1>1, <1>2, <1>12 DEF TryFire
<1>13. ASSUME NEW l \in Loop, Ends(l) PROVE FiredInv'
  <2>1. /\ at[l] = "select"
        /\ runs' = [runs EXCEPT ![l] = NULL] /\ at' = [at EXCEPT ![l] = "new"]
        /\ since' = [since EXCEPT ![l] = 1]
        /\ UNCHANGED <<tick, lastFire, now, starts, fired>>
    BY <1>13 DEF Ends
  <2>2. Times'
    BY <1>1, <2>1
  <2>3. starts <= 1 => Past'
    BY <1>1, <2>1
  <2> QED
    BY <1>1, <1>2, <2>1, <2>2, <2>3
<1>14. CASE Clock
  <2>1. now' = now + 1 /\ UNCHANGED <<loopVars, lastFire, starts, fired>>
    BY <1>14 DEF Clock
  <2>2. Times'
    BY <1>1, <2>1
  <2> QED
    BY <1>1, <1>2, <2>1, <2>2
<1>15. CASE UNCHANGED <<loopVars, lastFire, now, starts, fired>>
  BY <1>1, <1>2, <1>15
<1> QED
  BY <1>4, <1>5, <1>6, <1>7, <1>8, <1>9, <1>10, <1>11, <1>12, <1>13, <1>14, <1>15
     DEF Next, Go, vars, Cancel, Pause, Resume, Stop

-----------------------------------------------------------------------------
(* The theorems                                                            *)

LEMMA ScheduleInit == Init => ScheduleInv
<1> SUFFICES ASSUME Init PROVE ScheduleInv
  OBVIOUS
<1>1. TypeOK
  BY TypeInit
<1>2. TableInv /\ StateInv
  BY DEF Init, TableInv, StateInv
<1>3. ServedInv /\ RunnerInv
  BY DEF Init, ServedInv, RunnerInv
<1>4. FiredInv
  BY DEF Init, FiredInv, Unfired
<1> QED
  BY <1>1, <1>2, <1>3, <1>4 DEF ScheduleInv

LEMMA ScheduleCorrect == Spec => []ScheduleInv
<1>1. Init => ScheduleInv
  BY ScheduleInit
<1>2. ScheduleInv /\ [Next]_vars => ScheduleInv'
  BY TypeNext, TableNext, StateNext, ServedNext, RunnerNext, FiredNext
     DEF ScheduleInv
<1> QED
  BY <1>1, <1>2, PTL DEF Spec

(* Every variable of the scheduler keeps its type.                         *)
THEOREM TypeCorrect == Spec => []TypeOK
<1>1. ScheduleInv => TypeOK
  BY DEF ScheduleInv
<1> QED
  BY <1>1, ScheduleCorrect, PTL

(* However Register, Start, Stop and Cancel interleave, a registered job of *)
(* a scheduler that has been started once has a goroutine that neither Stop *)
(* nor a Cancel ends.                                                       *)
THEOREM EveryJobServed == Spec => []EveryJobIsServed
<1>1. ASSUME ScheduleInv PROVE EveryJobIsServed
  <2> SUFFICES ASSUME started, ~starting, starts <= 1, NEW j \in Job, Listed(j),
                      reg[j] = "done"
               PROVE  /\ j \notin cancelled
                      /\ \E l \in RunnersOf(j) : at[l] = "select" => ~Closed(watch[l])
    BY DEF EveryJobIsServed
  <2> USE <1>1 DEF ScheduleInv
  <2>1. j \notin cancelled
    BY DEF TableInv, Listed
  <2>2. PICK l \in Loop : runs[l] = RunnerOf(j) /\ Live(l)
    <3>1. CASE j \in Cron
      BY <3>1 DEF ServedInv, RunnerOf
    <3>2. CASE j \notin Cron
      BY <3>2 DEF ServedInv, RunnerOf
    <3> QED
      BY <3>1, <3>2
  <2>3. at[l] = "select" => ~Closed(watch[l])
    BY <2>2 DEF Live, Closed, TypeOK
  <2> QED
    BY <2>1, <2>2, <2>3 DEF RunnersOf
<1> QED
  BY <1>1, ScheduleCorrect, PTL

(* Until it is started again, the scheduler runs a job in one goroutine, and *)
(* all cron jobs in one, unless Start met the Register of the job halfway.   *)
THEOREM OneRunner == Spec => []OneRunnerEach
<1>1. ASSUME ScheduleInv PROVE OneRunnerEach
  <2> SUFFICES ASSUME starts <= 1, NEW j \in Job, j \in Cron \/ j \notin straddled
               PROVE  Cardinality(RunnersOf(j)) <= 1
    BY DEF OneRunnerEach
  <2>1. \A k, l \in RunnersOf(j) : k = l
    BY <1>1 DEF ScheduleInv, RunnerInv, RunnersOf, RunnerOf
  <2>2. CASE RunnersOf(j) = {}
    BY <2>2, FS_EmptySet
  <2>3. CASE RunnersOf(j) # {}
    <3>1. PICK l \in RunnersOf(j) : RunnersOf(j) = {l}
      BY <2>1, <2>3
    <3> QED
      BY <3>1, FS_Singleton
  <2> QED
    BY <2>2, <2>3
<1> QED
  BY <1>1, ScheduleCorrect, PTL

(* Until the scheduler is started again, a registered cron job is started   *)
(* once in a minute at most, however late its ticks are.                    *)
THEOREM OnceEachMinute == Spec => []OncePerMinute
<1>1. ScheduleInv => OncePerMinute
  BY DEF ScheduleInv, FiredInv, OncePerMinute
<1> QED
  BY <1>1, ScheduleCorrect, PTL

(* Only a minute in which a job is due starts it.                           *)
FiredWhenDue == \A j \in Job, m \in Minute : fired[j][m] > 0 => <<j, m>> \in Due

LEMMA DueNext ==
  ASSUME TypeOK, FiredWhenDue, [Next]_vars
  PROVE  FiredWhenDue'
<1>1. CASE UNCHANGED fired
  BY <1>1 DEF FiredWhenDue
<1>2. ASSUME NEW k \in Job, fired' = [fired EXCEPT ![k] = [m \in Minute |-> 0]]
      PROVE  FiredWhenDue'
  <2>1. \A j \in Job, m \in Minute : fired'[j][m] = IF j = k THEN 0 ELSE fired[j][m]
    BY <1>2 DEF TypeOK
  <2> QED
    BY <2>1 DEF FiredWhenDue
<1>3. CASE fired' = Unfired
  BY <1>3 DEF FiredWhenDue, Unfired
<1>4. ASSUME NEW l \in Loop, Scan(l)
      PROVE  FiredWhenDue'
  <2>1. SUFFICES ASSUME NEW j \in Job, NEW m \in Minute, fired'[j][m] > 0
                 PROVE  <<j, m>> \in Due
    BY DEF FiredWhenDue
  <2>2. fired'[j] = IF Fires(j, tick[l]) /\ starts = 1
                    THEN [fired[j] EXCEPT ![tick[l]] = @ + 1]
                    ELSE fired[j]
    BY <1>4 DEF Scan
  <2>3. fired[j] \in [Minute -> Nat]
    BY DEF TypeOK
  <2>4. CASE Fires(j, tick[l]) /\ m = tick[l]
    BY <2>4 DEF Fires
  <2>5. CASE ~(Fires(j, tick[l]) /\ m = tick[l])
    <3>1. fired'[j][m] = fired[j][m]
      BY <2>2, <2>3, <2>5
    <3> QED
      BY <2>1, <3>1 DEF FiredWhenDue
  <2> QED
    BY <2>4, <2>5
<1>5. \/ UNCHANGED fired \/ fired' = Unfired \/ \E l \in Loop : Scan(l)
      \/ \E k \in Job : fired' = [fired EXCEPT ![k] = [m \in Minute |-> 0]]
  BY DEF Next, vars, RegisterTable, RegisterLoop, Cancel, Pause, Resume, StartOpen,
     StartLaunch, Stop, Go, Select, HandlerEnds, TryFire, Tick, Ends, Clock
<1> QED
  BY <1>1, <1>2, <1>3, <1>4, <1>5

(* A cron job has fired only in minutes that docs/schedule.md reads out of  *)
(* its expression, whatever parts it has, as long as no step takes int      *)
(* around; parseField reads every field in this way.                        *)
THEOREM CronAsDocumented == Spec => []CronMeansDocs
<1>1. FieldsMeanDocs
  <2>1. SUFFICES ASSUME NEW s \in Sample, \A p \in s.parts : Expr!Fits(p, s.max)
                 PROVE  Expr!MeansDocs(s.parts, s.min, s.max)
    BY DEF FieldsMeanDocs
  <2>2. /\ s.min \in Int /\ s.max \in Int
        /\ Expr!Least <= s.min /\ s.min <= s.max
        /\ \A p \in s.parts : Expr!IsPart(p) /\ Expr!Fits(p, s.max)
    BY <2>1, FieldAssumption
  <2> QED
    BY <2>2, FieldMeans
<1>2. Init => FiredWhenDue
  BY DEF Init, Unfired, FiredWhenDue
<1>3. TypeOK /\ FiredWhenDue /\ [Next]_vars => FiredWhenDue'
  BY DueNext
<1>4. FiredWhenDue => CronMeansDocs
  BY <1>1, JobAssumption, MatchMeans DEF FiredWhenDue, CronMeansDocs
<1> QED
  BY <1>2, <1>3, <1>4, TypeCorrect, PTL DEF Spec

=============================================================================
