------------------------------ MODULE CronExpr ------------------------------
(***************************************************************************)
(* The cron expressions of lib/schedule/cron.go.  A field is a set of      *)
(* parts, the pieces between its commas; a part is read as where it        *)
(* starts, where it ends and its step, "*" giving the ends of the field    *)
(* and no "/" a step of one.  A part that is no such thing is refused      *)
(* before anything is computed and is not modelled.                        *)
(***************************************************************************)
EXTENDS Integers

CONSTANT Bits  \* the width of int, 64 in the code

Least == -(2 ^ (Bits - 1))

(* int wraps around. *)
Wrap(n) == ((n + 2 ^ (Bits - 1)) % 2 ^ Bits) - 2 ^ (Bits - 1)

(* Mutant: the end of a range does not belong to it. *)
CountToEnd(start, end, step) ==
  LET from[v \in Int] == IF v < end THEN {v} \cup from[Wrap(v + step)] ELSE {}
  IN  from[start]

(* for v := start; v <= end; v += step *)
Count(start, end, step) ==
  LET from[v \in Int] == IF v <= end THEN {v} \cup from[Wrap(v + step)] ELSE {}
  IN  from[start]

(* A part as it has been read. *)
IsPart(p) ==
  p.form \in {"all", "one", "range"} /\ p.from \in Int /\ p.to \in Int /\ p.step \in Nat

Start(p, min) == IF p.form = "all" THEN min ELSE p.from

End(p, max) ==
  CASE p.form = "all" -> max [] p.form = "one" -> p.from [] OTHER -> p.to

Legal(p, min, max) ==
  /\ p.step > 0
  /\ Start(p, min) >= min /\ End(p, max) <= max /\ Start(p, min) <= End(p, max)

(* One illegal part refuses the field: no map is returned, but an error. *)
ParseField(parts, min, max) ==
  IF \A p \in parts : Legal(p, min, max)
  THEN [ok |-> TRUE, values |-> UNION {Count(Start(p, min), End(p, max), p.step) : p \in parts}]
  ELSE [ok |-> FALSE, values |-> {}]

Ends == [minute |-> <<0, 59>>, hour |-> <<0, 23>>, day |-> <<1, 31>>,
         month |-> <<1, 12>>, weekday |-> <<0, 6>>]

(* parseCron: an expression is a set of parts for each field. *)
ParseCron(expr) == [f \in DOMAIN Ends |-> ParseField(expr[f], Ends[f][1], Ends[f][2])]

Accepted(c) == \A f \in DOMAIN Ends : c[f].ok

(* Every field must match, the day of the month and the day of the week too. *)
Match(c, t) == \A f \in DOMAIN Ends : t[f] \in c[f].values

-----------------------------------------------------------------------------

(* What docs/schedule.md says a part stands for. *)
Stands(p, min, max, v) ==
  /\ v \in min .. max
  /\ CASE p.form = "all"   -> (v - min) % p.step = 0
       [] p.form = "one"   -> v = p.from
       [] p.form = "range" -> v \in p.from .. p.to /\ (v - p.from) % p.step = 0

MetByDocs(expr, t) ==
  \A f \in DOMAIN Ends : \E p \in expr[f] : Stands(p, Ends[f][1], Ends[f][2], t[f])

(* The loop ends for steps that do not take int around. *)
Fits(p, max) == max + p.step < 2 ^ (Bits - 1)

Part(form, from, to, step) == [form |-> form, from |-> from, to |-> to, step |-> step]

(* Without what a part of its form does not say.                             *)
Parts(limit, steps) ==
  {Part("all", 0, 0, step) : step \in steps}
  \cup {Part("one", from, 0, step) : from \in 0 .. limit, step \in steps}
  \cup {Part("range", from, to, step) : from, to \in 0 .. limit, step \in steps}

(* A list of parts is refused if a value lies outside the field or runs      *)
(* backwards or a step is zero, and else stands for what any of its parts    *)
(* stands for in docs/schedule.md, ends of the field and of ranges included. *)
MeansDocs(parts, min, max) ==
  LET field == ParseField(parts, min, max) IN
  IF \E p \in parts : \/ p.step = 0
                      \/ p.form = "one" /\ p.from \notin min .. max
                      \/ p.form = "range" /\ ~(min <= p.from /\ p.from <= p.to
                                                             /\ p.to <= max)
  THEN ~field.ok
  ELSE field.ok /\ field.values = {v \in min .. max : \E p \in parts : Stands(p, min, max, v)}

=============================================================================
