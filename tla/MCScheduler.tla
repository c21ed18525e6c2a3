---------------------------- MODULE MCScheduler ----------------------------
(***************************************************************************)
(* An instance of CronScheduler for TLC: an interval job and a cron job     *)
(* replace each other under one identifier.                                 *)
(***************************************************************************)
EXTENDS CronScheduler, TLC

CONSTANTS hourly, nightly, a

Ids == (hourly :> a) @@ (nightly :> a)

Every(step) == {Expr!Part("all", 0, 0, step)}
Only(n) == Expr!Part("one", n, 0, 1)

(* "* 0,23 * 1-12/11 6,0" *)
Expressions ==
  nightly :>
    [minute |-> Every(1), hour |-> {Only(0), Only(23)}, day |-> Every(1),
     month |-> {Expr!Part("range", 1, 12, 11)},
     weekday |-> {Only(6), Only(0)}]

(* The first minute is the last one of a year that ends on a Saturday. *)
Moments ==
  [m \in Minute |->
     IF m = 1 THEN [minute |-> 59, hour |-> 23, day |-> 31, month |-> 12, weekday |-> 6]
              ELSE [minute |-> m - 2, hour |-> 0, day |-> 1, month |-> 1, weekday |-> 0]]

Matching == UNION {{<<j, m>> : m \in {m \in Minute : Matches(j, m)}} : j \in Cron}

(* Every field of a range 0..4 and one 1..5, alone and in a list of two,    *)
(* with steps up to where int would wrap.                                   *)
Steps == 0 .. 6 \cup {57, 58, 63}

Fields ==
  {[parts |-> {p, q}, min |-> ends[1], max |-> ends[2]] :
     p \in Expr!Parts(6, Steps), q \in Expr!Parts(3, 1 .. 2), ends \in {<<0, 4>>, <<1, 5>>}}

=============================================================================
