--------------------------- MODULE MCGroupPlugins ---------------------------
(* Instances of GroupPlugins: the default file has been left behind by an   *)
(* earlier configuration; the configured one has the guard on or unset.     *)
EXTENDS GroupPlugins, TLC

CONSTANTS g1, g2, m1, x, old, new, k1, k2

Table(guard, key, enabled) ==
  ("guard" :> guard) @@ ("key" :> key) @@ ("enabled" :> enabled)

Disks ==
  {(old :> Table(NULL, k1, TRUE)) @@ (new :> table) :
     table \in {Table(TRUE, k1, TRUE), Table(NULL, NULL, NULL)}}

(* The goroutines are alike: only equality tells them apart. *)
GoroutineSymmetry == Permutations(Goroutine)

=============================================================================
