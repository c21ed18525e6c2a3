------------------------- MODULE MCCommandDispatch -------------------------
(***************************************************************************)
(* An instance of CommandDispatch for TLC: one plugin whose two pages are   *)
(* changed, with a command with two levels of subcommands and one without,  *)
(* and another plugin with a command of its own.                            *)
(***************************************************************************)
EXTENDS CommandDispatch, TLC

CONSTANTS e1, e2, a1, p, q, s1, s2, u, g

Pages == (e1 :> <<"settings", p>>) @@ (e2 :> <<"settings", p>>)
         @@ (a1 :> <<"access", p>>)

(* Switched on the plugin needs a password; it fails to apply the second.   *)
NeedsSecret == (p :> (Settings \ {[plain |-> "on", secret |-> Blank]})) @@ (q :> Settings)
NotTheSecond == (p :> {[plain |-> "on", secret |-> s2]}) @@ (q :> {})

Commands == {<<"/c">>, <<"/c", "s">>, <<"/c", "s", "t">>, <<"/d">>, <<"/e">>}
Owners   == [path \in Commands |-> IF path = <<"/e">> THEN q ELSE p]
Roles    == [path \in Commands |-> IF path = <<"/c", "s">> THEN "admin"
                                   ELSE IF path[1] = "/c" THEN "member" ELSE ""]
Groups   == {<<"/c", "s">>}

Form(mode, listed) == [mode |-> mode, listed |-> listed]

(* A default whitelist under which one command is left to inherit, a        *)
(* blacklist with a whitelist of its own for a subcommand, a mode that is   *)
(* none, a command of the other plugin.                                     *)
Forms ==
  {[default |-> Form("whitelist", {g}), commands |-> <<"/d">> :> Form("off", {u})],
   [default |-> Form("", {}), commands |-> (<<"/c", "s">> :> Form("whitelist", {u}))
                                           @@ (<<"/d">> :> Form("blacklist", {u}))],
   [default |-> Form("bad", {}), commands |-> <<>>],
   [default |-> Form("off", {}), commands |-> <<"/e">> :> Form("blacklist", {u})]}

Texts ==
  {<<"/c">>, <<"/c", "s", "t">>, <<"@", "/c", "s">>, <<"@", "@", "/c", "s">>,
   <<"/c", "x", "s">>, <<"/d", "s">>, <<"@", "x">>}

Messages ==
  [text : Texts, private : BOOLEAN, role : {"member", "admin"},
   persons : {{u}, {g}}]

=============================================================================
