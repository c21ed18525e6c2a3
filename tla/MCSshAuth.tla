----------------------------- MODULE MCSshAuth -----------------------------
(***************************************************************************)
(* Instances of SshAuth for TLC.                                           *)
(***************************************************************************)
EXTENDS SshAuth, TLC

CONSTANTS r1, r2, i1, i2

(* One listed approver, and the default of nobody listed. *)
Listed  == [enabled |-> TRUE, group |-> "g", allowed |-> {"u"}]
Default == [enabled |-> TRUE, group |-> "g", allowed |-> {}]
Off     == [enabled |-> FALSE, group |-> "g", allowed |-> {}]

OneConfig  == {Default}
ToListed   == {Default, Listed}
ToOff      == {Default, Off}

Admin    == [group |-> "g", user |-> "v", role |-> ""]
Approver == [group |-> "g", user |-> "u", role |-> ""]

OneClicker  == {Admin}
TwoClickers == {Admin, Approver}

(* Each request has an identifier of its own. *)
TwoIds      == (r1 :> i1) @@ (r2 :> i2)
OneId       == (r1 :> i1)

(* The connections are alike: only equality tells them apart. *)
ConnSymmetry == Permutations(Conn)

=============================================================================
