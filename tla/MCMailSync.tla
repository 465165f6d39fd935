----------------------------- MODULE MCMailSync -----------------------------
(* Small instances of MailSync for TLC. *)
EXTENDS MailSync, TLC

CONSTANTS m1, m2, s1, s2

NoActions == << >>
OneRemote == <<"MoveTo">>
ReadThenMove == <<"MarkRead", "MoveTo">>

Symmetry == Permutations(Mail) \union Permutations(Sync)
=============================================================================
