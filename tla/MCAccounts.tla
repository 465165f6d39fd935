----------------------------- MODULE MCAccounts -----------------------------
(* Small instances of Accounts for TLC. *)
EXTENDS Accounts, TLC

CONSTANTS r1, r2, p1, p2

\* Every account under a key of its own.
OwnKeys == {<<"i1", "k1">>, <<"i2", "k2">>}

\* Requests and passwords are interchangeable.
Symmetry == Permutations(Request) \union Permutations(Password)
=============================================================================
