------------------------------ MODULE MCFilters ------------------------------
(* The rule store and the rule language in one run: a behaviour is about one *)
(* of the two, and the other part stays as it started.                       *)
EXTENDS FilterRules, Nsql

VARIABLE part

MCInit ==
    /\ Init
    /\ NsqlInit
    /\ part \in {"store", "language"}
    /\ part = "store" => draft = Draft(<<"*">>, Hello, <<Action("MARK READ", << >>)>>)

MCNext ==
    /\ UNCHANGED part
    /\ \/ part = "store" /\ Next /\ UNCHANGED nsqlVars
       \/ part = "language" /\ NsqlNext /\ UNCHANGED vars

MCSpec == MCInit /\ [][MCNext]_<<vars, nsqlVars, part>>
==============================================================================
