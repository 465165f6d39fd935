----------------------------- MODULE AppendOnly -----------------------------
(***************************************************************************)
(* What the WORM audit ledger promises whoever reads it: records are added *)
(* one at a time, each under the next sequence, and a record that is there *)
(* stays as it is, unless something other than the daemon changes it.      *)
(* Reading the last row, computing the seal, inserting and losing the race *)
(* to another export are not visible here: Ledger implements them.         *)
(***************************************************************************)
EXTENDS Naturals

CONSTANT Item

VARIABLES
    records,    \* what each record says, by sequence
    tampered    \* sequences whose record was changed from outside

Init == records = << >> /\ tampered = {}

\* The record goes behind the last one, and into the place of none.
Add ==
    /\ \E n \in DOMAIN records' :
          /\ n \notin DOMAIN records
          /\ n = 1 \/ n - 1 \in DOMAIN records
          /\ DOMAIN records' = DOMAIN records \union {n}
          /\ records'[n] \in Item
    /\ \A k \in DOMAIN records : records'[k] = records[k]
    /\ UNCHANGED tampered

Tamper ==
    \E n \in DOMAIN records :
        /\ tampered' = tampered \union {n}
        /\ DOMAIN records' = DOMAIN records
        /\ records'[n] \in Item
        /\ \A k \in DOMAIN records \ {n} : records'[k] = records[k]

Next == Add \/ Tamper

Spec == Init /\ [][Next]_<<records, tampered>>
=============================================================================
