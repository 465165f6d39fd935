------------------------------- MODULE Mirror -------------------------------
(***************************************************************************)
(* The search index of a table that triggers keep: for each id the texts   *)
(* of the entries it has.                                                  *)
(*                                                                         *)
(* Source: the triggers events_ai, events_ad, contacts_ai and contacts_ad, *)
(* and the pragma recursive_triggers, in crates/nuncio-store/src/db.rs.    *)
(***************************************************************************)
EXTENDS Integers, Sequences, FiniteSets

\* Mutant: recursive_triggers is off, and INSERT OR REPLACE deletes silently.
mirror_inserts(fts, existed, id, text) == [fts EXCEPT ![id] = Append(@, text)]

\* INSERT OR REPLACE under recursive_triggers: the delete trigger fires for a
\* row that is replaced, then the insert trigger.
mirror(fts, existed, id, text) ==
    [fts EXCEPT ![id] = Append(IF existed THEN << >> ELSE @, text)]

\* The rows with a text, as a search of the index finds them.
search(fts, query) == {id \in DOMAIN fts : \E n \in DOMAIN fts[id] : fts[id][n] = query}

\* The index has one entry for a row, with its text of now, and none for a
\* row that is not there.
Mirrors(fts, id, present, text) == fts[id] = IF present THEN <<text>> ELSE << >>
=============================================================================
