----------------------------- MODULE FilterRules -----------------------------
(***************************************************************************)
(* The filter rules: the persisted table, the compiled set the live        *)
(* FilterEngine evaluates, and the RPCs that change the first and then     *)
(* reload the second from it.                                              *)
(*                                                                         *)
(* Source: the Filters service of crates/nunciod/src/grpc.rs (create_rule, *)
(* delete_rule, update_rule, import_rules, reload_engine_from_store), the  *)
(* rule calls of crates/nuncio-store/src/db.rs, CompiledFilterSet and      *)
(* FilterEngine of crates/nuncio-filter/src/engine.rs, parse_rule of       *)
(* crates/nuncio-filter/src/parser.rs, NsqlValidator::validate, and the    *)
(* start of the engine in crates/nunciod/src/main.rs.                      *)
(*                                                                         *)
(* A rule's text stands for its name and its NSQL source together, and the *)
(* id of a parsed rule is a hash of the two: a rule is stored under the    *)
(* text it was first created from.                                         *)
(***************************************************************************)
EXTENDS Integers, FiniteSets

CONSTANTS
    Text,          \* rule texts that parse
    Invalid,       \* those NsqlValidator rejects
    Uncompilable,  \* of these, the ones whose regex does not compile
    Imported,      \* the texts clients import
    Request,       \* Filters RPCs that can be served at once
    None,          \* no rule
    MaxFaults      \* bound: failed store calls, dropped requests, restarts

ASSUME RulesAssumption ==
    /\ Uncompilable \subseteq Invalid
    /\ Invalid \subseteq Text
    /\ Imported \subseteq Text
    /\ None \notin Text
    /\ MaxFaults \in Nat

VARIABLES
    rules,   \* table filter_rules: the text stored under each id, or None
    live,    \* the compiled set the engine holds, in the same form
    up,      \* the daemon runs; it may fail to start
    pc,      \* where each RPC handler is
    target,  \* the rule an update found
    listed,  \* the rules reload_engine_from_store read
    disturbed,  \* RPCs overlapped or stopped short since the last reload alone
    faults

vars == <<rules, live, up, pc, target, listed, disturbed, faults>>

NoRules == [t \in Text |-> None]

\* parse_rule: the id the parsed rule is given.
rule_id(text) == text

\* NsqlValidator::validate.
Validated(text) == text \notin Invalid

\* CompiledFilterSet::new: one rule that does not compile fails the set.
Compiles(rs) == \A t \in Text : rs[t] \notin Uncompilable

Fault ==
    /\ faults < MaxFaults
    /\ faults' = faults + 1

Goto(r, l) == pc' = [pc EXCEPT ![r] = l]

Begin(r) ==
    /\ up /\ pc[r] = "idle"
    /\ disturbed' = (disturbed \/ \E q \in Request : pc[q] # "idle")

-----------------------------------------------------------------------------
(* The RPCs                                                                *)

\* Mutant: the rule is not validated.
CreateUnvalidated(r, text) ==
    /\ Begin(r)
    /\ rules' = [rules EXCEPT ![rule_id(text)] = text]
    /\ Goto(r, "list")
    /\ UNCHANGED <<live, up, target, listed, faults>>

\* create_rule: parse, validate, save.
CreateRule(r, text) ==
    /\ Begin(r)
    /\ Validated(text)
    /\ rules' = [rules EXCEPT ![rule_id(text)] = text]
    /\ Goto(r, "list")
    /\ UNCHANGED <<live, up, target, listed, faults>>

\* Mutant: the engine is not reloaded.
DeleteStoredOnly(r, id) ==
    /\ Begin(r)
    /\ rules' = [rules EXCEPT ![id] = None]
    /\ UNCHANGED <<live, up, pc, target, listed, faults>>

\* delete_rule: DELETE ... WHERE id, whether or not there is such a rule.
DeleteRule(r, id) ==
    /\ Begin(r)
    /\ rules' = [rules EXCEPT ![id] = None]
    /\ Goto(r, "list")
    /\ UNCHANGED <<live, up, target, listed, faults>>

\* Mutant: the id is taken on trust.
FindAnyRule(r, id) ==
    /\ Begin(r)
    /\ target' = [target EXCEPT ![r] = id]
    /\ Goto(r, "update")
    /\ UNCHANGED <<rules, live, up, listed, faults>>

\* update_rule: the rule is looked for in a listing; not found, nothing else
\* happens.
FindRule(r, id) ==
    /\ Begin(r)
    /\ rules[id] # None
    /\ target' = [target EXCEPT ![r] = id]
    /\ Goto(r, "update")
    /\ UNCHANGED <<rules, live, up, listed, faults>>

\* Mutant: the new text is not validated.
UpdateUnvalidated(r, text) ==
    /\ pc[r] = "update"
    /\ rules' = [rules EXCEPT ![target[r]] = text]
    /\ target' = [target EXCEPT ![r] = None]
    /\ Goto(r, "list")
    /\ UNCHANGED <<live, up, listed, disturbed, faults>>

\* ... then the new text, or the old one, is validated and saved under its id.
UpdateRule(r, text) ==
    /\ pc[r] = "update"
    /\ Validated(text)
    /\ rules' = [rules EXCEPT ![target[r]] = text]
    /\ target' = [target EXCEPT ![r] = None]
    /\ Goto(r, "list")
    /\ UNCHANGED <<live, up, listed, disturbed, faults>>

\* Mutant: the handler goes on after the refusal.
RefusedGoesOn(r, text) ==
    /\ pc[r] = "update"
    /\ ~Validated(text)
    /\ target' = [target EXCEPT ![r] = None]
    /\ UNCHANGED <<rules, live, up, pc, listed, disturbed, faults>>

\* ... or it is refused.
UpdateRefused(r, text) ==
    /\ pc[r] = "update"
    /\ ~Validated(text)
    /\ target' = [target EXCEPT ![r] = None]
    /\ Goto(r, "idle")
    /\ UNCHANGED <<rules, live, up, listed, disturbed, faults>>

\* import_rules: each line that parses is saved, without validation.
ImportLine(r, text) ==
    /\ \/ Begin(r)
       \/ pc[r] = "import" /\ UNCHANGED disturbed
    /\ rules' = [rules EXCEPT ![rule_id(text)] = text]
    /\ Goto(r, "import")
    /\ UNCHANGED <<live, up, target, listed, faults>>

\* ... and the engine is reloaded once, after the last line.
ImportEnds(r) ==
    /\ pc[r] = "import"
    /\ Goto(r, "list")
    /\ UNCHANGED <<rules, live, up, target, listed, disturbed, faults>>

\* reload_engine_from_store: list_filter_rules ...
ListRules(r) ==
    /\ pc[r] = "list"
    /\ listed' = [listed EXCEPT ![r] = rules]
    /\ Goto(r, "reload")
    /\ disturbed' = (\E q \in Request \ {r} : pc[q] # "idle")
    /\ UNCHANGED <<rules, live, up, target, faults>>

\* ... then reload_rules, which compiles them and swaps the live set.
ReloadRules(r) ==
    /\ pc[r] = "reload"
    /\ live' = IF Compiles(listed[r]) THEN listed[r] ELSE live
    /\ listed' = [listed EXCEPT ![r] = NoRules]
    /\ Goto(r, "idle")
    /\ UNCHANGED <<rules, up, target, disturbed, faults>>

Step(r) ==
    \/ \E t \in Text :
        \/ UpdateRule(r, t)
        \/ UpdateRefused(r, t)
    \/ ImportEnds(r)
    \/ ListRules(r)
    \/ ReloadRules(r)

-----------------------------------------------------------------------------
(* Failures                                                                *)

Abandon(r) ==
    /\ Goto(r, "idle")
    /\ target' = [target EXCEPT ![r] = None]
    /\ listed' = [listed EXCEPT ![r] = NoRules]

\* A save fails, the listing fails, or the client goes away at an await.
HandlerStops(r) ==
    /\ Fault
    /\ pc[r] \in {"update", "import", "list"}
    /\ Abandon(r)
    /\ disturbed' = TRUE
    /\ UNCHANGED <<rules, live, up>>

\* The daemon starts again: FilterEngine::new over the stored rules, over none
\* when they cannot be listed; it exits when they do not compile.
Restart(readable) ==
    LET initial == IF readable THEN rules ELSE NoRules
    IN /\ Fault
       /\ up' = Compiles(initial)
       /\ live' = IF Compiles(initial) THEN initial ELSE NoRules
       /\ pc' = [r \in Request |-> "idle"]
       /\ target' = [r \in Request |-> None]
       /\ listed' = [r \in Request |-> NoRules]
       /\ disturbed' = ~readable
       /\ UNCHANGED rules

-----------------------------------------------------------------------------
Init ==
    /\ rules = NoRules
    /\ live = NoRules
    /\ up = TRUE
    /\ pc = [r \in Request |-> "idle"]
    /\ target = [r \in Request |-> None]
    /\ listed = [r \in Request |-> NoRules]
    /\ disturbed = FALSE
    /\ faults = 0

Next ==
    \/ \E r \in Request :
        \/ \E t \in Text :
            \/ CreateRule(r, t)
            \/ DeleteRule(r, t)
            \/ FindRule(r, t)
        \/ \E t \in Imported : ImportLine(r, t)
        \/ Step(r)
        \/ HandlerStops(r)
    \/ \E readable \in BOOLEAN : Restart(readable)

Spec == Init /\ [][Next]_vars

-----------------------------------------------------------------------------
(* Properties                                                              *)

Rules == [Text -> Text \union {None}]

\* Every variable has its type, and an update has found its rule.
TypeOK ==
    /\ rules \in Rules
    /\ live \in Rules
    /\ up \in BOOLEAN
    /\ pc \in [Request -> {"idle", "update", "import", "list", "reload"}]
    /\ target \in [Request -> Text \union {None}]
    /\ listed \in [Request -> Rules]
    /\ \A r \in Request : pc[r] = "update" => target[r] \in Text
    /\ disturbed \in BOOLEAN
    /\ faults \in Nat

Quiet == \A r \in Request : pc[r] = "idle"

\* FiltersGrpcService: with no Filters RPC in progress the live engine and the
\* persisted store hold the same rules, if these compile and no RPC overlapped
\* or stopped short since the last reload that ran alone: that reload repairs
\* whatever went wrong before.  Two RPCs that overlap break it, since one may
\* list the rules, the other save, list and reload, and the first then reload
\* the older list.
AgreeAtRest == Quiet /\ ~disturbed /\ Compiles(rules) => live = rules

\* update_rule works on a rule that exists: a save under an id that no rule
\* has is a create.  A delete that overlaps the update breaks it.
UpdatesOnlyPersisted ==
    [][\A r \in Request :
          pc[r] = "update" /\ pc'[r] = "list" /\ ~disturbed => rules[target[r]] # None]_vars

\* CompiledFilter::eval_leaf: no rule reaches the live engine that
\* NsqlValidator rejects, whatever RPCs overlap or fail, unless it came in
\* through import_rules.
LiveRulesValidated ==
    \A t \in Text : live[t] \notin Invalid \ Imported

\* main: the persisted rules can always be loaded, so the daemon starts,
\* unless clients import rules that do not compile.
AlwaysStarts == Imported \intersect Uncompilable = {} => up

\* The rule store never does harm by itself: what is live was validated or
\* imported, and the daemon can load what was persisted.
RulesInv == TypeOK /\ LiveRulesValidated /\ AlwaysStarts
=============================================================================
