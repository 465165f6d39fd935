------------------------------- MODULE Ledger -------------------------------
(***************************************************************************)
(* The two hash-chained ledgers of the store: the log of filter actions    *)
(* (filter_execution_logs), which every sync run appends to, and the WORM  *)
(* audit ledger (worm_audit_records), which every mailbox export appends   *)
(* to.  Both appends are a SELECT of the last row and then an INSERT, with *)
(* no transaction around the two, from a pool of connections.              *)
(*                                                                         *)
(* Source: crates/nuncio-store/src/db.rs (save_filter_execution_log,       *)
(* verify_execution_log_chain, append_worm_audit_record,                   *)
(* verify_worm_audit_chain_report, export_messages_to_file),               *)
(* crates/nuncio-core/src/worm_audit.rs and the Export and Audit services  *)
(* of crates/nunciod/src/grpc.rs.                                          *)
(*                                                                         *)
(* A keyed hash is the term of what it is computed over: two hashes are    *)
(* equal only if what was hashed is.                                       *)
(***************************************************************************)
EXTENDS Integers, Sequences, FiniteSets, Functions

CONSTANTS
    Appender,       \* sync runs that append to the execution log
    Exporter,       \* ExportMailbox RPCs served at once
    Item,           \* what an entry records: actor, action, payload, time
    VERIFY_LIMIT,   \* records verify_worm_audit_chain_report reads
    MaxEntries,     \* bound: rows of each ledger
    MaxFaults,      \* bound: failed inserts and dropped requests
    MaxAlterations  \* bound: records changed behind the daemon's back

ASSUME LedgerAssumption ==
    /\ VERIFY_LIMIT \in Nat /\ MaxEntries \in Nat
    /\ MaxFaults \in Nat /\ MaxAlterations \in Nat

GENESIS == << >>
compute_log_hash(prev, item) == <<prev, item>>
compute_hmac(seq, item, prev) == <<seq, item, prev>>

VARIABLES
    log,         \* rows of filter_execution_logs, by AUTOINCREMENT id
    appending,   \* each appender's locals
    worm,        \* rows of worm_audit_records, by sequence
    exporting,   \* each export's locals
    exports,     \* exports that reported success
    altered,     \* sequences of the worm records changed in place
    faults

logVars  == <<log, appending>>
wormVars == <<worm, exporting, exports, altered>>
vars     == <<logVars, wormVars, faults>>

\* Locals of a ledger write: what is to be recorded, and the last row as read.
AtRest == [pc |-> "idle", item |-> {}, seq |-> 0, prev |-> GENESIS]

Fault ==
    /\ faults < MaxFaults
    /\ faults' = faults + 1

-----------------------------------------------------------------------------
(* The execution log                                                       *)

\* Mutant: ORDER BY id ASC.
FirstHash == IF log = << >> THEN GENESIS ELSE log[1].hash

LastHash == IF log = << >> THEN GENESIS ELSE log[Len(log)].hash

\* save_filter_execution_log: SELECT hash ... ORDER BY id DESC LIMIT 1.
ReadLastHash(a, x) ==
    /\ appending[a].pc = "idle"
    /\ appending' = [appending EXCEPT ![a] =
                        [pc |-> "insert", item |-> {x}, seq |-> 0, prev |-> LastHash]]
    /\ UNCHANGED <<log, wormVars, faults>>

\* ... INSERT, under the next id.
InsertLog(a) ==
    /\ appending[a].pc = "insert"
    /\ Len(log) < MaxEntries
    /\ LET prev == appending[a].prev
       IN \E x \in appending[a].item :
             log' = Append(log, [item |-> x, prev |-> prev,
                                 hash |-> compute_log_hash(prev, x)])
    /\ appending' = [appending EXCEPT ![a] = AtRest]
    /\ UNCHANGED <<wormVars, faults>>

\* The insert fails, or its request is dropped before it.
InsertLogFails(a) ==
    /\ Fault
    /\ appending[a].pc = "insert"
    /\ appending' = [appending EXCEPT ![a] = AtRest]
    /\ UNCHANGED <<log, wormVars>>

\* verify_execution_log_chain.
verify_execution_log_chain ==
    \A i \in 1..Len(log) :
        /\ log[i].prev = IF i = 1 THEN GENESIS ELSE log[i - 1].hash
        /\ log[i].hash = compute_log_hash(log[i].prev, log[i].item)

-----------------------------------------------------------------------------
(* The WORM audit ledger                                                   *)

IsLast(n)  == n \in DOMAIN worm /\ \A k \in DOMAIN worm : k <= n
Before(n)  == {k \in DOMAIN worm : k < n}

\* Mutant: sequences start at 0.
CountFromZero(e, x) ==
    /\ exporting[e].pc = "idle"
    /\ \/ /\ DOMAIN worm = {}
          /\ exporting' = [exporting EXCEPT ![e] =
                  [pc |-> "insert", item |-> {x}, seq |-> 0, prev |-> GENESIS]]
       \/ \E n \in DOMAIN worm :
             /\ IsLast(n)
             /\ exporting' = [exporting EXCEPT ![e] =
                     [pc |-> "insert", item |-> {x}, seq |-> n + 1, prev |-> worm[n].hmac]]
    /\ UNCHANGED <<logVars, worm, exports, altered, faults>>

\* export_messages_to_file writes the file, then SELECTs the last record.
ReadLastRecord(e, x) ==
    /\ exporting[e].pc = "idle"
    /\ \/ /\ DOMAIN worm = {}
          /\ exporting' = [exporting EXCEPT ![e] =
                  [pc |-> "insert", item |-> {x}, seq |-> 1, prev |-> GENESIS]]
       \/ \E n \in DOMAIN worm :
             /\ IsLast(n)
             /\ exporting' = [exporting EXCEPT ![e] =
                     [pc |-> "insert", item |-> {x}, seq |-> n + 1, prev |-> worm[n].hmac]]
    /\ UNCHANGED <<logVars, worm, exports, altered, faults>>

\* create_signed.
create_signed(seq, item, prev) ==
    [item |-> item, prev |-> prev, hmac |-> compute_hmac(seq, item, prev)]

\* The export reports success whether or not its record was appended.
Report(e) ==
    /\ exports' = exports \union exporting[e].item
    /\ exporting' = [exporting EXCEPT ![e] = AtRest]

\* Mutant: INSERT OR REPLACE.
ReplaceRecord(e) ==
    LET n == exporting[e].seq
    IN /\ exporting[e].pc = "insert"
       /\ n <= MaxEntries
       /\ \E x \in exporting[e].item :
             worm' = [k \in DOMAIN worm \union {n} |->
                        IF k = n THEN create_signed(n, x, exporting[e].prev) ELSE worm[k]]
       /\ Report(e)
       /\ UNCHANGED <<logVars, altered, faults>>

\* INSERT under the sequence computed: it is the primary key.
InsertRecord(e) ==
    LET n == exporting[e].seq
    IN /\ exporting[e].pc = "insert"
       /\ n \notin DOMAIN worm
       /\ n <= MaxEntries
       /\ \E x \in exporting[e].item :
             worm' = [k \in DOMAIN worm \union {n} |->
                        IF k = n THEN create_signed(n, x, exporting[e].prev) ELSE worm[k]]
       /\ Report(e)
       /\ UNCHANGED <<logVars, altered, faults>>

\* The sequence is taken: UNIQUE constraint failed, and the error is dropped.
InsertConflicts(e) ==
    /\ exporting[e].pc = "insert"
    /\ exporting[e].seq \in DOMAIN worm
    /\ Report(e)
    /\ UNCHANGED <<logVars, worm, altered, faults>>

\* The append fails otherwise, in the SELECT or the INSERT: dropped as well.
AppendFails(e) ==
    /\ Fault
    /\ exporting[e].pc = "insert"
    /\ Report(e)
    /\ UNCHANGED <<logVars, worm, altered>>

\* The request is dropped between the file and the record.
ExportDropped(e) ==
    /\ Fault
    /\ exporting[e].pc = "insert"
    /\ exporting' = [exporting EXCEPT ![e] = AtRest]
    /\ UNCHANGED <<logVars, worm, exports, altered>>

\* One column of a stored record is changed by something other than the
\* daemon, whose triggers forbid it.
Alter(n, x) ==
    /\ Cardinality(altered) < MaxAlterations
    /\ \/ x # worm[n].item /\ worm' = [worm EXCEPT ![n].item = x]
       \/ worm[n].prev # GENESIS /\ worm' = [worm EXCEPT ![n].prev = GENESIS]
       \/ worm[n].hmac # GENESIS /\ worm' = [worm EXCEPT ![n].hmac = GENESIS]
    /\ altered' = altered \union {n}
    /\ UNCHANGED <<logVars, exporting, exports, faults>>

\* list_worm_audit_records(100_000, 0): the rows the report looks at.
Listed == {n \in DOMAIN worm : Cardinality(Before(n)) < VERIFY_LIMIT}

\* verify_worm_chain stops at these: the link or the seal is wrong.
BrokenLink(n) ==
    \/ Before(n) = {} /\ worm[n].prev # GENESIS
    \/ \E k \in Before(n) : /\ \A j \in Before(n) : j <= k
                            /\ worm[n].prev # worm[k].hmac
\* Mutant: verify_hmac is not called.
SealUnchecked(n) == FALSE

BrokenSeal(n) == worm[n].hmac # compute_hmac(n, worm[n].item, worm[n].prev)
Broken == {n \in Listed : BrokenLink(n) \/ BrokenSeal(n)}

\* verify_worm_audit_chain_report: valid, and first_broken_seq as a set.
verify_worm_audit_chain_report ==
    [valid |-> Broken = {},
     first_broken_seq |-> {n \in Broken : \A k \in Broken : n <= k}]

-----------------------------------------------------------------------------
Init ==
    /\ log = << >>
    /\ appending = [a \in Appender |-> AtRest]
    /\ worm = << >>
    /\ exporting = [e \in Exporter |-> AtRest]
    /\ exports = {}
    /\ altered = {}
    /\ faults = 0

Next ==
    \/ \E a \in Appender :
          \/ \E x \in Item : ReadLastHash(a, x)
          \/ InsertLog(a)
          \/ InsertLogFails(a)
    \/ \E e \in Exporter :
          \/ \E x \in Item \ exports : ReadLastRecord(e, x)
          \/ InsertRecord(e)
          \/ InsertConflicts(e)
          \/ AppendFails(e)
          \/ ExportDropped(e)
    \/ \E n \in DOMAIN worm, x \in Item : Alter(n, x)

Spec == Init /\ [][Next]_vars

-----------------------------------------------------------------------------
(* Properties                                                              *)

Locals == [pc : {"idle", "insert"}, item : SUBSET Item, seq : Nat]

\* Every variable has its type; hashes are terms and have none.
TypeOK ==
    /\ \A i \in 1..Len(log) : log[i].item \in Item
    /\ DOMAIN worm \subseteq Nat \ {0}
    /\ \A n \in DOMAIN worm : worm[n].item \in Item
    /\ DOMAIN appending = Appender /\ DOMAIN exporting = Exporter
    /\ \A a \in Appender : Restrict(appending[a], {"pc", "item", "seq"}) \in Locals
    /\ \A e \in Exporter : Restrict(exporting[e], {"pc", "item", "seq"}) \in Locals
    /\ exports \subseteq Item
    /\ altered \subseteq DOMAIN worm
    /\ faults \in Nat

\* append_worm_audit_record: however exports interleave, fail or are dropped,
\* the audit ledger verifies as long as nobody else changes it: the primary
\* key lets one of two appends that read the same last record through.
WormChainVerifies == altered = {} => verify_worm_audit_chain_report.valid

\* The part of the ledger's state that makes it so: sequences without a gap,
\* each record linked to the one before and sealed, and each append about to
\* happen linked to the last record or doomed to conflict.
ChainedRecord(n) ==
    /\ worm[n].prev = IF n = 1 THEN GENESIS ELSE worm[n - 1].hmac
    /\ worm[n].hmac = compute_hmac(n, worm[n].item, worm[n].prev)

PendingSeq(l) ==
    l.pc = "insert" => l.seq \in Nat \ {0} /\ (l.seq = 1 \/ l.seq - 1 \in DOMAIN worm)

PendingLink(l) ==
    l.pc = "insert" => l.prev = IF l.seq = 1 THEN GENESIS ELSE worm[l.seq - 1].hmac

WormInv ==
    /\ \A n \in DOMAIN worm : n = 1 \/ n - 1 \in DOMAIN worm
    /\ \A e \in Exporter : PendingSeq(exporting[e])
    /\ altered = {} => /\ \A n \in DOMAIN worm : ChainedRecord(n)
                       /\ \A e \in Exporter : PendingLink(exporting[e])

\* verify_worm_audit_chain_report: a changed record is reported, and as the
\* first broken one.
AlterationPinpointed ==
    \A n \in altered : verify_worm_audit_chain_report.first_broken_seq = {n}

\* save_filter_execution_log: the execution log verifies, whichever appends
\* fail.  It holds with one sync run at a time: two that read the same last row
\* fork the chain.
LogChainVerifies == verify_execution_log_chain

\* What the invariants of both ledgers add up to: every variable has its type,
\* the audit ledger is chained up to the appends under way, and the execution
\* log verifies.
LedgerInv == TypeOK /\ WormInv /\ LogChainVerifies

\* The ledger as its readers see it.
Worm == INSTANCE AppendOnly WITH
            records  <- [n \in DOMAIN worm |-> worm[n].item],
            tampered <- altered

\* append_worm_audit_record implements an append-only ledger: though two
\* exports read the same last record and both insert behind it, every step of
\* the daemon adds one record at the next sequence or changes none.
ImplementsAppendOnly == Worm!Spec

\* export_messages_to_file: an export that reported success has its record.
EveryExportAudited == \A x \in exports : \E n \in DOMAIN worm : worm[n].item = x
=============================================================================
