------------------------------ MODULE Recovery ------------------------------
(***************************************************************************)
(* The database file across boots: how a boot tells corruption from an     *)
(* operational error, and the salvage that backs a corrupt file up,        *)
(* removes it and restores what could be read into a fresh one.            *)
(*                                                                         *)
(* Source: crates/nuncio-store/src/db.rs (DatabaseError::is_corrupt,       *)
(* connect_file, close, open_with_backup_dir, close_and_salvage,           *)
(* check_integrity_pool), crates/nuncio-store/src/recovery.rs              *)
(* (is_sqlite_corruption_error, has_corrupted_sqlite_header,               *)
(* backup_corrupted_db_to, salvage, salvage_accounts,                      *)
(* salvage_filter_tables).  The file system and SQLite are external.       *)
(*                                                                         *)
(* The rows that matter are those of accounts and filter_rules: the mail   *)
(* is fetched again (MailSync, EngineLifecycle).                           *)
(***************************************************************************)
EXTENDS Integers, FiniteSets, Functions

CONSTANTS
    Account, Rule,  \* keys of the two tables
    TlsMode,        \* imap_tls_mode and smtp_tls_mode of an account
    ImplicitTls,    \* the default mode
    SameSecond,     \* whether the file may go bad again in the second of a backup
    FaultKind,      \* what may go wrong
    MaxSecond,      \* bound: the clock, in seconds
    MaxDamages,     \* bound: corruptions of the file
    MaxFaults       \* bound: failures and crashes

ASSUME RecoveryAssumption ==
    /\ ImplicitTls \in TlsMode
    /\ SameSecond \in BOOLEAN
    /\ FaultKind \subseteq {"transient", "backup", "wal", "read", "create", "restore", "crash"}
    /\ MaxSecond \in Nat /\ MaxDamages \in Nat /\ MaxFaults \in Nat

Row == [table : {"accounts"}, id : Account, mode : TlsMode]
          \union [table : {"filter_rules"}, id : Rule, mode : {ImplicitTls}]
Table == {"accounts", "filter_rules"}

VARIABLES
    disk,      \* the file: "missing", "sound" or "damaged"
    live,      \* the rows in it, those a damage made unreadable included
    wal,       \* those of them that are still in the -wal file only
    readable,  \* the tables a SELECT can still read
    backups,   \* the rows in nuncio_corrupted_{second}.db, if there is one
    clock,     \* in seconds
    pc,        \* where the boot is
    salvaged,  \* rows read from the backup and not restored yet
    wanted,    \* rows clients configured and that were readable ever since
    kept,      \* rows clients configured and did not remove
    damages,   \* how often the file went bad
    faults     \* how often each kind of fault happened

vars == <<disk, live, wal, readable, backups, clock, pc, salvaged, wanted, kept,
          damages, faults>>

NoBackup == [made |-> FALSE, rows |-> {}]

Same(r, q) == r.table = q.table /\ r.id = q.id
Holds(rows, r) == \E q \in rows : Same(q, r)

Fault(kind) ==
    /\ kind \in FaultKind
    /\ FoldFunction(+, 0, faults) < MaxFaults
    /\ faults' = [faults EXCEPT ![kind] = @ + 1]

Happened(kind) == kind \in FaultKind /\ faults[kind] > 0

-----------------------------------------------------------------------------
(* The daemon in service                                                   *)

\* A client saves an account or a rule: a WAL commit.
Configure(r) ==
    /\ pc = "up"
    /\ ~Holds(live, r)
    /\ live' = live \union {r}
    /\ wal' = wal \union {r}
    /\ wanted' = {q \in wanted : ~Same(q, r)} \union {r}
    /\ kept' = {q \in kept : ~Same(q, r)} \union {r}
    /\ UNCHANGED <<disk, readable, backups, clock, pc, salvaged, damages, faults>>

\* A client deletes one.
Unconfigure(r) ==
    /\ pc = "up"
    /\ r \in live
    /\ live' = live \ {r}
    /\ wal' = wal \ {r}
    /\ wanted' = {q \in wanted : ~Same(q, r)}
    /\ kept' = {q \in kept : ~Same(q, r)}
    /\ UNCHANGED <<disk, readable, backups, clock, pc, salvaged, damages, faults>>

\* SQLite moves what was committed to the main file.
Checkpoint ==
    /\ pc = "up"
    /\ wal # {}
    /\ wal' = {}
    /\ UNCHANGED <<disk, live, readable, backups, clock, pc, salvaged, wanted, kept,
                   damages, faults>>

\* The daemon ends: a shutdown, or a crash at any step of the boot.
Stop ==
    /\ \/ pc = "up" /\ UNCHANGED faults
       \/ pc \notin {"up", "down"} /\ Fault("crash")
    /\ pc' = "down"
    /\ salvaged' = {}
    /\ UNCHANGED <<disk, live, wal, readable, backups, clock, wanted, kept, damages>>

\* The file goes bad while nobody has it open; some tables stay readable.
Damage(tables) ==
    /\ pc = "down"
    /\ disk = "sound"
    /\ damages < MaxDamages
    /\ SameSecond \/ ~backups[clock].made
    /\ disk' = "damaged"
    /\ readable' = tables
    /\ wanted' = {r \in wanted : r.table \in tables}
    /\ damages' = damages + 1
    /\ UNCHANGED <<live, wal, backups, clock, pc, salvaged, kept, faults>>

Tick ==
    /\ clock < MaxSecond
    /\ clock' = clock + 1
    /\ UNCHANGED <<disk, live, wal, readable, backups, pc, salvaged, wanted, kept,
                   damages, faults>>

-----------------------------------------------------------------------------
(* open_with_backup_dir                                                    *)

\* connect_file and quick_check find nothing wrong.
OpenSound ==
    /\ pc = "down"
    /\ disk = "sound"
    /\ pc' = "up"
    /\ UNCHANGED <<disk, live, wal, readable, backups, clock, salvaged, wanted, kept,
                   damages, faults>>

\* There is no file: connect_file makes one.
OpenMissing ==
    /\ pc = "down"
    /\ disk = "missing"
    /\ disk' = "sound"
    /\ readable' = Table
    /\ pc' = "up"
    /\ UNCHANGED <<live, wal, backups, clock, salvaged, wanted, kept, damages, faults>>

\* Mutant: any error of connect_file or quick_check counts as corruption.
TransientIsCorrupt ==
    /\ Fault("transient")
    /\ pc = "down"
    /\ pc' = "isolate"
    /\ UNCHANGED <<disk, live, wal, readable, backups, clock, salvaged, wanted, kept,
                   damages>>

\* The file is busy, locked or cannot be opened just now: no signature of
\* corruption, so the boot fails and the file is left alone.
OpenTransient ==
    /\ Fault("transient")
    /\ pc = "down"
    /\ UNCHANGED <<disk, live, wal, readable, backups, clock, pc, salvaged, wanted, kept,
                   damages>>

\* Mutant: the result of quick_check is ignored.
CorruptIgnored(connected) ==
    /\ pc = "down"
    /\ disk = "damaged"
    /\ pc' = "up"
    /\ UNCHANGED <<disk, live, wal, readable, backups, clock, salvaged, wanted, kept,
                   damages, faults>>

\* The header, an error code or quick_check says corrupt.  When the file could
\* be connected to, close() has moved the -wal into it.
OpenCorrupt(connected) ==
    /\ pc = "down"
    /\ disk = "damaged"
    /\ pc' = "isolate"
    /\ wal' = IF connected THEN {} ELSE wal
    /\ UNCHANGED <<disk, live, readable, backups, clock, salvaged, wanted, kept,
                   damages, faults>>

-----------------------------------------------------------------------------
(* salvage                                                                 *)

\* A row as salvage_accounts and salvage_filter_tables rebuild it: the TLS
\* modes are not read, every account gets the default.
Rebuilt(r) == [r EXCEPT !.mode = ImplicitTls]

\* Mutant: the backup is one file, not one a second.
BackupOnce(rows) ==
    backups' = [t \in DOMAIN backups |-> IF t = 0 THEN [made |-> TRUE, rows |-> rows]
                                                  ELSE backups[t]]

\* std::fs::copy to the name of this second, over whatever is there.
WriteBackup(rows) ==
    backups' = [backups EXCEPT ![clock] = [made |-> TRUE, rows |-> rows]]

\* backup_corrupted_db_to copies the file and then the -wal, whose copy may
\* fail unnoticed; then every readable table is read from the backup, or none
\* when it cannot be opened.
Isolate(walCopied, opened) ==
    LET rows == IF walCopied THEN live ELSE live \ wal
    IN /\ pc = "isolate"
       /\ \/ walCopied /\ opened /\ UNCHANGED faults
          \/ ~walCopied /\ opened /\ wal # {} /\ Fault("wal")
          \/ walCopied /\ ~opened /\ Fault("read")
       /\ WriteBackup(rows)
       /\ salvaged' = IF opened THEN {Rebuilt(r) : r \in {q \in rows : q.table \in readable}}
                                ELSE {}
       /\ pc' = "remove"
       /\ UNCHANGED <<disk, live, wal, readable, clock, wanted, kept, damages>>

\* Mutant: the salvage goes on without a backup.
BackupErrorDropped ==
    /\ Fault("backup")
    /\ pc = "isolate"
    /\ pc' = "remove"
    /\ UNCHANGED <<disk, live, wal, readable, backups, clock, salvaged, wanted, kept, damages>>

\* The copy fails, the backup left out or incomplete; the file is not touched.
IsolateFails ==
    /\ Fault("backup")
    /\ pc = "isolate"
    /\ UNCHANGED backups \/ WriteBackup({})
    /\ pc' = "down"
    /\ UNCHANGED <<disk, live, wal, readable, clock, salvaged, wanted, kept, damages>>

\* The damaged file and its companions are removed.
Remove ==
    /\ pc = "remove"
    /\ disk' = "missing"
    /\ live' = {}
    /\ wal' = {}
    /\ readable' = Table
    /\ pc' = "create"
    /\ UNCHANGED <<backups, clock, salvaged, wanted, kept, damages, faults>>

\* connect_file makes a fresh one, or fails and ends the boot.
Create ==
    /\ pc = "create"
    /\ disk' = "sound"
    /\ pc' = "restore"
    /\ UNCHANGED <<live, wal, readable, backups, clock, salvaged, wanted, kept, damages, faults>>

CreateFails ==
    /\ Fault("create")
    /\ pc = "create"
    /\ pc' = "down"
    /\ salvaged' = {}
    /\ UNCHANGED <<disk, live, wal, readable, backups, clock, wanted, kept, damages>>

\* Mutant: the INSERT names a column that is not there, and its error is dropped.
RestoreOtherSchema(r) ==
    /\ pc = "restore"
    /\ r \in salvaged
    /\ salvaged' = salvaged \ {r}
    /\ UNCHANGED <<disk, live, wal, readable, backups, clock, pc, wanted, kept, damages, faults>>

\* One salvaged row is inserted; one that cannot be is passed over.
Restore(r) ==
    /\ pc = "restore"
    /\ r \in salvaged
    /\ live' = live \union {r}
    /\ wal' = wal \union {r}
    /\ salvaged' = salvaged \ {r}
    /\ UNCHANGED <<disk, readable, backups, clock, pc, wanted, kept, damages, faults>>

RestoreFails(r) ==
    /\ Fault("restore")
    /\ pc = "restore"
    /\ r \in salvaged
    /\ salvaged' = salvaged \ {r}
    /\ UNCHANGED <<disk, live, wal, readable, backups, clock, pc, wanted, kept, damages>>

Finish ==
    /\ pc = "restore"
    /\ salvaged = {}
    /\ pc' = "up"
    /\ UNCHANGED <<disk, live, wal, readable, backups, clock, salvaged, wanted, kept,
                   damages, faults>>

-----------------------------------------------------------------------------
Init ==
    /\ disk = "missing"
    /\ live = {} /\ wal = {} /\ readable = Table
    /\ backups = [t \in 0..MaxSecond |-> NoBackup]
    /\ clock = 0
    /\ pc = "down"
    /\ salvaged = {} /\ wanted = {} /\ kept = {}
    /\ damages = 0
    /\ faults = [k \in FaultKind |-> 0]

\* A boot, step by step.
Boot ==
    \/ OpenSound
    \/ OpenMissing
    \/ \E connected \in BOOLEAN : OpenCorrupt(connected)
    \/ \E walCopied, opened \in BOOLEAN : Isolate(walCopied, opened)
    \/ Remove
    \/ Create
    \/ \E r \in salvaged : Restore(r)
    \/ Finish

Failures ==
    \/ OpenTransient
    \/ IsolateFails
    \/ CreateFails
    \/ \E r \in salvaged : RestoreFails(r)

Next ==
    \/ \E r \in Row : Configure(r) \/ Unconfigure(r)
    \/ Checkpoint
    \/ Stop
    \/ \E tables \in SUBSET Table : Damage(tables)
    \/ Tick
    \/ Boot
    \/ Failures

Spec == Init /\ [][Next]_vars

-----------------------------------------------------------------------------
(* Properties                                                              *)

\* Every variable has its type; what is in the -wal or being restored is
\* there only when there is a file, and no damaged file is in service.
TypeOK ==
    /\ disk \in {"missing", "sound", "damaged"}
    /\ live \subseteq Row /\ wal \subseteq live
    /\ readable \subseteq Table
    /\ backups \in [0..MaxSecond -> [made : BOOLEAN, rows : SUBSET Row]]
    /\ clock \in 0..MaxSecond
    /\ pc \in {"down", "isolate", "remove", "create", "restore", "up"}
    /\ salvaged \subseteq Row
    /\ wanted \subseteq Row /\ kept \subseteq Row
    /\ disk = "missing" => live = {}
    /\ pc \in {"restore", "up"} => disk = "sound"
    /\ damages \in Nat
    /\ faults \in [FaultKind -> Nat]

\* backup_corrupted_db_to, salvage: whatever is corrupted, unreadable, fails
\* or is cut short, an account or rule a client configured is in the live
\* file or in a forensic backup, unless the -wal could not be copied, which
\* goes unnoticed.
NothingLostForGood ==
    ~Happened("wal") =>
        \A r \in kept : Holds(live, r) \/ \E t \in DOMAIN backups : Holds(backups[t].rows, r)

\* What makes it so: a damaged file is removed only after a copy of all that
\* is in it was made.
RemovalCovered ==
    pc = "remove" /\ ~Happened("wal") =>
        \A r \in live : \E t \in DOMAIN backups : Holds(backups[t].rows, r)

\* Recovery destroys nothing it has not copied: whatever was configured is in
\* the live file or in a backup, at every step of every boot.
RecoveryInv == TypeOK /\ RemovalCovered /\ NothingLostForGood

\* open_with_backup_dir: a sound file is never removed, however often it
\* cannot be opened.
SoundNeverRemoved == [][disk = "sound" => disk' # "missing"]_vars

\* salvage: when the daemon is up again it has every account and rule that
\* could be read, an account at worst with the default TLS modes.
ReadableSurvives == pc = "up" => \A r \in wanted : r \in live \/ Rebuilt(r) \in live

\* The same as long as the salvage itself was not disturbed: boots that fail
\* before the damaged file is removed are harmless.
ReadableSurvivesUnlessFault ==
    ~(\E kind \in {"wal", "read", "create", "restore", "crash"} : Happened(kind))
        => ReadableSurvives
=============================================================================
