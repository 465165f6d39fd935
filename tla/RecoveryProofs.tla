--------------------------- MODULE RecoveryProofs ---------------------------
(***************************************************************************)
(* Corruption recovery, for any accounts and rules, any number of          *)
(* corruptions, crashes and failures and any clock: a sound file is never  *)
(* removed, a damaged one only after a copy of it was made, nothing that   *)
(* was configured is lost for good as long as two corruptions do not share *)
(* a second, and what stayed readable is back after an undisturbed boot.   *)
(***************************************************************************)
EXTENDS Recovery, TLAPS

\* Only a damaged file is isolated and removed.
SalvagesDamaged == pc \in {"isolate", "remove"} => disk = "damaged"

\* What the boot finds in the backups: no backup from the future, nothing in
\* one that was not made, and, for a damaged file, nothing under the name of
\* this second that is not in the file as well, so that writing this backup
\* overwrites nothing that only a backup holds.
BackupsFresh ==
    /\ \A t \in 0..MaxSecond : ~backups[t].made => backups[t].rows = {}
    /\ \A t \in 0..MaxSecond : t > clock => ~backups[t].made
    /\ disk = "damaged" => backups[clock].rows \subseteq live

\* The whole file is in one of the backups when it is about to be removed.
FileCopied ==
    pc = "remove" /\ ~Happened("wal") =>
        \E t \in 0..MaxSecond : live \subseteq backups[t].rows

\* A configured row is in the file or in a backup.
Kept(r) == Holds(live, r) \/ \E t \in 0..MaxSecond : Holds(backups[t].rows, r)

LossInv ==
    /\ TypeOK /\ SalvagesDamaged /\ BackupsFresh /\ FileCopied
    /\ ~Happened("wal") => \A r \in kept : Kept(r)

\* No fault that disturbs a salvage has happened.
Undisturbed == \A kind \in {"wal", "read", "create", "restore", "crash"} : ~Happened(kind)

\* Where a wanted row is at each step of an undisturbed boot: in the file, on
\* its way through salvaged once the file is to be removed, or back in.
Wanted(r) ==
    /\ pc \in {"down", "isolate", "up"} => r \in live \/ Rebuilt(r) \in live
    /\ pc \in {"remove", "create"} => Rebuilt(r) \in salvaged
    /\ pc = "restore" => Rebuilt(r) \in salvaged \union live
    /\ disk = "damaged" => r.table \in readable

WantedInv ==
    /\ TypeOK /\ SalvagesDamaged
    /\ Undisturbed => \A r \in wanted : Wanted(r)

-----------------------------------------------------------------------------
(* Lemmas about rows, faults and backups                                   *)

\* A rebuilt row is the same row with the default TLS modes.
LEMMA RebuiltRow ==
    ASSUME NEW r \in Row
    PROVE  /\ Rebuilt(r) \in Row
           /\ Rebuilt(r).table = r.table /\ Rebuilt(r).id = r.id
           /\ Rebuilt(Rebuilt(r)) = Rebuilt(r)
BY RecoveryAssumption DEF Row, Rebuilt

\* A fault is counted, and none is forgotten.
LEMMA FaultCounted ==
    ASSUME faults \in [FaultKind -> Nat], NEW kind, Fault(kind)
    PROVE  /\ faults' \in [FaultKind -> Nat]
           /\ Happened(kind)'
           /\ \A k : Happened(k) => Happened(k)'
<1>1. kind \in FaultKind /\ faults' = [faults EXCEPT ![kind] = @ + 1]
  BY DEF Fault
<1> QED
  BY <1>1 DEF Happened

\* A backup changes what is under the name of this second only.
LEMMA BackupWritten ==
    ASSUME TypeOK, NEW rows \in SUBSET Row, WriteBackup(rows)
    PROVE  /\ backups' \in [0..MaxSecond -> [made : BOOLEAN, rows : SUBSET Row]]
           /\ backups'[clock].made /\ backups'[clock].rows = rows
           /\ \A t \in 0..MaxSecond : t # clock => backups'[t] = backups[t]
<1> DEFINE new == [made |-> TRUE, rows |-> rows]
<1>1. new \in [made : BOOLEAN, rows : SUBSET Row] /\ new.made = TRUE /\ new.rows = rows
  OBVIOUS
<1>2. backups' = [backups EXCEPT ![clock] = new]
  BY DEF WriteBackup
<1> HIDE DEF new
<1> QED
  BY <1>1, <1>2 DEF TypeOK

-----------------------------------------------------------------------------
(* Types, and that only a damaged file is salvaged                         *)

\* The first boot finds no file.
LEMMA InitType == Init => TypeOK /\ SalvagesDamaged
<1> SUFFICES ASSUME Init PROVE TypeOK /\ SalvagesDamaged
  OBVIOUS
<1>1. NoBackup \in [made : BOOLEAN, rows : SUBSET Row]
  BY DEF NoBackup
<1>2. backups \in [0..MaxSecond -> [made : BOOLEAN, rows : SUBSET Row]]
  BY <1>1 DEF Init
<1>3. clock \in 0..MaxSecond /\ faults \in [FaultKind -> Nat]
  BY RecoveryAssumption DEF Init
<1> QED
  BY <1>2, <1>3 DEF Init, TypeOK, SalvagesDamaged

\* Every step keeps the types, and only OpenCorrupt leads to a removal.
LEMMA NextType ==
    TypeOK /\ SalvagesDamaged /\ [Next]_vars => TypeOK' /\ SalvagesDamaged'
<1> SUFFICES ASSUME TypeOK, SalvagesDamaged, [Next]_vars
             PROVE  TypeOK' /\ SalvagesDamaged'
  OBVIOUS
<1> USE RecoveryAssumption
<1>1. ASSUME NEW r \in Row, Configure(r) PROVE TypeOK' /\ SalvagesDamaged'
  BY <1>1 DEF TypeOK, SalvagesDamaged, Configure
<1>2. ASSUME NEW r \in Row, Unconfigure(r) PROVE TypeOK' /\ SalvagesDamaged'
  BY <1>2 DEF TypeOK, SalvagesDamaged, Unconfigure
<1>3. CASE Checkpoint
  BY <1>3 DEF TypeOK, SalvagesDamaged, Checkpoint
<1>4. CASE Stop
  <2>1. faults' \in [FaultKind -> Nat]
    BY <1>4, FaultCounted DEF Stop, TypeOK
  <2> QED
    BY <1>4, <2>1 DEF TypeOK, SalvagesDamaged, Stop
<1>5. ASSUME NEW tables \in SUBSET Table, Damage(tables) PROVE TypeOK' /\ SalvagesDamaged'
  BY <1>5 DEF TypeOK, SalvagesDamaged, Damage
<1>6. CASE Tick
  BY <1>6 DEF TypeOK, SalvagesDamaged, Tick
<1>7. CASE OpenSound
  BY <1>7 DEF TypeOK, SalvagesDamaged, OpenSound
<1>8. CASE OpenMissing
  BY <1>8 DEF TypeOK, SalvagesDamaged, OpenMissing
<1>9. ASSUME NEW connected \in BOOLEAN, OpenCorrupt(connected)
      PROVE  TypeOK' /\ SalvagesDamaged'
  BY <1>9 DEF TypeOK, SalvagesDamaged, OpenCorrupt
<1>10. ASSUME NEW walCopied \in BOOLEAN, NEW opened \in BOOLEAN, Isolate(walCopied, opened)
       PROVE  TypeOK' /\ SalvagesDamaged'
  <2> DEFINE rows == IF walCopied THEN live ELSE live \ wal
  <2>1. rows \in SUBSET Row
    BY DEF TypeOK
  <2>2. /\ WriteBackup(rows)
        /\ salvaged' = IF opened THEN {Rebuilt(r) : r \in {q \in rows : q.table \in readable}}
                                 ELSE {}
        /\ UNCHANGED faults \/ Fault("wal") \/ Fault("read")
    BY <1>10 DEF Isolate
  <2> HIDE DEF rows
  <2>3. salvaged' \subseteq Row
    BY <2>1, <2>2, RebuiltRow
  <2>4. faults' \in [FaultKind -> Nat]
    BY <2>2, FaultCounted DEF TypeOK
  <2>5. backups' \in [0..MaxSecond -> [made : BOOLEAN, rows : SUBSET Row]]
    BY <2>1, <2>2, BackupWritten
  <2> QED
    BY <1>10, <2>3, <2>4, <2>5 DEF TypeOK, SalvagesDamaged, Isolate
<1>11. CASE Remove
  BY <1>11 DEF TypeOK, SalvagesDamaged, Remove
<1>12. CASE Create
  BY <1>12 DEF TypeOK, SalvagesDamaged, Create
<1>13. ASSUME NEW r \in salvaged, Restore(r) PROVE TypeOK' /\ SalvagesDamaged'
  BY <1>13 DEF TypeOK, SalvagesDamaged, Restore
<1>14. CASE Finish
  BY <1>14 DEF TypeOK, SalvagesDamaged, Finish
<1>15. CASE OpenTransient
  <2>1. faults' \in [FaultKind -> Nat]
    BY <1>15, FaultCounted DEF OpenTransient, TypeOK
  <2> QED
    BY <1>15, <2>1 DEF TypeOK, SalvagesDamaged, OpenTransient
<1>16. CASE IsolateFails
  <2>1. faults' \in [FaultKind -> Nat]
    BY <1>16, FaultCounted DEF IsolateFails, TypeOK
  <2>2. backups' \in [0..MaxSecond -> [made : BOOLEAN, rows : SUBSET Row]]
    BY <1>16, BackupWritten DEF IsolateFails, TypeOK
  <2> QED
    BY <1>16, <2>1, <2>2 DEF TypeOK, SalvagesDamaged, IsolateFails
<1>17. CASE CreateFails
  <2>1. faults' \in [FaultKind -> Nat]
    BY <1>17, FaultCounted DEF CreateFails, TypeOK
  <2> QED
    BY <1>17, <2>1 DEF TypeOK, SalvagesDamaged, CreateFails
<1>18. ASSUME NEW r \in salvaged, RestoreFails(r) PROVE TypeOK' /\ SalvagesDamaged'
  <2>1. faults' \in [FaultKind -> Nat]
    BY <1>18, FaultCounted DEF RestoreFails, TypeOK
  <2> QED
    BY <1>18, <2>1 DEF TypeOK, SalvagesDamaged, RestoreFails
<1>19. CASE UNCHANGED vars
  BY <1>19 DEF TypeOK, SalvagesDamaged, vars
<1> QED
  BY <1>1, <1>2, <1>3, <1>4, <1>5, <1>6, <1>7, <1>8, <1>9, <1>10, <1>11, <1>12,
     <1>13, <1>14, <1>15, <1>16, <1>17, <1>18, <1>19 DEF Next, Boot, Failures

\* A sound file is never removed, however often it cannot be opened.
THEOREM SoundFilesStay == Spec => SoundNeverRemoved
<1>1. TypeOK /\ SalvagesDamaged /\ [Next]_vars => [disk = "sound" => disk' # "missing"]_vars
  BY DEF SalvagesDamaged, Next, Boot, Failures, vars, Configure, Unconfigure, Checkpoint,
         Stop, Damage, Tick, OpenSound, OpenMissing, OpenCorrupt, Isolate, Remove, Create,
         Restore, Finish, OpenTransient, IsolateFails, CreateFails, RestoreFails
<1> QED
  BY <1>1, InitType, NextType, PTL DEF Spec, SoundNeverRemoved

-----------------------------------------------------------------------------
(* Nothing is lost for good                                                *)

\* Steps that leave the file, the backups and the clock alone keep it.
LEMMA LossUntouched ==
    ASSUME LossInv, TypeOK', SalvagesDamaged', UNCHANGED <<live, backups, clock, kept>>,
           disk' = "damaged" => disk = "damaged",
           pc' = "remove" => pc = "remove",
           Happened("wal") => Happened("wal")'
    PROVE  LossInv'
<1>1. BackupsFresh'
  BY DEF LossInv, BackupsFresh
<1>2. FileCopied'
  BY DEF LossInv, FileCopied
<1>3. ~Happened("wal")' => \A r \in kept' : Kept(r)'
  BY DEF LossInv, Kept
<1> QED
  BY <1>1, <1>2, <1>3 DEF LossInv

\* A backup under the name of this second overwrites nothing that is not in
\* the damaged file as well.
LEMMA BackupKeeps ==
    ASSUME LossInv, NEW rows \in SUBSET live, WriteBackup(rows),
           disk = "damaged", UNCHANGED <<disk, live, clock, kept>>,
           Happened("wal") => Happened("wal")'
    PROVE  /\ BackupsFresh'
           /\ ~Happened("wal")' => \A r \in kept' : Kept(r)'
<1>1. /\ backups'[clock].made /\ backups'[clock].rows = rows
      /\ \A t \in 0..MaxSecond : t # clock => backups'[t] = backups[t]
  BY BackupWritten DEF LossInv, TypeOK
<1>2. clock \in 0..MaxSecond /\ backups[clock].rows \subseteq live
  BY DEF LossInv, TypeOK, BackupsFresh
<1>3. BackupsFresh'
  BY <1>1, <1>2, RecoveryAssumption DEF LossInv, BackupsFresh, TypeOK
<1>4. ASSUME ~Happened("wal")', NEW r \in kept' PROVE Kept(r)'
  <2>1. Kept(r)
    BY <1>4 DEF LossInv
  <2>2. CASE Holds(live, r)
    BY <2>2 DEF Kept
  <2>3. ASSUME NEW t \in 0..MaxSecond, Holds(backups[t].rows, r) PROVE Kept(r)'
    <3>1. CASE t = clock
      BY <1>2, <2>3, <3>1 DEF Kept, Holds
    <3>2. CASE t # clock
      BY <1>1, <2>3, <3>2 DEF Kept, Holds
    <3> QED
      BY <3>1, <3>2
  <2> QED
    BY <2>1, <2>2, <2>3 DEF Kept
<1> QED
  BY <1>3, <1>4

\* Every step keeps every configured row in the file or in a backup, if no
\* second corruption shares the second of a backup.
LEMMA NextLoss ==
    ASSUME ~SameSecond, LossInv, [Next]_vars
    PROVE  LossInv'
<1>0. TypeOK /\ TypeOK' /\ SalvagesDamaged /\ SalvagesDamaged'
  BY NextType DEF LossInv
<1> USE RecoveryAssumption, <1>0
<1>1. ASSUME NEW r \in Row, Configure(r) PROVE LossInv'
  <2>1. /\ live' = live \union {r} /\ UNCHANGED <<disk, backups, clock, pc, faults>>
        /\ kept' = {q \in kept : ~Same(q, r)} \union {r} /\ pc = "up" /\ disk = "sound"
    BY <1>1 DEF Configure, TypeOK
  <2>2. BackupsFresh' /\ FileCopied'
    BY <2>1 DEF LossInv, BackupsFresh, FileCopied
  <2>3. Kept(r)'
    BY <2>1 DEF Kept, Holds, Same
  <2>4. ~Happened("wal")' => \A q \in kept' : Kept(q)'
    BY <2>1, <2>3 DEF LossInv, Kept, Holds, Happened
  <2> QED
    BY <2>2, <2>4 DEF LossInv
<1>2. ASSUME NEW r \in Row, Unconfigure(r) PROVE LossInv'
  <2>1. /\ live' = live \ {r} /\ UNCHANGED <<disk, backups, clock, pc, faults>>
        /\ kept' = {q \in kept : ~Same(q, r)} /\ pc = "up" /\ disk = "sound"
    BY <1>2 DEF Unconfigure, TypeOK
  <2>2. BackupsFresh' /\ FileCopied'
    BY <2>1 DEF LossInv, BackupsFresh, FileCopied
  <2>3. ASSUME NEW q \in kept', Holds(live, q) PROVE Holds(live', q)
    BY <2>1, <2>3 DEF Holds, Same
  <2>4. ~Happened("wal")' => \A q \in kept' : Kept(q)'
    BY <2>1, <2>3 DEF LossInv, Kept, Happened
  <2> QED
    BY <2>2, <2>4 DEF LossInv
<1>3. CASE Checkpoint
  BY <1>3, LossUntouched DEF Checkpoint, Happened
<1>4. CASE Stop
  <2>1. Happened("wal") => Happened("wal")'
    BY <1>4, FaultCounted DEF Stop, TypeOK, Happened
  <2> QED
    BY <1>4, <2>1, LossUntouched DEF Stop
<1>5. ASSUME NEW tables \in SUBSET Table, Damage(tables) PROVE LossInv'
  <2>1. /\ UNCHANGED <<live, backups, clock, pc, kept, faults>>
        /\ ~backups[clock].made /\ pc = "down"
    BY <1>5 DEF Damage
  <2>2. BackupsFresh'
    BY <2>1 DEF LossInv, BackupsFresh, TypeOK
  <2>3. FileCopied' /\ (~Happened("wal")' => \A r \in kept' : Kept(r)')
    BY <2>1 DEF LossInv, FileCopied, Kept, Happened
  <2> QED
    BY <2>2, <2>3 DEF LossInv
<1>6. CASE Tick
  <2>1. /\ UNCHANGED <<live, disk, backups, pc, kept, faults>>
        /\ clock' = clock + 1 /\ clock \in 0..MaxSecond /\ clock' \in 0..MaxSecond
    BY <1>6 DEF Tick, TypeOK
  <2>2. BackupsFresh'
    BY <2>1 DEF LossInv, BackupsFresh
  <2>3. FileCopied' /\ (~Happened("wal")' => \A r \in kept' : Kept(r)')
    BY <2>1 DEF LossInv, FileCopied, Kept, Happened
  <2> QED
    BY <2>2, <2>3 DEF LossInv
<1>7. CASE OpenSound
  BY <1>7, LossUntouched DEF OpenSound, Happened
<1>8. CASE OpenMissing
  BY <1>8, LossUntouched DEF OpenMissing, Happened
<1>9. ASSUME NEW connected \in BOOLEAN, OpenCorrupt(connected) PROVE LossInv'
  BY <1>9, LossUntouched DEF OpenCorrupt, Happened
<1>10. ASSUME NEW walCopied \in BOOLEAN, NEW opened \in BOOLEAN, Isolate(walCopied, opened)
       PROVE  LossInv'
  <2> DEFINE rows == IF walCopied THEN live ELSE live \ wal
  <2>1. rows \in SUBSET live /\ rows \in SUBSET Row
    BY DEF TypeOK
  <2>2. /\ WriteBackup(rows) /\ UNCHANGED <<disk, live, clock, kept>> /\ disk = "damaged"
        /\ UNCHANGED faults \/ Fault("wal") \/ Fault("read")
        /\ walCopied \/ Fault("wal")
    BY <1>10 DEF Isolate, SalvagesDamaged
  <2>3. Happened("wal") => Happened("wal")'
    BY <2>2, FaultCounted DEF TypeOK, Happened
  <2>4. walCopied \/ Happened("wal")'
    BY <2>2, FaultCounted DEF TypeOK
  <2>5. walCopied => rows = live
    OBVIOUS
  <2> HIDE DEF rows
  <2>6. BackupsFresh' /\ (~Happened("wal")' => \A r \in kept' : Kept(r)')
    BY <2>1, <2>2, <2>3, BackupKeeps
  <2>7. FileCopied'
    BY <2>1, <2>2, <2>4, <2>5, BackupWritten DEF FileCopied, TypeOK
  <2> QED
    BY <2>6, <2>7 DEF LossInv
<1>11. CASE Remove
  <2>1. /\ live' = {} /\ UNCHANGED <<backups, clock, kept, faults>> /\ disk' = "missing"
        /\ pc = "remove" /\ pc' = "create"
    BY <1>11 DEF Remove
  <2>2. BackupsFresh' /\ FileCopied'
    BY <2>1 DEF LossInv, BackupsFresh, FileCopied
  <2>3. ~Happened("wal")' => \A r \in kept' : Kept(r)'
    BY <2>1 DEF LossInv, FileCopied, Kept, Happened, Holds
  <2> QED
    BY <2>2, <2>3 DEF LossInv
<1>12. CASE Create
  BY <1>12, LossUntouched DEF Create, Happened
<1>13. ASSUME NEW r \in salvaged, Restore(r) PROVE LossInv'
  <2>1. /\ live' = live \union {r} /\ UNCHANGED <<disk, backups, clock, pc, kept, faults>>
        /\ pc = "restore" /\ disk = "sound"
    BY <1>13 DEF Restore, TypeOK
  <2>2. BackupsFresh' /\ FileCopied'
    BY <2>1 DEF LossInv, BackupsFresh, FileCopied
  <2>3. ~Happened("wal")' => \A q \in kept' : Kept(q)'
    BY <2>1 DEF LossInv, Kept, Happened, Holds
  <2> QED
    BY <2>2, <2>3 DEF LossInv
<1>14. CASE Finish
  BY <1>14, LossUntouched DEF Finish, Happened
<1>15. CASE OpenTransient
  <2>1. Happened("wal") => Happened("wal")'
    BY <1>15, FaultCounted DEF OpenTransient, TypeOK
  <2> QED
    BY <1>15, <2>1, LossUntouched DEF OpenTransient
<1>16. CASE IsolateFails
  <2>1. Happened("wal") => Happened("wal")'
    BY <1>16, FaultCounted DEF IsolateFails, TypeOK
  <2>2. CASE UNCHANGED backups
    BY <1>16, <2>1, <2>2, LossUntouched DEF IsolateFails
  <2>3. CASE WriteBackup({})
    <3>1. BackupsFresh' /\ (~Happened("wal")' => \A r \in kept' : Kept(r)')
      BY <1>16, <2>1, <2>3, BackupKeeps DEF IsolateFails, SalvagesDamaged
    <3> QED
      BY <1>16, <3>1 DEF IsolateFails, FileCopied, LossInv
  <2> QED
    BY <1>16, <2>2, <2>3 DEF IsolateFails
<1>17. CASE CreateFails
  <2>1. Happened("wal") => Happened("wal")'
    BY <1>17, FaultCounted DEF CreateFails, TypeOK
  <2> QED
    BY <1>17, <2>1, LossUntouched DEF CreateFails
<1>18. ASSUME NEW r \in salvaged, RestoreFails(r) PROVE LossInv'
  <2>1. Happened("wal") => Happened("wal")'
    BY <1>18, FaultCounted DEF RestoreFails, TypeOK
  <2> QED
    BY <1>18, <2>1, LossUntouched DEF RestoreFails
<1>19. CASE UNCHANGED vars
  BY <1>19, LossUntouched DEF vars, Happened
<1> QED
  BY <1>1, <1>2, <1>3, <1>4, <1>5, <1>6, <1>7, <1>8, <1>9, <1>10, <1>11, <1>12,
     <1>13, <1>14, <1>15, <1>16, <1>17, <1>18, <1>19 DEF Next, Boot, Failures

\* Whatever is corrupted, unreadable, fails or is cut short, and however often,
\* every account and rule a client configured is in the live file or in a
\* forensic backup, and a damaged file is removed only once it is copied,
\* unless a -wal copy failed; as long as no second corruption falls into the
\* second a backup is named after.
THEOREM NothingIsLost == ~SameSecond /\ Spec => []RecoveryInv
<1> SUFFICES ASSUME ~SameSecond PROVE Spec => []RecoveryInv
  OBVIOUS
<1>1. Init => LossInv
  <2> SUFFICES ASSUME Init PROVE LossInv
    OBVIOUS
  <2>1. BackupsFresh
    BY DEF Init, BackupsFresh, NoBackup
  <2> QED
    BY <2>1, InitType DEF Init, LossInv, FileCopied
<1>2. LossInv /\ [Next]_vars => LossInv'
  BY NextLoss
<1>3. LossInv => RecoveryInv
  <2> SUFFICES ASSUME LossInv PROVE RecoveryInv
    OBVIOUS
  <2>1. DOMAIN backups = 0..MaxSecond
    BY DEF LossInv, TypeOK
  <2>2. NothingLostForGood
    BY <2>1 DEF LossInv, NothingLostForGood, Kept
  <2>3. RemovalCovered
    BY <2>1 DEF LossInv, FileCopied, RemovalCovered, Holds, Same
  <2> QED
    BY <2>2, <2>3 DEF LossInv, RecoveryInv
<1> QED
  BY <1>1, <1>2, <1>3, PTL DEF Spec

-----------------------------------------------------------------------------
(* What stayed readable is back after an undisturbed boot                  *)

\* Steps that keep rows, tables and the phase of the boot keep it.
LEMMA WantedUntouched ==
    ASSUME WantedInv, TypeOK', SalvagesDamaged', UNCHANGED <<live, readable, salvaged, wanted>>,
           disk' = "damaged" => disk = "damaged",
           pc' \in {"down", "isolate", "up"} => pc \in {"down", "isolate", "up"},
           pc' \in {"remove", "create"} => pc \in {"remove", "create"},
           pc' = "restore" => pc = "restore",
           Undisturbed' => Undisturbed
    PROVE  WantedInv'
<1>1. ASSUME Undisturbed', NEW r \in wanted' PROVE Wanted(r)'
  BY <1>1 DEF WantedInv, Wanted, Rebuilt
<1> QED
  BY <1>1 DEF WantedInv

\* No fault is forgotten, so an undisturbed salvage was never disturbed.
LEMMA DisturbedForGood ==
    ASSUME TypeOK, NEW kind, UNCHANGED faults \/ Fault(kind)
    PROVE  Undisturbed' => Undisturbed
<1>1. \A k : Happened(k) => Happened(k)'
  BY FaultCounted DEF TypeOK, Happened
<1> QED
  BY <1>1 DEF Undisturbed

\* Every step carries every wanted row on, or is a fault that disturbs.
LEMMA NextWanted == WantedInv /\ [Next]_vars => WantedInv'
<1> SUFFICES ASSUME WantedInv, [Next]_vars PROVE WantedInv'
  OBVIOUS
<1>0. TypeOK /\ TypeOK' /\ SalvagesDamaged /\ SalvagesDamaged'
  BY NextType DEF WantedInv
<1> USE RecoveryAssumption, <1>0
<1>1. ASSUME NEW r \in Row, Configure(r) PROVE WantedInv'
  <2> SUFFICES ASSUME Undisturbed', NEW q \in wanted' PROVE Wanted(q)'
    BY DEF WantedInv
  <2>1. /\ live' = live \union {r} /\ pc = "up" /\ pc' = "up" /\ disk' = "sound"
        /\ q \in wanted \/ q = r
    BY <1>1 DEF Configure, TypeOK
  <2>2. Undisturbed
    BY <1>1, DisturbedForGood DEF Configure
  <2> QED
    BY <2>1, <2>2 DEF WantedInv, Wanted, Rebuilt
<1>2. ASSUME NEW r \in Row, Unconfigure(r) PROVE WantedInv'
  <2> SUFFICES ASSUME Undisturbed', NEW q \in wanted' PROVE Wanted(q)'
    BY DEF WantedInv
  <2>1. /\ live' = live \ {r} /\ pc = "up" /\ pc' = "up" /\ disk' = "sound"
        /\ q \in wanted /\ ~Same(q, r) /\ q \in Row
    BY <1>2 DEF Unconfigure, TypeOK
  <2>2. Undisturbed
    BY <1>2, DisturbedForGood DEF Unconfigure
  <2>3. q # r /\ Rebuilt(q) # r
    BY <2>1, RebuiltRow DEF Same
  <2>4. q \in live \/ Rebuilt(q) \in live
    BY <2>1, <2>2 DEF WantedInv, Wanted
  <2>5. q \in live' \/ Rebuilt(q) \in live'
    BY <2>1, <2>3, <2>4
  <2> QED
    BY <2>1, <2>5 DEF Wanted, Rebuilt
<1>3. CASE Checkpoint
  BY <1>3, WantedUntouched, DisturbedForGood DEF Checkpoint
<1>4. CASE Stop
  <2>1. CASE pc = "up" /\ UNCHANGED faults
    <3> SUFFICES ASSUME Undisturbed', NEW q \in wanted' PROVE Wanted(q)'
      BY DEF WantedInv
    <3>1. Undisturbed
      BY <2>1, DisturbedForGood
    <3> QED
      BY <1>4, <2>1, <3>1 DEF Stop, WantedInv, Wanted, Rebuilt, TypeOK
  <2>2. CASE Fault("crash")
    <3>1. ~Undisturbed'
      BY <2>2, FaultCounted DEF Undisturbed, TypeOK
    <3> QED
      BY <3>1 DEF WantedInv
  <2> QED
    BY <1>4, <2>1, <2>2 DEF Stop
<1>5. ASSUME NEW tables \in SUBSET Table, Damage(tables) PROVE WantedInv'
  <2> SUFFICES ASSUME Undisturbed', NEW q \in wanted' PROVE Wanted(q)'
    BY DEF WantedInv
  <2>1. /\ UNCHANGED <<live, pc>> /\ pc = "down" /\ readable' = tables
        /\ q \in wanted /\ q.table \in tables
    BY <1>5 DEF Damage
  <2>2. Undisturbed
    BY <1>5, DisturbedForGood DEF Damage
  <2> QED
    BY <2>1, <2>2 DEF WantedInv, Wanted, Rebuilt
<1>6. CASE Tick
  BY <1>6, WantedUntouched, DisturbedForGood DEF Tick
<1>7. CASE OpenSound
  BY <1>7, WantedUntouched, DisturbedForGood DEF OpenSound
<1>8. CASE OpenMissing
  <2> SUFFICES ASSUME Undisturbed', NEW q \in wanted' PROVE Wanted(q)'
    BY DEF WantedInv
  <2>1. Undisturbed
    BY <1>8, DisturbedForGood DEF OpenMissing
  <2> QED
    BY <1>8, <2>1 DEF OpenMissing, WantedInv, Wanted, Rebuilt
<1>9. ASSUME NEW connected \in BOOLEAN, OpenCorrupt(connected) PROVE WantedInv'
  BY <1>9, WantedUntouched, DisturbedForGood DEF OpenCorrupt
<1>10. ASSUME NEW walCopied \in BOOLEAN, NEW opened \in BOOLEAN, Isolate(walCopied, opened)
       PROVE  WantedInv'
  <2>1. CASE Fault("wal") \/ Fault("read")
    <3>1. ~Undisturbed'
      BY <2>1, FaultCounted DEF Undisturbed, TypeOK
    <3> QED
      BY <3>1 DEF WantedInv
  <2>2. CASE walCopied /\ opened /\ UNCHANGED faults
    <3> SUFFICES ASSUME Undisturbed', NEW q \in wanted' PROVE Wanted(q)'
      BY DEF WantedInv
    <3>1. /\ pc = "isolate" /\ pc' = "remove" /\ q \in wanted /\ disk = "damaged"
          /\ salvaged' = {Rebuilt(p) : p \in {o \in live : o.table \in readable}}
          /\ UNCHANGED readable /\ q \in Row
      BY <1>10, <2>2 DEF Isolate, SalvagesDamaged, TypeOK
    <3>2. Undisturbed
      BY <2>2, DisturbedForGood
    <3>3. (q \in live \/ Rebuilt(q) \in live) /\ q.table \in readable
      BY <3>1, <3>2 DEF WantedInv, Wanted
    <3>4. Rebuilt(q) \in salvaged'
      <4>1. CASE q \in live
        BY <3>1, <3>3, <4>1
      <4>2. CASE Rebuilt(q) \in live
        BY <3>1, <3>3, <4>2, RebuiltRow
      <4> QED
        BY <3>3, <4>1, <4>2
    <3> QED
      BY <3>1, <3>3, <3>4 DEF Wanted, Rebuilt
  <2> QED
    BY <1>10, <2>1, <2>2 DEF Isolate
<1>11. CASE Remove
  <2> SUFFICES ASSUME Undisturbed', NEW q \in wanted' PROVE Wanted(q)'
    BY DEF WantedInv
  <2>1. Undisturbed
    BY <1>11, DisturbedForGood DEF Remove
  <2> QED
    BY <1>11, <2>1 DEF Remove, WantedInv, Wanted, Rebuilt
<1>12. CASE Create
  <2> SUFFICES ASSUME Undisturbed', NEW q \in wanted' PROVE Wanted(q)'
    BY DEF WantedInv
  <2>1. Undisturbed
    BY <1>12, DisturbedForGood DEF Create
  <2> QED
    BY <1>12, <2>1 DEF Create, WantedInv, Wanted, Rebuilt
<1>13. ASSUME NEW r \in salvaged, Restore(r) PROVE WantedInv'
  <2> SUFFICES ASSUME Undisturbed', NEW q \in wanted' PROVE Wanted(q)'
    BY DEF WantedInv
  <2>1. Undisturbed
    BY <1>13, DisturbedForGood DEF Restore
  <2>2. Rebuilt(q) \in salvaged \union live /\ disk' = "sound" /\ pc' = "restore"
    BY <1>13, <2>1 DEF Restore, WantedInv, Wanted, TypeOK
  <2>3. Rebuilt(q) \in salvaged' \union live'
    BY <1>13, <2>2 DEF Restore
  <2> QED
    BY <2>2, <2>3 DEF Wanted, Rebuilt
<1>14. CASE Finish
  <2> SUFFICES ASSUME Undisturbed', NEW q \in wanted' PROVE Wanted(q)'
    BY DEF WantedInv
  <2>1. Undisturbed
    BY <1>14, DisturbedForGood DEF Finish
  <2> QED
    BY <1>14, <2>1 DEF Finish, WantedInv, Wanted, Rebuilt, TypeOK
<1>15. CASE OpenTransient
  BY <1>15, WantedUntouched, DisturbedForGood DEF OpenTransient
<1>16. CASE IsolateFails
  BY <1>16, WantedUntouched, DisturbedForGood DEF IsolateFails
<1>17. CASE CreateFails
  <2>1. ~Undisturbed'
    BY <1>17, FaultCounted DEF Undisturbed, CreateFails, TypeOK
  <2> QED
    BY <2>1 DEF WantedInv
<1>18. ASSUME NEW r \in salvaged, RestoreFails(r) PROVE WantedInv'
  <2>1. ~Undisturbed'
    BY <1>18, FaultCounted DEF Undisturbed, RestoreFails, TypeOK
  <2> QED
    BY <2>1 DEF WantedInv
<1>19. CASE UNCHANGED vars
  BY <1>19, WantedUntouched, DisturbedForGood DEF vars
<1> QED
  BY <1>1, <1>2, <1>3, <1>4, <1>5, <1>6, <1>7, <1>8, <1>9, <1>10, <1>11, <1>12,
     <1>13, <1>14, <1>15, <1>16, <1>17, <1>18, <1>19 DEF Next, Boot, Failures

\* Unless a fault disturbed a salvage, the daemon that is up again has every
\* account and rule that stayed readable, an account at worst with the default
\* TLS modes: whatever happened in one second, and however many boots failed
\* before the damaged file was removed.
THEOREM ReadableComesBack == Spec => []ReadableSurvivesUnlessFault
<1>1. Init => WantedInv
  BY InitType DEF Init, WantedInv
<1>2. WantedInv => ReadableSurvivesUnlessFault
  BY DEF WantedInv, Wanted, Undisturbed, ReadableSurvivesUnlessFault, ReadableSurvives
<1> QED
  BY <1>1, <1>2, NextWanted, PTL DEF Spec
=============================================================================
