--------------------------- MODULE AccountsProofs ---------------------------
(***************************************************************************)
(* Accounts and their credentials, for any accounts, passwords, requests   *)
(* in flight and failures, when every account has a keyring entry of its   *)
(* own and clients add no account that exists: rows and secrets come and   *)
(* go together, and no RPC takes back what another stored.                 *)
(***************************************************************************)
EXTENDS Accounts, TLAPS

\* An account's key is its own.
OwnKeys == \A c, d \in Config : c[1] = d[1] <=> c[2] = d[2]

\* What an RPC works on was submitted by a client or is stored.
Pairs ==
    /\ \A i \in Id : row[i] # None => <<i, row[i]>> \in Config
    /\ \A r \in Request : pc[r] # "idle" => <<arg[r].id, arg[r].key>> \in Config
    /\ \A r \in Request : pc[r] = "idle" => arg[r] = NoArg

\* One RPC at a time works on an account that no two raced for.
OneEach ==
    \A q, r \in Request :
        arg[q].id = arg[r].id /\ arg[r].id \in Id \ raced => q = r

\* The vault holds a password that the store does not know of yet.
Wrote(r) == pc[r] = "undo" \/ (pc[r] = "save" /\ arg[r].pw # None)

AgreedClean == \A kind \in {"snapshot", "undo", "cancel", "crash"} : ~Happened(kind)
OrphanClean == \A kind \in {"undo", "forget", "cancel", "crash"} : ~Happened(kind)

\* What the handler of an RPC that works alone on its account can rely on: the
\* row it found is still there, the secret it wrote is still its own, and the
\* prior secret it holds is the one a rollback has to put back.
Local(r) ==
    arg[r].id \in Id \ raced =>
        /\ pc[r] \in {"snapshot", "set", "delete"} => row[arg[r].id] # None
        /\ pc[r] = "save" /\ arg[r].pw = None => row[arg[r].id] # None
        /\ pc[r] = "forget" => row[arg[r].id] = None
        /\ pc[r] = "set" /\ ~Happened("snapshot") => arg[r].prior = vault[arg[r].key]
        /\ pc[r] = "undo" => Happened("save")
        /\ Wrote(r) =>
              /\ vault[arg[r].key] = arg[r].pw
              /\ row[arg[r].id] = None => arg[r].prior = None
              /\ row[arg[r].id] # None /\ ~Happened("snapshot") => arg[r].prior # None
              /\ row[arg[r].id] # None /\ AgreedClean => arg[r].prior = agreed[arg[r].id]

\* What holds of an account that no two RPCs raced for, at every step.
Rest(i) ==
    i \in Id \ raced =>
        /\ ~(Happened("snapshot") /\ Happened("save")) /\ row[i] # None => vault[row[i]] # None
        /\ AgreedClean /\ row[i] # None /\ (\A r \in Request : arg[r].id = i => ~Wrote(r))
              => vault[row[i]] = agreed[i]
        /\ OrphanClean /\ row[i] = None /\ (\A r \in Request : arg[r].id # i)
              => \A c \in Config : c[1] = i => vault[c[2]] = None

\* The inductive invariant.
AccountsInv ==
    /\ TypeOK /\ Pairs /\ OneEach
    /\ \A r \in Request : Local(r)
    /\ \A i \in Id : Rest(i)

-----------------------------------------------------------------------------
(* Lemmas about the operators                                              *)

\* A fault is counted, and none is forgotten.
LEMMA FaultCounted ==
    ASSUME faults \in [FaultKind -> Nat], NEW kind, Fault(kind)
    PROVE  /\ faults' \in [FaultKind -> Nat]
           /\ Happened(kind)'
           /\ \A k : Happened(k) => Happened(k)'
<1>1. kind \in FaultKind /\ faults' = [faults EXCEPT ![kind] = @ + 1]
  BY DEF Fault
<1> QED
  BY <1>1 DEF Happened

\* A handler that begins holds what it was called with, and no prior secret;
\* two that work on one account are noted.
Begun(r, l, c, p) ==
    /\ pc[r] = "idle" /\ pc'[r] = l
    /\ arg'[r].id = c[1] /\ arg'[r].key = c[2] /\ arg'[r].pw = p /\ arg'[r].prior = None
    /\ \A q \in Request \ {r} : pc'[q] = pc[q] /\ arg'[q] = arg[q]
    /\ arg' \in [Request -> Arg]
    /\ raced \subseteq raced' /\ raced' \subseteq raced \union {c[1]}
    /\ c[1] \notin raced' => \A q \in Request : arg[q].id # c[1]

\* Call begins it.
LEMMA Called ==
    ASSUME TypeOK, NEW r \in Request, NEW l, NEW c, c[1] \in Id, c[2] \in Key,
           NEW p \in Password \union {None}, Call(r, l, c, p)
    PROVE  Begun(r, l, c, p)
<1> DEFINE new == [NoArg EXCEPT !.id = c[1], !.key = c[2], !.pw = p]
<1>1. new \in Arg /\ new.id = c[1] /\ new.key = c[2] /\ new.pw = p /\ new.prior = None
  BY DEF NoArg, Arg
<1>2. arg' = [arg EXCEPT ![r] = new] /\ pc' = [pc EXCEPT ![r] = l] /\ pc[r] = "idle"
  BY DEF Call, Goto
<1>3. /\ raced \subseteq raced' /\ raced' \subseteq raced \union {c[1]}
      /\ c[1] \notin raced' => \A q \in Request : arg[q].id # c[1]
  BY DEF Call
<1> HIDE DEF new
<1> QED
  BY <1>1, <1>2, <1>3 DEF TypeOK, Begun

\* A handler that ends holds nothing.
LEMMA Finished ==
    ASSUME TypeOK, NEW r \in Request, Finish(r)
    PROVE  /\ pc' \in [Request -> {"idle", "snapshot", "set", "save", "undo", "delete", "forget"}]
           /\ pc'[r] = "idle" /\ arg'[r] = NoArg
           /\ \A q \in Request \ {r} : pc'[q] = pc[q] /\ arg'[q] = arg[q]
           /\ arg' \in [Request -> Arg]
<1>1. NoArg \in Arg
  BY DEF NoArg, Arg
<1> QED
  BY <1>1 DEF TypeOK, Finish, Goto

\* A handler that goes on keeps what it holds.
LEMMA Went ==
    ASSUME TypeOK, NEW r \in Request,
           NEW l \in {"idle", "snapshot", "set", "save", "undo", "delete", "forget"},
           Goto(r, l)
    PROVE  /\ pc' \in [Request -> {"idle", "snapshot", "set", "save", "undo", "delete", "forget"}]
           /\ pc'[r] = l
           /\ \A q \in Request \ {r} : pc'[q] = pc[q]
BY DEF TypeOK, Goto

-----------------------------------------------------------------------------
(* A step of one RPC                                                       *)

\* What a step of one RPC leaves alone: the locals of the others, and every
\* account and keyring entry but its own.
OwnStep(r, i, k) ==
    /\ \A q \in Request \ {r} : pc'[q] = pc[q] /\ arg'[q] = arg[q]
    /\ arg[r].id \in {i, None} /\ arg'[r].id \in {i, None}
    /\ \A j \in Id \ {i} : row'[j] = row[j] /\ agreed'[j] = agreed[j]
    /\ \A j \in Key \ {k} : vault'[j] = vault[j]
    /\ raced \subseteq raced' /\ raced' \subseteq raced \union {i}
    /\ \A kind : Happened(kind) => Happened(kind)'
    /\ i \notin raced' => \A q \in Request \ {r} : arg[q].id # i

\* Such a step keeps the invariant if it does so for its own account.
LEMMA Framed ==
    ASSUME OwnKeys, AccountsInv, TypeOK', Pairs',
           NEW r \in Request, NEW i \in Id, NEW k \in Key, <<i, k>> \in Config,
           OwnStep(r, i, k),
           i \notin raced' => Local(r)' /\ Rest(i)'
    PROVE  AccountsInv'
<1> USE AccountsAssumption
<1>1. OneEach'
  BY DEF AccountsInv, OneEach, OwnStep, TypeOK
<1>2. ASSUME NEW q \in Request PROVE Local(q)'
  <2> SUFFICES ASSUME arg'[q].id \in Id \ raced' PROVE Local(q)'
    BY DEF Local
  <2>1. CASE q = r
    BY <2>1 DEF OwnStep
  <2>2. CASE q # r
    <3>1. arg'[q] = arg[q] /\ pc'[q] = pc[q] /\ arg[q].id \in Id \ raced /\ arg[q].id # i
      BY <2>2 DEF OwnStep
    <3>2. pc[q] # "idle"
      BY <3>1 DEF AccountsInv, Pairs, NoArg
    <3>3. arg[q].key \in Key /\ arg[q].key # k
      BY <3>1, <3>2 DEF AccountsInv, Pairs, TypeOK, OwnKeys
    <3>4. /\ row'[arg[q].id] = row[arg[q].id] /\ agreed'[arg[q].id] = agreed[arg[q].id]
          /\ vault'[arg[q].key] = vault[arg[q].key]
      BY <3>1, <3>3 DEF OwnStep
    <3>5. Local(q) /\ (AgreedClean' => AgreedClean)
      BY DEF AccountsInv, OwnStep, AgreedClean
    <3>6. \A kind : Happened(kind) => Happened(kind)'
      BY DEF OwnStep
    <3> QED
      BY <3>1, <3>4, <3>5, <3>6 DEF Local, Wrote
  <2> QED
    BY <2>1, <2>2
<1>3. ASSUME NEW j \in Id PROVE Rest(j)'
  <2> SUFFICES ASSUME j \notin raced' PROVE Rest(j)'
    BY DEF Rest
  <2>1. CASE j = i
    BY <2>1
  <2>2. CASE j # i
    <3>1. row'[j] = row[j] /\ agreed'[j] = agreed[j] /\ j \notin raced
      BY <2>2 DEF OwnStep
    <3>2. \A c \in Config : c[1] = j => c[2] \in Key \ {k}
      BY <2>2 DEF OwnKeys
    <3>3. row[j] # None => row[j] \in Key \ {k}
      BY <2>2 DEF AccountsInv, Pairs, OwnKeys, TypeOK
    <3>4. \A q \in Request : arg'[q].id = j <=> arg[q].id = j
      BY <2>2 DEF OwnStep
    <3>5. \A q \in Request : arg[q].id = j => (Wrote(q)' <=> Wrote(q))
      BY <2>2 DEF OwnStep, Wrote
    <3>6. Rest(j) /\ (AgreedClean' => AgreedClean) /\ (OrphanClean' => OrphanClean)
      BY DEF AccountsInv, OwnStep, AgreedClean, OrphanClean
    <3>7. \A m \in Key \ {k} : vault'[m] = vault[m]
      BY DEF OwnStep
    <3>8. \A kind : Happened(kind) => Happened(kind)'
      BY DEF OwnStep
    <3> QED
      BY <3>1, <3>2, <3>3, <3>4, <3>5, <3>6, <3>7, <3>8 DEF Rest
  <2> QED
    BY <2>1, <2>2
<1> QED
  BY <1>1, <1>2, <1>3 DEF AccountsInv

-----------------------------------------------------------------------------
(* Types                                                                   *)

\* Nothing is stored and nobody calls at first.
LEMMA InitType == Init => TypeOK /\ Pairs
<1> SUFFICES ASSUME Init PROVE TypeOK /\ Pairs
  OBVIOUS
<1>1. NoArg \in Arg
  BY DEF NoArg, Arg
<1>2. /\ row \in [Id -> Key \union {None}] /\ \A i \in Id : row[i] = None
      /\ vault \in [Key -> Password \union {None}] /\ agreed \in [Id -> Password \union {None}]
  BY DEF Init
<1>3. /\ pc \in [Request -> {"idle", "snapshot", "set", "save", "undo", "delete", "forget"}]
      /\ arg \in [Request -> Arg]
      /\ \A r \in Request : pc[r] = "idle" /\ arg[r] = NoArg
  BY <1>1 DEF Init
<1>4. raced \subseteq Id /\ faults \in [FaultKind -> Nat]
  BY DEF Init
<1> QED
  BY <1>2, <1>3, <1>4 DEF TypeOK, Pairs

\* Every call gives its handler what it needs.
LEMMA CallType ==
    ASSUME TypeOK, Pairs, NEW r \in Request, NEW l \in {"snapshot", "save", "delete"},
           NEW c \in Config, NEW p \in Password \union {None},
           Call(r, l, c, p), l = "snapshot" => p \in Password,
           vault' \in [Key -> Password \union {None}], UNCHANGED <<row, agreed, faults>>
    PROVE  TypeOK' /\ Pairs'
<1>0. c = <<c[1], c[2]>>
  BY AccountsAssumption
<1>1. c[1] \in Id /\ c[2] \in Key
  BY AccountsAssumption
<1>2. Begun(r, l, c, p)
  BY <1>1, Called
<1>3. pc' \in [Request -> {"idle", "snapshot", "set", "save", "undo", "delete", "forget"}]
  BY Went DEF Call
<1>4. TypeOK'
  BY <1>1, <1>2, <1>3 DEF TypeOK, Begun
<1>5. Pairs'
  BY <1>0, <1>1, <1>2, <1>3 DEF Pairs, TypeOK, Begun
<1> QED
  BY <1>4, <1>5

\* A handler that ends leaves tables and vault in their types.
LEMMA FinishType ==
    ASSUME TypeOK, Pairs, NEW r \in Request, Finish(r), raced' = raced,
           row' \in [Id -> Key \union {None}],
           \A i \in Id : row'[i] # None => <<i, row'[i]>> \in Config,
           vault' \in [Key -> Password \union {None}],
           agreed' \in [Id -> Password \union {None}],
           faults' \in [FaultKind -> Nat]
    PROVE  TypeOK' /\ Pairs'
<1>1. TypeOK'
  BY Finished DEF TypeOK
<1>2. Pairs'
  BY Finished DEF Pairs, TypeOK
<1> QED
  BY <1>1, <1>2

\* Every step keeps the types and works on a pair that was submitted.
LEMMA NextType == TypeOK /\ Pairs /\ [Next]_vars => TypeOK' /\ Pairs'
<1> SUFFICES ASSUME TypeOK, Pairs, [Next]_vars PROVE TypeOK' /\ Pairs'
  OBVIOUS
<1> USE AccountsAssumption
<1>1. ASSUME NEW r \in Request, NEW c \in Config, NEW p \in Password, AddAccount(r, c, p)
      PROVE  TypeOK' /\ Pairs'
  <2>1. vault' \in [Key -> Password \union {None}]
    BY <1>1 DEF AddAccount, SetSecret, TypeOK
  <2> QED
    BY <1>1, <2>1, CallType DEF AddAccount
<1>2. ASSUME NEW r \in Request, NEW c \in Config, NEW p \in Password \union {None},
             FindAccount(r, c, p)
      PROVE  TypeOK' /\ Pairs'
  <2>1. CASE p = None
    BY <1>2, <2>1, CallType DEF FindAccount, TypeOK
  <2>2. CASE p # None
    BY <1>2, <2>2, CallType DEF FindAccount, TypeOK
  <2> QED
    BY <2>1, <2>2
<1>3. ASSUME NEW r \in Request, NEW i \in Id, FindRemoved(r, i) PROVE TypeOK' /\ Pairs'
  <2>1. <<i, row[i]>> \in Config
    BY <1>3 DEF FindRemoved, Pairs
  <2> QED
    BY <1>3, <2>1, CallType DEF FindRemoved, TypeOK
<1>4. ASSUME NEW r \in Request, SnapshotSecret(r) PROVE TypeOK' /\ Pairs'
  <2>1. vault[arg[r].key] \in Password \union {None}
    BY <1>4 DEF SnapshotSecret, TypeOK
  <2>2. /\ arg' = [arg EXCEPT ![r].prior = vault[arg[r].key]] /\ pc[r] = "snapshot"
        /\ Goto(r, "set") /\ UNCHANGED <<row, vault, agreed, raced, faults>>
    BY <1>4 DEF SnapshotSecret
  <2>3. /\ arg' \in [Request -> Arg]
        /\ \A q \in Request \ {r} : arg'[q] = arg[q]
        /\ arg'[r].id = arg[r].id /\ arg'[r].key = arg[r].key /\ arg'[r].pw = arg[r].pw
    BY <2>1, <2>2 DEF TypeOK, Arg
  <2> QED
    BY <2>2, <2>3, Went DEF TypeOK, Pairs
<1>5. ASSUME NEW r \in Request, SnapshotFails(r) PROVE TypeOK' /\ Pairs'
  <2>1. faults' \in [FaultKind -> Nat]
    BY <1>5, FaultCounted DEF SnapshotFails, TypeOK
  <2> QED
    BY <1>5, <2>1, Went DEF SnapshotFails, TypeOK, Pairs
<1>6. ASSUME NEW r \in Request, RotateSecret(r) PROVE TypeOK' /\ Pairs'
  <2>1. vault' \in [Key -> Password \union {None}]
    BY <1>6 DEF RotateSecret, SetSecret, TypeOK
  <2> QED
    BY <1>6, <2>1, Went DEF RotateSecret, TypeOK, Pairs
<1>7. ASSUME NEW r \in Request, RotateFails(r) PROVE TypeOK' /\ Pairs'
  BY <1>7, FinishType, FaultCounted DEF RotateFails, TypeOK, Pairs
<1>8. ASSUME NEW r \in Request, SaveAccount(r) PROVE TypeOK' /\ Pairs'
  <2>1. arg[r].id \in Id /\ arg[r].key \in Key /\ <<arg[r].id, arg[r].key>> \in Config
    BY <1>8 DEF SaveAccount, TypeOK, Pairs
  <2>2. arg[r].pw \in Password \union {None}
    BY DEF TypeOK, Arg
  <2>3. row' = [row EXCEPT ![arg[r].id] = arg[r].key]
    BY <1>8 DEF SaveAccount
  <2>4. row' \in [Id -> Key \union {None}] /\ \A i \in Id : row'[i] # None => <<i, row'[i]>> \in Config
    BY <2>1, <2>3 DEF TypeOK, Pairs
  <2>5. agreed' \in [Id -> Password \union {None}]
    BY <1>8, <2>1, <2>2 DEF SaveAccount, TypeOK
  <2> QED
    BY <1>8, <2>4, <2>5, FinishType DEF SaveAccount, TypeOK
<1>9. ASSUME NEW r \in Request, SaveFails(r) PROVE TypeOK' /\ Pairs'
  <2>1. faults' \in [FaultKind -> Nat]
    BY <1>9, FaultCounted DEF SaveFails, TypeOK
  <2>2. CASE Finish(r)
    BY <1>9, <2>1, <2>2, FinishType DEF SaveFails, TypeOK, Pairs
  <2>3. CASE arg[r].pw # None /\ Goto(r, "undo") /\ UNCHANGED arg
    <3>1. arg[r].pw \in Password
      BY <2>3 DEF TypeOK, Arg
    <3> QED
      BY <1>9, <2>1, <2>3, <3>1, Went DEF SaveFails, TypeOK, Pairs
  <2> QED
    BY <1>9, <2>2, <2>3 DEF SaveFails
<1>10. ASSUME NEW r \in Request, Undo(r) PROVE TypeOK' /\ Pairs'
  <2>1. arg[r].prior \in Password \union {None}
    BY DEF TypeOK, Arg
  <2>2. vault' \in [Key -> Password \union {None}]
    BY <1>10, <2>1 DEF Undo, SetSecret, DeleteSecret, TypeOK
  <2> QED
    BY <1>10, <2>2, FinishType DEF Undo, TypeOK, Pairs
<1>11. ASSUME NEW r \in Request, UndoFails(r) PROVE TypeOK' /\ Pairs'
  BY <1>11, FinishType, FaultCounted DEF UndoFails, TypeOK, Pairs
<1>12. ASSUME NEW r \in Request, DeleteRow(r) PROVE TypeOK' /\ Pairs'
  BY <1>12, Went DEF DeleteRow, TypeOK, Pairs
<1>13. ASSUME NEW r \in Request, DeleteRowFails(r) PROVE TypeOK' /\ Pairs'
  BY <1>13, FinishType, FaultCounted DEF DeleteRowFails, TypeOK, Pairs
<1>14. ASSUME NEW r \in Request, ForgetSecret(r) PROVE TypeOK' /\ Pairs'
  <2>1. vault' \in [Key -> Password \union {None}]
    BY <1>14 DEF ForgetSecret, DeleteSecret, TypeOK
  <2> QED
    BY <1>14, <2>1, FinishType DEF ForgetSecret, TypeOK, Pairs
<1>15. ASSUME NEW r \in Request, ForgetFails(r) PROVE TypeOK' /\ Pairs'
  BY <1>15, FinishType, FaultCounted DEF ForgetFails, TypeOK, Pairs
<1>16. ASSUME NEW r \in Request, Cancel(r) PROVE TypeOK' /\ Pairs'
  <2>1. faults' \in [FaultKind -> Nat]
    BY <1>16, FaultCounted DEF Cancel, TypeOK
  <2>2. pc[r] # "idle"
    BY <1>16 DEF Cancel
  <2>3. arg[r].id \in Id /\ arg[r].key \in Key /\ <<arg[r].id, arg[r].key>> \in Config
    BY <2>2 DEF TypeOK, Pairs
  <2>4. \/ row' = row \/ row' = [row EXCEPT ![arg[r].id] = arg[r].key]
        \/ row' = [row EXCEPT ![arg[r].id] = None]
    BY <1>16 DEF Cancel
  <2>5. row' \in [Id -> Key \union {None}] /\ \A i \in Id : row'[i] # None => <<i, row'[i]>> \in Config
    BY <2>3, <2>4 DEF TypeOK, Pairs
  <2> QED
    BY <1>16, <2>1, <2>5, FinishType DEF Cancel, TypeOK
<1>17. CASE Crash
  <2>1. faults' \in [FaultKind -> Nat]
    BY <1>17, FaultCounted DEF Crash, TypeOK
  <2>2. NoArg \in Arg
    BY DEF NoArg, Arg
  <2> QED
    BY <1>17, <2>1, <2>2 DEF Crash, TypeOK, Pairs
<1>18. CASE UNCHANGED vars
  BY <1>18 DEF TypeOK, Pairs, vars
<1> QED
  BY <1>1, <1>2, <1>3, <1>4, <1>5, <1>6, <1>7, <1>8, <1>9, <1>10, <1>11, <1>12,
     <1>13, <1>14, <1>15, <1>16, <1>17, <1>18 DEF Next, Calls, Steps, Failures

-----------------------------------------------------------------------------
(* Every RPC keeps the invariant                                           *)

\* What has to hold of an account when the RPC on it ends.
Outcome(i, k) ==
    /\ ~(Happened("snapshot") /\ Happened("save")) /\ row[i] # None => vault[k] # None
    /\ AgreedClean /\ row[i] # None => vault[k] = agreed[i]
    /\ OrphanClean /\ row[i] = None => vault[k] = None

\* What a handler in progress knows of its account.
Running(r, i, k) ==
    /\ i \in Id /\ k \in Key /\ <<i, k>> \in Config
    /\ i = arg[r].id /\ k = arg[r].key
    /\ row[i] # None => row[i] = k
    /\ \A c \in Config : c[1] = i => c[2] = k
    /\ i \notin raced => \A q \in Request \ {r} : arg[q].id # i
    /\ Local(r) /\ Rest(i)

\* It knows that.
LEMMA HandlerRuns ==
    ASSUME OwnKeys, AccountsInv, NEW r \in Request, pc[r] # "idle"
    PROVE  \E i \in Id, k \in Key : Running(r, i, k)
<1>1. arg[r].id \in Id /\ arg[r].key \in Key /\ <<arg[r].id, arg[r].key>> \in Config
  BY DEF AccountsInv, TypeOK, Pairs
<1>2. row[arg[r].id] # None => row[arg[r].id] = arg[r].key
  BY <1>1 DEF AccountsInv, Pairs, OwnKeys
<1>3. \A c \in Config : c[1] = arg[r].id => c[2] = arg[r].key
  BY <1>1 DEF OwnKeys
<1>4. arg[r].id \notin raced => \A q \in Request \ {r} : arg[q].id # arg[r].id
  BY <1>1 DEF AccountsInv, OneEach
<1>5. Running(r, arg[r].id, arg[r].key)
  BY <1>1, <1>2, <1>3, <1>4 DEF Running, AccountsInv
<1> QED
  BY <1>1, <1>5

\* A handler that ends keeps the invariant if it leaves its own account well.
LEMMA EndKeeps ==
    ASSUME OwnKeys, AccountsInv, TypeOK', Pairs', NEW r \in Request, pc[r] # "idle",
           NEW i, NEW k, Running(r, i, k), Finish(r), raced' = raced,
           \A j \in Id \ {i} : row'[j] = row[j] /\ agreed'[j] = agreed[j],
           \A m \in Key \ {k} : vault'[m] = vault[m],
           \A kind : Happened(kind) => Happened(kind)',
           i \notin raced => Outcome(i, k)'
    PROVE  AccountsInv'
<1> USE AccountsAssumption
<1>1. /\ arg'[r] = NoArg /\ arg'[r].id = None
      /\ \A q \in Request \ {r} : pc'[q] = pc[q] /\ arg'[q] = arg[q]
  BY Finished DEF AccountsInv, NoArg
<1>2. OwnStep(r, i, k)
  BY <1>1 DEF OwnStep, Running
<1>3. Local(r)'
  BY <1>1 DEF Local
<1>4. row'[i] # None => row'[i] = k
  BY DEF Running, Pairs, OwnKeys
<1>5. i \notin raced' => Rest(i)'
  BY <1>4 DEF Running, Rest, Outcome
<1> QED
  BY <1>2, <1>3, <1>5, Framed DEF Running

\* An account as its handler found it, before it wrote anything, is well.
LEMMA FoundWell ==
    ASSUME NEW r \in Request, NEW i, NEW k, Running(r, i, k), i \notin raced, ~Wrote(r),
           row[i] # None
    PROVE  Outcome(i, k)
BY DEF Running, Rest, Outcome

\* Steps that change no account and count a fault keep it well.
LEMMA StaysWell ==
    ASSUME NEW i, NEW k, Outcome(i, k), UNCHANGED <<row, vault, agreed>>,
           \A kind : Happened(kind) => Happened(kind)'
    PROVE  Outcome(i, k)'
BY DEF Outcome, AgreedClean, OrphanClean

\* A call keeps the invariant: it is alone on its account or both are noted.
LEMMA CallKeeps ==
    ASSUME OwnKeys, AccountsInv, TypeOK', Pairs', NEW r \in Request,
           NEW l \in {"snapshot", "save", "delete"},
           NEW i \in Id, NEW k \in Key, <<i, k>> \in Config, NEW p \in Password \union {None},
           Begun(r, l, <<i, k>>, p), UNCHANGED <<row, agreed, faults>>,
           \A m \in Key \ {k} : vault'[m] = vault[m],
           \/ l # "save" /\ row[i] # None /\ vault' = vault
           \/ l = "save" /\ p = None /\ row[i] # None /\ vault' = vault
           \/ l = "save" /\ p # None /\ row[i] = None /\ vault'[k] = p
    PROVE  AccountsInv'
<1> USE AccountsAssumption
<1>0. /\ arg[r] = NoArg /\ arg[r].id = None /\ arg'[r].id = i /\ arg'[r].key = k
      /\ arg'[r].pw = p /\ arg'[r].prior = None /\ pc'[r] = l
      /\ i \notin raced' => i \notin raced /\ \A q \in Request : arg[q].id # i
  BY DEF Begun, AccountsInv, Pairs, NoArg
<1>1. \A kind : Happened(kind)' <=> Happened(kind)
  BY DEF Happened
<1>2. OwnStep(r, i, k)
  BY <1>0, <1>1 DEF OwnStep, Begun
<1>3. Local(r)'
  BY <1>0 DEF Local, Wrote
<1>4. row[i] # None => row[i] = k
  BY DEF AccountsInv, Pairs, OwnKeys
<1>5. i \notin raced' => Rest(i)'
  <2> SUFFICES ASSUME i \notin raced' PROVE Rest(i)'
    OBVIOUS
  <2>1. Rest(i) /\ i \notin raced /\ \A q \in Request : arg[q].id # i
    BY <1>0 DEF AccountsInv
  <2>2. (AgreedClean' <=> AgreedClean) /\ (OrphanClean' <=> OrphanClean)
    BY <1>1 DEF AgreedClean, OrphanClean
  <2>3. CASE row[i] = None
    BY <1>0, <2>3 DEF Rest
  <2>4. CASE row[i] # None
    <3>1. vault' = vault
      BY <2>4
    <3> QED
      BY <1>0, <1>1, <2>1, <2>2, <2>4, <3>1 DEF Rest
  <2> QED
    BY <2>3, <2>4
<1> QED
  BY <1>2, <1>3, <1>5, Framed

\* A step of a handler that goes on keeps the invariant if it leaves what the
\* rest of the handler relies on.
LEMMA GoesOn ==
    ASSUME OwnKeys, AccountsInv, TypeOK', Pairs', NEW r \in Request, pc[r] # "idle",
           NEW i, NEW k, Running(r, i, k), raced' = raced,
           \A q \in Request \ {r} : pc'[q] = pc[q] /\ arg'[q] = arg[q],
           arg'[r].id = i,
           \A j \in Id \ {i} : row'[j] = row[j] /\ agreed'[j] = agreed[j],
           \A m \in Key \ {k} : vault'[m] = vault[m],
           \A kind : Happened(kind) => Happened(kind)',
           i \notin raced => Local(r)',
           i \notin raced /\ row'[i] # None =>
              /\ ~(Happened("snapshot") /\ Happened("save"))' => vault'[k] # None
              /\ AgreedClean' /\ ~Wrote(r)' => vault'[k] = agreed'[i]
    PROVE  AccountsInv'
<1> USE AccountsAssumption
<1>1. OwnStep(r, i, k)
  BY DEF OwnStep, Running
<1>2. row'[i] # None => row'[i] = k
  BY DEF Running, Pairs, OwnKeys
<1>3. i \notin raced' => Rest(i)'
  BY <1>2 DEF Running, Rest
<1> QED
  BY <1>1, <1>3, Framed DEF Running

\* Every step of every handler, every failure and a crash keep the invariant.
LEMMA NextKeeps ==
    ASSUME OwnKeys, ~AddsExisting, AccountsInv, [Next]_vars
    PROVE  AccountsInv'
<1>0. TypeOK /\ TypeOK' /\ Pairs /\ Pairs'
  BY NextType DEF AccountsInv
<1> USE AccountsAssumption, <1>0
<1>a. UNCHANGED faults => \A kind : Happened(kind) => Happened(kind)'
  BY DEF Happened
<1>b. \A kd : Fault(kd) => Happened(kd)' /\ \A kind : Happened(kind) => Happened(kind)'
  BY FaultCounted DEF TypeOK
<1>c. \A c \in Config : c[1] \in Id /\ c[2] \in Key
  OBVIOUS
<1>d. \A c \in Config : c = <<c[1], c[2]>>
  OBVIOUS
<1>1. ASSUME NEW r \in Request, NEW c \in Config, NEW p \in Password, AddAccount(r, c, p)
      PROVE  AccountsInv'
  <2>1. row[c[1]] = None
    BY <1>1 DEF AddAccount, InUse
  <2>2. Begun(r, "save", c, p)
    BY <1>1, <1>c, Called DEF AddAccount
  <2>3. vault'[c[2]] = p /\ \A m \in Key \ {c[2]} : vault'[m] = vault[m]
    BY <1>1, <1>c DEF AddAccount, SetSecret, TypeOK
  <2>4. UNCHANGED <<row, agreed, faults>> /\ p # None
    BY <1>1 DEF AddAccount
  <2> DEFINE i == c[1]
             k == c[2]
  <2>5. c = <<i, k>> /\ i \in Id /\ k \in Key
    BY <1>c, <1>d
  <2> HIDE DEF i, k
  <2>6. /\ Begun(r, "save", <<i, k>>, p) /\ <<i, k>> \in Config
        /\ row[i] = None /\ vault'[k] = p /\ \A m \in Key \ {k} : vault'[m] = vault[m]
    BY <2>1, <2>2, <2>3, <2>5 DEF i, k
  <2> QED
    BY <2>4, <2>5, <2>6, CallKeeps
<1>2. ASSUME NEW r \in Request, NEW c \in Config, NEW p \in Password \union {None},
             FindAccount(r, c, p)
      PROVE  AccountsInv'
  <2> DEFINE i == c[1]
             k == c[2]
             l == IF p = None THEN "save" ELSE "snapshot"
  <2>1. Begun(r, l, c, p) /\ row[i] # None /\ UNCHANGED <<row, vault, agreed, faults>>
    BY <1>2, <1>c, Called DEF FindAccount
  <2>2. c = <<i, k>> /\ i \in Id /\ k \in Key
    BY <1>c, <1>d
  <2>3. l \in {"snapshot", "save", "delete"} /\ (l # "save" \/ p = None)
    OBVIOUS
  <2> HIDE DEF i, k, l
  <2>4. Begun(r, l, <<i, k>>, p) /\ <<i, k>> \in Config
    BY <2>1, <2>2
  <2> QED
    BY <2>1, <2>2, <2>3, <2>4, CallKeeps
<1>3. ASSUME NEW r \in Request, NEW i \in Id, FindRemoved(r, i) PROVE AccountsInv'
  <2> DEFINE k == row[i]
  <2>1. row[i] # None /\ Call(r, "delete", <<i, k>>, None) /\ UNCHANGED <<row, vault, agreed, faults>>
    BY <1>3 DEF FindRemoved
  <2>2. <<i, k>> \in Config /\ k \in Key
    BY <2>1 DEF Pairs, TypeOK
  <2> HIDE DEF k
  <2>3. <<i, k>>[1] \in Id /\ <<i, k>>[2] \in Key
    BY <2>2
  <2>4. Begun(r, "delete", <<i, k>>, None)
    BY <2>1, <2>3, Called
  <2> QED
    BY <2>1, <2>2, <2>4, CallKeeps
<1>4. ASSUME NEW r \in Request, SnapshotSecret(r) PROVE AccountsInv'
  <2>0. pc[r] = "snapshot"
    BY <1>4 DEF SnapshotSecret
  <2>1. PICK i \in Id, k \in Key : Running(r, i, k)
    BY <2>0, HandlerRuns
  <2>e. i = arg[r].id /\ k = arg[r].key /\ i \in Id /\ k \in Key
    BY <2>1 DEF Running
  <2>2. /\ arg' = [arg EXCEPT ![r].prior = vault[k]] /\ Goto(r, "set")
        /\ UNCHANGED <<row, vault, agreed, raced, faults>>
    BY <1>4, <2>e DEF SnapshotSecret
  <2>3. /\ arg'[r].id = arg[r].id /\ arg'[r].key = arg[r].key /\ arg'[r].prior = vault[k]
        /\ \A q \in Request \ {r} : arg'[q] = arg[q]
    BY <2>2 DEF TypeOK, Arg
  <2>4. pc'[r] = "set" /\ \A q \in Request \ {r} : pc'[q] = pc[q]
    BY <2>2, Went
  <2>6. i \notin raced => row[i] # None /\ Outcome(i, k)
    BY <2>0, <2>1, <2>e, FoundWell DEF Running, Local, Wrote
  <2>7. i \notin raced => Local(r)'
    BY <2>2, <2>3, <2>4, <2>e, <2>6 DEF Local, Wrote
  <2>8. i \notin raced => Outcome(i, k)'
    BY <1>a, <2>2, <2>6, StaysWell
  <2>9. \A kind : Happened(kind) => Happened(kind)'
    BY <1>a, <2>2
  <2>10. i \notin raced /\ row'[i] # None =>
              /\ ~(Happened("snapshot") /\ Happened("save"))' => vault'[k] # None
              /\ AgreedClean' /\ ~Wrote(r)' => vault'[k] = agreed'[i]
    BY <2>8 DEF Outcome
  <2> QED
    BY <2>0, <2>1, <2>2, <2>3, <2>4, <2>e, <2>7, <2>9, <2>10, GoesOn
<1>5. ASSUME NEW r \in Request, SnapshotFails(r) PROVE AccountsInv'
  <2>0. pc[r] = "snapshot"
    BY <1>5 DEF SnapshotFails
  <2>1. PICK i \in Id, k \in Key : Running(r, i, k)
    BY <2>0, HandlerRuns
  <2>e. i = arg[r].id /\ k = arg[r].key /\ i \in Id /\ k \in Key
    BY <2>1 DEF Running
  <2>2. Goto(r, "set") /\ UNCHANGED <<row, vault, agreed, arg, raced>>
    BY <1>5 DEF SnapshotFails
  <2>3. Happened("snapshot")' /\ \A kind : Happened(kind) => Happened(kind)'
    BY <1>5, <1>b DEF SnapshotFails
  <2>4. pc'[r] = "set" /\ \A q \in Request \ {r} : pc'[q] = pc[q]
    BY <2>2, Went
  <2>6. i \notin raced => row[i] # None /\ Outcome(i, k)
    BY <2>0, <2>1, <2>e, FoundWell DEF Running, Local, Wrote
  <2>7. i \notin raced => Local(r)'
    BY <2>2, <2>3, <2>4, <2>e, <2>6 DEF Local, Wrote
  <2>8. i \notin raced => Outcome(i, k)'
    BY <2>2, <2>3, <2>6, StaysWell
  <2>10. i \notin raced /\ row'[i] # None =>
              /\ ~(Happened("snapshot") /\ Happened("save"))' => vault'[k] # None
              /\ AgreedClean' /\ ~Wrote(r)' => vault'[k] = agreed'[i]
    BY <2>8 DEF Outcome
  <2> QED
    BY <2>0, <2>1, <2>2, <2>3, <2>4, <2>e, <2>7, <2>10, GoesOn
<1>6. ASSUME NEW r \in Request, RotateSecret(r) PROVE AccountsInv'
  <2>0. pc[r] = "set"
    BY <1>6 DEF RotateSecret
  <2>1. PICK i \in Id, k \in Key : Running(r, i, k)
    BY <2>0, HandlerRuns
  <2>e. i = arg[r].id /\ k = arg[r].key /\ i \in Id /\ k \in Key
    BY <2>1 DEF Running
  <2>2. Goto(r, "save") /\ UNCHANGED <<row, agreed, arg, raced, faults>>
    BY <1>6 DEF RotateSecret
  <2>3. vault'[k] = arg[r].pw /\ arg[r].pw # None /\ \A m \in Key \ {k} : vault'[m] = vault[m]
    BY <1>6, <2>0, <2>e DEF RotateSecret, SetSecret, TypeOK
  <2>4. pc'[r] = "save" /\ \A q \in Request \ {r} : pc'[q] = pc[q]
    BY <2>2, Went
  <2>6. i \notin raced => /\ row[i] # None /\ Outcome(i, k)
                          /\ ~Happened("snapshot") => arg[r].prior = vault[k]
    BY <2>0, <2>1, <2>e, FoundWell DEF Running, Local, Wrote
  <2>7. \A kind : Happened(kind)' <=> Happened(kind)
    BY <2>2 DEF Happened
  <2>8. i \notin raced => Local(r)'
    BY <2>2, <2>3, <2>4, <2>e, <2>6, <2>7 DEF Local, Wrote, Outcome, AgreedClean
  <2>9. Wrote(r)'
    BY <2>2, <2>3, <2>4 DEF Wrote
  <2> QED
    BY <2>0, <2>1, <2>2, <2>3, <2>4, <2>e, <2>7, <2>8, <2>9, GoesOn
<1>7. ASSUME NEW r \in Request, RotateFails(r) PROVE AccountsInv'
  <2>0. pc[r] = "set"
    BY <1>7 DEF RotateFails
  <2>1. PICK i \in Id, k \in Key : Running(r, i, k)
    BY <2>0, HandlerRuns
  <2>e. i = arg[r].id /\ k = arg[r].key /\ i \in Id /\ k \in Key
    BY <2>1 DEF Running
  <2>2. Finish(r) /\ UNCHANGED <<row, vault, agreed, raced>>
    BY <1>7 DEF RotateFails
  <2>3. \A kind : Happened(kind) => Happened(kind)'
    BY <1>7, <1>b DEF RotateFails
  <2>5. i \notin raced => Outcome(i, k)'
    BY <2>0, <2>1, <2>2, <2>3, <2>e, FoundWell, StaysWell DEF Running, Local, Wrote
  <2> QED
    BY <2>0, <2>1, <2>2, <2>3, <2>5, EndKeeps
<1>8. ASSUME NEW r \in Request, SaveAccount(r) PROVE AccountsInv'
  <2>0. pc[r] = "save"
    BY <1>8 DEF SaveAccount
  <2>1. PICK i \in Id, k \in Key : Running(r, i, k)
    BY <2>0, HandlerRuns
  <2>e. i = arg[r].id /\ k = arg[r].key /\ i \in Id /\ k \in Key
    BY <2>1 DEF Running
  <2>2. Finish(r) /\ UNCHANGED <<vault, raced, faults>>
    BY <1>8 DEF SaveAccount
  <2>3. row' = [row EXCEPT ![i] = k]
    BY <1>8, <2>e DEF SaveAccount
  <2>4. agreed' = IF arg[r].pw = None THEN agreed ELSE [agreed EXCEPT ![i] = arg[r].pw]
    BY <1>8, <2>e DEF SaveAccount
  <2>6. /\ row'[i] = k /\ k # None
        /\ \A j \in Id \ {i} : row'[j] = row[j] /\ agreed'[j] = agreed[j]
        /\ agreed'[i] = IF arg[r].pw = None THEN agreed[i] ELSE arg[r].pw
    BY <2>3, <2>4, <2>e DEF TypeOK
  <2>7. \A kind : Happened(kind)' <=> Happened(kind)
    BY <2>2 DEF Happened
  <2>8. i \notin raced => Outcome(i, k)'
    <3>1. CASE arg[r].pw = None
      <4>1. i \notin raced => row[i] # None /\ Outcome(i, k)
        BY <2>0, <2>1, <2>e, <3>1, FoundWell DEF Running, Local, Wrote
      <4> QED
        BY <2>2, <2>6, <2>7, <3>1, <4>1 DEF Outcome, AgreedClean, OrphanClean
    <3>2. CASE arg[r].pw # None
      <4>1. i \notin raced => vault[k] = arg[r].pw
        BY <2>0, <2>1, <2>e, <3>2 DEF Running, Local, Wrote
      <4> QED
        BY <2>2, <2>6, <3>2, <4>1 DEF Outcome
    <3> QED
      BY <3>1, <3>2
  <2> QED
    BY <2>0, <2>1, <2>2, <2>6, <2>7, <2>8, EndKeeps
<1>9. ASSUME NEW r \in Request, SaveFails(r) PROVE AccountsInv'
  <2>0. pc[r] = "save"
    BY <1>9 DEF SaveFails
  <2>1. PICK i \in Id, k \in Key : Running(r, i, k)
    BY <2>0, HandlerRuns
  <2>e. i = arg[r].id /\ k = arg[r].key /\ i \in Id /\ k \in Key
    BY <2>1 DEF Running
  <2>2. UNCHANGED <<row, vault, agreed, raced>>
    BY <1>9 DEF SaveFails
  <2>3. Happened("save")' /\ \A kind : Happened(kind) => Happened(kind)'
    BY <1>9, <1>b DEF SaveFails
  <2>5. CASE arg[r].pw = None /\ Finish(r)
    <3>1. i \notin raced => Outcome(i, k)'
      BY <2>0, <2>1, <2>2, <2>3, <2>e, <2>5, FoundWell, StaysWell DEF Running, Local, Wrote
    <3> QED
      BY <2>0, <2>1, <2>2, <2>3, <2>5, <3>1, EndKeeps
  <2>6. CASE arg[r].pw # None /\ Goto(r, "undo") /\ UNCHANGED arg
    <3>1. pc'[r] = "undo" /\ \A q \in Request \ {r} : pc'[q] = pc[q]
      BY <2>6, Went
    <3>2. Wrote(r) /\ Wrote(r)' /\ (AgreedClean' => AgreedClean)
      BY <2>0, <2>1, <2>3, <2>6, <3>1 DEF Wrote, AgreedClean
    <3>3. i \notin raced => Local(r)'
      BY <2>0, <2>1, <2>2, <2>3, <2>e, <2>6, <3>1, <3>2 DEF Running, Local
    <3>4. i \notin raced => vault'[k] # None
      BY <2>0, <2>1, <2>2, <2>e, <2>6, <3>2 DEF Running, Local
    <3> QED
      BY <2>0, <2>1, <2>2, <2>3, <2>e, <2>6, <3>1, <3>2, <3>3, <3>4, GoesOn
  <2> QED
    BY <1>9, <2>5, <2>6 DEF SaveFails
<1>10. ASSUME NEW r \in Request, Undo(r) PROVE AccountsInv'
  <2>0. pc[r] = "undo"
    BY <1>10 DEF Undo
  <2>1. PICK i \in Id, k \in Key : Running(r, i, k)
    BY <2>0, HandlerRuns
  <2>e. i = arg[r].id /\ k = arg[r].key /\ i \in Id /\ k \in Key
    BY <2>1 DEF Running
  <2>2. Finish(r) /\ UNCHANGED <<row, agreed, raced, faults>>
    BY <1>10 DEF Undo
  <2>3. vault' = [vault EXCEPT ![k] = arg[r].prior]
    BY <1>10, <2>e DEF Undo, SetSecret, DeleteSecret
  <2>5. vault'[k] = arg[r].prior /\ \A m \in Key \ {k} : vault'[m] = vault[m]
    BY <2>3, <2>e DEF TypeOK
  <2>6. \A kind : Happened(kind)' <=> Happened(kind)
    BY <2>2 DEF Happened
  <2>7. i \notin raced => Outcome(i, k)'
    BY <2>0, <2>1, <2>2, <2>e, <2>5, <2>6 DEF Running, Local, Wrote, Outcome, AgreedClean
  <2> QED
    BY <2>0, <2>1, <2>2, <2>5, <2>6, <2>7, EndKeeps
<1>11. ASSUME NEW r \in Request, UndoFails(r) PROVE AccountsInv'
  <2>0. pc[r] = "undo"
    BY <1>11 DEF UndoFails
  <2>1. PICK i \in Id, k \in Key : Running(r, i, k)
    BY <2>0, HandlerRuns
  <2>e. i = arg[r].id /\ k = arg[r].key /\ i \in Id /\ k \in Key
    BY <2>1 DEF Running
  <2>2. Finish(r) /\ UNCHANGED <<row, vault, agreed, raced>>
    BY <1>11 DEF UndoFails
  <2>3. Happened("undo")' /\ \A kind : Happened(kind) => Happened(kind)'
    BY <1>11, <1>b DEF UndoFails
  <2>4. arg[r].pw # None
    BY <2>0 DEF TypeOK
  <2>6. i \notin raced => Outcome(i, k)'
    BY <2>0, <2>1, <2>2, <2>3, <2>4, <2>e
       DEF Running, Local, Wrote, Outcome, AgreedClean, OrphanClean
  <2> QED
    BY <2>0, <2>1, <2>2, <2>3, <2>6, EndKeeps
<1>12. ASSUME NEW r \in Request, DeleteRow(r) PROVE AccountsInv'
  <2>0. pc[r] = "delete"
    BY <1>12 DEF DeleteRow
  <2>1. PICK i \in Id, k \in Key : Running(r, i, k)
    BY <2>0, HandlerRuns
  <2>e. i = arg[r].id /\ k = arg[r].key /\ i \in Id /\ k \in Key
    BY <2>1 DEF Running
  <2>2. Goto(r, "forget") /\ UNCHANGED <<vault, arg, raced, faults>>
    BY <1>12 DEF DeleteRow
  <2>3. /\ row'[i] = None
        /\ \A j \in Id \ {i} : row'[j] = row[j] /\ agreed'[j] = agreed[j]
    BY <1>12, <2>1 DEF DeleteRow, TypeOK, Running
  <2>4. pc'[r] = "forget" /\ \A q \in Request \ {r} : pc'[q] = pc[q]
    BY <2>2, Went
  <2>6. i \notin raced => Local(r)'
    BY <2>2, <2>3, <2>4, <2>e DEF Local, Wrote
  <2> QED
    BY <1>a, <2>0, <2>1, <2>2, <2>3, <2>4, <2>e, <2>6, GoesOn
<1>13. ASSUME NEW r \in Request, DeleteRowFails(r) PROVE AccountsInv'
  <2>0. pc[r] = "delete"
    BY <1>13 DEF DeleteRowFails
  <2>1. PICK i \in Id, k \in Key : Running(r, i, k)
    BY <2>0, HandlerRuns
  <2>e. i = arg[r].id /\ k = arg[r].key /\ i \in Id /\ k \in Key
    BY <2>1 DEF Running
  <2>2. Finish(r) /\ UNCHANGED <<row, vault, agreed, raced>>
    BY <1>13 DEF DeleteRowFails
  <2>3. \A kind : Happened(kind) => Happened(kind)'
    BY <1>13, <1>b DEF DeleteRowFails
  <2>5. i \notin raced => Outcome(i, k)'
    BY <2>0, <2>1, <2>2, <2>3, <2>e, FoundWell, StaysWell DEF Running, Local, Wrote
  <2> QED
    BY <2>0, <2>1, <2>2, <2>3, <2>5, EndKeeps
<1>14. ASSUME NEW r \in Request, ForgetSecret(r) PROVE AccountsInv'
  <2>0. pc[r] = "forget"
    BY <1>14 DEF ForgetSecret
  <2>1. PICK i \in Id, k \in Key : Running(r, i, k)
    BY <2>0, HandlerRuns
  <2>e. i = arg[r].id /\ k = arg[r].key /\ i \in Id /\ k \in Key
    BY <2>1 DEF Running
  <2>2. Finish(r) /\ UNCHANGED <<row, agreed, raced, faults>>
    BY <1>14 DEF ForgetSecret
  <2>3. vault'[k] = None /\ \A m \in Key \ {k} : vault'[m] = vault[m]
    BY <1>14, <2>1 DEF ForgetSecret, DeleteSecret, TypeOK, Running
  <2>5. i \notin raced => Outcome(i, k)'
    BY <2>0, <2>1, <2>2, <2>3, <2>e DEF Running, Local, Outcome
  <2> QED
    BY <1>a, <2>0, <2>1, <2>2, <2>3, <2>5, EndKeeps
<1>15. ASSUME NEW r \in Request, ForgetFails(r) PROVE AccountsInv'
  <2>0. pc[r] = "forget"
    BY <1>15 DEF ForgetFails
  <2>1. PICK i \in Id, k \in Key : Running(r, i, k)
    BY <2>0, HandlerRuns
  <2>e. i = arg[r].id /\ k = arg[r].key /\ i \in Id /\ k \in Key
    BY <2>1 DEF Running
  <2>2. Finish(r) /\ UNCHANGED <<row, vault, agreed, raced>>
    BY <1>15 DEF ForgetFails
  <2>3. Happened("forget")' /\ \A kind : Happened(kind) => Happened(kind)'
    BY <1>15, <1>b DEF ForgetFails
  <2>5. i \notin raced => Outcome(i, k)'
    BY <2>0, <2>1, <2>2, <2>3, <2>e DEF Running, Local, Outcome, OrphanClean
  <2> QED
    BY <2>0, <2>1, <2>2, <2>3, <2>5, EndKeeps
<1>16. ASSUME NEW r \in Request, Cancel(r) PROVE AccountsInv'
  <2>0. pc[r] \in {"save", "delete"}
    BY <1>16 DEF Cancel
  <2>1. PICK i \in Id, k \in Key : Running(r, i, k)
    BY <2>0, HandlerRuns
  <2>e. i = arg[r].id /\ k = arg[r].key /\ i \in Id /\ k \in Key
    BY <2>1 DEF Running
  <2>2. Finish(r) /\ UNCHANGED <<vault, agreed, raced>>
    BY <1>16 DEF Cancel
  <2>3. \/ pc[r] = "save" /\ row' \in {row, [row EXCEPT ![i] = k]}
        \/ pc[r] = "delete" /\ row' \in {row, [row EXCEPT ![i] = None]}
    BY <1>16, <2>e DEF Cancel
  <2>4. Happened("cancel")' /\ \A kind : Happened(kind) => Happened(kind)'
    BY <1>16, <1>b DEF Cancel
  <2>6. /\ \A j \in Id \ {i} : row'[j] = row[j]
        /\ pc[r] = "delete" => row'[i] \in {row[i], None}
    BY <2>3, <2>e DEF TypeOK
  <2>7. i \notin raced /\ row'[i] # None /\ ~(Happened("snapshot") /\ Happened("save"))
           => vault[k] # None
    <3>1. CASE Wrote(r)
      BY <2>0, <2>1, <2>e, <3>1 DEF Running, Local, Wrote
    <3>2. CASE ~Wrote(r)
      BY <2>0, <2>1, <2>e, <3>2, FoundWell DEF Running, Local, Wrote, Outcome
    <3> QED
      BY <3>1, <3>2
  <2>8. i \notin raced => Outcome(i, k)'
    BY <2>2, <2>4, <2>7 DEF Outcome, AgreedClean, OrphanClean
  <2> QED
    BY <2>0, <2>1, <2>2, <2>4, <2>6, <2>8, EndKeeps
<1>17. CASE Crash
  <2>1. /\ \A r \in Request : arg'[r] = NoArg /\ arg'[r].id = None
        /\ UNCHANGED <<row, vault, agreed, raced>>
    BY <1>17 DEF Crash, NoArg
  <2>2. Happened("crash")' /\ \A kind : Happened(kind) => Happened(kind)'
    BY <1>17, <1>b DEF Crash
  <2>3. OneEach' /\ \A r \in Request : Local(r)'
    BY <2>1 DEF OneEach, Local
  <2>4. ~AgreedClean' /\ ~OrphanClean'
    BY <2>2 DEF AgreedClean, OrphanClean
  <2>5. \A i \in Id : Rest(i)'
    BY <2>1, <2>2, <2>4 DEF AccountsInv, Rest
  <2> QED
    BY <2>3, <2>5 DEF AccountsInv
<1>18. CASE UNCHANGED vars
  <2>1. \A kind : Happened(kind)' <=> Happened(kind)
    BY <1>18 DEF vars, Happened
  <2>2. (AgreedClean' <=> AgreedClean) /\ (OrphanClean' <=> OrphanClean)
    BY <2>1 DEF AgreedClean, OrphanClean
  <2>3. \A r \in Request : Local(r)'
    BY <1>18, <2>1, <2>2 DEF vars, AccountsInv, Local, Wrote
  <2>4. \A i \in Id : Rest(i)'
    BY <1>18, <2>1, <2>2 DEF vars, AccountsInv, Rest, Wrote
  <2> QED
    BY <1>18, <2>3, <2>4 DEF vars, AccountsInv, OneEach
<1> QED
  BY <1>1, <1>2, <1>3, <1>4, <1>5, <1>6, <1>7, <1>8, <1>9, <1>10, <1>11, <1>12,
     <1>13, <1>14, <1>15, <1>16, <1>17, <1>18 DEF Next, Calls, Steps, Failures

-----------------------------------------------------------------------------
(* The theorems                                                            *)

\* The invariant holds at the start.
LEMMA InitKeeps == Init => AccountsInv
<1> SUFFICES ASSUME Init PROVE AccountsInv
  OBVIOUS
<1>1. \A r \in Request : arg[r] = NoArg /\ arg[r].id = None
  BY DEF Init, NoArg
<1>2. OneEach /\ \A r \in Request : Local(r)
  BY <1>1, AccountsAssumption DEF OneEach, Local
<1>3. \A i \in Id : row[i] = None
  BY DEF Init
<1>4. \A c \in Config : vault[c[2]] = None
  BY AccountsAssumption DEF Init
<1>5. \A i \in Id : Rest(i)
  BY <1>3, <1>4 DEF Rest
<1> QED
  BY <1>2, <1>5, InitType DEF AccountsInv

\* If every account has a keyring entry of its own and clients add no account
\* that exists, then no account is without its password, no password without
\* its account and the password is the agreed one, whatever RPCs overlap, fail,
\* are dropped or are cut short, up to the failures each is exposed to.
THEOREM KeyringFollowsAccounts == OwnKeys /\ ~AddsExisting /\ Spec => []KeyringInv
<1> SUFFICES ASSUME OwnKeys, ~AddsExisting PROVE Spec => []KeyringInv
  OBVIOUS
<1>1. AccountsInv /\ [Next]_vars => AccountsInv'
  BY NextKeeps
<1>2. AccountsInv => KeyringInv
  <2> SUFFICES ASSUME AccountsInv PROVE KeyringInv
    OBVIOUS
  <2>1. \A i \in Id : Rest(i)
    BY DEF AccountsInv
  <2>2. \A i \in Id : Settled(i) => i \notin raced /\ \A r \in Request : arg[r].id # i
    BY DEF Settled
  <2>3. NoBareAccount
    BY <2>1, <2>2 DEF Rest, NoBareAccount
  <2>4. \A c \in Config : c[1] \in Id
    BY AccountsAssumption
  <2>5. NoOrphanSecret
    BY <2>1, <2>2, <2>4 DEF Rest, NoOrphanSecret, OrphanClean
  <2>6. CredentialAsAgreed
    BY <2>1, <2>2 DEF Rest, CredentialAsAgreed, AgreedClean
  <2> QED
    BY <2>3, <2>5, <2>6 DEF AccountsInv, KeyringInv
<1> QED
  BY <1>1, <1>2, InitKeeps, PTL DEF Spec

\* Under the same assumptions no rollback takes back what another RPC stored,
\* and no update brings back an account that was removed, unless two RPCs
\* worked on the same account.
THEOREM RequestsKeepApart == OwnKeys /\ ~AddsExisting /\ Spec => RequestsSpareOthers
<1> SUFFICES ASSUME OwnKeys, ~AddsExisting PROVE Spec => RequestsSpareOthers
  OBVIOUS
<1>1. AccountsInv /\ [Next]_vars => AccountsInv'
  BY NextKeeps
<1>2. AccountsInv /\ [Next]_vars =>
        [\A r \in Request :
           pc[r] = "undo" /\ pc'[r] = "idle" /\ arg[r].id \notin raced /\ vault' # vault
              => vault[arg[r].key] = arg[r].pw]_vars
  BY DEF AccountsInv, TypeOK, Local, Wrote
<1>3. AccountsInv /\ [Next]_vars =>
        [\A r \in Request, i \in Id :
           pc[r] = "save" /\ arg[r].id = i /\ arg[r].pw = None /\ row'[i] # None
              => row[i] # None \/ i \in raced]_vars
  BY DEF AccountsInv, Local
<1>4. Spec => RollbackSparesOthers
  BY <1>1, <1>2, InitKeeps, PTL DEF Spec, RollbackSparesOthers
<1>5. Spec => UpdateNeverCreates
  BY <1>1, <1>3, InitKeeps, PTL DEF Spec, UpdateNeverCreates
<1> QED
  BY <1>4, <1>5 DEF RequestsSpareOthers
=============================================================================
