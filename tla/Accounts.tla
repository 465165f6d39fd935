------------------------------ MODULE Accounts ------------------------------
(***************************************************************************)
(* Mail accounts: the configuration rows in the store and the passwords in *)
(* the OS keyring, changed together by RPCs that write one and then the    *)
(* other and roll back by hand.                                            *)
(*                                                                         *)
(* Source: the Accounts service of crates/nunciod/src/grpc.rs              *)
(* (add_account, update_account, rotate_credential_and_persist,            *)
(* remove_account), save_account, get_account and delete_account of        *)
(* crates/nuncio-store/src/db.rs.  The keyring is external (SecretVault of *)
(* crates/nuncio-store/src/vault.rs is its interface).                     *)
(***************************************************************************)
EXTENDS Integers, FiniteSets, Functions

CONSTANTS
    Id,          \* account ids
    Key,         \* keyring entries
    Password,
    Config,      \* the (id, keyring_secret_key) pairs clients submit
    AddsExisting,\* whether clients add an id or a key that is in use
    Request,     \* Accounts RPCs that can be served at once
    None,        \* no row, no secret, no password
    FaultKind,   \* what may go wrong
    MaxFaults    \* bound: how often

ASSUME AccountsAssumption ==
    /\ Config \subseteq Id \X Key
    /\ AddsExisting \in BOOLEAN
    /\ None \notin Key /\ None \notin Password /\ None \notin Id
    /\ FaultKind \subseteq {"save", "set", "snapshot", "undo", "forget", "delete", "cancel", "crash"}
    /\ MaxFaults \in Nat

VARIABLES
    row,      \* table accounts: the keyring_secret_key of each id, or None
    vault,    \* the keyring: the secret under each key, or None
    agreed,   \* the password the last successful RPC stored for an id
    pc, arg,  \* where each handler is, and its locals
    raced,    \* the ids two RPCs worked on at once
    faults    \* how often each kind of fault happened

vars == <<row, vault, agreed, pc, arg, raced, faults>>

NoArg == [id |-> None, key |-> None, pw |-> None, prior |-> None]

Fault(kind) ==
    /\ kind \in FaultKind
    /\ FoldFunction(+, 0, faults) < MaxFaults
    /\ faults' = [faults EXCEPT ![kind] = @ + 1]

Happened(kind) == kind \in FaultKind /\ faults[kind] > 0

Goto(r, l) == pc' = [pc EXCEPT ![r] = l]

Finish(r) ==
    /\ Goto(r, "idle")
    /\ arg' = [arg EXCEPT ![r] = NoArg]

Call(r, l, c, p) ==
    /\ pc[r] = "idle"
    /\ Goto(r, l)
    /\ arg' = [arg EXCEPT ![r] = [NoArg EXCEPT !.id = c[1], !.key = c[2], !.pw = p]]
    /\ raced' = IF \E q \in Request : arg[q].id = c[1] THEN raced \union {c[1]} ELSE raced

SetSecret(k, p) == vault' = [vault EXCEPT ![k] = p]
DeleteSecret(k) == vault' = [vault EXCEPT ![k] = None]

-----------------------------------------------------------------------------
(* add_account and update_account                                          *)

InUse(c) == row[c[1]] # None \/ \E i \in Id : row[i] = c[2]

\* add_account writes the credential first.  It does not look for an account
\* of that id or key.
AddAccount(r, c, p) ==
    /\ InUse(c) => AddsExisting
    /\ Call(r, "save", c, p)
    /\ SetSecret(c[2], p)
    /\ UNCHANGED <<row, agreed, faults>>

\* Mutants: the row is not looked for; no password is taken for an empty one.
FindAnyAccount(r, c, p) ==
    /\ Call(r, IF p = None THEN "save" ELSE "snapshot", c, p)
    /\ UNCHANGED <<row, vault, agreed, faults>>

AlwaysRotate(r, c, p) ==
    /\ row[c[1]] # None
    /\ Call(r, "snapshot", c, p)
    /\ UNCHANGED <<row, vault, agreed, faults>>

\* update_account: get_account finds the row, else the RPC is refused.  With
\* no new password the row alone is written.
FindAccount(r, c, p) ==
    /\ row[c[1]] # None
    /\ Call(r, IF p = None THEN "save" ELSE "snapshot", c, p)
    /\ UNCHANGED <<row, vault, agreed, faults>>

\* rotate_credential_and_persist: the prior secret is read ...
SnapshotSecret(r) ==
    /\ pc[r] = "snapshot"
    /\ arg' = [arg EXCEPT ![r].prior = vault[arg[r].key]]
    /\ Goto(r, "set")
    /\ UNCHANGED <<row, vault, agreed, raced, faults>>

\* ... or cannot be, which counts as none ...
SnapshotFails(r) ==
    /\ Fault("snapshot")
    /\ pc[r] = "snapshot"
    /\ Goto(r, "set")
    /\ UNCHANGED <<row, vault, agreed, arg, raced>>

\* ... and the new one written.
RotateSecret(r) ==
    /\ pc[r] = "set"
    /\ SetSecret(arg[r].key, arg[r].pw)
    /\ Goto(r, "save")
    /\ UNCHANGED <<row, agreed, arg, raced, faults>>

\* Mutant: a write that failed is rolled back.
RotateFailsUndoes(r) ==
    /\ Fault("set")
    /\ pc[r] = "set"
    /\ Goto(r, "undo")
    /\ UNCHANGED <<row, vault, agreed, arg, raced>>

RotateFails(r) ==
    /\ Fault("set")
    /\ pc[r] = "set"
    /\ Finish(r)
    /\ UNCHANGED <<row, vault, agreed, raced>>

\* save_account: INSERT OR REPLACE; the RPC succeeds.
SaveAccount(r) ==
    LET a == arg[r]
    IN /\ pc[r] = "save"
       /\ row' = [row EXCEPT ![a.id] = a.key]
       /\ agreed' = IF a.pw = None THEN agreed ELSE [agreed EXCEPT ![a.id] = a.pw]
       /\ Finish(r)
       /\ UNCHANGED <<vault, raced, faults>>

\* It fails: a credential that was written is rolled back.
SaveFails(r) ==
    /\ Fault("save")
    /\ pc[r] = "save"
    /\ \/ arg[r].pw # None /\ Goto(r, "undo") /\ UNCHANGED arg
       \/ arg[r].pw = None /\ Finish(r)
    /\ UNCHANGED <<row, vault, agreed, raced>>

\* Mutants: only a prior secret is put back; the secret is deleted always.
UndoRestores(r) ==
    /\ pc[r] = "undo"
    /\ \/ arg[r].prior # None /\ SetSecret(arg[r].key, arg[r].prior)
       \/ arg[r].prior = None /\ UNCHANGED vault
    /\ Finish(r)
    /\ UNCHANGED <<row, agreed, raced, faults>>

UndoDeletes(r) ==
    /\ pc[r] = "undo"
    /\ DeleteSecret(arg[r].key)
    /\ Finish(r)
    /\ UNCHANGED <<row, agreed, raced, faults>>

\* The prior secret is restored if there was one.  add_account has none.
Undo(r) ==
    /\ pc[r] = "undo"
    /\ \/ arg[r].prior # None /\ SetSecret(arg[r].key, arg[r].prior)
       \/ arg[r].prior = None /\ DeleteSecret(arg[r].key)
    /\ Finish(r)
    /\ UNCHANGED <<row, agreed, raced, faults>>

UndoFails(r) ==
    /\ Fault("undo")
    /\ pc[r] = "undo"
    /\ Finish(r)
    /\ UNCHANGED <<row, vault, agreed, raced>>

-----------------------------------------------------------------------------
(* remove_account                                                          *)

\* Mutant: the credential goes before the row.
ForgetFirst(r, i) ==
    /\ row[i] # None
    /\ Call(r, "delete", <<i, row[i]>>, None)
    /\ DeleteSecret(row[i])
    /\ UNCHANGED <<row, agreed, faults>>

\* get_account finds the row, else the RPC is refused.
FindRemoved(r, i) ==
    /\ row[i] # None
    /\ Call(r, "delete", <<i, row[i]>>, None)
    /\ UNCHANGED <<row, vault, agreed, faults>>

\* delete_account.
DeleteRow(r) ==
    /\ pc[r] = "delete"
    /\ row' = [row EXCEPT ![arg[r].id] = None]
    /\ agreed' = [agreed EXCEPT ![arg[r].id] = None]
    /\ Goto(r, "forget")
    /\ UNCHANGED <<vault, arg, raced, faults>>

DeleteRowFails(r) ==
    /\ Fault("delete")
    /\ pc[r] = "delete"
    /\ Finish(r)
    /\ UNCHANGED <<row, vault, agreed, raced>>

\* The credential goes with it; if that fails it stays, and the RPC succeeds.
ForgetSecret(r) ==
    /\ pc[r] = "forget"
    /\ DeleteSecret(arg[r].key)
    /\ Finish(r)
    /\ UNCHANGED <<row, agreed, raced, faults>>

ForgetFails(r) ==
    /\ Fault("forget")
    /\ pc[r] = "forget"
    /\ Finish(r)
    /\ UNCHANGED <<row, vault, agreed, raced>>

-----------------------------------------------------------------------------
(* The client goes away, or the daemon dies                                *)

\* A handler is dropped while it waits for the store, which may have written
\* the row or not.
Cancel(r) ==
    /\ Fault("cancel")
    /\ \/ pc[r] = "save" /\ row' \in {row, [row EXCEPT ![arg[r].id] = arg[r].key]}
       \/ pc[r] = "delete" /\ row' \in {row, [row EXCEPT ![arg[r].id] = None]}
    /\ Finish(r)
    /\ UNCHANGED <<vault, agreed, raced>>

Crash ==
    /\ Fault("crash")
    /\ pc' = [r \in Request |-> "idle"]
    /\ arg' = [r \in Request |-> NoArg]
    /\ UNCHANGED <<row, vault, agreed, raced>>

Init ==
    /\ row = [i \in Id |-> None]
    /\ vault = [k \in Key |-> None]
    /\ agreed = [i \in Id |-> None]
    /\ pc = [r \in Request |-> "idle"]
    /\ arg = [r \in Request |-> NoArg]
    /\ raced = {}
    /\ faults = [k \in FaultKind |-> 0]

Calls(r) ==
    \/ \E c \in Config, p \in Password : AddAccount(r, c, p)
    \/ \E c \in Config, p \in Password \union {None} : FindAccount(r, c, p)
    \/ \E i \in Id : FindRemoved(r, i)

Steps(r) ==
    \/ SnapshotSecret(r) \/ RotateSecret(r) \/ SaveAccount(r) \/ Undo(r)
    \/ DeleteRow(r) \/ ForgetSecret(r)

Failures(r) ==
    \/ SnapshotFails(r) \/ RotateFails(r) \/ SaveFails(r) \/ UndoFails(r)
    \/ DeleteRowFails(r) \/ ForgetFails(r) \/ Cancel(r)

Next ==
    \/ \E r \in Request : Calls(r) \/ Steps(r) \/ Failures(r)
    \/ Crash

Spec == Init /\ [][Next]_vars

-----------------------------------------------------------------------------
(* Properties                                                              *)

Arg == [id : Id \union {None}, key : Key \union {None},
        pw : Password \union {None}, prior : Password \union {None}]

\* Every variable has its type, and a handler in progress has what it needs.
TypeOK ==
    /\ row \in [Id -> Key \union {None}]
    /\ vault \in [Key -> Password \union {None}]
    /\ agreed \in [Id -> Password \union {None}]
    /\ pc \in [Request -> {"idle", "snapshot", "set", "save", "undo", "delete", "forget"}]
    /\ arg \in [Request -> Arg]
    /\ \A r \in Request :
          /\ pc[r] # "idle" => arg[r].id \in Id /\ arg[r].key \in Key
          /\ pc[r] \in {"snapshot", "set", "undo"} => arg[r].pw \in Password
    /\ raced \subseteq Id
    /\ faults \in [FaultKind -> Nat]

\* An account no RPC is working on, nor two ever were at once.
Settled(i) == i \notin raced /\ \A r \in Request : arg[r].id # i

\* add_account, rotate_credential_and_persist: no account is left without a
\* password to retrieve, whichever step fails, is dropped or is cut short by a
\* crash.  The one combination that breaks it is a prior secret that could not
\* be read and a row that could not be saved: the rollback then deletes.
NoBareAccount ==
    ~(Happened("snapshot") /\ Happened("save")) =>
        \A i \in Id : row[i] # None /\ Settled(i) => vault[row[i]] # None

\* add_account: "no credential without a matching account", as long as every
\* handler runs to its end and the vault undoes and forgets what it is told to.
NoOrphanSecret ==
    ~(\E kind \in {"undo", "forget", "cancel", "crash"} : Happened(kind)) =>
        \A c \in Config : row[c[1]] = None /\ Settled(c[1]) => vault[c[2]] = None

\* rotate_credential_and_persist: the secret of an account is the one the last
\* RPC that succeeded stored, a failed rotation leaving the vault as it was.
CredentialAsAgreed ==
    ~(\E kind \in {"snapshot", "undo", "cancel", "crash"} : Happened(kind)) =>
        \A i \in Id : row[i] # None /\ Settled(i) => vault[row[i]] = agreed[i]

\* Accounts and credentials come and go together: no account is without its
\* password, no password without its account, and the password is the agreed
\* one, unless a failure that each is exposed to happened.
KeyringInv == TypeOK /\ NoBareAccount /\ NoOrphanSecret /\ CredentialAsAgreed

\* rotate_credential_and_persist: a rollback never touches a credential that
\* another RPC stored, unless two RPCs worked on the same account.
RollbackSparesOthers ==
    [][\A r \in Request :
          pc[r] = "undo" /\ pc'[r] = "idle" /\ arg[r].id \notin raced /\ vault' # vault
              => vault[arg[r].key] = arg[r].pw]_vars

\* update_account never conjures a new account row, unless it raced with the
\* removal of the account.
UpdateNeverCreates ==
    [][\A r \in Request, i \in Id :
          pc[r] = "save" /\ arg[r].id = i /\ arg[r].pw = None /\ row'[i] # None
              => row[i] # None \/ i \in raced]_vars

\* An RPC works on its own account only: a rollback takes back nothing that
\* another RPC stored, and an update brings no removed account back.
RequestsSpareOthers == RollbackSparesOthers /\ UpdateNeverCreates
=============================================================================
