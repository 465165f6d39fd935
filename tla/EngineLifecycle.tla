--------------------------- MODULE EngineLifecycle ---------------------------
(***************************************************************************)
(* The daemon from boot on: the command channel and the engine status of   *)
(* the EventBus, the boot sequence that may post resync commands before    *)
(* anybody reads them, the command loop, and the Sync RPCs that run beside *)
(* it.                                                                     *)
(*                                                                         *)
(* Source: crates/nunciod/src/main.rs, crates/nunciod/src/orchestrator.rs, *)
(* crates/nuncio-core/src/lib.rs (EventBus), crates/nunciod/src/sync.rs    *)
(* (sync_with_backend, run_account_sync, run_all_accounts_sync) and the    *)
(* Sync handler of crates/nunciod/src/grpc.rs.  What a sync fetches is     *)
(* MailSync's subject; here it only starts and ends.                       *)
(***************************************************************************)
EXTENDS Integers, Sequences, FiniteSets

CONSTANTS
    Account,           \* rows of the accounts table
    Rpc,               \* Sync RPCs that can be served at once
    SyncAll,           \* the command for every account
    None,              \* no command
    COMMAND_CAPACITY,  \* capacity of the command channel
    MaxCrashes,        \* bound: crashes of the daemon
    MaxCancels,        \* bound: Sync RPCs whose client goes away
    MaxHangs           \* bound: syncs whose server stops answering

Command == Account \union {SyncAll}
Runner  == Rpc \union {"loop"}

ASSUME LifecycleAssumption ==
    /\ COMMAND_CAPACITY \in Nat \ {0}
    /\ MaxCrashes \in Nat /\ MaxCancels \in Nat /\ MaxHangs \in Nat
    /\ SyncAll \notin Account
    /\ None \notin Command
    /\ "loop" \notin Rpc

VARIABLES
    boot,      \* where main() is
    toSend,    \* commands trigger_background_resync has still to send
    queue,     \* the command channel
    status,    \* AppState.status
    pc, cmd,   \* where each runner is, and the command it serves
    owed,      \* accounts whose mail a recovery dropped and nobody tried to sync since
    blurred,   \* syncs overlapped, or one was dropped, since one began alone
    crashes, cancels, hangs

budget == <<crashes, cancels, hangs>>
vars == <<boot, toSend, queue, status, pc, cmd, owed, blurred, budget>>

NoRunner == pc = [r \in Runner |-> "idle"] /\ cmd = [r \in Runner |-> None]

Accounts(c) == IF c = SyncAll THEN Account ELSE {c}

Init ==
    /\ boot = "open"
    /\ toSend = {}
    /\ queue = << >>
    /\ status = "Idle"
    /\ NoRunner
    /\ owed = {}
    /\ blurred = FALSE
    /\ crashes = 0
    /\ cancels = 0
    /\ hangs = 0

-----------------------------------------------------------------------------
(* Boot                                                                    *)

\* initialize_and_recover on a sound database.
OpenSound ==
    /\ boot = "open"
    /\ boot' = "spawn"
    /\ UNCHANGED <<toSend, queue, status, pc, cmd, owed, blurred, budget>>

\* Mutant: no resync when the accounts cannot be listed.
ResyncListedOnly(listed) ==
    /\ boot = "open"
    /\ boot' = "resync"
    /\ toSend' = IF listed THEN Account ELSE {}
    /\ owed' = Account
    /\ UNCHANGED <<queue, status, pc, cmd, blurred, budget>>

\* ... on a corrupt one: the salvaged accounts are to be synced again.  When
\* they cannot be listed the one command is SyncAll.
OpenCorrupt(listed) ==
    /\ boot = "open"
    /\ boot' = "resync"
    /\ toSend' = IF listed THEN Account ELSE {SyncAll}
    /\ owed' = Account
    /\ UNCHANGED <<queue, status, pc, cmd, blurred, budget>>

\* Mutant: the channel counts as full one command early.
SendResyncShort(c) ==
    /\ boot = "resync"
    /\ c \in toSend
    /\ Len(queue) + 1 < COMMAND_CAPACITY
    /\ queue' = Append(queue, c)
    /\ toSend' = toSend \ {c}
    /\ UNCHANGED <<boot, status, pc, cmd, owed, blurred, budget>>

\* trigger_background_resync sends the next command.  send_command waits for
\* room in the channel.
SendResync(c) ==
    /\ boot = "resync"
    /\ c \in toSend
    /\ Len(queue) < COMMAND_CAPACITY
    /\ queue' = Append(queue, c)
    /\ toSend' = toSend \ {c}
    /\ UNCHANGED <<boot, status, pc, cmd, owed, blurred, budget>>

\* Stage 5: DatabaseRecovered is published, before any client can subscribe.
Announce ==
    /\ boot = "resync"
    /\ toSend = {}
    /\ boot' = "spawn"
    /\ UNCHANGED <<toSend, queue, status, pc, cmd, owed, blurred, budget>>

\* The command loop is spawned, then the gRPC server starts to serve.
Spawn ==
    /\ boot = "spawn"
    /\ boot' = "serve"
    /\ UNCHANGED <<toSend, queue, status, pc, cmd, owed, blurred, budget>>

Serve ==
    /\ boot = "serve"
    /\ boot' = "up"
    /\ UNCHANGED <<toSend, queue, status, pc, cmd, owed, blurred, budget>>

Boot ==
    \/ OpenSound
    \/ \E listed \in BOOLEAN : OpenCorrupt(listed)
    \/ \E c \in toSend : SendResync(c)
    \/ Announce
    \/ Spawn
    \/ Serve

-----------------------------------------------------------------------------
(* Sync runs                                                               *)

Syncing(r) == pc[r] \in {"syncing", "hung"}

\* process_command of SyncAll or SyncAccount: the status turns, whoever else
\* is syncing.
BeginSync(r) ==
    /\ pc' = [pc EXCEPT ![r] = "syncing"]
    /\ status' = "Syncing"
    /\ blurred' = (\E q \in Runner : Syncing(q))

\* run_all_accounts_sync turns the status at once; run_account_sync first
\* looks up the account and its credential.
Start(r, c) ==
    /\ pc[r] = "idle"
    /\ cmd' = [cmd EXCEPT ![r] = c]
    /\ \/ c = SyncAll /\ BeginSync(r)
       \/ /\ c # SyncAll
          /\ pc' = [pc EXCEPT ![r] = "setup"]
          /\ UNCHANGED <<status, blurred>>
    /\ UNCHANGED <<boot, toSend, owed, budget>>

\* The command loop serves one command at a time, in order.
Recv ==
    /\ boot \in {"serve", "up"}
    /\ queue # << >>
    /\ Start("loop", Head(queue))
    /\ queue' = Tail(queue)

\* The Sync RPC runs the same code on its own task.
SyncRpc(r, c) ==
    /\ boot = "up"
    /\ Start(r, c)
    /\ UNCHANGED queue

\* Mutant: the command is let go of before it is served.
SetupForgets(r) ==
    /\ pc[r] = "setup"
    /\ BeginSync(r)
    /\ cmd' = [cmd EXCEPT ![r] = None]
    /\ UNCHANGED <<boot, toSend, queue, owed, budget>>

\* Mutant: sync_with_backend does not process the command.
SetupSilent(r) ==
    /\ pc[r] = "setup"
    /\ pc' = [pc EXCEPT ![r] = "syncing"]
    /\ blurred' = (\E q \in Runner : Syncing(q))
    /\ UNCHANGED <<boot, toSend, queue, status, cmd, owed, budget>>

\* The account is known and its credential readable.
SetupOk(r) ==
    /\ pc[r] = "setup"
    /\ BeginSync(r)
    /\ UNCHANGED <<boot, toSend, queue, cmd, owed, budget>>

\* It is not: an Error event, and the status is left alone.
SetupFails(r) ==
    /\ pc[r] = "setup"
    /\ pc' = [pc EXCEPT ![r] = "idle"]
    /\ cmd' = [cmd EXCEPT ![r] = None]
    /\ owed' = owed \ Accounts(cmd[r])
    /\ UNCHANGED <<boot, toSend, queue, status, blurred, budget>>

\* Mutant: complete_sync is left out when the fetch failed.
CompleteOnSuccess(r) ==
    /\ pc[r] = "syncing"
    /\ pc' = [pc EXCEPT ![r] = "idle"]
    /\ cmd' = [cmd EXCEPT ![r] = None]
    /\ status' \in {"Idle", status}
    /\ owed' = owed \ Accounts(cmd[r])
    /\ UNCHANGED <<boot, toSend, queue, blurred, budget>>

\* The fetch ended, well or not: complete_sync.
CompleteSync(r) ==
    /\ pc[r] = "syncing"
    /\ pc' = [pc EXCEPT ![r] = "idle"]
    /\ cmd' = [cmd EXCEPT ![r] = None]
    /\ status' = "Idle"
    /\ owed' = owed \ Accounts(cmd[r])
    /\ UNCHANGED <<boot, toSend, queue, blurred, budget>>

\* The RPC's client goes away and its handler is dropped at an await.
CancelRpc(r) ==
    /\ cancels < MaxCancels
    /\ r \in Rpc
    /\ pc[r] # "idle"
    /\ pc' = [pc EXCEPT ![r] = "idle"]
    /\ cmd' = [cmd EXCEPT ![r] = None]
    /\ cancels' = cancels + 1
    /\ blurred' = (blurred \/ Syncing(r))
    /\ UNCHANGED <<boot, toSend, queue, status, owed, crashes, hangs>>

\* The server stops answering LOGIN, LIST, SELECT or LOGOUT: only connecting
\* and each item of a FETCH are timed.
FallSilent(r) ==
    /\ hangs < MaxHangs
    /\ pc[r] = "syncing"
    /\ pc' = [pc EXCEPT ![r] = "hung"]
    /\ hangs' = hangs + 1
    /\ UNCHANGED <<boot, toSend, queue, status, cmd, owed, blurred, crashes, cancels>>

Run(r) == SetupOk(r) \/ SetupFails(r) \/ CompleteSync(r)

-----------------------------------------------------------------------------
(* Crashes                                                                 *)

\* The daemon dies and is started again: only the database survives.
Crash ==
    /\ crashes < MaxCrashes
    /\ crashes' = crashes + 1
    /\ boot' = "open"
    /\ toSend' = {}
    /\ queue' = << >>
    /\ status' = "Idle"
    /\ pc' = [r \in Runner |-> "idle"]
    /\ cmd' = [r \in Runner |-> None]
    /\ blurred' = FALSE
    /\ UNCHANGED <<owed, cancels, hangs>>

Next ==
    \/ Boot
    \/ Recv
    \/ \E r \in Rpc, c \in Command : SyncRpc(r, c)
    \/ \E r \in Runner : Run(r)
    \/ \E r \in Rpc : CancelRpc(r)
    \/ \E r \in Runner : FallSilent(r)
    \/ Crash

Spec == Init /\ [][Next]_vars

\* main() goes on when it can; the command loop and every handler are tasks
\* the executor polls, and a sync whose server answers, or fails while it
\* connects or delivers a FETCH, ends.
Fairness == WF_vars(Boot) /\ WF_vars(Recv) /\ \A r \in Runner : WF_vars(Run(r))
FairSpec == Spec /\ Fairness

-----------------------------------------------------------------------------
(* Properties                                                              *)

\* Every variable has its type; a runner that is not idle serves a command.
TypeOK ==
    /\ boot \in {"open", "resync", "spawn", "serve", "up"}
    /\ toSend \subseteq Command
    /\ queue \in Seq(Command)
    /\ status \in {"Idle", "Syncing"}
    /\ pc \in [Runner -> {"idle", "setup", "syncing", "hung"}]
    /\ cmd \in [Runner -> Command \union {None}]
    /\ \A r \in Runner : pc[r] # "idle" => cmd[r] \in Command
    /\ owed \subseteq Account
    /\ blurred \in BOOLEAN
    /\ crashes \in Nat
    /\ cancels \in Nat
    /\ hangs \in Nat

\* sync_with_backend, run_all_accounts_sync: when no sync is in progress the
\* engine does not say Syncing, whatever syncs overlapped or failed, as long
\* as no Sync RPC was cancelled.
IdleWhenQuietUnlessCancelled ==
    cancels = 0 /\ (\A r \in Runner : ~Syncing(r)) => status = "Idle"

\* EngineStatus: the status says Syncing exactly when a sync is in progress,
\* from any sync that begins alone on, until another overlaps it or its RPC is
\* dropped.  The first of two overlapping syncs to end says Idle for both.
StatusAccurate ==
    ~blurred => (status = "Syncing" <=> \E r \in Runner : Syncing(r))

\* The engine's status is never wrong for good: it says Syncing exactly while
\* a sync that nothing disturbs runs, and Idle once the last one has ended.
LifecycleInv == TypeOK /\ IdleWhenQuietUnlessCancelled /\ StatusAccurate

\* The daemon comes up, resync commands or not, if the channel has room for a
\* command per account: nobody reads it before trigger_background_resync has
\* sent the last one.
BootCompletes == Cardinality(Account) <= COMMAND_CAPACITY => <>(boot = "up")

\* Every account whose mail a recovery dropped is synced again, unless the
\* daemon dies first and takes the posted commands with it, or a server that
\* does not answer holds the command loop up.
ResyncServed ==
    \A a \in Account : a \in owed ~> (a \notin owed \/ crashes > 0 \/ hangs > 0)
=============================================================================
