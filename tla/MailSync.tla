------------------------------ MODULE MailSync ------------------------------
(***************************************************************************)
(* Inbound mail synchronisation: any number of concurrent sync runs (the   *)
(* daemon's command loop and every Sync RPC) fetch the folders of the      *)
(* configured IMAP accounts and persist what they fetch.                   *)
(*                                                                         *)
(* Source: crates/nunciod/src/sync.rs (run_account_sync,                   *)
(* run_all_accounts_sync, fetch_and_persist, is_new_message,               *)
(* apply_filter_actions), crates/nuncio-mail/src/imap.rs                   *)
(* (resolve_fetch_range, sync_folder_messages_with_session) and the four   *)
(* store calls they make in crates/nuncio-store/src/db.rs.  The IMAP       *)
(* server is external and is modelled from what those functions read.      *)
(***************************************************************************)
EXTENDS Integers, Sequences, FiniteSets

CONSTANTS
    Account,          \* rows of the accounts table
    Folder,           \* the names LIST "*" returns, the same for every account
    Mail,             \* the mails that can ever be delivered
    Oversized,        \* those parse_mime refuses (over MAX_PAYLOAD_BYTES)
    Sync,             \* the sync runs that can be in progress at once
    OtherReads,       \* the mails some other client reads on the server
    ReadRequests,     \* the flags MarkRead RPCs ask for
    MatchedActions,   \* what FilterEngine::evaluate returns for a mail, in order
    None,             \* no mailbox, no message
    MaxUid,           \* bound: UIDs a mailbox hands out in one UIDVALIDITY
    MaxValidity,      \* bound: UIDVALIDITY values a mailbox goes through
    MaxFaults,        \* bound: failures, cancellations and crashes
    MaxRecoveries     \* bound: corruption recoveries

Mailbox == Account \X Folder

\* RuleAction: two kinds act on the stored row, the others go to the outbox.
ImmediateAction == {"MarkRead", "MarkUnread"}
RemoteAction    == {"MoveTo", "CopyTo", "Flag", "Unflag", "Delete",
                    "ForwardTo", "CallWebhook"}

Email == [mb : Mailbox, uid : Nat, mail : Mail, read : BOOLEAN]
Row   == [id : Nat, mb : Mailbox, mail : Mail, read : BOOLEAN]

ASSUME SyncAssumption ==
    /\ MaxUid \in Nat /\ MaxValidity \in Nat
    /\ MaxFaults \in Nat /\ MaxRecoveries \in Nat
    /\ Oversized \subseteq Mail /\ OtherReads \subseteq Mail /\ ReadRequests \subseteq BOOLEAN
    /\ MatchedActions \in Seq(ImmediateAction \union RemoteAction)
    /\ None \notin Mailbox /\ None \notin Email

VARIABLES
    \* the IMAP servers
    validity,     \* UIDVALIDITY of each mailbox
    uidnext,      \* UIDNEXT of each mailbox
    mbox,         \* the messages of each mailbox: their UID and the mail they are
    seen,         \* the mails flagged \Seen on their server
    undelivered,  \* the mails that have not arrived yet
    \* the store
    store,        \* the rows of table messages
    checkpoint,   \* table folder_sync_state, keyed by (account, folder)
    fired,        \* actions applied, by mail and by place in MatchedActions
    logged,       \* rows of filter_execution_logs, counted the same way
    \* the sync runs in progress
    pc,           \* where each run is
    accts,        \* accounts of the batch still to do
    folders,      \* mailboxes of the current account still to do
    job,          \* locals of fetch_and_persist for the current folder
    \* budgets
    faults, recoveries

server == <<validity, uidnext, mbox, seen, undelivered>>
effects == <<fired, logged>>
budget == <<faults, recoveries>>
vars   == <<server, store, checkpoint, effects, pc, accts, folders, job, budget>>

-----------------------------------------------------------------------------
(* Checkpoints and fetch ranges                                            *)

\* A folder_sync_state row: absent, the text "{uidvalidity}:{uid}", or a text
\* that does not parse as that ("full-resync-required", a legacy bare UID).
Checkpoint == [kind : {"absent", "unparseable", "uid"}, validity : Nat, uid : Nat]
Absent      == [kind |-> "absent", validity |-> 0, uid |-> 0]
Unparseable == [kind |-> "unparseable", validity |-> 0, uid |-> 0]
UidCheckpoint(v, u) == [kind |-> "uid", validity |-> v, uid |-> u]

\* What SELECT reported: UIDVALIDITY and UIDNEXT, 0 where the server omitted
\* it.  "epoch" is the UIDVALIDITY the mailbox really has.
Selected == [epoch : Nat, validity : Nat, uidnext : Nat]
NotSelected == [epoch |-> 0, validity |-> 0, uidnext |-> 0]

\* The lowest UID of the FetchRange picked.  Every variant but Incremental
\* is 1:*.
resolve_fetch_range(state, current) ==
    IF /\ state.kind = "uid"
       /\ state.uid >= 1
       /\ current # 0
       /\ current = state.validity
    THEN state.uid
    ELSE 1

\* The set IMAP's "n:*" denotes: the UIDs from n up, and always the highest.
UidFetch(m, n) ==
    {x \in mbox[m] : x.uid >= n \/ \A y \in mbox[m] : y.uid <= x.uid}

\* One past the highest UID of a fetch: a singleton, empty for an empty fetch.
PastMaxUidSeen(es) == {e.uid + 1 : e \in {x \in es : \A y \in es : y.uid <= x.uid}}

\* Mutant: the boundary is one too high.
CheckpointPastNext(state, s, es) ==
    LET boundary == IF s.uidnext # 0 THEN {s.uidnext} ELSE PastMaxUidSeen(es)
    IN IF s.validity # 0 /\ boundary # {}
       THEN {UidCheckpoint(s.validity, u + 1) : u \in boundary}
       ELSE {IF state.kind = "absent" THEN Unparseable ELSE state}

\* The checkpoint sync_folder_messages_with_session returns, as a singleton.
NewCheckpoint(state, s, es) ==
    LET boundary == IF s.uidnext # 0 THEN {s.uidnext} ELSE PastMaxUidSeen(es)
    IN IF s.validity # 0 /\ boundary # {}
       THEN {UidCheckpoint(s.validity, u) : u \in boundary}
       ELSE {IF state.kind = "absent" THEN Unparseable ELSE state}

\* The primary key save_email writes under: "imap-uid-{uid}".
message_id(m, uid) == uid

Stored(id) == \E r \in store : r.id = id

\* The locals of fetch_and_persist between folders.
NoJob == [mb |-> None, since |-> Absent, sel |-> NotSelected, emails |-> {},
          newState |-> Absent, cur |-> None, acts |-> << >>]

-----------------------------------------------------------------------------
(* The IMAP servers                                                        *)

\* A mail arrives under the next UID.
Deliver(m, x) ==
    /\ x \in undelivered
    /\ uidnext[m] <= MaxUid
    /\ undelivered' = undelivered \ {x}
    /\ mbox' = [mbox EXCEPT ![m] = @ \union {[uid |-> uidnext[m], mail |-> x]}]
    /\ uidnext' = [uidnext EXCEPT ![m] = @ + 1]
    /\ UNCHANGED <<validity, seen, store, checkpoint, effects, pc, accts, folders, job, budget>>

\* Another client expunges a message; its UID is not handed out again.
Expunge(m, x) ==
    /\ mbox' = [mbox EXCEPT ![m] = @ \ {x}]
    /\ UNCHANGED <<validity, uidnext, seen, undelivered, store, checkpoint,
                   effects, pc, accts, folders, job, budget>>

\* Another client reads a mail.
MarkSeen(x) ==
    /\ x \notin seen
    /\ seen' = seen \union {x}
    /\ UNCHANGED <<validity, uidnext, mbox, undelivered, store, checkpoint,
                   effects, pc, accts, folders, job, budget>>

\* The mailbox is renumbered: a higher UIDVALIDITY, new UIDs from 1 up.
Renumber(m, n, renum) ==
    /\ validity[m] < MaxValidity
    /\ \A x, y \in mbox[m] : renum[x] = renum[y] => x = y
    /\ validity' = [validity EXCEPT ![m] = @ + 1]
    /\ mbox' = [mbox EXCEPT ![m] = {[uid |-> renum[x], mail |-> x.mail] : x \in @}]
    /\ uidnext' = [uidnext EXCEPT ![m] = n + 1]
    /\ UNCHANGED <<seen, undelivered, store, checkpoint, effects, pc, accts, folders, job, budget>>

Server ==
    \/ \E m \in Mailbox :
        \/ \E x \in Mail : Deliver(m, x)
        \/ \E x \in mbox[m] : Expunge(m, x)
        \/ \E n \in 0..MaxUid : \E renum \in [mbox[m] -> 1..n] : Renumber(m, n, renum)
    \/ \E x \in OtherReads \ undelivered : MarkSeen(x)

-----------------------------------------------------------------------------
(* One sync run                                                            *)

\* What a run does next with these folders and accounts left: when neither is,
\* it has completed.
Resume(fs, as) == IF fs # {} THEN "folder" ELSE IF as # {} THEN "account" ELSE "idle"

\* run_account_sync is a batch of one account, run_all_accounts_sync of all.
Begin(s, batch) ==
    /\ pc[s] = "idle"
    /\ pc' = [pc EXCEPT ![s] = Resume({}, batch)]
    /\ accts' = [accts EXCEPT ![s] = batch]
    /\ UNCHANGED <<server, store, checkpoint, effects, folders, job, budget>>

\* The next account's folders are listed.
ListFolders(s, a) ==
    /\ pc[s] = "account"
    /\ a \in accts[s]
    /\ accts' = [accts EXCEPT ![s] = @ \ {a}]
    /\ folders' = [folders EXCEPT ![s] = {a} \X Folder]
    /\ pc' = [pc EXCEPT ![s] = Resume({a} \X Folder, accts[s] \ {a})]
    /\ UNCHANGED <<server, store, checkpoint, effects, job, budget>>

\* The folder's stored checkpoint is read: get_folder_sync_state.
OpenFolder(s, m) ==
    /\ pc[s] = "folder"
    /\ m \in folders[s]
    /\ folders' = [folders EXCEPT ![s] = @ \ {m}]
    /\ job' = [job EXCEPT ![s].mb = m, ![s].since = checkpoint[m]]
    /\ pc' = [pc EXCEPT ![s] = "select"]
    /\ UNCHANGED <<server, store, checkpoint, effects, accts, budget>>

\* SELECT; the server reports UIDVALIDITY and UIDNEXT or omits either.
Select(s) ==
    LET m == job[s].mb
    IN /\ pc[s] = "select"
       /\ \E v \in {0, validity[m]}, n \in {0, uidnext[m]} :
             job' = [job EXCEPT ![s].sel =
                        [epoch |-> validity[m], validity |-> v, uidnext |-> n]]
       /\ pc' = [pc EXCEPT ![s] = "fetch"]
       /\ UNCHANGED <<server, store, checkpoint, effects, accts, folders, budget>>

\* What UID FETCH of the resolved range yields; mails may have come and gone
\* since SELECT.
Fetched(j) ==
    {[mb |-> j.mb, uid |-> x.uid, mail |-> x.mail, read |-> x.mail \in seen] :
        x \in UidFetch(j.mb, resolve_fetch_range(j.since, j.sel.validity))}

\* The server keeps a session only while the mailbox is not renumbered.
Fetch(s) ==
    LET es == Fetched(job[s])
    IN /\ pc[s] = "fetch"
       /\ job[s].sel.epoch = validity[job[s].mb]
       /\ \A e \in es : e.mail \notin Oversized
       /\ \E next \in NewCheckpoint(job[s].since, job[s].sel, es) :
             job' = [job EXCEPT ![s] = [NoJob EXCEPT !.mb = job[s].mb,
                                                     !.emails = es, !.newState = next]]
       /\ pc' = [pc EXCEPT ![s] = "persist"]
       /\ UNCHANGED <<server, store, checkpoint, effects, accts, folders, budget>>

\* Mutant: the error ends the whole batch.
AbandonBatch(s) ==
    /\ pc' = [pc EXCEPT ![s] = "idle"]
    /\ accts' = [accts EXCEPT ![s] = {}]
    /\ folders' = [folders EXCEPT ![s] = {}]
    /\ job' = [job EXCEPT ![s] = NoJob]
    /\ UNCHANGED <<server, store, checkpoint, effects>>

\* An error propagates out of fetch_and_persist: what is left of the account
\* is abandoned and the batch goes on with the next one.
AbandonAccount(s) ==
    /\ pc' = [pc EXCEPT ![s] = Resume({}, accts[s])]
    /\ folders' = [folders EXCEPT ![s] = {}]
    /\ job' = [job EXCEPT ![s] = NoJob]
    /\ UNCHANGED <<server, store, checkpoint, effects, accts>>

\* The fetch cannot succeed: the session is gone or a message does not parse.
FetchRefused(s) ==
    /\ pc[s] = "fetch"
    /\ \/ job[s].sel.epoch # validity[job[s].mb]
       \/ \E e \in Fetched(job[s]) : e.mail \in Oversized
    /\ AbandonAccount(s)
    /\ UNCHANGED budget

\* Mutants: every message is taken for new; every message is taken for known,
\* as when the lookup comes after the write.
AlwaysNew(s, e) ==
    /\ pc[s] = "persist"
    /\ e \in job[s].emails
    /\ job' = [job EXCEPT ![s].cur = e]
    /\ pc' = [pc EXCEPT ![s] = "save_new"]
    /\ UNCHANGED <<server, store, checkpoint, effects, accts, folders, budget>>

NeverNew(s, e) ==
    /\ pc[s] = "persist"
    /\ e \in job[s].emails
    /\ job' = [job EXCEPT ![s].cur = e]
    /\ pc' = [pc EXCEPT ![s] = "save_seen"]
    /\ UNCHANGED <<server, store, checkpoint, effects, accts, folders, budget>>

\* is_new_message, before the row is written.
CheckNew(s, e) ==
    /\ pc[s] = "persist"
    /\ e \in job[s].emails
    /\ job' = [job EXCEPT ![s].cur = e]
    /\ pc' = [pc EXCEPT ![s] = IF Stored(message_id(e.mb, e.uid)) THEN "save_seen" ELSE "save_new"]
    /\ UNCHANGED <<server, store, checkpoint, effects, accts, folders, budget>>

\* save_email: INSERT OR REPLACE, the read flag included.
Upsert(e) ==
    LET id == message_id(e.mb, e.uid)
    IN {r \in store : r.id # id}
          \union {[id |-> id, mb |-> e.mb, mail |-> e.mail, read |-> e.read]}

\* Mutant: the loop over the actions runs once too often.
ContinueOnceMore(s, es, rest) ==
    /\ job' = [job EXCEPT ![s].emails = es, ![s].acts = rest]
    /\ pc' = [pc EXCEPT ![s] = "filter"]

\* The rest of the filter pass over the current message; with nothing left of
\* it the next message's turn comes.
Continue(s, es, rest) ==
    /\ job' = [job EXCEPT ![s].emails = es, ![s].acts = rest,
                          ![s].cur = IF rest = << >> THEN None ELSE @]
    /\ pc' = [pc EXCEPT ![s] = IF rest = << >> THEN "persist" ELSE "filter"]

\* Only a message that was new when it was looked up is filtered.
SaveEmail(s) ==
    /\ pc[s] \in {"save_new", "save_seen"}
    /\ store' = Upsert(job[s].cur)
    /\ Continue(s, job[s].emails \ {job[s].cur},
                IF pc[s] = "save_new" THEN MatchedActions ELSE << >>)
    /\ UNCHANGED <<server, checkpoint, effects, accts, folders, budget>>

\* set_message_read: UPDATE ... WHERE id.
SetRead(id, read) ==
    store' = {IF r.id = id THEN [r EXCEPT !.read = read] ELSE r : r \in store}

\* Where in MatchedActions apply_filter_actions is, and for which mail.
Place(s) == <<job[s].cur.mail, Len(MatchedActions) - Len(job[s].acts) + 1>>

\* One action of apply_filter_actions takes effect: on the stored row, or as
\* a new outbox row.
ApplyAction(s) ==
    LET act == Head(job[s].acts)
        id  == message_id(job[s].cur.mb, job[s].cur.uid)
    IN /\ pc[s] = "filter"
       /\ \/ act \in ImmediateAction /\ SetRead(id, act = "MarkRead")
          \/ act \in RemoteAction /\ UNCHANGED store
       /\ fired' = [fired EXCEPT ![Place(s)] = @ + 1]
       /\ pc' = [pc EXCEPT ![s] = "log"]
       /\ UNCHANGED <<server, checkpoint, logged, accts, folders, job, budget>>

\* save_filter_execution_log for the action that just took effect.
LogAction(s) ==
    /\ pc[s] = "log"
    /\ logged' = [logged EXCEPT ![Place(s)] = @ + 1]
    /\ Continue(s, job[s].emails, Tail(job[s].acts))
    /\ UNCHANGED <<server, store, checkpoint, fired, accts, folders, budget>>

\* Mutant: the checkpoint is written before every message is.
SaveCheckpointEarly(s) ==
    /\ pc[s] = "persist"
    /\ checkpoint' = [checkpoint EXCEPT ![job[s].mb] = job[s].newState]
    /\ job' = [job EXCEPT ![s] = NoJob]
    /\ pc' = [pc EXCEPT ![s] = Resume(folders[s], accts[s])]
    /\ UNCHANGED <<server, store, effects, accts, folders, budget>>

\* save_folder_sync_state, once every message of the fetch is persisted.
SaveCheckpoint(s) ==
    /\ pc[s] = "persist"
    /\ job[s].emails = {}
    /\ checkpoint' = [checkpoint EXCEPT ![job[s].mb] = job[s].newState]
    /\ job' = [job EXCEPT ![s] = NoJob]
    /\ pc' = [pc EXCEPT ![s] = Resume(folders[s], accts[s])]
    /\ UNCHANGED <<server, store, effects, accts, folders, budget>>

Step(s) ==
    \/ \E a \in Account : ListFolders(s, a)
    \/ \E m \in Mailbox : OpenFolder(s, m)
    \/ Select(s)
    \/ Fetch(s)
    \/ FetchRefused(s)
    \/ \E e \in job[s].emails : CheckNew(s, e)
    \/ SaveEmail(s)
    \/ ApplyAction(s)
    \/ LogAction(s)
    \/ SaveCheckpoint(s)

-----------------------------------------------------------------------------
(* Failures                                                                *)

Fault ==
    /\ faults < MaxFaults
    /\ faults' = faults + 1
    /\ UNCHANGED recoveries

\* The account cannot be reached: no credential, no connection, LIST fails.
AccountFails(s, a) ==
    /\ Fault
    /\ pc[s] = "account"
    /\ a \in accts[s]
    /\ accts' = [accts EXCEPT ![s] = @ \ {a}]
    /\ pc' = [pc EXCEPT ![s] = Resume({}, accts[s] \ {a})]
    /\ UNCHANGED <<server, store, checkpoint, effects, folders, job>>

\* A call that fetch_and_persist leaves with `?' fails.
CallFails(s) ==
    /\ Fault
    /\ \/ pc[s] \in {"folder", "select", "fetch", "save_new", "save_seen"}
       \/ pc[s] = "persist" /\ job[s].emails = {}
    /\ AbandonAccount(s)

\* is_new_message cannot read the store: the message is taken for known.
LookupFails(s, e) ==
    /\ Fault
    /\ pc[s] = "persist"
    /\ e \in job[s].emails
    /\ job' = [job EXCEPT ![s].cur = e]
    /\ pc' = [pc EXCEPT ![s] = "save_seen"]
    /\ UNCHANGED <<server, store, checkpoint, effects, accts, folders>>

\* Mutant: the action that failed is logged all the same.
LogFailedAction(s) ==
    /\ Fault
    /\ pc[s] = "filter"
    /\ logged' = [logged EXCEPT ![Place(s)] = @ + 1]
    /\ Continue(s, job[s].emails, Tail(job[s].acts))
    /\ UNCHANGED <<server, store, checkpoint, fired, accts, folders>>

\* A write of apply_filter_actions fails: the action is skipped.
ActionFails(s) ==
    /\ Fault
    /\ pc[s] \in {"filter", "log"}
    /\ Continue(s, job[s].emails, Tail(job[s].acts))
    /\ UNCHANGED <<server, store, checkpoint, effects, accts, folders>>

\* The Sync RPC's client goes away: its future is dropped at an await.
Cancel(s) ==
    /\ Fault
    /\ pc[s] # "idle"
    /\ pc' = [pc EXCEPT ![s] = "idle"]
    /\ accts' = [accts EXCEPT ![s] = {}]
    /\ folders' = [folders EXCEPT ![s] = {}]
    /\ job' = [job EXCEPT ![s] = NoJob]
    /\ UNCHANGED <<server, store, checkpoint, effects>>

\* The daemon restarts: nothing in memory survives.
Restart ==
    /\ pc' = [s \in Sync |-> "idle"]
    /\ accts' = [s \in Sync |-> {}]
    /\ folders' = [s \in Sync |-> {}]
    /\ job' = [s \in Sync |-> NoJob]

Crash ==
    /\ Fault
    /\ Restart
    /\ UNCHANGED <<server, store, checkpoint, effects>>

\* Mutant: the checkpoints are salvaged with the accounts.
RecoverCheckpoints ==
    /\ recoveries < MaxRecoveries
    /\ recoveries' = recoveries + 1
    /\ Restart
    /\ store' = {}
    /\ UNCHANGED <<server, checkpoint, effects, faults>>

\* The restart finds the database corrupt: recovery starts a fresh one with
\* the accounts and rules only, so messages and checkpoints go together.
Recover ==
    /\ recoveries < MaxRecoveries
    /\ recoveries' = recoveries + 1
    /\ Restart
    /\ store' = {}
    /\ checkpoint' = [m \in Mailbox |-> Absent]
    /\ UNCHANGED <<server, effects, faults>>

-----------------------------------------------------------------------------
(* The specification                                                       *)

\* The MarkRead RPC: set_message_read on a message a client knows of.
MarkReadRpc(id, read) ==
    /\ Stored(id)
    /\ SetRead(id, read)
    /\ UNCHANGED <<server, checkpoint, effects, pc, accts, folders, job, budget>>

Init ==
    /\ validity = [m \in Mailbox |-> 1]
    /\ uidnext = [m \in Mailbox |-> 1]
    /\ mbox = [m \in Mailbox |-> {}]
    /\ seen = {}
    /\ undelivered = Mail
    /\ store = {}
    /\ checkpoint \in [Mailbox -> {Absent, Unparseable}]
    /\ fired = [p \in Mail \X (1..Len(MatchedActions)) |-> 0]
    /\ logged = [p \in Mail \X (1..Len(MatchedActions)) |-> 0]
    /\ pc = [s \in Sync |-> "idle"]
    /\ accts = [s \in Sync |-> {}]
    /\ folders = [s \in Sync |-> {}]
    /\ job = [s \in Sync |-> NoJob]
    /\ faults = 0
    /\ recoveries = 0

Requests(s) ==
    \/ \E a \in Account : Begin(s, {a})
    \/ Begin(s, Account)

Failures(s) ==
    \/ \E a \in Account : AccountFails(s, a)
    \/ CallFails(s)
    \/ \E e \in job[s].emails : LookupFails(s, e)
    \/ ActionFails(s)
    \/ Cancel(s)

Next ==
    \/ Server
    \/ \E s \in Sync : Requests(s) \/ Step(s) \/ Failures(s)
    \/ \E r \in store, read \in ReadRequests : MarkReadRpc(r.id, read)
    \/ Crash
    \/ Recover

Spec == Init /\ [][Next]_vars

\* The executor polls every sync run that can go on, servers answer or fail
\* (EngineLifecycle has those that do neither), and the accounts are synced
\* again and again: a client (the CLI from cron, a shell) keeps asking.
Fairness == \A s \in Sync : WF_vars(Step(s)) /\ SF_vars(Begin(s, Account))
FairSpec == Spec /\ Fairness

-----------------------------------------------------------------------------
(* Properties                                                              *)

PersistPc == {"persist", "save_new", "save_seen", "filter", "log"}
Pc == {"idle", "account", "folder", "select", "fetch"} \union PersistPc

Message == [uid : Nat, mail : Mail]
Job == [mb : Mailbox \union {None}, since : Checkpoint, sel : Selected,
        emails : SUBSET Email, newState : Checkpoint, cur : Email \union {None},
        acts : Seq(ImmediateAction \union RemoteAction)]

\* Every variable has its type, and a run has the mailbox and the message its
\* place in fetch_and_persist needs.
TypeOK ==
    /\ validity \in [Mailbox -> Nat]
    /\ uidnext \in [Mailbox -> Nat]
    /\ mbox \in [Mailbox -> SUBSET Message]
    /\ seen \in SUBSET Mail
    /\ undelivered \in SUBSET Mail
    /\ store \in SUBSET Row
    /\ checkpoint \in [Mailbox -> Checkpoint]
    /\ fired \in [Mail \X (1..Len(MatchedActions)) -> Nat]
    /\ logged \in [Mail \X (1..Len(MatchedActions)) -> Nat]
    /\ pc \in [Sync -> Pc]
    /\ accts \in [Sync -> SUBSET Account]
    /\ folders \in [Sync -> SUBSET Mailbox]
    /\ job \in [Sync -> Job]
    /\ \A s \in Sync :
          /\ pc[s] \in {"select", "fetch"} \union PersistPc => job[s].mb \in Mailbox
          /\ pc[s] \in PersistPc \ {"persist"} => job[s].cur \in Email
          /\ pc[s] \in {"filter", "log"} => Len(job[s].acts) \in 1..Len(MatchedActions)
    /\ faults \in Nat
    /\ recoveries \in Nat

\* A folder's stored checkpoint never runs ahead of the store: every message
\* of the mailbox below it is in table messages under its id, whatever syncs
\* overlap, fail, are cancelled or crash (fetch_and_persist: "the stored
\* high-water mark can never advance past work that actually reached the
\* store").
CheckpointSound ==
    \A m \in Mailbox :
        checkpoint[m].kind = "uid" /\ checkpoint[m].validity = validity[m] =>
            \A x \in mbox[m] :
                x.uid < checkpoint[m].uid => Stored(message_id(m, x.uid))

\* What CheckpointSound rests on, for a checkpoint c of mailbox m held by
\* anybody: c is not from the future, and every message below it is stored or
\* among the fetched messages es still to be stored.
Covers(c, m, es) ==
    c.kind = "uid" =>
        /\ c.validity <= validity[m]
        /\ c.validity = validity[m] =>
              /\ c.uid <= uidnext[m]
              /\ \A x \in mbox[m] :
                    x.uid < c.uid => \/ Stored(message_id(m, x.uid))
                                     \/ \E e \in es : e.uid = x.uid

\* UIDs in use are below UIDNEXT.
WellNumbered ==
    \A m \in Mailbox :
        /\ validity[m] >= 1 /\ uidnext[m] >= 1
        /\ \A x \in mbox[m] : 1 <= x.uid /\ x.uid < uidnext[m]

\* A SELECT report is about the past of the mailbox's current numbering, or
\* about an older numbering.
SelectSound(j) ==
    /\ j.sel.epoch <= validity[j.mb]
    /\ j.sel.validity \in {0, j.sel.epoch}
    /\ j.sel.epoch = validity[j.mb] => j.sel.uidnext <= uidnext[j.mb]

\* The checkpoint a run holds is covered by the store, and the one it is about
\* to write by the store and by what it still has to persist.
RunSound(s) ==
    /\ pc[s] \in {"select", "fetch"} => Covers(job[s].since, job[s].mb, {})
    /\ pc[s] = "fetch" => SelectSound(job[s])
    /\ pc[s] \in PersistPc =>
          /\ Covers(job[s].newState, job[s].mb, job[s].emails)
          /\ \A e \in job[s].emails : e.mb = job[s].mb
    /\ pc[s] \in {"save_new", "save_seen"} => job[s].cur \in job[s].emails

\* The inductive invariant behind CheckpointSound: overlapping syncs may each
\* hold a checkpoint, stale or about to be written, and each is covered.
CheckpointInv ==
    /\ WellNumbered
    /\ \A m \in Mailbox : Covers(checkpoint[m], m, {})
    /\ \A s \in Sync : RunSound(s)

\* Stronger: the row under that id is that message and not another one, so no
\* incremental sync can skip a message that the store does not have.
NoMailLoss ==
    \A m \in Mailbox :
        checkpoint[m].kind = "uid" /\ checkpoint[m].validity = validity[m] =>
            \A x \in mbox[m] :
                x.uid < checkpoint[m].uid => \E r \in store : r.mb = m /\ r.mail = x.mail

\* apply_filter_actions: no action fires twice for one mail, although every
\* incremental sync fetches the newest message again.
AtMostOnce == \A p \in DOMAIN fired : fired[p] <= 1

Quiet == \A s \in Sync : pc[s] = "idle"
Filtered(x) == \A i \in 1..Len(MatchedActions) : fired[<<x, i>>] >= 1

\* At rest: with no sync running no message is missing below a checkpoint.
NoMailLossAtRest == Quiet => NoMailLoss

\* apply_filter_actions: once no sync is running, every action has fired for
\* every stored mail.
FiltersNotMissed == Quiet => \A r \in store : Filtered(r.mail)

\* The same as long as nothing failed.
FiltersNotMissedUnlessFault == faults = 0 => FiltersNotMissed

\* apply_filter_actions: an action fires once for every mail.  It never fires
\* twice, although every incremental sync fetches the newest message again,
\* and as long as nothing failed it has fired for whatever is stored.
FiltersExactlyOnce == AtMostOnce /\ FiltersNotMissedUnlessFault

\* The execution log records only actions that really took effect.
LogTruthful == \A p \in DOMAIN logged : logged[p] <= fired[p]

InMailbox(x, m) == \E y \in mbox[m] : y.mail = x
HoldsOversized(a) == \E f \in Folder, x \in Oversized : InMailbox(x, <<a, f>>)

\* A delivered mail reaches the store unless it is expunged first; only an
\* oversized message of the same account may stand in the way, never the
\* failure of another account (run_all_accounts_sync).
DeliveredMailStored ==
    \A m \in Mailbox, x \in Mail :
        InMailbox(x, m) ~> \/ \E r \in store : r.mail = x
                           \/ ~InMailbox(x, m)
                           \/ HoldsOversized(m[1])
=============================================================================
