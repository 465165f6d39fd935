-------------------------------- MODULE Jmap --------------------------------
(***************************************************************************)
(* The sync of an account whose backend is JMAP: the mailboxes are listed, *)
(* and for each of them one request asks for the ids of its messages and   *)
(* another one for the messages, while the server goes on changing.  The   *)
(* state string the server returns is stored as the checkpoint of the      *)
(* mailbox, and the backend does not look at it again.                     *)
(*                                                                         *)
(* Source: crates/nuncio-mail/src/jmap.rs, and fetch_and_persist of        *)
(* crates/nunciod/src/sync.rs.  One run at a time: MailSync has the runs   *)
(* that overlap.                                                           *)
(***************************************************************************)
EXTENDS Integers, FiniteSets

CONSTANTS
    JMail,        \* the messages of the account
    Mailbox,      \* its mailboxes
    NoState,      \* no checkpoint
    NoRow,        \* no row of the table of messages
    MaxChanges,   \* bound: changes at the server
    MaxRuns,      \* bound: runs
    MaxJmapFaults \* bound: requests and statements that fail, runs cut short

ASSUME JmapAssumption ==
    /\ MaxChanges \in Nat /\ MaxRuns \in Nat /\ MaxJmapFaults \in Nat
    /\ NoState \notin Nat
    /\ NoRow \notin [folder : {"inbox"}, read : BOOLEAN]

VARIABLES
    boxes,     \* the mailboxes each message is in: none if there is no such message
    unread,    \* its flag at the server
    sstate,    \* the state of the server, which every change advances
    row,       \* the table of messages
    stateOf,   \* folder_sync_state: the checkpoint of each mailbox
    fired,     \* how often the filter actions ran for each message
    jpc,       \* where the run is
    toSync,    \* the mailboxes it still has to sync, the current one included
    box,       \* the current one
    since,     \* its checkpoint, as read
    ids,       \* the ids of the query
    got,       \* the messages fetched and not saved yet
    newState,  \* the state that came with them
    filtering, \* the message whose filters are about to run
    steady,    \* messages that have not changed since the run began
    refused,   \* the server refused a query of this run
    runs,      \* runs begun
    jfaults

serverVars == <<boxes, unread, sstate>>
runVars    == <<jpc, toSync, box, since, ids, got, newState, filtering, refused, runs>>
jmapVars   == <<serverVars, row, stateOf, fired, runVars, steady, jfaults>>

JmapFault == jfaults < MaxJmapFaults /\ jfaults' = jfaults + 1

-----------------------------------------------------------------------------
(* The server                                                              *)

\* A message is delivered, moved, copied or destroyed, or its flag changes.
ServerChanges(m) ==
    /\ sstate < MaxChanges
    /\ sstate' = sstate + 1
    /\ steady' = steady \ {m}
    /\ \/ \E b \in SUBSET Mailbox \ {boxes[m]} : boxes' = [boxes EXCEPT ![m] = b] /\ UNCHANGED unread
       \/ boxes[m] # {} /\ unread' = [unread EXCEPT ![m] = ~@] /\ UNCHANGED boxes
    /\ UNCHANGED <<row, stateOf, fired, runVars, jfaults>>

-----------------------------------------------------------------------------
(* The run; its locals are reset when it has no more use for them.         *)

\* A sync is asked for; what the properties say of a run begins here.
BeginRun ==
    /\ jpc \in {"idle", "ok", "failed"} /\ runs < MaxRuns
    /\ runs' = runs + 1
    /\ jpc' = "folders"
    /\ refused' = FALSE
    /\ steady' = {m \in JMail : boxes[m] # {}}
    /\ UNCHANGED <<serverVars, row, stateOf, fired, toSync, box, since, ids, got, newState, filtering, jfaults>>

\* sync_folders: the session, then Mailbox/get.
sync_folders ==
    /\ jpc = "folders"
    /\ toSync' = Mailbox
    /\ jpc' = "next"
    /\ UNCHANGED <<serverVars, row, stateOf, fired, box, since, ids, got, newState, filtering, refused, runs,
                   steady, jfaults>>

\* The next mailbox and its checkpoint; after the last one the run has succeeded.
NextMailbox ==
    /\ jpc = "next"
    /\ \/ \E b \in toSync :
             /\ box' = b
             /\ since' = stateOf[b]
             /\ jpc' = "query"
       \/ toSync = {} /\ jpc' = "ok" /\ UNCHANGED <<box, since>>
    /\ UNCHANGED <<serverVars, row, stateOf, fired, toSync, ids, got, newState, filtering, refused, runs,
                   steady, jfaults>>

InBox(b) == {m \in JMail : b \in boxes[m]}

\* Mutant: a mailbox whose checkpoint is the state of the server is skipped.
query_unless_known ==
    /\ jpc = "query"
    /\ ids' = IF since = sstate THEN {} ELSE InBox(box)
    /\ since' = NoState
    /\ jpc' = "get"
    /\ UNCHANGED <<serverVars, row, stateOf, fired, toSync, box, got, newState, filtering, refused, runs,
                   steady, jfaults>>

\* sync_messages, its first request: Email/query, whatever the checkpoint.
email_query ==
    /\ jpc = "query"
    /\ ids' = InBox(box)
    /\ since' = NoState
    /\ jpc' = "get"
    /\ UNCHANGED <<serverVars, row, stateOf, fired, toSync, box, got, newState, filtering, refused, runs,
                   steady, jfaults>>

\* The server answers the query with an error object: it has no ids, and
\* parse_email_query_response takes the default, an empty list.
QueryRefused ==
    /\ jpc = "query"
    /\ JmapFault
    /\ ids' = {}
    /\ since' = NoState
    /\ refused' = TRUE
    /\ jpc' = "get"
    /\ UNCHANGED <<serverVars, row, stateOf, fired, toSync, box, got, newState, filtering, runs, steady>>

\* ... and its second request: Email/get of those ids.  A message that is
\* gone by now is not in the answer, and the state is that of this moment.
email_get ==
    /\ jpc = "get"
    /\ got' = {[id |-> m, read |-> ~unread[m]] : m \in {i \in ids : boxes[i] # {}}}
    /\ newState' = sstate
    /\ ids' = {}
    /\ jpc' = "save"
    /\ UNCHANGED <<serverVars, row, stateOf, fired, toSync, box, since, filtering, refused, runs, steady, jfaults>>

\* Mutant: every message fetched is taken for a new one.
always_new(m) == TRUE

\* is_new_message, before save_email: a failed lookup counts as not new.
is_new_message(m) == row[m.id] = NoRow

\* parse_email_get_response and save_email: every message of the backend has
\* the folder "inbox", whatever mailbox it was found in.
SaveMessage ==
    /\ jpc = "save"
    /\ \E m \in got :
          /\ row' = [row EXCEPT ![m.id] = [folder |-> "inbox", read |-> m.read]]
          /\ got' = got \ {m}
          /\ \/ /\ is_new_message(m)
                /\ filtering' = {m.id}
                /\ jpc' = "filter"
                /\ UNCHANGED jfaults
             \/ /\ ~is_new_message(m)
                /\ UNCHANGED <<filtering, jpc, jfaults>>
             \/ /\ JmapFault
                /\ UNCHANGED <<filtering, jpc>>
    /\ UNCHANGED <<serverVars, stateOf, fired, toSync, box, since, ids, newState, refused, runs, steady>>

\* apply_filter_actions, for a new message.
ApplyFilters ==
    /\ jpc = "filter"
    /\ fired' = [m \in JMail |-> IF m \in filtering THEN fired[m] + 1 ELSE fired[m]]
    /\ filtering' = {}
    /\ jpc' = "save"
    /\ UNCHANGED <<serverVars, row, stateOf, toSync, box, since, ids, got, newState, refused, runs, steady, jfaults>>

\* The checkpoint is stored once the messages are.
SaveState ==
    /\ jpc = "save" /\ got = {}
    /\ stateOf' = [stateOf EXCEPT ![box] = newState]
    /\ toSync' = toSync \ {box}
    /\ newState' = NoState
    /\ jpc' = "next"
    /\ UNCHANGED <<serverVars, row, fired, box, since, ids, got, filtering, refused, runs, steady, jfaults>>

\* A request or a statement fails, and the run with it; or the daemon stops.
RunFails ==
    /\ jpc \notin {"idle", "ok", "failed"}
    /\ JmapFault
    /\ jpc' = "failed"
    /\ filtering' = {} /\ got' = {} /\ ids' = {} /\ toSync' = {}
    /\ since' = NoState /\ newState' = NoState
    /\ UNCHANGED <<serverVars, row, stateOf, fired, box, refused, runs, steady>>

-----------------------------------------------------------------------------
JmapInit ==
    /\ boxes \in [JMail -> SUBSET Mailbox]
    /\ unread = [m \in JMail |-> TRUE]
    /\ sstate = 0
    /\ row = [m \in JMail |-> NoRow]
    /\ stateOf = [b \in Mailbox |-> NoState]
    /\ fired = [m \in JMail |-> 0]
    /\ jpc = "idle"
    /\ toSync = {}
    /\ box = CHOOSE b \in Mailbox : TRUE
    /\ since = NoState
    /\ ids = {}
    /\ got = {}
    /\ newState = NoState
    /\ filtering = {}
    /\ steady = {}
    /\ refused = FALSE
    /\ runs = 0
    /\ jfaults = 0

JmapNext ==
    \/ \E m \in JMail : ServerChanges(m)
    \/ BeginRun
    \/ sync_folders
    \/ NextMailbox
    \/ email_query
    \/ QueryRefused
    \/ email_get
    \/ SaveMessage
    \/ ApplyFilters
    \/ SaveState
    \/ RunFails

-----------------------------------------------------------------------------
(* Properties                                                              *)

\* A run that reports success has stored, as the server has it, every message
\* that did not change meanwhile, although each checkpoint may be newer than
\* what was stored with it: a delivery between the two requests is in the
\* state and not in the ids.  The exception is a refused query, which is
\* taken for an empty mailbox.
RunComplete ==
    jpc = "ok" /\ ~refused =>
        \A m \in steady : row[m] # NoRow /\ row[m].read = ~unread[m]

\* A message that is in two mailboxes is fetched twice in each run, and every
\* run fetches it again: its filters run once all the same, and without a
\* failure they do run.
FiltersOnce ==
    \A m \in JMail :
        /\ fired[m] <= 1
        /\ row[m] # NoRow /\ m \notin filtering /\ jfaults = 0 => fired[m] = 1

\* A sync over JMAP misses nothing and repeats no filter action.
JmapSound == RunComplete /\ FiltersOnce
=============================================================================
