------------------------------- MODULE Client -------------------------------
(***************************************************************************)
(* The command line client and the daemon it calls: every command of the   *)
(* client as the steps its handler takes, every RPC as the answers its     *)
(* handler can give, the bearer token both sides take from the keyring,    *)
(* and what becomes of a call when the daemon stops.                       *)
(*                                                                         *)
(* Source: crates/nuncio-cli/src (main.rs, args.rs, runner.rs, output.rs), *)
(* crates/nuncio-proto/src/client.rs, get_or_create_key_bytes of           *)
(* crates/nuncio-store/src/vault.rs, the RPC handlers, the interceptor and *)
(* serve of crates/nunciod/src/grpc.rs, and the start in nunciod's main.   *)
(*                                                                         *)
(* What an RPC reads or writes is left to the modules of the components,   *)
(* save the one account record that the client itself reads, changes and   *)
(* writes back.                                                            *)
(***************************************************************************)
EXTENDS Integers, Sequences, FiniteSets, TLC, Subsequence

CONSTANTS
    Process,      \* runs of the client binary
    Concurrent,   \* the commands that may run beside another one
    EditField,    \* the account setting the edits of each process change
    NoToken,      \* an empty keyring entry
    NoAccount,    \* no such account row
    MaxStops      \* bound: times the daemon stops

Field == {"imap", "smtp"}
Daemon == "nunciod"

ASSUME ClientAssumption ==
    /\ EditField \in [Process -> Field]
    /\ Daemon \notin Process
    /\ NoToken \notin Process \union {Daemon}
    /\ MaxStops \in Nat

-----------------------------------------------------------------------------
(* The RPCs of the eight services: the statuses a handler can refuse with, *)
(* and whether it waits for a server elsewhere.                            *)

Answers(refusals) == [refuses |-> refusals, waits |-> FALSE]
AnswersAfterServer(refusals) == [refuses |-> refusals, waits |-> TRUE]

get_status_rpc              == Answers({})
add_account_rpc             == Answers({"invalid_argument", "internal"})
list_accounts_rpc           == Answers({"internal"})
update_account_rpc          == Answers({"invalid_argument", "not_found", "internal"})
remove_account_rpc          == Answers({"invalid_argument", "not_found", "internal"})
test_account_connection_rpc == AnswersAfterServer({"invalid_argument", "not_found", "internal"})
list_folders_rpc            == Answers({"internal"})
list_messages_rpc           == Answers({"invalid_argument", "internal"})
get_message_rpc             == Answers({"invalid_argument", "not_found"})
mark_read_rpc               == Answers({"invalid_argument", "not_found"})
search_messages_rpc         == Answers({"internal"})
send_message_rpc            == AnswersAfterServer({"invalid_argument", "internal"})
mail_sync_rpc               == AnswersAfterServer({"internal"})
list_rules_rpc              == Answers({"internal"})
create_rule_rpc             == Answers({"invalid_argument", "internal"})
delete_rule_rpc             == Answers({"invalid_argument", "internal"})
validate_rule_rpc           == Answers({})
preview_rule_rpc            == Answers({"invalid_argument", "internal"})
update_rule_rpc             == Answers({"invalid_argument", "not_found", "internal"})
export_rules_rpc            == Answers({"internal"})
import_rules_rpc            == Answers({})
get_execution_logs_rpc      == Answers({"internal"})
triage_rpc                  == Answers({"internal"})
export_mailbox_rpc          == Answers({"invalid_argument", "internal"})
list_records_rpc            == Answers({"internal"})
verify_chain_rpc            == Answers({"internal"})
list_events_rpc             == Answers({"invalid_argument", "internal"})
list_contacts_rpc           == Answers({"invalid_argument", "internal"})
create_contact_rpc          == Answers({"invalid_argument", "internal"})

\* calendar sync and contacts sync: no account has a CalDAV or CardDAV
\* configuration, so the daemon always refuses.
calendar_sync_rpc           == [refuses |-> {"internal"}, waits |-> FALSE]
contacts_sync_rpc           == [refuses |-> {"internal"}, waits |-> FALSE]
NeverOk == {"calendar_sync", "contacts_sync"}

\* The RPCs that change something, and those whose refusal may come after a
\* part of their work: messages saved before the sync failed, a mail the
\* server took before it dropped the connection, a file half written.
Changing == {"add_account", "update_account", "remove_account", "mark_read", "send_message",
             "mail_sync", "create_rule", "delete_rule", "update_rule", "import_rules", "triage",
             "export_mailbox", "create_contact"}
PartWay  == {"send_message", "mail_sync", "triage", "export_mailbox"}

Rpc == [get_status |-> get_status_rpc, add_account |-> add_account_rpc, list_accounts |-> list_accounts_rpc,
        update_account |-> update_account_rpc, remove_account |-> remove_account_rpc,
        test_account_connection |-> test_account_connection_rpc, list_folders |-> list_folders_rpc,
        list_messages |-> list_messages_rpc, get_message |-> get_message_rpc, mark_read |-> mark_read_rpc,
        search_messages |-> search_messages_rpc, send_message |-> send_message_rpc, mail_sync |-> mail_sync_rpc,
        list_rules |-> list_rules_rpc, create_rule |-> create_rule_rpc, delete_rule |-> delete_rule_rpc,
        validate_rule |-> validate_rule_rpc, preview_rule |-> preview_rule_rpc, update_rule |-> update_rule_rpc,
        export_rules |-> export_rules_rpc, import_rules |-> import_rules_rpc,
        get_execution_logs |-> get_execution_logs_rpc, triage |-> triage_rpc,
        export_mailbox |-> export_mailbox_rpc, list_records |-> list_records_rpc,
        verify_chain |-> verify_chain_rpc, list_events |-> list_events_rpc, list_contacts |-> list_contacts_rpc,
        create_contact |-> create_contact_rpc, calendar_sync |-> calendar_sync_rpc,
        contacts_sync |-> contacts_sync_rpc]

-----------------------------------------------------------------------------
(* The commands: what a handler checks on its own, and the RPCs it calls.  *)

Call(rpc)   == [do |-> "call", what |-> rpc]
Check(what) == [do |-> "check", what |-> what]

handle_accounts_list  == <<Call("list_accounts")>>
handle_add_account    == <<Check("password"), Check("tls_mode"), Call("add_account")>>
fetch_account_by_id   == <<Call("list_accounts"), Check("found")>>
handle_account_show   == fetch_account_by_id
handle_account_delete == <<Call("remove_account")>>
handle_account_test   == <<Call("test_account_connection")>>

\* Mutant: the flags are looked at when the account has been written.
edit_checked_last     == fetch_account_by_id \o <<Call("update_account"), Check("tls_mode")>>

handle_account_edit   == fetch_account_by_id \o <<Check("tls_mode"), Call("update_account")>>

handle_sync           == <<Call("mail_sync")>>
handle_list_folder    == <<Call("list_messages")>>
handle_read_message   == <<Call("get_message")>>
handle_send_email     == <<Call("send_message")>>
handle_search         == <<Call("search_messages")>>
handle_mark_read      == <<Check("one_flag"), Call("mark_read")>>
handle_mail_export    == <<Check("format"), Call("export_mailbox")>>
handle_folders_list   == <<Call("list_folders")>>
handle_cal_list       == <<Call("list_events")>>
handle_cal_sync       == <<Call("calendar_sync")>>
handle_system_status  == <<Call("get_status")>>
handle_audit_list     == <<Call("list_records")>>
handle_audit_verify   == <<Call("verify_chain")>>
handle_contact_list   == <<Call("list_contacts")>>
handle_contact_search == <<Call("list_contacts")>>
handle_contact_add    == <<Call("create_contact")>>
handle_contact_sync   == <<Call("contacts_sync")>>
handle_filter_list    == <<Call("list_rules")>>
handle_filter_create  == <<Call("create_rule")>>
handle_filter_delete  == <<Call("delete_rule")>>
handle_filter_validate == <<Call("validate_rule")>>
handle_filter_test    == <<Call("preview_rule")>>
handle_filter_edit    == <<Call("update_rule")>>
handle_filter_export  == <<Call("export_rules")>>
handle_filter_import  == <<Check("readable_file"), Call("import_rules")>>
handle_filter_logs    == <<Call("get_execution_logs")>>
handle_filter_triage  == <<Call("triage")>>

\* args.rs: the verbs of each noun.
AccountCommands == {"account_list", "account_add", "account_show", "account_edit", "account_delete",
                    "account_test"}
MailCommands    == {"mail_sync", "mail_list", "mail_read", "mail_send", "mail_search", "mail_mark",
                    "mail_export"}
FolderCommands  == {"folder_list"}
CalCommands     == {"cal_list", "cal_sync"}
SystemCommands  == {"system_status"}
AuditCommands   == {"audit_list", "audit_verify"}
ContactCommands == {"contact_list", "contact_search", "contact_add", "contact_sync"}
FilterCommands  == {"filter_list", "filter_create", "filter_delete", "filter_validate", "filter_test",
                    "filter_edit", "filter_export", "filter_import", "filter_logs", "filter_triage"}
Placards        == {"banner", "licenses"}

Command == AccountCommands \union MailCommands \union FolderCommands \union CalCommands
              \union SystemCommands \union AuditCommands \union ContactCommands \union FilterCommands
              \union Placards

\* execute_command: the handler of each noun and verb.
AccountHandler ==
    [account_list |-> handle_accounts_list, account_add |-> handle_add_account,
     account_show |-> handle_account_show, account_edit |-> handle_account_edit,
     account_delete |-> handle_account_delete, account_test |-> handle_account_test]
MailHandler ==
    [mail_sync |-> handle_sync, mail_list |-> handle_list_folder, mail_read |-> handle_read_message,
     mail_send |-> handle_send_email, mail_search |-> handle_search, mail_mark |-> handle_mark_read,
     mail_export |-> handle_mail_export]
FolderHandler == [folder_list |-> handle_folders_list]
CalHandler    == [cal_list |-> handle_cal_list, cal_sync |-> handle_cal_sync]
SystemHandler == [system_status |-> handle_system_status, audit_list |-> handle_audit_list,
                  audit_verify |-> handle_audit_verify]
ContactHandler ==
    [contact_list |-> handle_contact_list, contact_search |-> handle_contact_search,
     contact_add |-> handle_contact_add, contact_sync |-> handle_contact_sync]
FilterHandler ==
    [filter_list |-> handle_filter_list, filter_create |-> handle_filter_create,
     filter_delete |-> handle_filter_delete, filter_validate |-> handle_filter_validate,
     filter_test |-> handle_filter_test, filter_edit |-> handle_filter_edit,
     filter_export |-> handle_filter_export, filter_import |-> handle_filter_import,
     filter_logs |-> handle_filter_logs, filter_triage |-> handle_filter_triage]

\* The two placards are printed from the client itself.
PlacardHandler == [c \in Placards |-> << >>]

Handlers == {AccountHandler, MailHandler, FolderHandler, CalHandler, SystemHandler, ContactHandler,
             FilterHandler, PlacardHandler}
Handler  == [c \in Command |-> (CHOOSE h \in Handlers : c \in DOMAIN h)[c]]

\* Every command has its handler, and every call an RPC.
ASSUME EveryCommandHandled ==
    /\ \A c \in Command : \E h \in Handlers : c \in DOMAIN h /\ \A g \in Handlers : c \in DOMAIN g => g = h
    /\ \A c \in Command : \A n \in DOMAIN Handler[c] :
          Handler[c][n].do = "call" => Handler[c][n].what \in DOMAIN Rpc

\* The RPCs a command needs, in order.
CallsOf(c) == Picked(Handler[c], {n \in DOMAIN Handler[c] : Handler[c][n].do = "call"})
WaitsForServer(c) == \E i \in DOMAIN CallsOf(c) : Rpc[CallsOf(c)[i].what].waits

-----------------------------------------------------------------------------
VARIABLES
    vault,     \* the bearer token in the keyring: whoever minted it, or NoToken
    daemon,    \* the daemon is "down", "minting" a token, or "up"
    expected,  \* the token the interceptor of the running daemon compares with
    account,   \* the settings of the account, each the process that set it
    cmd,       \* the command of each process
    cpc,       \* where each process is
    todo,      \* the steps of its handler still to take
    token,     \* the token it read
    fetched,   \* the settings it read
    reply,     \* the status of its last call, or why it gave up
    served,    \* the RPCs the daemon carried out for it
    stale,     \* processes whose settings another one has changed since
    overwrote, \* stale settings were written back
    raced,     \* two processes found the keyring empty at the same time
    dirty,     \* processes whose calls have changed something
    cut,       \* processes that lost an answer when the daemon stopped
    stops

clientVars == <<vault, daemon, expected, account, cmd, cpc, todo, token, fetched, reply,
                served, stale, overwrote, raced, dirty, cut, stops>>
daemonVars == <<daemon, expected, account, stops>>
history    == <<stale, overwrote, raced, dirty, cut>>
Minting(p) == daemon = "minting" \/ \E q \in Process \ {p} : cpc[q] = "mint"

To(p, l) == cpc' = [cpc EXCEPT ![p] = l]

\* main prints what the handler returned, and exits with success either way.
Output(p, why) ==
    /\ To(p, "printed")
    /\ reply' = [reply EXCEPT ![p] = why]

-----------------------------------------------------------------------------
(* The client                                                              *)

\* main and execute_command.
Invoke(p, c) ==
    /\ cpc[p] = "ready"
    /\ \/ c \in Concurrent
       \/ \A q \in Process \ {p} : cpc[q] = "ready"
    /\ \A q \in Process \ {p} : cpc[q] = "ready" \/ cmd[q] \in Concurrent
    /\ cmd' = [cmd EXCEPT ![p] = c]
    /\ todo' = [todo EXCEPT ![p] = Handler[c]]
    /\ To(p, "step")
    /\ UNCHANGED <<vault, daemonVars, token, fetched, reply, served, history>>

\* A check of the handler's own passes, or ends the command.
OwnCheck(p) ==
    /\ cpc[p] = "step" /\ todo[p] # << >> /\ Head(todo[p]).do = "check"
    /\ \/ /\ Head(todo[p]).what = "found" => fetched[p] # NoAccount
          /\ todo' = [todo EXCEPT ![p] = Tail(@)]
          /\ UNCHANGED <<cpc, reply>>
       \/ /\ Head(todo[p]).what = "found" => fetched[p] = NoAccount
          /\ Output(p, "own_check")
          /\ UNCHANGED todo
    /\ UNCHANGED <<vault, daemonVars, cmd, token, fetched, served, history>>

\* Mutant: a token is minted for every connection.
AlwaysMint(p) ==
    /\ cpc[p] = "step" /\ todo[p] # << >> /\ Head(todo[p]).do = "call"
    /\ To(p, "mint")
    /\ UNCHANGED <<vault, daemonVars, cmd, todo, token, fetched, reply, served, history>>

\* connect_*_client: get_or_create_key_bytes finds the token, finds none, or
\* fails.
ReadToken(p) ==
    /\ cpc[p] = "step" /\ todo[p] # << >> /\ Head(todo[p]).do = "call"
    /\ \/ /\ vault # NoToken
          /\ token' = [token EXCEPT ![p] = vault]
          /\ To(p, "dial")
          /\ UNCHANGED reply
          /\ UNCHANGED raced
       \/ /\ vault = NoToken
          /\ To(p, "mint")
          /\ raced' = (raced \/ Minting(p))
          /\ UNCHANGED <<token, reply>>
       \/ /\ Output(p, "vault")
          /\ UNCHANGED <<token, raced>>
    /\ UNCHANGED <<vault, daemonVars, cmd, todo, fetched, served, stale, overwrote, dirty, cut>>

\* ... having found none, it writes one of its own, whatever is there by now.
MintToken(p) ==
    /\ cpc[p] = "mint"
    /\ vault' = p
    /\ token' = [token EXCEPT ![p] = p]
    /\ To(p, "dial")
    /\ UNCHANGED <<daemonVars, cmd, todo, fetched, reply, served, history>>

\* connect_system and its kin: dial fails unless the daemon listens.
Connect(p) ==
    /\ cpc[p] = "dial"
    /\ IF daemon = "up" THEN To(p, "sent") /\ UNCHANGED reply ELSE Output(p, "unreachable")
    /\ UNCHANGED <<vault, daemonVars, cmd, todo, token, fetched, served, history>>

\* Mutant: the status of the answer is not looked at.
ReceiveUnchecked(p) ==
    /\ cpc[p] = "answered"
    /\ To(p, "step")
    /\ todo' = [todo EXCEPT ![p] = Tail(@)]
    /\ UNCHANGED <<vault, daemonVars, cmd, token, fetched, reply, served, history>>

\* The answer arrives: a refusal ends the command.
Receive(p) ==
    /\ cpc[p] = "answered"
    /\ IF reply[p] = "ok"
       THEN To(p, "step") /\ todo' = [todo EXCEPT ![p] = Tail(@)]
       ELSE To(p, "printed") /\ UNCHANGED todo
    /\ UNCHANGED <<vault, daemonVars, cmd, token, fetched, reply, served, history>>

\* The handler's last step is done.
Finish(p) ==
    /\ cpc[p] = "step" /\ todo[p] = << >>
    /\ Output(p, "ok")
    /\ UNCHANGED <<vault, daemonVars, cmd, todo, token, fetched, served, history>>

\* The connection breaks under a call that was sent.
Broken(p) ==
    /\ cpc[p] = "broken"
    /\ Output(p, "transport")
    /\ UNCHANGED <<vault, daemonVars, cmd, todo, token, fetched, served, history>>

ClientStep(p) ==
    \/ OwnCheck(p)
    \/ ReadToken(p)
    \/ MintToken(p)
    \/ Connect(p)
    \/ Receive(p)
    \/ Finish(p)
    \/ Broken(p)

-----------------------------------------------------------------------------
(* The daemon                                                              *)

Answer(p, status) ==
    /\ To(p, "answered")
    /\ reply' = [reply EXCEPT ![p] = status]

\* BearerAuthInterceptor::call, in front of each service.
Unauthenticated(p) ==
    /\ cpc[p] = "sent" /\ daemon = "up"
    /\ token[p] # expected
    /\ Answer(p, "unauthenticated")
    /\ UNCHANGED <<vault, daemonVars, cmd, todo, token, fetched, served, history>>

\* update_account, remove_account and test_account_connection look it up.
OfAccount == {"update_account", "remove_account", "test_account_connection"}

\* A handler returns a status, and has changed nothing unless it works in
\* parts.
Refuse(p) ==
    /\ cpc[p] = "sent" /\ daemon = "up"
    /\ token[p] = expected
    /\ \E status \in Rpc[Head(todo[p]).what].refuses :
          /\ (Head(todo[p]).what \in OfAccount /\ status = "not_found") => account = NoAccount
          /\ Answer(p, status)
    /\ \/ UNCHANGED dirty
       \/ Head(todo[p]).what \in PartWay /\ dirty' = dirty \union {p}
    /\ UNCHANGED <<vault, daemonVars, cmd, todo, token, fetched, served, stale, overwrote, raced, cut>>

\* Mutant: every setting is sent as the flags of this command have it.
MergedWhole(p) == [f \in Field |-> p]

\* What an edit sends: the settings it read, with its own one changed.
Merged(p) == [fetched[p] EXCEPT ![EditField[p]] = p]

\* The handler carries the request out.
Serve(p) ==
    LET rpc == Head(todo[p]).what
    IN /\ cpc[p] = "sent" /\ daemon = "up"
       /\ token[p] = expected
       /\ rpc \notin NeverOk
       /\ rpc \in OfAccount => account # NoAccount
       /\ account' = CASE rpc = "add_account"    -> [f \in Field |-> p]
                       [] rpc = "update_account" -> Merged(p)
                       [] rpc = "remove_account" -> NoAccount
                       [] OTHER                  -> account
       /\ fetched' = IF rpc = "list_accounts" THEN [fetched EXCEPT ![p] = account] ELSE fetched
       /\ stale' = IF rpc = "list_accounts" THEN stale \ {p}
                   ELSE IF account' # account THEN stale \union (Process \ {p}) ELSE stale
       /\ overwrote' = (overwrote \/ (rpc = "update_account" /\ p \in stale))
       /\ dirty' = IF rpc \in Changing THEN dirty \union {p} ELSE dirty
       /\ served' = [served EXCEPT ![p] = Append(@, Head(todo[p]))]
       /\ Answer(p, "ok")
       /\ UNCHANGED <<vault, daemon, expected, stops, cmd, todo, token, raced, cut>>

\* Mutant: the connections of a stopped daemon stay open.
StopSilently ==
    /\ daemon = "up" /\ stops < MaxStops
    /\ stops' = stops + 1
    /\ daemon' = "down"
    /\ UNCHANGED <<vault, expected, account, cmd, cpc, todo, token, fetched, reply, served, history>>

\* The daemon stops: the calls it was serving, and the answers on their way,
\* are lost.
Stop ==
    /\ daemon = "up" /\ stops < MaxStops
    /\ stops' = stops + 1
    /\ daemon' = "down"
    /\ cpc' = [p \in Process |-> IF cpc[p] \in {"sent", "answered"} THEN "broken" ELSE cpc[p]]
    /\ cut' = cut \union {p \in Process : cpc[p] = "answered"}
    /\ UNCHANGED <<vault, expected, account, cmd, todo, token, fetched, reply, served,
                   stale, overwrote, raced, dirty>>

\* nunciod's main: the token is read when the daemon starts ...
Start ==
    /\ daemon = "down"
    /\ IF vault # NoToken
       THEN daemon' = "up" /\ expected' = vault /\ UNCHANGED raced
       ELSE /\ daemon' = "minting"
            /\ raced' = (raced \/ \E p \in Process : cpc[p] = "mint")
            /\ UNCHANGED expected
    /\ UNCHANGED <<vault, account, stops, cmd, cpc, todo, token, fetched, reply, served,
                   stale, overwrote, dirty, cut>>

\* ... or minted, as a client would; then the server listens.
StartMinting ==
    /\ daemon = "minting"
    /\ vault' = Daemon
    /\ expected' = Daemon
    /\ daemon' = "up"
    /\ UNCHANGED <<account, stops, cmd, cpc, todo, token, fetched, reply, served, history>>

-----------------------------------------------------------------------------
ClientInit ==
    /\ vault \in {NoToken, Daemon}
    /\ daemon = "down"
    /\ expected = NoToken
    /\ account \in {NoAccount, [f \in Field |-> Daemon]}
    /\ cmd = [p \in Process |-> "banner"]
    /\ cpc = [p \in Process |-> "ready"]
    /\ todo = [p \in Process |-> << >>]
    /\ token = [p \in Process |-> NoToken]
    /\ fetched = [p \in Process |-> NoAccount]
    /\ reply = [p \in Process |-> "none"]
    /\ served = [p \in Process |-> << >>]
    /\ stale = {}
    /\ overwrote = FALSE
    /\ raced = FALSE
    /\ dirty = {}
    /\ cut = {}
    /\ stops = 0

ClientNext ==
    \/ \E p \in Process :
        \/ \E c \in Command : Invoke(p, c)
        \/ ClientStep(p)
        \/ Unauthenticated(p)
        \/ Refuse(p)
        \/ Serve(p)
    \/ Stop
    \/ Start
    \/ StartMinting

\* The client takes its steps, and a running daemon answers; a handler that
\* waits for a server elsewhere need not.
ClientFairness ==
    \A p \in Process :
        /\ WF_clientVars(ClientStep(p))
        /\ WF_clientVars(~WaitsForServer(cmd[p]) /\ (Unauthenticated(p) \/ Refuse(p) \/ Serve(p)))

-----------------------------------------------------------------------------
(* Properties                                                              *)

Printed(p) == cpc[p] = "printed"

\* A handler returns success only when the daemon carried out each of the
\* calls of the command, for this run of the client and in their order:
\* "never a fabricated" result, whatever the daemon does meanwhile.
SuccessIsReal ==
    \A p \in Process : Printed(p) /\ reply[p] = "ok" => served[p] = CallsOf(cmd[p])

\* A command that failed has changed nothing: it may be given again.  The
\* exceptions are the calls that work in parts, and the answer that was on
\* its way when the daemon stopped: then a second try does the work twice.
FailureIsClean ==
    \A p \in dirty :
        Printed(p) /\ reply[p] # "ok" => p \in cut \/ (todo[p] # << >> /\ Head(todo[p]).what \in PartWay)

\* What a command reports is what happened: success when the daemon did all of
\* it, failure when it did nothing, but for the exceptions named above.
CommandOutcome == SuccessIsReal /\ FailureIsClean

\* get_or_create_key_bytes: "on every subsequent run the same key is loaded
\* back", so a client is never refused its token, unless two processes found
\* the keyring empty at the same time.
TokenAgreed ==
    ~raced =>
        /\ daemon = "up" => expected = vault
        /\ \A p \in Process : reply[p] # "unauthenticated"

\* handle_account_edit "applies ONLY the flags actually supplied": what an
\* edit set stays set, and what it did not name stays as it was, unless the
\* account changed between its two calls, or another edit names the same.
EditsKept ==
    \A p \in Process :
        /\ Printed(p) /\ reply[p] = "ok" /\ cmd[p] = "account_edit" /\ ~overwrote
        /\ account # NoAccount
        /\ \A q \in Process : cmd[q] \notin {"account_add", "account_delete"}
        /\ \A q \in Process \ {p} : cmd[q] = "account_edit" => EditField[q] # EditField[p]
        => account[EditField[p]] = p

\* What several processes keep together, the token and the settings of an
\* account, stays agreed between them, unless two of them were at it at once.
SettingsAgreed == TokenAgreed /\ EditsKept

\* Every command that does not wait for a mail server returns, although the
\* daemon may stop at any time.
CommandReturns ==
    \A p \in Process :
        (cpc[p] # "ready" /\ ~WaitsForServer(cmd[p])) ~> Printed(p)
=============================================================================
