---------------------------- MODULE ClientProofs ----------------------------
(***************************************************************************)
(* The command line client, its self-update, and the worker of the outbox: *)
(* what each of them promises, for every value of the constants.           *)
(***************************************************************************)
EXTENDS Client, SelfUpdate, Outbox, BasicLemmas, FiniteSetTheorems

-----------------------------------------------------------------------------
(* The client                                                              *)

CallName == {"get_status", "add_account", "list_accounts", "update_account", "remove_account",
             "test_account_connection", "list_folders", "list_messages", "get_message", "mark_read",
             "search_messages", "send_message", "mail_sync", "list_rules", "create_rule", "delete_rule",
             "validate_rule", "preview_rule", "update_rule", "export_rules", "import_rules",
             "get_execution_logs", "triage", "export_mailbox", "list_records", "verify_chain",
             "list_events", "list_contacts", "create_contact", "calendar_sync", "contacts_sync"}
CheckName == {"password", "tls_mode", "found", "one_flag", "format", "readable_file"}
StepSet == [do : {"call"}, what : CallName] \union [do : {"check"}, what : CheckName]

\* Handlers are sequences of steps, and a call that changes something is the last.
GoodHandler(h) ==
    /\ h \in Seq(StepSet)
    /\ \A n \in 1 .. Len(h) : h[n].do = "call" /\ h[n].what \in Changing => n = Len(h)

Calls(h, rpc) == \E n \in 1 .. Len(h) : h[n].do = "call" /\ h[n].what = rpc

LEMMA Shapes ==
    ASSUME NEW r \in CallName, NEW q \in CheckName, NEW v \in CheckName
    PROVE  /\ GoodHandler(<<Call(r)>>)
           /\ \A x : Calls(<<Call(r)>>, x) => x = r
           /\ GoodHandler(<<Check(q), Call(r)>>)
           /\ \A x : Calls(<<Check(q), Call(r)>>, x) => x = r
           /\ GoodHandler(<<Check(q), Check(v), Call(r)>>)
           /\ \A x : Calls(<<Check(q), Check(v), Call(r)>>, x) => x = r
<1>1. Call(r) \in StepSet /\ Check(q) \in StepSet /\ Check(v) \in StepSet
    BY DEF Call, Check, StepSet
<1>2. Call(r).what = r /\ Check(q).do = "check" /\ Check(v).do = "check"
    BY DEF Call, Check
<1> HIDE DEF Call, Check, CallName, CheckName, StepSet
<1>3. GoodHandler(<<Call(r)>>) /\ GoodHandler(<<Check(q), Call(r)>>)
    BY <1>1, <1>2 DEF GoodHandler
<1>4. GoodHandler(<<Check(q), Check(v), Call(r)>>)
    BY <1>1, <1>2 DEF GoodHandler
<1>5. \A x : Calls(<<Call(r)>>, x) => x = r
    BY <1>2 DEF Calls
<1>6. \A x : Calls(<<Check(q), Call(r)>>, x) => x = r
    BY <1>2 DEF Calls
<1>7. \A x : Calls(<<Check(q), Check(v), Call(r)>>, x) => x = r
    BY <1>2 DEF Calls
<1> QED
    BY <1>3, <1>4, <1>5, <1>6, <1>7

\* A command is in one of the tables of handlers.
LEMMA HandlerOf ==
    ASSUME NEW h \in Handlers, NEW c \in DOMAIN h, c \in Command
    PROVE  Handler[c] = h[c]
<1>1. \A g \in Handlers : c \in DOMAIN g => g = h
    BY EveryCommandHandled
<1>2. (CHOOSE g \in Handlers : c \in DOMAIN g) = h
    BY <1>1
<1> QED
    BY <1>2 DEF Handler

LEMMA EditHandler ==
    /\ Handler["account_edit"] = <<Call("list_accounts"), Check("found"), Check("tls_mode"), Call("update_account")>>
    /\ GoodHandler(Handler["account_edit"])
<1> DEFINE a == Call("list_accounts")
           b == Check("found")
           c == Check("tls_mode")
           d == Call("update_account")
<1>1. Handler["account_edit"] = <<a, b>> \o <<c, d>>
  <2>1. Handler["account_edit"] = AccountHandler["account_edit"]
    <3>1. "account_edit" \in Command /\ "account_edit" \in DOMAIN AccountHandler
        BY DEF Command, AccountCommands, AccountHandler
    <3>2. AccountHandler \in Handlers
        BY DEF Handlers
    <3> QED
        BY <3>1, <3>2, HandlerOf
  <2>2. AccountHandler["account_edit"] = handle_account_edit
      BY DEF AccountHandler
  <2> QED
      BY <2>1, <2>2 DEF handle_account_edit, fetch_account_by_id
<1>2. a \in StepSet /\ b \in StepSet /\ c \in StepSet /\ d \in StepSet
    BY DEF Call, Check, StepSet, CallName, CheckName
<1>3. a.what \notin Changing /\ b.do # "call" /\ c.do # "call"
    BY DEF Call, Check, Changing
<1> HIDE DEF a, b, c, d
<1>4. <<a, b>> \o <<c, d>> = <<a, b, c, d>>
  <2> DEFINE s == <<a, b>> \o <<c, d>>
             z == <<a, b, c, d>>
  <2>1. Len(<<a, b>>) = 2 /\ Len(<<c, d>>) = 2 /\ Len(z) = 4
      OBVIOUS
  <2>2. <<a, b>> \in Seq({a, b, c, d}) /\ <<c, d>> \in Seq({a, b, c, d}) /\ z \in Seq({a, b, c, d})
      OBVIOUS
  <2>3. s \in Seq({a, b, c, d}) /\ Len(s) = 4
      BY <2>1, <2>2
  <2>4. s[1] = a /\ s[2] = b /\ s[3] = c /\ s[4] = d
      BY <2>1, <2>2
  <2>5. z[1] = a /\ z[2] = b /\ z[3] = c /\ z[4] = d
      OBVIOUS
  <2>6. \A i \in 1 .. 4 : s[i] = z[i]
    <3> HIDE DEF s, z
    <3>1. \A i \in 1 .. 4 : i = 1 \/ i = 2 \/ i = 3 \/ i = 4
        OBVIOUS
    <3> QED
        BY <2>4, <2>5, <3>1
  <2> HIDE DEF s, z
  <2>7. Len(s) = Len(z) /\ \A i \in 1 .. Len(s) : s[i] = z[i]
      BY <2>1, <2>3, <2>6 DEF z
  <2>8. s \in Seq({a, b, c, d}) /\ z \in Seq({a, b, c, d})
      BY <2>2, <2>3 DEF z
  <2>9. s = z
      BY <2>7, <2>8
  <2> QED
      BY <2>9 DEF s, z
<1>5. GoodHandler(<<a, b, c, d>>)
    BY <1>2, <1>3 DEF GoodHandler
<1> QED
    BY <1>1, <1>4, <1>5 DEF a, b, c, d

Ordinary == CallName \ {"add_account", "update_account", "remove_account"}

\* Most commands make one call, after a check or none.
Plain(h) ==
    \/ h = << >>
    \/ \E r \in Ordinary : h = <<Call(r)>>
    \/ \E r \in Ordinary, q \in CheckName : h = <<Check(q), Call(r)>>

LEMMA MailHandlers ==
    ASSUME NEW c \in MailCommands
    PROVE  Handler[c] = MailHandler[c] /\ Plain(MailHandler[c])
<1>1. Handler[c] = MailHandler[c]
  <2>1. c \in Command
      BY DEF Command
  <2>2. MailHandler \in Handlers
      BY DEF Handlers
  <2>3. c \in DOMAIN MailHandler
      BY DEF MailHandler, MailCommands
  <2> QED
      BY <2>1, <2>2, <2>3, HandlerOf
<1> HIDE DEF Call, Check
<1>2. Plain(MailHandler[c])
  <2>a. {"mail_sync", "list_messages", "get_message", "send_message", "search_messages", "mark_read",
         "export_mailbox"} \subseteq Ordinary
        /\ {"format", "one_flag"} \subseteq CheckName
      BY DEF Ordinary, CallName, CheckName
  <2>1. c = "mail_sync" => MailHandler[c] = <<Call("mail_sync")>>
      BY DEF MailHandler, handle_sync
  <2>2. c = "mail_list" => MailHandler[c] = <<Call("list_messages")>>
      BY DEF MailHandler, handle_list_folder
  <2>3. c = "mail_read" => MailHandler[c] = <<Call("get_message")>>
      BY DEF MailHandler, handle_read_message
  <2>4. c = "mail_send" => MailHandler[c] = <<Call("send_message")>>
      BY DEF MailHandler, handle_send_email
  <2>5. c = "mail_search" => MailHandler[c] = <<Call("search_messages")>>
      BY DEF MailHandler, handle_search
  <2>6. c = "mail_mark" => MailHandler[c] = <<Check("one_flag"), Call("mark_read")>>
      BY DEF MailHandler, handle_mark_read
  <2>7. c = "mail_export" => MailHandler[c] = <<Check("format"), Call("export_mailbox")>>
      BY DEF MailHandler, handle_mail_export
  <2> QED
      BY <2>a, <2>1, <2>2, <2>3, <2>4, <2>5, <2>6, <2>7 DEF MailCommands, Plain
<1> QED
    BY <1>1, <1>2

LEMMA FolderHandlers ==
    ASSUME NEW c \in FolderCommands
    PROVE  Handler[c] = FolderHandler[c] /\ Plain(FolderHandler[c])
<1>1. Handler[c] = FolderHandler[c]
  <2>1. c \in Command
      BY DEF Command
  <2>2. FolderHandler \in Handlers
      BY DEF Handlers
  <2>3. c \in DOMAIN FolderHandler
      BY DEF FolderHandler, FolderCommands
  <2> QED
      BY <2>1, <2>2, <2>3, HandlerOf
<1> HIDE DEF Call, Check
<1>2. Plain(FolderHandler[c])
    BY DEF FolderCommands, FolderHandler, Plain, Ordinary, CallName, CheckName,
           handle_folders_list
<1> QED
    BY <1>1, <1>2

LEMMA CalHandlers ==
    ASSUME NEW c \in CalCommands
    PROVE  Handler[c] = CalHandler[c] /\ Plain(CalHandler[c])
<1>1. Handler[c] = CalHandler[c]
  <2>1. c \in Command
      BY DEF Command
  <2>2. CalHandler \in Handlers
      BY DEF Handlers
  <2>3. c \in DOMAIN CalHandler
      BY DEF CalHandler, CalCommands
  <2> QED
      BY <2>1, <2>2, <2>3, HandlerOf
<1> HIDE DEF Call, Check
<1>2. Plain(CalHandler[c])
    BY DEF CalCommands, CalHandler, Plain, Ordinary, CallName, CheckName,
           handle_cal_list, handle_cal_sync
<1> QED
    BY <1>1, <1>2

LEMMA SystemHandlers ==
    ASSUME NEW c \in (SystemCommands \union AuditCommands)
    PROVE  Handler[c] = SystemHandler[c] /\ Plain(SystemHandler[c])
<1>1. Handler[c] = SystemHandler[c]
  <2>1. c \in Command
      BY DEF Command
  <2>2. SystemHandler \in Handlers
      BY DEF Handlers
  <2>3. c \in DOMAIN SystemHandler
      BY DEF SystemHandler, SystemCommands, AuditCommands
  <2> QED
      BY <2>1, <2>2, <2>3, HandlerOf
<1> HIDE DEF Call, Check
<1>2. Plain(SystemHandler[c])
    BY DEF SystemCommands, AuditCommands, SystemHandler, Plain, Ordinary, CallName, CheckName,
           handle_system_status, handle_audit_list, handle_audit_verify
<1> QED
    BY <1>1, <1>2

LEMMA ContactHandlers ==
    ASSUME NEW c \in ContactCommands
    PROVE  Handler[c] = ContactHandler[c] /\ Plain(ContactHandler[c])
<1>1. Handler[c] = ContactHandler[c]
  <2>1. c \in Command
      BY DEF Command
  <2>2. ContactHandler \in Handlers
      BY DEF Handlers
  <2>3. c \in DOMAIN ContactHandler
      BY DEF ContactHandler, ContactCommands
  <2> QED
      BY <2>1, <2>2, <2>3, HandlerOf
<1> HIDE DEF Call, Check
<1>2. Plain(ContactHandler[c])
    BY DEF ContactCommands, ContactHandler, Plain, Ordinary, CallName, CheckName,
           handle_contact_list, handle_contact_search, handle_contact_add, handle_contact_sync
<1> QED
    BY <1>1, <1>2

LEMMA FilterHandlers ==
    ASSUME NEW c \in FilterCommands
    PROVE  Handler[c] = FilterHandler[c] /\ Plain(FilterHandler[c])
<1>1. Handler[c] = FilterHandler[c]
  <2>1. c \in Command
      BY DEF Command
  <2>2. FilterHandler \in Handlers
      BY DEF Handlers
  <2>3. c \in DOMAIN FilterHandler
      BY DEF FilterHandler, FilterCommands
  <2> QED
      BY <2>1, <2>2, <2>3, HandlerOf
<1> HIDE DEF Call, Check
<1>2. Plain(FilterHandler[c])
  <2>a. {"list_rules", "create_rule", "delete_rule", "validate_rule", "preview_rule", "update_rule",
         "export_rules", "import_rules", "get_execution_logs", "triage"} \subseteq Ordinary
        /\ {"readable_file"} \subseteq CheckName
      BY DEF Ordinary, CallName, CheckName
  <2>1. c = "filter_list" => FilterHandler[c] = <<Call("list_rules")>>
      BY DEF FilterHandler, handle_filter_list
  <2>2. c = "filter_create" => FilterHandler[c] = <<Call("create_rule")>>
      BY DEF FilterHandler, handle_filter_create
  <2>3. c = "filter_delete" => FilterHandler[c] = <<Call("delete_rule")>>
      BY DEF FilterHandler, handle_filter_delete
  <2>4. c = "filter_validate" => FilterHandler[c] = <<Call("validate_rule")>>
      BY DEF FilterHandler, handle_filter_validate
  <2>5. c = "filter_test" => FilterHandler[c] = <<Call("preview_rule")>>
      BY DEF FilterHandler, handle_filter_test
  <2>6. c = "filter_edit" => FilterHandler[c] = <<Call("update_rule")>>
      BY DEF FilterHandler, handle_filter_edit
  <2>7. c = "filter_export" => FilterHandler[c] = <<Call("export_rules")>>
      BY DEF FilterHandler, handle_filter_export
  <2>8. c = "filter_import" => FilterHandler[c] = <<Check("readable_file"), Call("import_rules")>>
      BY DEF FilterHandler, handle_filter_import
  <2>9. c = "filter_logs" => FilterHandler[c] = <<Call("get_execution_logs")>>
      BY DEF FilterHandler, handle_filter_logs
  <2>10. c = "filter_triage" => FilterHandler[c] = <<Call("triage")>>
      BY DEF FilterHandler, handle_filter_triage
  <2> QED
      BY <2>a, <2>1, <2>2, <2>3, <2>4, <2>5, <2>6, <2>7, <2>8, <2>9, <2>10 DEF FilterCommands, Plain
<1> QED
    BY <1>1, <1>2

LEMMA PlacardHandlers ==
    ASSUME NEW c \in Placards
    PROVE  Handler[c] = PlacardHandler[c] /\ Plain(PlacardHandler[c])
<1>1. Handler[c] = PlacardHandler[c]
  <2>1. c \in Command
      BY DEF Command
  <2>2. PlacardHandler \in Handlers
      BY DEF Handlers
  <2>3. c \in DOMAIN PlacardHandler
      BY DEF PlacardHandler, Placards
  <2> QED
      BY <2>1, <2>2, <2>3, HandlerOf
<1> HIDE DEF Call, Check
<1>2. Plain(PlacardHandler[c])
    BY DEF Placards, PlacardHandler, Plain, Ordinary, CallName, CheckName
<1> QED
    BY <1>1, <1>2

LEMMA EmptyHandler == GoodHandler(<< >>) /\ \A x : ~Calls(<< >>, x)
    BY DEF GoodHandler, Calls

\* No other command changes the account.
LEMMA PlainIsGood ==
    ASSUME NEW h, Plain(h)
    PROVE  GoodHandler(h) /\ \A x : Calls(h, x) => x \in Ordinary
<1>1. CASE h = << >>
    BY <1>1, EmptyHandler
<1>2. ASSUME NEW r \in Ordinary, h = <<Call(r)>> PROVE GoodHandler(h) /\ \A x : Calls(h, x) => x \in Ordinary
  <2>1. r \in CallName /\ "found" \in CheckName
      BY DEF Ordinary, CheckName
  <2> QED
      BY <1>2, <2>1, Shapes
<1>3. ASSUME NEW r \in Ordinary, NEW q \in CheckName, h = <<Check(q), Call(r)>>
      PROVE  GoodHandler(h) /\ \A x : Calls(h, x) => x \in Ordinary
  <2>1. r \in CallName
      BY DEF Ordinary
  <2> QED
      BY <1>3, <2>1, Shapes
<1> QED
    BY <1>1, <1>2, <1>3 DEF Plain

\* The calls that change the account are each made by one command.
AccountCallsOwn(c) ==
    /\ Calls(Handler[c], "add_account") => c = "account_add"
    /\ Calls(Handler[c], "update_account") => c = "account_edit"
    /\ Calls(Handler[c], "remove_account") => c = "account_delete"

LEMMA AccountHandlers ==
    ASSUME NEW c \in AccountCommands
    PROVE  GoodHandler(Handler[c]) /\ AccountCallsOwn(c)
<1>1. Handler[c] = AccountHandler[c]
  <2>1. c \in Command
      BY DEF Command
  <2>2. AccountHandler \in Handlers
      BY DEF Handlers
  <2>3. c \in DOMAIN AccountHandler
      BY DEF AccountHandler, AccountCommands
  <2> QED
      BY <2>1, <2>2, <2>3, HandlerOf
<1>0. {"list_accounts", "add_account", "remove_account", "test_account_connection"} \subseteq CallName
      /\ {"password", "tls_mode"} \subseteq CheckName
    BY DEF CallName, CheckName
<1>2. CASE c = "account_edit"
  <2>1. GoodHandler(Handler[c])
      BY <1>2, EditHandler
  <2>2. Handler[c] = <<Call("list_accounts"), Check("found"), Check("tls_mode"), Call("update_account")>>
      BY <1>2, EditHandler
  <2>3. \A x : Calls(Handler[c], x) => x \in {"list_accounts", "update_account"}
      BY <2>2 DEF Calls, Call, Check
  <2> QED
      BY <1>2, <2>1, <2>3 DEF AccountCallsOwn
<1>3. CASE c = "account_show"
  <2> DEFINE a == Call("list_accounts")
             b == Check("found")
  <2>1. Handler[c] = <<a, b>>
      BY <1>1, <1>3 DEF AccountHandler, handle_account_show, fetch_account_by_id
  <2>2. a \in StepSet /\ b \in StepSet /\ a.what \notin Changing /\ b.do # "call" /\ a.what = "list_accounts"
      BY DEF Call, Check, StepSet, CallName, CheckName, Changing
  <2> HIDE DEF a, b
  <2>3. GoodHandler(<<a, b>>)
      BY <2>2 DEF GoodHandler
  <2>4. \A x : Calls(<<a, b>>, x) => x = "list_accounts"
      BY <2>2 DEF Calls
  <2> QED
      BY <2>1, <2>3, <2>4 DEF AccountCallsOwn
<1>4. CASE c = "account_list"
  <2>1. Handler[c] = <<Call("list_accounts")>>
      BY <1>1, <1>4 DEF AccountHandler, handle_accounts_list
  <2>2. GoodHandler(Handler[c]) /\ \A x : Calls(Handler[c], x) => x = "list_accounts"
      BY <1>0, <2>1, Shapes
  <2> QED
      BY <2>2 DEF AccountCallsOwn
<1>5. CASE c = "account_add"
  <2>1. Handler[c] = <<Check("password"), Check("tls_mode"), Call("add_account")>>
      BY <1>1, <1>5 DEF AccountHandler, handle_add_account
  <2>2. GoodHandler(Handler[c]) /\ \A x : Calls(Handler[c], x) => x = "add_account"
      BY <1>0, <2>1, Shapes
  <2> QED
      BY <1>5, <2>2 DEF AccountCallsOwn
<1>6. CASE c = "account_delete"
  <2>1. Handler[c] = <<Call("remove_account")>>
      BY <1>1, <1>6 DEF AccountHandler, handle_account_delete
  <2>2. GoodHandler(Handler[c]) /\ \A x : Calls(Handler[c], x) => x = "remove_account"
      BY <1>0, <2>1, Shapes
  <2> QED
      BY <1>6, <2>2 DEF AccountCallsOwn
<1>7. CASE c = "account_test"
  <2>1. Handler[c] = <<Call("test_account_connection")>>
      BY <1>1, <1>7 DEF AccountHandler, handle_account_test
  <2>2. GoodHandler(Handler[c]) /\ \A x : Calls(Handler[c], x) => x = "test_account_connection"
      BY <1>0, <2>1, Shapes
  <2> QED
      BY <2>2 DEF AccountCallsOwn
<1> QED
    BY <1>2, <1>3, <1>4, <1>5, <1>6, <1>7 DEF AccountCommands

LEMMA HandlersGood ==
    ASSUME NEW c \in Command
    PROVE  GoodHandler(Handler[c]) /\ AccountCallsOwn(c)
<1>1. Plain(Handler[c]) => GoodHandler(Handler[c]) /\ AccountCallsOwn(c)
  <2>1. {"add_account", "update_account", "remove_account"} \intersect Ordinary = {}
      BY DEF Ordinary
  <2> QED
      BY <2>1, PlainIsGood DEF AccountCallsOwn
<1>2. c \notin AccountCommands => Plain(Handler[c])
    BY MailHandlers, FolderHandlers, CalHandlers, SystemHandlers, ContactHandlers, FilterHandlers, PlacardHandlers
    DEF Command
<1> QED
    BY <1>1, <1>2, AccountHandlers

\* A refusal is neither success nor a refused token.
LEMMA Refusals ==
    ASSUME NEW r \in CallName
    PROVE  Rpc[r].refuses \subseteq {"invalid_argument", "not_found", "internal"}
  BY DEF CallName, Rpc, Answers, AnswersAfterServer, get_status_rpc, add_account_rpc, list_accounts_rpc, update_account_rpc, remove_account_rpc, test_account_connection_rpc, list_folders_rpc, list_messages_rpc, get_message_rpc, mark_read_rpc, search_messages_rpc, send_message_rpc, mail_sync_rpc, list_rules_rpc, create_rule_rpc, delete_rule_rpc, validate_rule_rpc, preview_rule_rpc, update_rule_rpc, export_rules_rpc, import_rules_rpc, get_execution_logs_rpc, triage_rpc, export_mailbox_rpc, list_records_rpc, verify_chain_rpc, list_events_rpc, list_contacts_rpc, create_contact_rpc, calendar_sync_rpc, contacts_sync_rpc

Owner == Process \union {Daemon}
Settings == [Field -> Owner]
Stage == {"ready", "step", "mint", "dial", "sent", "answered", "broken", "printed"}
Status == {"none", "ok", "own_check", "vault", "unreachable", "transport", "unauthenticated",
           "invalid_argument", "not_found", "internal"}

ClientTyped ==
    /\ vault \in Owner \union {NoToken} /\ expected \in Owner \union {NoToken}
    /\ daemon \in {"down", "minting", "up"}
    /\ account \in Settings \union {NoAccount}
    /\ cmd \in [Process -> Command]
    /\ cpc \in [Process -> Stage]
    /\ todo \in [Process -> Seq(StepSet)]
    /\ token \in [Process -> Owner \union {NoToken}]
    /\ fetched \in [Process -> Settings \union {NoAccount}]
    /\ reply \in [Process -> Status]
    /\ served \in [Process -> Seq(StepSet)]
    /\ stale \subseteq Process /\ dirty \subseteq Process /\ overwrote \in BOOLEAN /\ raced \in BOOLEAN

\* How many steps of its handler a process has behind it.
Taken(p) == Len(Handler[cmd[p]]) - Len(todo[p])

\* What is still to do is the rest of the handler, a call under way its next step.
OnTrack(p) ==
    /\ Len(todo[p]) <= Len(Handler[cmd[p]])
    /\ \A i \in 1 .. Len(todo[p]) : todo[p][i] = Handler[cmd[p]][Taken(p) + i]
    /\ cpc[p] = "ready" => cmd[p] = "banner" /\ todo[p] = << >> /\ served[p] = << >> /\ p \notin dirty
    /\ cpc[p] \in {"mint", "dial", "sent", "answered"} => todo[p] # << >> /\ todo[p][1].do = "call"
    /\ cpc[p] = "printed" /\ reply[p] = "ok" => todo[p] = << >>
    /\ cmd[p] = "account_edit" /\ Len(todo[p]) <= 2 => fetched[p] # NoAccount

CallPlaces(c) == {n \in DOMAIN Handler[c] : Handler[c][n].do = "call"}
CallsUpto(c) == PickedUpto(Handler[c], CallPlaces(c))

\* The daemon has carried out the calls the process has behind it, and the one
\* whose answer is on its way.
Told(p) ==
    /\ cpc[p] = "answered" /\ reply[p] = "ok" => served[p] = CallsUpto(cmd[p])[Taken(p) + 1]
    /\ \/ cpc[p] \in {"ready", "step", "mint", "dial", "sent"}
       \/ cpc[p] = "answered" /\ reply[p] # "ok"
       \/ cpc[p] = "printed" /\ reply[p] = "ok"
       => served[p] = CallsUpto(cmd[p])[Taken(p)]

\* A process that changed something has nothing left that could fail.
Clean(p) ==
    p \in dirty /\ p \notin cut =>
        \/ todo[p] = << >> /\ (cpc[p] = "step" \/ (cpc[p] = "printed" /\ reply[p] = "ok"))
        \/ Len(todo[p]) = 1 /\ cpc[p] = "answered" /\ reply[p] = "ok"
        \/ /\ todo[p] # << >> /\ todo[p][1].what \in PartWay
           /\ (cpc[p] = "answered" /\ reply[p] # "ok") \/ cpc[p] = "printed"

ClientInv == ClientTyped /\ \A p \in Process : OnTrack(p) /\ Told(p) /\ Clean(p)

LEMMA NextCall ==
    ASSUME NEW c \in Command
    PROVE  /\ CallsOf(c) = CallsUpto(c)[Len(Handler[c])]
           /\ CallsUpto(c)[0] = << >>
           /\ \A n \in 1 .. Len(Handler[c]) :
                 CallsUpto(c)[n] = IF Handler[c][n].do = "call" THEN Append(CallsUpto(c)[n - 1], Handler[c][n])
                                   ELSE CallsUpto(c)[n - 1]
<1>1. Handler[c] \in Seq(StepSet)
    BY HandlersGood DEF GoodHandler
<1>2. Len(Handler[c]) \in Nat /\ DOMAIN Handler[c] = 1 .. Len(Handler[c])
    BY <1>1
<1>3. \A n \in 1 .. Len(Handler[c]) : n \in CallPlaces(c) <=> Handler[c][n].do = "call"
    BY <1>2 DEF CallPlaces
<1>4. CallsOf(c) = Picked(Handler[c], CallPlaces(c))
    BY DEF CallsOf, CallPlaces
<1> QED
    BY <1>2, <1>3, <1>4, PickedStep DEF CallsUpto

LEMMA RestOf ==
    ASSUME NEW S, NEW s \in Seq(S), s # << >>
    PROVE  /\ Head(s) = s[1] /\ Head(s) \in S /\ Tail(s) \in Seq(S)
           /\ Len(s) \in Nat /\ Len(s) >= 1 /\ Len(Tail(s)) = Len(s) - 1
           /\ \A i \in 1 .. Len(Tail(s)) : Tail(s)[i] = s[i + 1]
    OBVIOUS

\* Where a process is in its handler.
LEMMA AtStep ==
    ASSUME ClientInv, NEW p \in Process
    PROVE  /\ cmd[p] \in Command /\ Handler[cmd[p]] \in Seq(StepSet) /\ Len(Handler[cmd[p]]) \in Nat
           /\ todo[p] \in Seq(StepSet) /\ Len(todo[p]) \in Nat /\ Taken(p) \in Nat
           /\ todo[p] = << >> <=> Len(todo[p]) = 0
           /\ todo[p] # << >> =>
                 /\ Head(todo[p]) = todo[p][1] /\ Head(todo[p]) = Handler[cmd[p]][Taken(p) + 1]
                 /\ Head(todo[p]) \in StepSet
                 /\ Taken(p) + 1 \in 1 .. Len(Handler[cmd[p]])
                 /\ CallsUpto(cmd[p])[Taken(p) + 1] =
                       IF Head(todo[p]).do = "call" THEN Append(CallsUpto(cmd[p])[Taken(p)], Head(todo[p]))
                       ELSE CallsUpto(cmd[p])[Taken(p)]
                 /\ Head(todo[p]).do = "call" /\ Head(todo[p]).what \in Changing => Len(todo[p]) = 1
<1>1. cmd[p] \in Command /\ todo[p] \in Seq(StepSet)
    BY DEF ClientInv, ClientTyped
<1>2. GoodHandler(Handler[cmd[p]])
    BY <1>1, HandlersGood
<1>3. Handler[cmd[p]] \in Seq(StepSet) /\ Len(Handler[cmd[p]]) \in Nat /\ Len(todo[p]) \in Nat
    BY <1>1, <1>2 DEF GoodHandler
<1>4. Len(todo[p]) <= Len(Handler[cmd[p]]) /\ \A i \in 1 .. Len(todo[p]) : todo[p][i] = Handler[cmd[p]][Taken(p) + i]
    BY DEF ClientInv, OnTrack
<1>5. Taken(p) \in Nat
    BY <1>3, <1>4 DEF Taken
<1>6. todo[p] = << >> <=> Len(todo[p]) = 0
    BY <1>1
<1>7. ASSUME todo[p] # << >>
      PROVE  /\ Head(todo[p]) = todo[p][1] /\ Head(todo[p]) = Handler[cmd[p]][Taken(p) + 1]
             /\ Head(todo[p]) \in StepSet
             /\ Taken(p) + 1 \in 1 .. Len(Handler[cmd[p]])
             /\ Taken(p) + 1 = Len(Handler[cmd[p]]) => Len(todo[p]) = 1
  <2>1. Head(todo[p]) = todo[p][1] /\ Head(todo[p]) \in StepSet /\ Len(todo[p]) >= 1
      BY <1>1, <1>7, RestOf
  <2>2. 1 \in 1 .. Len(todo[p])
      BY <1>3, <2>1
  <2>3. todo[p][1] = Handler[cmd[p]][Taken(p) + 1]
      BY <1>4, <2>2
  <2>4. Taken(p) + 1 \in 1 .. Len(Handler[cmd[p]]) /\ (Taken(p) + 1 = Len(Handler[cmd[p]]) => Len(todo[p]) = 1)
    <3> DEFINE a == Len(Handler[cmd[p]])
               b == Len(todo[p])
    <3>1. a \in Nat /\ b \in Nat /\ b >= 1 /\ b <= a /\ Taken(p) = a - b
        BY <1>3, <1>4, <2>1 DEF Taken
    <3> HIDE DEF a, b
    <3>2. Taken(p) + 1 \in 1 .. a /\ (Taken(p) + 1 = a => b = 1)
        BY <3>1
    <3> QED
        BY <3>2 DEF a, b
  <2> QED
      BY <2>1, <2>3, <2>4
<1>8. ASSUME todo[p] # << >>
      PROVE  /\ CallsUpto(cmd[p])[Taken(p) + 1] =
                   IF Head(todo[p]).do = "call" THEN Append(CallsUpto(cmd[p])[Taken(p)], Head(todo[p]))
                   ELSE CallsUpto(cmd[p])[Taken(p)]
             /\ Head(todo[p]).do = "call" /\ Head(todo[p]).what \in Changing => Len(todo[p]) = 1
  <2> DEFINE k == Taken(p) + 1
  <2>1. k \in 1 .. Len(Handler[cmd[p]]) /\ Head(todo[p]) = Handler[cmd[p]][k]
      BY <1>7, <1>8
  <2>a. k - 1 = Taken(p)
      BY <1>5
  <2> HIDE DEF k
  <2>b. CallsUpto(cmd[p])[k] =
           IF Handler[cmd[p]][k].do = "call" THEN Append(CallsUpto(cmd[p])[k - 1], Handler[cmd[p]][k])
           ELSE CallsUpto(cmd[p])[k - 1]
      BY <1>1, <2>1, NextCall
  <2>2. CallsUpto(cmd[p])[k] =
           IF Head(todo[p]).do = "call" THEN Append(CallsUpto(cmd[p])[Taken(p)], Head(todo[p]))
           ELSE CallsUpto(cmd[p])[Taken(p)]
      BY <2>1, <2>a, <2>b
  <2>3. Head(todo[p]).do = "call" /\ Head(todo[p]).what \in Changing => Len(todo[p]) = 1
      BY <1>2, <1>7, <1>8 DEF GoodHandler
  <2> QED
      BY <2>2, <2>3 DEF k
<1> QED
    BY <1>1, <1>3, <1>5, <1>6, <1>7, <1>8

\* A process that a step leaves alone stays on its track.
LEMMA StandsStill ==
    ASSUME NEW q \in Process, OnTrack(q), Told(q), Clean(q),
           cmd'[q] = cmd[q], cpc'[q] = cpc[q], todo'[q] = todo[q], served'[q] = served[q],
           reply'[q] = reply[q], fetched'[q] = fetched[q],
           q \in dirty' <=> q \in dirty, q \in cut => q \in cut'
    PROVE  OnTrack(q)' /\ Told(q)' /\ Clean(q)'
<1>1. Taken(q)' = Taken(q)
    BY DEF Taken
<1>2. OnTrack(q)'
    BY <1>1 DEF OnTrack
<1>3. Told(q)'
    BY <1>1 DEF Told, CallsUpto, CallPlaces
<1>4. Clean(q)'
    BY DEF Clean
<1> QED
    BY <1>2, <1>3, <1>4

\* A process that goes on without having taken a step of its handler.
LEMMA OnlyMoves ==
    ASSUME ClientInv, NEW p \in Process, NEW l \in Stage, NEW r \in Status,
           cpc' = [cpc EXCEPT ![p] = l], reply' = [reply EXCEPT ![p] = r],
           UNCHANGED <<cmd, todo, served, fetched, dirty, cut, account, stale, overwrote>>,
           vault' \in Owner \union {NoToken}, expected' \in Owner \union {NoToken},
           daemon' \in {"down", "minting", "up"}, token' \in [Process -> Owner \union {NoToken}],
           raced' \in BOOLEAN,
           OnTrack(p)', Told(p)', Clean(p)'
    PROVE  ClientInv'
<1>1. ClientTyped'
    BY DEF ClientInv, ClientTyped
<1>2. ASSUME NEW q \in Process PROVE OnTrack(q)' /\ Told(q)' /\ Clean(q)'
  <2>1. CASE q = p
      BY <2>1
  <2>2. CASE q # p
    <3>1. cpc'[q] = cpc[q] /\ reply'[q] = reply[q]
        BY <2>2 DEF ClientInv, ClientTyped
    <3> QED
        BY <3>1, StandsStill DEF ClientInv
  <2> QED
      BY <2>1, <2>2
<1> QED
    BY <1>1, <1>2 DEF ClientInv

LEMMA ReadTokenKeeps ==
    ASSUME ClientInv, NEW p \in Process, ReadToken(p)
    PROVE  ClientInv'
<1>0. /\ cpc[p] = "step" /\ todo[p] # << >> /\ Head(todo[p]).do = "call" /\ todo[p][1].do = "call"
      /\ ClientTyped /\ OnTrack(p) /\ Told(p) /\ Clean(p) /\ reply[p] \in Status
      /\ UNCHANGED <<vault, expected, daemon, account, cmd, todo, fetched, served, stale, overwrote, dirty, cut>>
    BY AtStep DEF ReadToken, ClientInv, ClientTyped, daemonVars
<1>1. PICK l \in {"dial", "mint", "printed"}, r \in {reply[p], "vault"} :
         /\ cpc' = [cpc EXCEPT ![p] = l] /\ reply' = [reply EXCEPT ![p] = r]
         /\ l = "printed" => r = "vault"
         /\ l # "printed" => r = reply[p]
  <2>1. reply = [reply EXCEPT ![p] = reply[p]]
      BY <1>0 DEF ClientTyped
  <2> QED
      BY <1>0, <2>1 DEF ReadToken, To, Output
<1>2. token' \in [Process -> Owner \union {NoToken}] /\ raced' \in BOOLEAN
    BY <1>0 DEF ReadToken, ClientTyped, Minting
<1>3. l \in Stage /\ r \in Status /\ cpc'[p] = l /\ reply'[p] = r /\ Taken(p)' = Taken(p)
    BY <1>0, <1>1 DEF ClientTyped, Stage, Status, Taken
<1>4. OnTrack(p)'
    BY <1>0, <1>1, <1>3 DEF OnTrack
<1>5. Told(p)'
    BY <1>0, <1>1, <1>3 DEF Told, CallsUpto, CallPlaces
<1>6. Clean(p)'
    BY <1>0, <1>1, <1>3 DEF Clean
<1> QED
    BY <1>0, <1>1, <1>2, <1>3, <1>4, <1>5, <1>6, OnlyMoves DEF ClientTyped

LEMMA MintTokenKeeps ==
    ASSUME ClientInv, NEW p \in Process, MintToken(p)
    PROVE  ClientInv'
<1>0. /\ cpc[p] = "mint" /\ cpc' = [cpc EXCEPT ![p] = "dial"] /\ reply' = [reply EXCEPT ![p] = reply[p]]
      /\ ClientTyped /\ OnTrack(p) /\ Told(p) /\ Clean(p) /\ reply[p] \in Status
      /\ UNCHANGED <<expected, daemon, account, cmd, todo, fetched, served, stale, overwrote, raced, dirty, cut>>
    BY DEF MintToken, ClientInv, ClientTyped, daemonVars, history, To
<1>2. token' \in [Process -> Owner \union {NoToken}] /\ vault' \in Owner \union {NoToken}
    BY <1>0 DEF MintToken, ClientTyped, Owner
<1>3. "dial" \in Stage /\ cpc'[p] = "dial" /\ reply'[p] = reply[p] /\ Taken(p)' = Taken(p)
    BY <1>0 DEF ClientTyped, Stage, Taken
<1>4. OnTrack(p)'
    BY <1>0, <1>3 DEF OnTrack
<1>5. Told(p)'
    BY <1>0, <1>3 DEF Told, CallsUpto, CallPlaces
<1>6. Clean(p)'
    BY <1>0, <1>3 DEF Clean
<1> QED
    BY <1>0, <1>2, <1>3, <1>4, <1>5, <1>6, OnlyMoves DEF ClientTyped

LEMMA ConnectKeeps ==
    ASSUME ClientInv, NEW p \in Process, Connect(p)
    PROVE  ClientInv'
<1>0. /\ cpc[p] = "dial" /\ reply[p] \in Status
      /\ ClientTyped /\ OnTrack(p) /\ Told(p) /\ Clean(p)
      /\ UNCHANGED <<vault, expected, daemon, account, cmd, todo, token, fetched, served, stale, overwrote, raced, dirty, cut>>
    BY DEF Connect, ClientInv, ClientTyped, daemonVars, history
<1>1. PICK l \in {"sent", "printed"}, r \in {reply[p], "unreachable"} :
         /\ cpc' = [cpc EXCEPT ![p] = l] /\ reply' = [reply EXCEPT ![p] = r]
         /\ l = "printed" => r = "unreachable"
         /\ l # "printed" => r = reply[p]
  <2>1. reply = [reply EXCEPT ![p] = reply[p]]
      BY <1>0 DEF ClientTyped
  <2> QED
      BY <1>0, <2>1 DEF Connect, To, Output
<1>3. l \in Stage /\ r \in Status /\ cpc'[p] = l /\ reply'[p] = r /\ Taken(p)' = Taken(p)
    BY <1>0, <1>1 DEF ClientTyped, Stage, Status, Taken
<1>4. OnTrack(p)'
    BY <1>0, <1>1, <1>3 DEF OnTrack
<1>5. Told(p)'
    BY <1>0, <1>1, <1>3 DEF Told, CallsUpto, CallPlaces
<1>6. Clean(p)'
    BY <1>0, <1>1, <1>3 DEF Clean
<1> QED
    BY <1>0, <1>1, <1>3, <1>4, <1>5, <1>6, OnlyMoves DEF ClientTyped

\* A command that ends with something else than success, and one that is done.
LEMMA OutputKeeps ==
    ASSUME ClientInv, NEW p \in Process, NEW why \in Status, Output(p, why),
           cpc[p] \in {"step", "broken"}, why = "ok" => cpc[p] = "step" /\ todo[p] = << >>,
           why # "ok" /\ cpc[p] = "step" => todo[p] # << >>,
           UNCHANGED <<vault, daemonVars, cmd, todo, token, fetched, served, history>>
    PROVE  ClientInv'
<1>0. /\ ClientTyped /\ OnTrack(p) /\ Told(p) /\ Clean(p)
      /\ UNCHANGED <<vault, expected, daemon, account, cmd, todo, token, fetched, served, stale, overwrote, raced, dirty, cut>>
    BY DEF ClientInv, daemonVars, history
<1>3. "printed" \in Stage /\ cpc'[p] = "printed" /\ reply'[p] = why /\ Taken(p)' = Taken(p)
    BY <1>0 DEF ClientTyped, Stage, Taken, Output, To
<1>4. OnTrack(p)'
    BY <1>0, <1>3 DEF OnTrack
<1>5. Told(p)'
    BY <1>0, <1>3 DEF Told, CallsUpto, CallPlaces
<1>6. Clean(p)'
    BY <1>0, <1>3 DEF Clean
<1> QED
    BY <1>0, <1>3, <1>4, <1>5, <1>6, OnlyMoves DEF ClientTyped, Output, To

\* An answer that refuses, from a handler that did nothing.
LEMMA AnswerKeeps ==
    ASSUME ClientInv, NEW p \in Process, NEW status \in Status \ {"ok"}, Answer(p, status),
           cpc[p] = "sent",
           \/ UNCHANGED dirty
           \/ Head(todo[p]).what \in PartWay /\ dirty' = dirty \union {p},
           UNCHANGED <<vault, daemonVars, cmd, todo, token, fetched, served, stale, overwrote, raced, cut>>
    PROVE  ClientInv'
<1>0. /\ ClientTyped /\ OnTrack(p) /\ Told(p) /\ Clean(p)
      /\ todo[p] # << >> /\ Head(todo[p]) = todo[p][1]
      /\ UNCHANGED <<vault, expected, daemon, account, cmd, todo, token, fetched, served, stale, overwrote, raced, cut>>
    BY AtStep DEF ClientInv, daemonVars, OnTrack
<1>3. /\ cpc' = [cpc EXCEPT ![p] = "answered"] /\ reply' = [reply EXCEPT ![p] = status]
      /\ cpc'[p] = "answered" /\ reply'[p] = status /\ Taken(p)' = Taken(p)
    BY <1>0 DEF ClientTyped, Taken, Answer, To
<1>4. OnTrack(p)'
    BY <1>0, <1>3 DEF OnTrack
<1>5. Told(p)'
    BY <1>0, <1>3 DEF Told, CallsUpto, CallPlaces
<1>6. Clean(p)'
    BY <1>0, <1>3 DEF Clean
<1>7. ClientTyped'
    BY <1>0, <1>3 DEF ClientTyped, Stage
<1>8. ASSUME NEW q \in Process, q # p PROVE OnTrack(q)' /\ Told(q)' /\ Clean(q)'
  <2>1. cpc'[q] = cpc[q] /\ reply'[q] = reply[q] /\ (q \in dirty' <=> q \in dirty)
      BY <1>3, <1>8, <1>0 DEF ClientTyped
  <2> QED
      BY <2>1, <1>0, StandsStill DEF ClientInv
<1> QED
    BY <1>4, <1>5, <1>6, <1>7, <1>8 DEF ClientInv

\* A step of the handler is behind it: a check that passed, an answer that is ok.
LEMMA Advances ==
    ASSUME ClientInv, NEW p \in Process, todo[p] # << >>,
           todo' = [todo EXCEPT ![p] = Tail(@)], cpc' = [cpc EXCEPT ![p] = "step"],
           \/ cpc[p] = "step" /\ Head(todo[p]).do = "check" /\ (Head(todo[p]).what = "found" => fetched[p] # NoAccount)
           \/ cpc[p] = "answered" /\ reply[p] = "ok" /\ Head(todo[p]).do = "call",
           UNCHANGED <<vault, daemonVars, cmd, token, fetched, reply, served, history>>
    PROVE  ClientInv'
<1>0. /\ ClientTyped /\ OnTrack(p) /\ Told(p) /\ Clean(p)
      /\ UNCHANGED <<vault, expected, daemon, account, cmd, token, fetched, served, reply, stale, overwrote, raced, dirty, cut>>
    BY DEF ClientInv, daemonVars, history
<1>1. /\ todo[p] \in Seq(StepSet) /\ Len(todo[p]) \in Nat /\ Taken(p) \in Nat /\ Len(Handler[cmd[p]]) \in Nat
      /\ Head(todo[p]) = Handler[cmd[p]][Taken(p) + 1]
      /\ CallsUpto(cmd[p])[Taken(p) + 1] =
            IF Head(todo[p]).do = "call" THEN Append(CallsUpto(cmd[p])[Taken(p)], Head(todo[p]))
            ELSE CallsUpto(cmd[p])[Taken(p)]
      /\ Head(todo[p]) = todo[p][1]
    BY AtStep
<1>2. /\ todo'[p] = Tail(todo[p]) /\ cpc'[p] = "step"
      /\ \A q \in Process \ {p} : todo'[q] = todo[q] /\ cpc'[q] = cpc[q]
    BY DEF ClientInv, ClientTyped
<1>3. /\ Tail(todo[p]) \in Seq(StepSet) /\ Len(Tail(todo[p])) = Len(todo[p]) - 1 /\ Len(todo[p]) >= 1
      /\ \A i \in 1 .. Len(Tail(todo[p])) : Tail(todo[p])[i] = todo[p][i + 1]
    BY <1>1, RestOf
<1>4. Taken(p)' = Taken(p) + 1 /\ Len(todo'[p]) = Len(todo[p]) - 1
  <2> DEFINE a == Len(Handler[cmd[p]])
             b == Len(todo[p])
  <2>1. a \in Nat /\ b \in Nat /\ Taken(p) = a - b /\ Len(todo'[p]) = b - 1 /\ Taken(p)' = a - Len(todo'[p])
      BY <1>0, <1>1, <1>2, <1>3 DEF Taken
  <2> HIDE DEF a, b
  <2>2. Taken(p)' = Taken(p) + 1
      BY <2>1
  <2> QED
      BY <2>1, <2>2 DEF b
<1>5. ClientTyped'
  <2>1. todo' \in [Process -> Seq(StepSet)] /\ cpc' \in [Process -> Stage]
      BY <1>0, <1>3 DEF ClientTyped, Stage
  <2> QED
      BY <1>0, <2>1 DEF ClientTyped
<1>6. OnTrack(p)'
  <2>1. ASSUME NEW i \in 1 .. Len(todo'[p]) PROVE todo'[p][i] = Handler[cmd[p]][Taken(p)' + i]
    <3>1. i \in 1 .. Len(Tail(todo[p])) /\ i + 1 \in 1 .. Len(todo[p]) /\ Taken(p) + (i + 1) = Taken(p)' + i
      <4> DEFINE a == Taken(p)
                 b == Len(todo[p])
      <4>1. a \in Nat /\ b \in Nat /\ i \in 1 .. b - 1 /\ Taken(p)' = a + 1 /\ Len(Tail(todo[p])) = b - 1
          BY <1>1, <1>2, <1>3, <1>4, <2>1
      <4> HIDE DEF a, b
      <4>2. i + 1 \in 1 .. b /\ a + (i + 1) = (a + 1) + i
          BY <4>1
      <4> QED
          BY <4>1, <4>2 DEF a, b
    <3>2. todo[p][i + 1] = Handler[cmd[p]][Taken(p) + (i + 1)]
        BY <1>0, <3>1 DEF OnTrack
    <3>3. todo'[p][i] = todo[p][i + 1]
        BY <1>2, <1>3, <3>1
    <3> QED
        BY <3>1, <3>2, <3>3
  <2>2. Len(todo'[p]) <= Len(Handler[cmd[p]])
    <3>1. Len(todo[p]) <= Len(Handler[cmd[p]])
        BY <1>0 DEF OnTrack
    <3> QED
        BY <1>1, <1>4, <3>1
  <2>3. ASSUME cmd[p] = "account_edit", Len(todo'[p]) <= 2 PROVE fetched[p] # NoAccount
    <3>1. CASE Len(todo[p]) <= 2
        BY <1>0, <2>3, <3>1 DEF OnTrack
    <3>2. CASE Len(todo[p]) = 3
      <4> DEFINE h == <<Call("list_accounts"), Check("found"), Check("tls_mode"), Call("update_account")>>
      <4>1. Handler[cmd[p]] = h
          BY <2>3, EditHandler
      <4>2. Len(h) = 4 /\ h[2] = Check("found")
          OBVIOUS
      <4>3. Taken(p) = 1
          BY <3>2, <4>1, <4>2 DEF Taken
      <4>4. Head(todo[p]) = Check("found")
          BY <1>1, <4>1, <4>2, <4>3
      <4> QED
          BY <4>4 DEF Check
    <3> QED
      <4> DEFINE b == Len(todo[p])
      <4>1. b \in Nat /\ b - 1 <= 2
          BY <1>1, <1>4, <2>3
      <4> HIDE DEF b
      <4>2. b <= 2 \/ b = 3
          BY <4>1
      <4> QED
          BY <3>1, <3>2, <4>2 DEF b
  <2> QED
      BY <1>0, <1>2, <2>1, <2>2, <2>3 DEF OnTrack
<1>7. Told(p)'
  <2>1. served[p] = CallsUpto(cmd[p])[Taken(p) + 1]
      BY <1>0, <1>1 DEF Told
  <2> QED
      BY <1>0, <1>2, <1>4, <2>1 DEF Told, CallsUpto, CallPlaces
<1>8. Clean(p)'
  <2> SUFFICES ASSUME p \in dirty, p \notin cut PROVE todo'[p] = << >>
      BY <1>0, <1>2 DEF Clean
  <2>1. Len(todo[p]) = 1
      BY <1>0 DEF Clean
  <2>2. Tail(todo[p]) \in Seq(StepSet) /\ Len(Tail(todo[p])) = 0
      BY <1>3, <2>1
  <2>3. Tail(todo[p]) = << >>
    <3> DEFINE s == Tail(todo[p])
    <3> HIDE DEF s
    <3>1. s \in Seq(StepSet) /\ Len(s) = 0
        BY <2>2 DEF s
    <3>2. s = << >>
        BY <3>1
    <3> QED
        BY <3>2 DEF s
  <2> QED
      BY <1>2, <2>3
<1>9. ASSUME NEW q \in Process, q # p PROVE OnTrack(q)' /\ Told(q)' /\ Clean(q)'
    BY <1>0, <1>2, <1>9, StandsStill DEF ClientInv
<1> QED
    BY <1>5, <1>6, <1>7, <1>8, <1>9 DEF ClientInv

LEMMA OwnCheckKeeps ==
    ASSUME ClientInv, NEW p \in Process, OwnCheck(p)
    PROVE  ClientInv'
<1>0. /\ cpc[p] = "step" /\ todo[p] # << >> /\ Head(todo[p]).do = "check"
      /\ UNCHANGED <<vault, daemonVars, cmd, token, fetched, served, history>>
    BY DEF OwnCheck
<1>1. CASE /\ Head(todo[p]).what = "found" => fetched[p] # NoAccount
           /\ todo' = [todo EXCEPT ![p] = Tail(@)]
           /\ UNCHANGED <<cpc, reply>>
  <2>1. cpc' = [cpc EXCEPT ![p] = "step"]
      BY <1>0, <1>1 DEF ClientInv, ClientTyped
  <2> QED
      BY <1>0, <1>1, <2>1, Advances
<1>2. CASE Output(p, "own_check") /\ UNCHANGED todo
  <2>1. "own_check" \in Status
      BY DEF Status
  <2> QED
      BY <1>0, <1>2, <2>1, OutputKeeps
<1> QED
    BY <1>1, <1>2 DEF OwnCheck

LEMMA ReceiveKeeps ==
    ASSUME ClientInv, NEW p \in Process, Receive(p)
    PROVE  ClientInv'
<1>0. /\ cpc[p] = "answered" /\ todo[p] # << >> /\ Head(todo[p]).do = "call" /\ reply[p] \in Status
      /\ UNCHANGED <<vault, daemonVars, cmd, token, fetched, reply, served, history>>
      /\ ClientTyped /\ OnTrack(p) /\ Told(p) /\ Clean(p)
    BY AtStep DEF Receive, ClientInv, ClientTyped, OnTrack
<1>1. CASE reply[p] = "ok"
  <2>1. cpc' = [cpc EXCEPT ![p] = "step"] /\ todo' = [todo EXCEPT ![p] = Tail(@)]
      BY <1>1 DEF Receive, To
  <2> QED
      BY <1>0, <1>1, <2>1, Advances
<1>2. CASE reply[p] # "ok"
  <2>1. /\ cpc' = [cpc EXCEPT ![p] = "printed"] /\ UNCHANGED todo /\ reply' = [reply EXCEPT ![p] = reply[p]]
        /\ UNCHANGED <<vault, expected, daemon, account, token, stale, overwrote, raced, dirty, cut>>
      BY <1>0, <1>2 DEF Receive, To, daemonVars, history, ClientTyped
  <2>3. "printed" \in Stage /\ cpc'[p] = "printed" /\ reply'[p] = reply[p] /\ Taken(p)' = Taken(p)
      BY <1>0, <2>1 DEF ClientTyped, Stage, Taken
  <2>4. OnTrack(p)'
      BY <1>0, <1>2, <2>1, <2>3 DEF OnTrack
  <2>5. Told(p)'
      BY <1>0, <1>2, <2>1, <2>3 DEF Told, CallsUpto, CallPlaces
  <2>6. Clean(p)'
      BY <1>0, <1>2, <2>1, <2>3 DEF Clean
  <2> QED
      BY <1>0, <2>1, <2>3, <2>4, <2>5, <2>6, OnlyMoves DEF ClientTyped
<1> QED
    BY <1>1, <1>2

LEMMA FinishKeeps ==
    ASSUME ClientInv, NEW p \in Process, Finish(p)
    PROVE  ClientInv'
<1>1. "ok" \in Status
    BY DEF Status
<1> QED
    BY <1>1, OutputKeeps DEF Finish

LEMMA BrokenKeeps ==
    ASSUME ClientInv, NEW p \in Process, Broken(p)
    PROVE  ClientInv'
<1>1. "transport" \in Status
    BY DEF Status
<1> QED
    BY <1>1, OutputKeeps DEF Broken

LEMMA RefuseKeeps ==
    ASSUME ClientInv, NEW p \in Process, Refuse(p) \/ Unauthenticated(p)
    PROVE  ClientInv' /\ (Refuse(p) => reply'[p] # "unauthenticated")
<1>0. /\ cpc[p] = "sent" /\ todo[p] # << >> /\ Head(todo[p]).do = "call" /\ Head(todo[p]) \in StepSet
      /\ UNCHANGED <<vault, daemonVars, cmd, todo, token, fetched, served, stale, overwrote, raced, cut>>
      /\ DOMAIN reply = Process
    BY AtStep DEF Refuse, Unauthenticated, ClientInv, ClientTyped, OnTrack, history
<1>1. Head(todo[p]).what \in CallName
    BY <1>0 DEF StepSet
<1>2. CASE Refuse(p)
  <2>1. PICK status \in Rpc[Head(todo[p]).what].refuses : Answer(p, status)
      BY <1>2 DEF Refuse
  <2>2. status \in {"invalid_argument", "not_found", "internal"}
      BY <1>1, <2>1, Refusals
  <2>3. status \in Status \ {"ok"} /\ status # "unauthenticated"
      BY <2>2 DEF Status
  <2>a. \/ UNCHANGED dirty
        \/ Head(todo[p]).what \in PartWay /\ dirty' = dirty \union {p}
      BY <1>2 DEF Refuse
  <2>4. ClientInv'
      BY ONLY ClientInv, p \in Process, <1>0, <2>1, <2>3, <2>a, AnswerKeeps
  <2> QED
      BY <1>0, <2>1, <2>3, <2>4 DEF Answer
<1>3. CASE Unauthenticated(p) /\ ~Refuse(p)
  <2>1. "unauthenticated" \in Status \ {"ok"} /\ UNCHANGED dirty
      BY <1>3 DEF Status, Unauthenticated, history
  <2>2. Answer(p, "unauthenticated")
      BY <1>3 DEF Unauthenticated
  <2>3. ClientInv'
      BY ONLY ClientInv, p \in Process, <1>0, <2>1, <2>2, AnswerKeeps
  <2> QED
      BY <1>3, <2>3
<1> QED
    BY <1>2, <1>3

LEMMA InvokeKeeps ==
    ASSUME ClientInv, NEW p \in Process, NEW c \in Command, Invoke(p, c)
    PROVE  ClientInv'
<1>0. /\ cpc[p] = "ready" /\ cmd' = [cmd EXCEPT ![p] = c] /\ todo' = [todo EXCEPT ![p] = Handler[c]]
      /\ cpc' = [cpc EXCEPT ![p] = "step"]
      /\ UNCHANGED <<vault, expected, daemon, account, token, fetched, reply, served, stale, overwrote, raced, dirty, cut>>
      /\ ClientTyped /\ OnTrack(p) /\ Told(p)
    BY DEF Invoke, ClientInv, To, daemonVars, history
<1>1. /\ cmd'[p] = c /\ todo'[p] = Handler[c] /\ cpc'[p] = "step"
      /\ \A q \in Process \ {p} : cmd'[q] = cmd[q] /\ todo'[q] = todo[q] /\ cpc'[q] = cpc[q]
    BY <1>0 DEF ClientTyped
<1>2. Handler[c] \in Seq(StepSet) /\ Len(Handler[c]) \in Nat
    BY HandlersGood DEF GoodHandler
<1>3. ClientTyped'
  <2>1. cmd' \in [Process -> Command] /\ todo' \in [Process -> Seq(StepSet)] /\ cpc' \in [Process -> Stage]
      BY <1>0, <1>2 DEF ClientTyped, Stage
  <2> QED
      BY <1>0, <2>1 DEF ClientTyped
<1>4. Taken(p)' = 0
    BY <1>1, <1>2 DEF Taken
<1>5. OnTrack(p)'
  <2>1. c = "account_edit" => Len(Handler[c]) = 4
      BY EditHandler
  <2> DEFINE l == Len(Handler[c])
  <2>a. l \in Nat /\ l <= l
      BY <1>2
  <2>b. c = "account_edit" => ~(l <= 2)
    <3>1. c = "account_edit" => l = 4
        BY <2>1
    <3> HIDE DEF l
    <3> QED
        BY <3>1
  <2>2. l \in Nat /\ l <= l /\ (c = "account_edit" => ~(l <= 2))
      BY <2>a, <2>b
  <2>3. \A i \in 1 .. l : 0 + i = i
      BY <1>2
  <2> QED
      BY <1>0, <1>1, <1>4, <2>2, <2>3 DEF OnTrack
<1>6. Told(p)'
  <2>1. served[p] = << >> /\ CallsUpto(c)[0] = << >>
      BY <1>0, NextCall DEF OnTrack
  <2> QED
      BY <1>0, <1>1, <1>4, <2>1, ZenonT(30) DEF Told, CallsUpto, CallPlaces
<1>7. Clean(p)'
    BY <1>0 DEF Clean, OnTrack
<1>8. ASSUME NEW q \in Process, q # p PROVE OnTrack(q)' /\ Told(q)' /\ Clean(q)'
    BY <1>0, <1>1, <1>8, StandsStill DEF ClientInv
<1> QED
    BY <1>3, <1>5, <1>6, <1>7, <1>8 DEF ClientInv

\* An edit sends what it read, with its own setting changed.
LEMMA ServedCall ==
    ASSUME ClientInv, NEW p \in Process, cpc[p] = "sent"
    PROVE  /\ todo[p] # << >> /\ Head(todo[p]).do = "call" /\ Head(todo[p]) \in StepSet
           /\ Calls(Handler[cmd[p]], Head(todo[p]).what) /\ AccountCallsOwn(cmd[p])
           /\ Head(todo[p]).what = "update_account" => Len(todo[p]) = 1 /\ fetched[p] \in Settings
<1>0. todo[p] # << >> /\ Head(todo[p]).do = "call" /\ OnTrack(p) /\ ClientTyped
    BY AtStep DEF ClientInv, OnTrack
<1>1. /\ cmd[p] \in Command /\ Head(todo[p]) = Handler[cmd[p]][Taken(p) + 1] /\ Head(todo[p]) \in StepSet
      /\ Taken(p) + 1 \in 1 .. Len(Handler[cmd[p]])
      /\ Head(todo[p]).what \in Changing => Len(todo[p]) = 1
    BY <1>0, AtStep
<1>2. Calls(Handler[cmd[p]], Head(todo[p]).what) /\ AccountCallsOwn(cmd[p])
    BY <1>0, <1>1, HandlersGood DEF Calls
<1>3. ASSUME Head(todo[p]).what = "update_account" PROVE Len(todo[p]) = 1 /\ fetched[p] \in Settings
  <2>1. Len(todo[p]) = 1 /\ cmd[p] = "account_edit"
      BY <1>1, <1>2, <1>3 DEF Changing, AccountCallsOwn
  <2>2. fetched[p] # NoAccount
      BY <1>0, <2>1 DEF OnTrack
  <2> QED
      BY <1>0, <2>1, <2>2 DEF ClientTyped
<1> QED
    BY <1>0, <1>1, <1>2, <1>3

\* Where an edit is in its handler.
LEMMA EditHeads ==
    ASSUME ClientInv, NEW p \in Process, cmd[p] = "account_edit", todo[p] # << >>
    PROVE  /\ Len(todo[p]) \in 1 .. 4
           /\ Len(todo[p]) = 4 <=> Head(todo[p]) = Call("list_accounts")
           /\ Len(todo[p]) \in {2, 3} => Head(todo[p]).do = "check"
           /\ Len(todo[p]) = 1 <=> Head(todo[p]) = Call("update_account")
<1> DEFINE h == <<Call("list_accounts"), Check("found"), Check("tls_mode"), Call("update_account")>>
           a == Len(todo[p])
<1>1. Handler[cmd[p]] = h
    BY EditHandler
<1>2. Len(h) = 4 /\ h[1] = Call("list_accounts") /\ h[2] = Check("found") /\ h[3] = Check("tls_mode") /\ h[4] = Call("update_account")
    OBVIOUS
<1>3. a \in Nat /\ Taken(p) = 4 - a /\ Taken(p) + 1 \in 1 .. 4
  <2>1. a \in Nat /\ Taken(p) + 1 \in 1 .. Len(Handler[cmd[p]])
      BY AtStep
  <2>2. Len(Handler[cmd[p]]) = 4
      BY <1>1, <1>2
  <2> QED
      BY <2>1, <2>2 DEF Taken
<1>4. Head(todo[p]) = h[Taken(p) + 1]
    BY <1>1, AtStep
<1>5. /\ Call("list_accounts") # Check("found") /\ Call("list_accounts") # Check("tls_mode")
      /\ Call("list_accounts") # Call("update_account")
      /\ Call("update_account") # Check("found") /\ Call("update_account") # Check("tls_mode")
      /\ Check("found").do = "check" /\ Check("tls_mode").do = "check"
  <2>1. /\ Call("list_accounts").do = "call" /\ Call("update_account").do = "call"
        /\ Call("list_accounts").what = "list_accounts" /\ Call("update_account").what = "update_account"
        /\ Check("found").do = "check" /\ Check("tls_mode").do = "check"
      BY DEF Call, Check
  <2> QED
      BY <2>1
<1> HIDE DEF h, a
<1>6. a \in 1 .. 4 /\ (a = 1 => Taken(p) + 1 = 4) /\ (a = 2 => Taken(p) + 1 = 3) /\ (a = 3 => Taken(p) + 1 = 2)
      /\ (a = 4 => Taken(p) + 1 = 1)
    BY <1>3
<1>7. a = 1 \/ a = 2 \/ a = 3 \/ a = 4
    BY <1>6
<1>8. /\ a = 1 => Head(todo[p]) = Call("update_account")
      /\ a = 2 => Head(todo[p]) = Check("tls_mode")
      /\ a = 3 => Head(todo[p]) = Check("found")
      /\ a = 4 => Head(todo[p]) = Call("list_accounts")
    BY <1>2, <1>4, <1>6
<1> QED
    BY <1>5, <1>6, <1>7, <1>8 DEF a

LEMMA ServeKeeps ==
    ASSUME ClientInv, NEW p \in Process, Serve(p)
    PROVE  ClientInv'
<1> DEFINE rpc == Head(todo[p]).what
<1>0. /\ cpc[p] = "sent" /\ cpc' = [cpc EXCEPT ![p] = "answered"] /\ reply' = [reply EXCEPT ![p] = "ok"]
      /\ served' = [served EXCEPT ![p] = Append(@, Head(todo[p]))]
      /\ UNCHANGED <<vault, daemon, expected, cmd, todo, token, raced, cut>>
      /\ dirty' = IF rpc \in Changing THEN dirty \union {p} ELSE dirty
      /\ fetched' = IF rpc = "list_accounts" THEN [fetched EXCEPT ![p] = account] ELSE fetched
      /\ ClientTyped /\ OnTrack(p) /\ Told(p) /\ Clean(p)
    BY DEF Serve, Answer, To, ClientInv
<1>1. /\ todo[p] # << >> /\ Head(todo[p]).do = "call" /\ Head(todo[p]) \in StepSet
      /\ rpc = "update_account" => fetched[p] \in Settings
    BY <1>0, ServedCall
<1>2. /\ cpc'[p] = "answered" /\ reply'[p] = "ok" /\ served'[p] = Append(served[p], Head(todo[p]))
      /\ \A q \in Process \ {p} : cpc'[q] = cpc[q] /\ reply'[q] = reply[q] /\ served'[q] = served[q] /\ fetched'[q] = fetched[q]
    BY <1>0 DEF ClientTyped
<1>3. ClientTyped'
  <2>1. account' \in Settings \union {NoAccount}
    <3>1. CASE rpc = "add_account"
      <4>1. account' = [f \in Field |-> p]
          BY <3>1 DEF Serve
      <4> QED
          BY <4>1 DEF Settings, Owner
    <3>2. CASE rpc = "update_account"
      <4>1. account' = Merged(p)
          BY <3>2 DEF Serve
      <4> QED
          BY <1>1, <3>2, <4>1 DEF Settings, Owner, Merged
    <3>3. CASE rpc = "remove_account"
      <4>1. account' = NoAccount
          BY <3>3 DEF Serve
      <4> QED
          BY <4>1
    <3>4. CASE rpc \notin {"add_account", "update_account", "remove_account"}
      <4>1. account' = account
          BY <3>4 DEF Serve
      <4> QED
          BY <1>0, <4>1 DEF ClientTyped
    <3> QED
        BY <3>1, <3>2, <3>3, <3>4
  <2>2. stale' \subseteq Process /\ overwrote' \in BOOLEAN
    <3>1. stale' = IF rpc = "list_accounts" THEN stale \ {p}
                   ELSE IF account' # account THEN stale \union (Process \ {p}) ELSE stale
        BY DEF Serve
    <3>2. overwrote' = (overwrote \/ (rpc = "update_account" /\ p \in stale))
        BY DEF Serve
    <3> QED
        BY <1>0, <3>1, <3>2 DEF ClientTyped
  <2>3. fetched' \in [Process -> Settings \union {NoAccount}]
      BY <1>0 DEF ClientTyped
  <2>4. served' \in [Process -> Seq(StepSet)]
      BY <1>0, <1>1 DEF ClientTyped
  <2>5. cpc' \in [Process -> Stage] /\ reply' \in [Process -> Status]
      BY <1>0 DEF ClientTyped, Stage, Status
  <2> QED
      BY <1>0, <2>1, <2>2, <2>3, <2>4, <2>5 DEF ClientTyped
<1>4. Taken(p)' = Taken(p)
    BY <1>0 DEF Taken
<1>5. OnTrack(p)'
  <2>1. ASSUME cmd[p] = "account_edit", Len(todo[p]) <= 2 PROVE fetched'[p] # NoAccount
    <3>1. Len(todo[p]) \in 1 .. 4 /\ (Head(todo[p]) = Call("list_accounts") => Len(todo[p]) = 4)
        BY <1>1, <2>1, EditHeads
    <3>2. Head(todo[p]) # Call("list_accounts")
      <4>1. ~(4 <= 2)
          OBVIOUS
      <4> QED
          BY ONLY <2>1, <3>1, <4>1, Zenon
    <3>3. rpc # "list_accounts"
      <4>1. Head(todo[p]) \in [do : {"call"}, what : CallName]
          BY <1>1 DEF StepSet
      <4>2. Head(todo[p]) = [do |-> "call", what |-> rpc]
          BY <4>1
      <4> QED
          BY <3>2, <4>2 DEF Call
    <3> QED
        BY <1>0, <2>1, <3>3 DEF OnTrack
  <2> QED
      BY <1>0, <1>2, <1>4, <2>1 DEF OnTrack
<1>6. Told(p)'
  <2>1. served[p] = CallsUpto(cmd[p])[Taken(p)]
      BY <1>0 DEF Told
  <2>2. CallsUpto(cmd[p])[Taken(p) + 1] = Append(CallsUpto(cmd[p])[Taken(p)], Head(todo[p]))
      BY <1>1, AtStep
  <2> QED
      BY <1>0, <1>2, <1>4, <2>1, <2>2, ZenonT(30) DEF Told, CallsUpto, CallPlaces
<1>7. Clean(p)'
  <2> SUFFICES ASSUME p \in dirty', p \notin cut PROVE Len(todo[p]) = 1
      BY <1>0, <1>2 DEF Clean
  <2>1. p \notin dirty
      BY <1>0 DEF Clean
  <2>2. rpc \in Changing
      BY <1>0, <2>1
  <2> QED
      BY <1>1, <2>2, AtStep
<1>8. ASSUME NEW q \in Process, q # p PROVE OnTrack(q)' /\ Told(q)' /\ Clean(q)'
  <2>1. q \in dirty' <=> q \in dirty
      BY <1>0, <1>8
  <2> QED
      BY <1>0, <1>2, <1>8, <2>1, StandsStill DEF ClientInv
<1> QED
    BY <1>3, <1>5, <1>6, <1>7, <1>8 DEF ClientInv

LEMMA StopKeeps ==
    ASSUME ClientInv, Stop
    PROVE  ClientInv'
<1>0. /\ cpc' = [p \in Process |-> IF cpc[p] \in {"sent", "answered"} THEN "broken" ELSE cpc[p]]
      /\ cut' = cut \union {p \in Process : cpc[p] = "answered"}
      /\ daemon' = "down"
      /\ UNCHANGED <<vault, expected, account, cmd, todo, token, fetched, reply, served, stale, overwrote, raced, dirty>>
      /\ ClientTyped
    BY DEF Stop, ClientInv
<1>1. ClientTyped'
  <2>1. cpc' \in [Process -> Stage]
      BY <1>0 DEF ClientTyped, Stage
  <2> QED
      BY <1>0, <2>1 DEF ClientTyped
<1>2. ASSUME NEW p \in Process PROVE OnTrack(p)' /\ Told(p)' /\ Clean(p)'
  <2>0. OnTrack(p) /\ Told(p) /\ Clean(p)
      BY DEF ClientInv
  <2>1. CASE cpc[p] \in {"sent", "answered"}
    <3>1. cpc'[p] = "broken" /\ Taken(p)' = Taken(p)
        BY <1>0, <2>1 DEF Taken
    <3>2. OnTrack(p)'
        BY <1>0, <2>0, <2>1, <3>1 DEF OnTrack
    <3>3. Told(p)'
        BY <1>0, <3>1 DEF Told
    <3>4. Clean(p)'
        BY <1>0, <2>0, <2>1, <3>1 DEF Clean
    <3> QED
        BY <3>2, <3>3, <3>4
  <2>2. CASE cpc[p] \notin {"sent", "answered"}
    <3>1. cpc'[p] = cpc[p] /\ (p \in cut => p \in cut')
        BY <1>0, <2>2
    <3> QED
        BY <1>0, <2>0, <3>1, StandsStill
  <2> QED
      BY <2>1, <2>2
<1> QED
    BY <1>1, <1>2 DEF ClientInv

LEMMA DaemonStartKeeps ==
    ASSUME ClientInv, Start \/ StartMinting
    PROVE  ClientInv'
<1>0. UNCHANGED <<account, cmd, cpc, todo, token, fetched, reply, served, stale, overwrote, dirty, cut>> /\ ClientTyped
    BY DEF Start, StartMinting, history, ClientInv
<1>1. ClientTyped'
  <2>1. vault' \in Owner \union {NoToken} /\ expected' \in Owner \union {NoToken}
        /\ daemon' \in {"down", "minting", "up"} /\ raced' \in BOOLEAN
      BY <1>0 DEF Start, StartMinting, history, ClientTyped, Owner
  <2> QED
      BY <1>0, <2>1 DEF ClientTyped
<1>2. ASSUME NEW p \in Process PROVE OnTrack(p)' /\ Told(p)' /\ Clean(p)'
    BY <1>0, <1>2, StandsStill DEF ClientInv
<1> QED
    BY <1>1, <1>2 DEF ClientInv

LEMMA ClientInitInv == ClientInit => ClientInv
<1> SUFFICES ASSUME ClientInit PROVE ClientInv
    OBVIOUS
<1>1. "banner" \in Placards /\ "banner" \in Command
    BY DEF Placards, Command
<1>2. Handler["banner"] = << >>
    BY <1>1, PlacardHandlers DEF PlacardHandler
<1>3. << >> \in Seq(StepSet) /\ Len(<< >>) = 0
    OBVIOUS
<1>4. ClientTyped
  <2>1. [f \in Field |-> Daemon] \in Settings
      BY DEF Settings, Owner
  <2> QED
      BY <1>1, <1>3, <2>1 DEF ClientInit, ClientTyped, Owner, Stage, Status
<1>5. ASSUME NEW p \in Process PROVE OnTrack(p) /\ Told(p) /\ Clean(p)
  <2>1. cmd[p] = "banner" /\ cpc[p] = "ready" /\ todo[p] = << >> /\ served[p] = << >> /\ dirty = {}
      BY DEF ClientInit
  <2>2. Taken(p) = 0
      BY <1>2, <1>3, <2>1 DEF Taken
  <2>3. OnTrack(p)
    <3>1. Len(todo[p]) <= Len(Handler[cmd[p]]) /\ \A i : i \notin 1 .. Len(todo[p])
        BY <1>2, <1>3, <2>1
    <3> QED
        BY <2>1, <3>1 DEF OnTrack
  <2>4. Told(p)
      BY <1>1, <2>1, <2>2, NextCall DEF Told
  <2> QED
      BY <2>1, <2>3, <2>4 DEF Clean
<1> QED
    BY <1>4, <1>5 DEF ClientInv

LEMMA ClientNextInv == ClientInv /\ [ClientNext]_clientVars => ClientInv'
<1> SUFFICES ASSUME ClientInv, [ClientNext]_clientVars PROVE ClientInv'
    OBVIOUS
<1>1. ASSUME NEW p \in Process, NEW c \in Command, Invoke(p, c) PROVE ClientInv'
    BY <1>1, InvokeKeeps
<1>2. ASSUME NEW p \in Process, ClientStep(p) PROVE ClientInv'
    BY <1>2, OwnCheckKeeps, ReadTokenKeeps, MintTokenKeeps, ConnectKeeps, ReceiveKeeps, FinishKeeps, BrokenKeeps
    DEF ClientStep
<1>3. ASSUME NEW p \in Process, Unauthenticated(p) \/ Refuse(p) PROVE ClientInv'
    BY <1>3, RefuseKeeps
<1>4. ASSUME NEW p \in Process, Serve(p) PROVE ClientInv'
    BY <1>4, ServeKeeps
<1>5. CASE Stop \/ Start \/ StartMinting
    BY <1>5, StopKeeps, DaemonStartKeeps
<1>6. CASE UNCHANGED clientVars
  <2>1. UNCHANGED <<vault, daemon, expected, account, cmd, cpc, todo, token, fetched, reply, served, stale,
                    overwrote, raced, dirty, cut>>
      BY <1>6 DEF clientVars
  <2>2. ClientTyped'
      BY <2>1 DEF ClientInv, ClientTyped
  <2>3. ASSUME NEW p \in Process PROVE OnTrack(p)' /\ Told(p)' /\ Clean(p)'
      BY <2>1, <2>3, StandsStill DEF ClientInv
  <2> QED
      BY <2>2, <2>3 DEF ClientInv
<1> QED
    BY <1>1, <1>2, <1>3, <1>4, <1>5, <1>6 DEF ClientNext

LEMMA OutcomeTrue == ClientInv => CommandOutcome
<1> SUFFICES ASSUME ClientInv PROVE CommandOutcome
    OBVIOUS
<1>1. SuccessIsReal
  <2> SUFFICES ASSUME NEW p \in Process, cpc[p] = "printed", reply[p] = "ok" PROVE served[p] = CallsOf(cmd[p])
      BY DEF SuccessIsReal, Printed
  <2>1. OnTrack(p) /\ Told(p) /\ cmd[p] \in Command
      BY DEF ClientInv, ClientTyped
  <2>2. todo[p] = << >> /\ served[p] = CallsUpto(cmd[p])[Taken(p)]
      BY <2>1 DEF OnTrack, Told
  <2>3. Taken(p) = Len(Handler[cmd[p]])
    <3>1. Len(todo[p]) = 0 /\ Len(Handler[cmd[p]]) \in Nat
        BY <2>2, AtStep
    <3> QED
        BY <3>1 DEF Taken
  <2> QED
      BY <2>1, <2>2, <2>3, NextCall
<1>2. FailureIsClean
  <2> SUFFICES ASSUME NEW p \in dirty, Printed(p), reply[p] # "ok", p \notin cut
               PROVE  todo[p] # << >> /\ Head(todo[p]).what \in PartWay
      BY DEF FailureIsClean
  <2>1. p \in Process /\ Clean(p)
      BY DEF ClientInv, ClientTyped
  <2> QED
      BY <2>1, AtStep DEF Clean, Printed
<1> QED
    BY <1>1, <1>2 DEF CommandOutcome

\* As long as no two found the keyring empty at once, one process at most is
\* about to mint a token, and every token in use is the one in the keyring.
TokenInv ==
    ~raced =>
        /\ daemon = "up" => expected = vault /\ vault # NoToken
        /\ daemon = "minting" => vault = NoToken /\ \A p \in Process : cpc[p] # "mint"
        /\ \A p \in Process :
              /\ cpc[p] = "mint" => vault = NoToken /\ \A q \in Process \ {p} : cpc[q] # "mint"
              /\ cpc[p] \in {"dial", "sent", "answered"} => token[p] = vault /\ vault # NoToken
              /\ reply[p] # "unauthenticated"

LEMMA TokenNext == ClientInv /\ TokenInv /\ [ClientNext]_clientVars => TokenInv'
<1> SUFFICES ASSUME ClientInv, TokenInv, [ClientNext]_clientVars PROVE TokenInv'
    OBVIOUS
<1>0. /\ DOMAIN cpc = Process /\ DOMAIN token = Process /\ DOMAIN reply = Process
      /\ NoToken \notin Process /\ NoToken # Daemon
    BY ClientAssumption DEF ClientInv, ClientTyped
<1>1. ASSUME NEW p \in Process, NEW c \in Command, Invoke(p, c) PROVE TokenInv'
    BY <1>0, <1>1 DEF Invoke, TokenInv, To, daemonVars, history
<1>2. ASSUME NEW p \in Process, OwnCheck(p) PROVE TokenInv'
    BY <1>0, <1>2 DEF OwnCheck, TokenInv, Output, To, daemonVars, history
<1>3. ASSUME NEW p \in Process, ReadToken(p) PROVE TokenInv'
  <2>1. CASE vault = NoToken /\ To(p, "mint") /\ raced' = (raced \/ Minting(p)) /\ UNCHANGED <<token, reply>>
    <3> SUFFICES ASSUME ~raced' PROVE TokenInv'
        BY DEF TokenInv
    <3>1. ~raced /\ daemon # "minting" /\ \A q \in Process \ {p} : cpc[q] # "mint"
        BY <2>1 DEF Minting
    <3> QED
        BY <1>0, <1>3, <2>1, <3>1 DEF ReadToken, TokenInv, To, daemonVars
  <2>2. CASE vault # NoToken /\ token' = [token EXCEPT ![p] = vault] /\ To(p, "dial") /\ UNCHANGED reply /\ UNCHANGED raced
      BY <1>0, <1>3, <2>2 DEF ReadToken, TokenInv, To, daemonVars
  <2>3. CASE Output(p, "vault") /\ UNCHANGED <<token, raced>>
      BY <1>0, <1>3, <2>3 DEF ReadToken, TokenInv, To, Output, daemonVars
  <2> QED
      BY <1>3, <2>1, <2>2, <2>3 DEF ReadToken
<1>4. ASSUME NEW p \in Process, MintToken(p) PROVE TokenInv'
    BY <1>0, <1>4 DEF MintToken, TokenInv, To, daemonVars, history
<1>5. ASSUME NEW p \in Process, Connect(p) PROVE TokenInv'
    BY <1>0, <1>5 DEF Connect, TokenInv, Output, To, daemonVars, history
<1>6. ASSUME NEW p \in Process, Receive(p) PROVE TokenInv'
    BY <1>0, <1>6 DEF Receive, TokenInv, To, daemonVars, history
<1>7. ASSUME NEW p \in Process, Finish(p) \/ Broken(p) PROVE TokenInv'
    BY <1>0, <1>7 DEF Finish, Broken, TokenInv, Output, To, daemonVars, history
<1>8. ASSUME NEW p \in Process, Unauthenticated(p) PROVE TokenInv'
    BY <1>0, <1>8 DEF Unauthenticated, TokenInv, daemonVars, history
<1>9. ASSUME NEW p \in Process, Refuse(p) PROVE TokenInv'
  <2>1. reply'[p] # "unauthenticated"
      BY <1>9, RefuseKeeps
  <2>2. /\ cpc[p] = "sent" /\ cpc' = [cpc EXCEPT ![p] = "answered"] /\ UNCHANGED <<vault, daemon, expected, token, raced>>
        /\ \A q \in Process \ {p} : reply'[q] = reply[q]
      BY <1>0, <1>9 DEF Refuse, Answer, To, daemonVars
  <2> QED
      BY <1>0, <2>1, <2>2 DEF TokenInv
<1>10. ASSUME NEW p \in Process, Serve(p) PROVE TokenInv'
  <2>1. /\ cpc[p] = "sent" /\ cpc' = [cpc EXCEPT ![p] = "answered"] /\ reply' = [reply EXCEPT ![p] = "ok"]
        /\ UNCHANGED <<vault, daemon, expected, token, raced>>
      BY <1>10 DEF Serve, Answer, To
  <2> QED
      BY <1>0, <2>1 DEF TokenInv
<1>11. CASE Stop
    BY <1>0, <1>11 DEF Stop, TokenInv
<1>12. CASE Start
    BY <1>0, <1>12 DEF Start, TokenInv
<1>13. CASE StartMinting
    BY <1>0, <1>13 DEF StartMinting, TokenInv, history
<1>14. CASE UNCHANGED clientVars
    BY <1>14 DEF clientVars, TokenInv
<1> QED
    BY <1>1, <1>2, <1>3, <1>4, <1>5, <1>6, <1>7, <1>8, <1>9, <1>10, <1>11, <1>12, <1>13, <1>14 DEF ClientNext, ClientStep

\* An edit that was carried out, and one that has read the account.
Edited(p) ==
    /\ cmd[p] = "account_edit"
    /\ todo[p] = << >> \/ (Len(todo[p]) = 1 /\ cpc[p] = "answered" /\ reply[p] = "ok")
HasRead(p) ==
    /\ cmd[p] = "account_edit"
    /\ \/ Len(todo[p]) \in 1 .. 3 /\ cpc[p] \in {"step", "mint", "dial", "sent"}
       \/ Len(todo[p]) = 4 /\ cpc[p] = "answered" /\ reply[p] = "ok"
OnlyOther(p) ==
    /\ \A q \in Process : cmd[q] \notin {"account_add", "account_delete"}
    /\ \A q \in Process \ {p} : cmd[q] = "account_edit" => EditField[q] # EditField[p]

\* What an edit has read is the account still, unless it is stale, and what it
\* wrote stays.
EditInv ==
    \A p \in Process :
        /\ Edited(p) /\ ~overwrote /\ account # NoAccount /\ OnlyOther(p) => account[EditField[p]] = p
        /\ HasRead(p) /\ p \notin stale => fetched[p] = account

\* A step that serves no call.
LEMMA EditQuiet ==
    ASSUME EditInv, UNCHANGED <<cmd, account, stale, overwrote, fetched>>,
           \A p \in Process : (Edited(p)' => Edited(p)) /\ (HasRead(p)' => HasRead(p))
    PROVE  EditInv'
<1>1. \A p \in Process : OnlyOther(p)' <=> OnlyOther(p)
    BY DEF OnlyOther
<1> QED
    BY <1>1 DEF EditInv

\* A step that leaves the calls of all processes where they are, or drops them.
LEMMA EditMoves ==
    ASSUME ClientInv, EditInv, NEW p \in Process,
           UNCHANGED <<cmd, account, stale, overwrote, fetched, todo>>,
           \A q \in Process \ {p} : cpc'[q] = cpc[q] /\ reply'[q] = reply[q],
           \/ cpc[p] \in {"step", "mint", "dial", "sent"} /\ cpc'[p] \in {"step", "mint", "dial", "sent"}
           \/ cpc'[p] \in {"printed", "broken"}
           \/ cpc'[p] = "answered" /\ reply'[p] # "ok"
    PROVE  EditInv'
<1>1. ASSUME NEW q \in Process PROVE (Edited(q)' => Edited(q)) /\ (HasRead(q)' => HasRead(q))
    BY <1>1 DEF Edited, HasRead
<1> QED
    BY <1>1, EditQuiet

LEMMA EditAdvances ==
    ASSUME ClientInv, EditInv, NEW p \in Process, todo[p] # << >>,
           todo' = [todo EXCEPT ![p] = Tail(@)], cpc' = [cpc EXCEPT ![p] = "step"],
           \/ cpc[p] = "step" /\ Head(todo[p]).do = "check"
           \/ cpc[p] = "answered" /\ reply[p] = "ok" /\ Head(todo[p]).do = "call",
           UNCHANGED <<cmd, account, stale, overwrote, fetched, reply>>
    PROVE  EditInv'
<1>1. /\ todo'[p] = Tail(todo[p]) /\ cpc'[p] = "step" /\ cmd'[p] = cmd[p]
      /\ \A q \in Process \ {p} : todo'[q] = todo[q] /\ cpc'[q] = cpc[q]
    BY DEF ClientInv, ClientTyped
<1>2. todo[p] \in Seq(StepSet)
    BY AtStep
<1>3. Len(Tail(todo[p])) = Len(todo[p]) - 1 /\ Len(todo[p]) \in Nat /\ Len(<< >>) = 0
    BY <1>2, RestOf
<1>4. ASSUME cmd[p] = "account_edit" PROVE (Edited(p)' => Edited(p)) /\ (HasRead(p)' => HasRead(p))
  <2> DEFINE a == Len(todo[p])
             b == Len(todo'[p])
  <2>1. /\ a \in 1 .. 4 /\ b = a - 1
        /\ Head(todo[p]).do = "call" => a \in {1, 4}
        /\ Head(todo[p]).do = "check" => a \in {2, 3}
    <3>1. /\ a \in 1 .. 4
          /\ a \in {2, 3} => Head(todo[p]).do = "check"
          /\ a = 4 => Head(todo[p]).do = "call"
          /\ a = 1 => Head(todo[p]).do = "call"
        BY <1>4, EditHeads DEF Call
    <3>2. a = 1 \/ a = 2 \/ a = 3 \/ a = 4
      <4> HIDE DEF a
      <4> QED
          BY <3>1
    <3> QED
        BY <1>1, <1>3, <3>1, <3>2
  <2>2. todo'[p] = << >> => b = 0
      BY <1>3
  <2> HIDE DEF a, b
  <2>3. /\ b = 0 \/ (b = 1 /\ cpc'[p] = "answered") => cpc[p] = "answered" /\ a = 1
        /\ b \in 1 .. 3 => (cpc[p] = "answered" /\ a = 4) \/ (cpc[p] = "step" /\ a \in 1 .. 3)
        /\ b # 4
      BY <1>1, <2>1
  <2>4. Edited(p)' => Edited(p)
      BY <1>4, <2>2, <2>3 DEF Edited, a, b
  <2>5. HasRead(p)' => HasRead(p)
      BY <1>4, <2>3 DEF HasRead, a, b
  <2> QED
      BY <2>4, <2>5
<1>5. ASSUME NEW q \in Process PROVE (Edited(q)' => Edited(q)) /\ (HasRead(q)' => HasRead(q))
  <2>1. CASE q = p
      BY <1>1, <1>4, <2>1 DEF Edited, HasRead
  <2>2. CASE q # p
      BY <1>1, <2>2 DEF Edited, HasRead
  <2> QED
      BY <2>1, <2>2
<1> QED
    BY <1>5, EditQuiet

LEMMA EditServed ==
    ASSUME ClientInv, EditInv, NEW q \in Process, Serve(q)
    PROVE  EditInv'
<1> DEFINE rpc == Head(todo[q]).what
<1>0. /\ cpc[q] = "sent" /\ UNCHANGED <<cmd, todo>> /\ ClientTyped
      /\ cpc' = [cpc EXCEPT ![q] = "answered"] /\ reply' = [reply EXCEPT ![q] = "ok"]
      /\ fetched' = IF rpc = "list_accounts" THEN [fetched EXCEPT ![q] = account] ELSE fetched
      /\ stale' = IF rpc = "list_accounts" THEN stale \ {q}
                  ELSE IF account' # account THEN stale \union (Process \ {q}) ELSE stale
      /\ overwrote' = (overwrote \/ (rpc = "update_account" /\ q \in stale))
    BY DEF Serve, Answer, To, ClientInv
<1>1. /\ rpc = "add_account" => cmd[q] = "account_add"
      /\ rpc = "remove_account" => cmd[q] = "account_delete"
      /\ rpc = "update_account" => cmd[q] = "account_edit" /\ Len(todo[q]) = 1 /\ fetched[q] \in Settings
      /\ todo[q] # << >> /\ Head(todo[q]) \in StepSet
    BY <1>0, ServedCall DEF AccountCallsOwn
<1>2. /\ rpc = "update_account" => account' = Merged(q)
      /\ rpc \notin {"add_account", "update_account", "remove_account"} => account' = account
  <2>1. rpc = "update_account" => account' = Merged(q)
      BY DEF Serve
  <2>2. rpc \notin {"add_account", "update_account", "remove_account"} => account' = account
      BY DEF Serve
  <2> QED
      BY <2>1, <2>2
<1>3. \A p \in Process : EditField[p] \in Field
    BY ClientAssumption
<1>4. \A p \in Process : OnlyOther(p)' <=> OnlyOther(p)
    BY <1>0 DEF OnlyOther
<1>5. cpc'[q] = "answered" /\ \A p \in Process \ {q} : cpc'[p] = cpc[p] /\ reply'[p] = reply[p] /\ fetched'[p] = fetched[p]
    BY <1>0 DEF ClientTyped
<1> HIDE DEF rpc
<1>6. ASSUME NEW p \in Process, Edited(p)', ~overwrote', account' # NoAccount, OnlyOther(p)
      PROVE  account'[EditField[p]] = p
  <2>1. rpc \notin {"add_account", "remove_account"} /\ ~overwrote
      BY <1>0, <1>1, <1>6 DEF OnlyOther
  <2>2. CASE q = p
    <3>1. cmd[p] = "account_edit" /\ Len(todo[p]) = 1
        BY <1>0, <1>1, <1>6, <2>2 DEF Edited
    <3>2. Head(todo[p]) = Call("update_account")
        BY <1>1, <2>2, <3>1, EditHeads
    <3>3. rpc = "update_account"
        BY <2>2, <3>2 DEF Call, rpc
    <3> QED
        BY <1>1, <1>2, <1>3, <2>2, <3>3 DEF Merged, Settings
  <2>3. CASE q # p
    <3>1. Edited(p)
        BY <1>0, <1>5, <1>6, <2>3 DEF Edited
    <3>2. CASE rpc # "update_account"
        BY <1>2, <1>6, <2>1, <3>1, <3>2 DEF EditInv
    <3>3. CASE rpc = "update_account"
      <4>1. q \notin stale
          BY <1>0, <1>6, <3>3
      <4>2. HasRead(q)
        <5>1. 1 \in 1 .. 3
            OBVIOUS
        <5> QED
            BY <1>0, <1>1, <3>3, <5>1 DEF HasRead
      <4>3. fetched[q] = account /\ account \in Settings
          BY <1>1, <3>3, <4>1, <4>2 DEF EditInv
      <4>4. account # NoAccount
        <5>1. fetched[q] # NoAccount
            BY <1>0, <1>1, <3>3 DEF ClientInv, OnTrack
        <5> QED
            BY <4>3, <5>1
      <4>5. account[EditField[p]] = p
          BY <1>6, <2>1, <3>1, <4>4 DEF EditInv
      <4>6. EditField[q] # EditField[p]
          BY <1>1, <1>6, <2>3, <3>3 DEF OnlyOther
      <4> QED
          BY <1>2, <1>3, <3>3, <4>3, <4>5, <4>6 DEF Merged, Settings
    <3> QED
        BY <3>2, <3>3
  <2> QED
      BY <2>2, <2>3
<1>7. ASSUME NEW p \in Process, HasRead(p)', p \notin stale'
      PROVE  fetched'[p] = account'
  <2>1. CASE q = p
    <3>1. cmd[p] = "account_edit" /\ Len(todo[p]) = 4
        BY <1>0, <1>5, <1>7, <2>1 DEF HasRead
    <3>2. Head(todo[p]) = Call("list_accounts")
        BY <1>1, <2>1, <3>1, EditHeads
    <3>3. rpc = "list_accounts"
        BY <2>1, <3>2 DEF Call, rpc
    <3> QED
        BY <1>0, <1>2, <2>1, <3>3 DEF ClientTyped
  <2>2. CASE q # p
    <3>1. HasRead(p) /\ p \notin stale
        BY <1>0, <1>5, <1>7, <2>2 DEF HasRead
    <3>2. account' = account
        BY <1>0, <1>2, <1>7, <2>2
    <3> QED
        BY <1>5, <2>2, <3>1, <3>2 DEF EditInv
  <2> QED
      BY <2>1, <2>2
<1> QED
    BY <1>4, <1>6, <1>7 DEF EditInv

LEMMA EditInvoked ==
    ASSUME ClientInv, EditInv, NEW p \in Process, NEW c \in Command, Invoke(p, c)
    PROVE  EditInv'
<1>0. /\ cpc[p] = "ready" /\ cmd' = [cmd EXCEPT ![p] = c] /\ todo' = [todo EXCEPT ![p] = Handler[c]]
      /\ cpc' = [cpc EXCEPT ![p] = "step"]
      /\ UNCHANGED <<account, fetched, reply, stale, overwrote>>
      /\ ClientTyped /\ OnTrack(p)
    BY DEF Invoke, ClientInv, To, daemonVars, history
<1>1. /\ cmd'[p] = c /\ todo'[p] = Handler[c] /\ cpc'[p] = "step" /\ cmd[p] = "banner"
      /\ \A q \in Process \ {p} : cmd'[q] = cmd[q] /\ todo'[q] = todo[q] /\ cpc'[q] = cpc[q]
    BY <1>0 DEF ClientTyped, OnTrack
<1>2. c = "account_edit" => Len(Handler[c]) = 4 /\ Handler[c] # << >>
  <2>1. c = "account_edit" => Len(Handler[c]) = 4
      BY EditHandler
  <2>2. Len(<< >>) = 0
      OBVIOUS
  <2> QED
      BY <2>1, <2>2
<1>3. ~Edited(p)' /\ ~HasRead(p)'
  <2>1. 4 \notin 1 .. 3 /\ 4 # 1
      OBVIOUS
  <2> QED
      BY <1>1, <1>2, <2>1 DEF Edited, HasRead
<1>4. ASSUME NEW q \in Process, q # p
      PROVE  (Edited(q)' => Edited(q)) /\ (HasRead(q)' => HasRead(q)) /\ (OnlyOther(q)' => OnlyOther(q))
    BY <1>0, <1>1, <1>4 DEF Edited, HasRead, OnlyOther
<1> QED
    BY <1>0, <1>3, <1>4 DEF EditInv

LEMMA EditNext == ClientInv /\ EditInv /\ [ClientNext]_clientVars => EditInv'
<1> SUFFICES ASSUME ClientInv, EditInv, [ClientNext]_clientVars PROVE EditInv'
    OBVIOUS
<1>0. DOMAIN cpc = Process /\ DOMAIN reply = Process
    BY DEF ClientInv, ClientTyped
<1>1. ASSUME NEW p \in Process, NEW c \in Command, Invoke(p, c) PROVE EditInv'
    BY <1>1, EditInvoked
<1>2. ASSUME NEW p \in Process, OwnCheck(p) PROVE EditInv'
  <2>1. CASE todo' = [todo EXCEPT ![p] = Tail(@)] /\ UNCHANGED <<cpc, reply>>
    <3>1. cpc' = [cpc EXCEPT ![p] = "step"]
        BY <1>2, <2>1 DEF OwnCheck, ClientInv, ClientTyped
    <3> QED
        BY <1>2, <2>1, <3>1, EditAdvances DEF OwnCheck, daemonVars, history
  <2>2. CASE Output(p, "own_check") /\ UNCHANGED todo
      BY <1>0, <1>2, <2>2, EditMoves DEF OwnCheck, Output, To, daemonVars, history
  <2> QED
      BY <1>2, <2>1, <2>2 DEF OwnCheck
<1>3. ASSUME NEW p \in Process, ReadToken(p) PROVE EditInv'
    BY <1>0, <1>3, EditMoves DEF ReadToken, Output, To, daemonVars
<1>4. ASSUME NEW p \in Process, MintToken(p) PROVE EditInv'
    BY <1>0, <1>4, EditMoves DEF MintToken, To, daemonVars, history
<1>5. ASSUME NEW p \in Process, Connect(p) PROVE EditInv'
    BY <1>0, <1>5, EditMoves DEF Connect, Output, To, daemonVars, history
<1>6. ASSUME NEW p \in Process, Receive(p) PROVE EditInv'
  <2>0. todo[p] # << >> /\ Head(todo[p]).do = "call" /\ UNCHANGED <<cmd, account, stale, overwrote, fetched, reply>>
      BY <1>6, AtStep DEF Receive, ClientInv, OnTrack, daemonVars, history
  <2>1. CASE reply[p] = "ok"
      BY <1>6, <2>0, <2>1, EditAdvances DEF Receive, To
  <2>2. CASE reply[p] # "ok"
      BY <1>0, <1>6, <2>0, <2>2, EditMoves DEF Receive, To
  <2> QED
      BY <2>1, <2>2
<1>7. ASSUME NEW p \in Process, Finish(p) \/ Broken(p) PROVE EditInv'
    BY <1>0, <1>7, EditMoves DEF Finish, Broken, Output, To, daemonVars, history
<1>8. ASSUME NEW p \in Process, Unauthenticated(p) PROVE EditInv'
    BY <1>0, <1>8, EditMoves DEF Unauthenticated, Answer, To, daemonVars, history
<1>9. ASSUME NEW p \in Process, Refuse(p) PROVE EditInv'
  <2>1. todo[p] # << >> /\ Head(todo[p]) \in StepSet /\ Head(todo[p]).do = "call"
      BY <1>9, ServedCall DEF Refuse
  <2>2. Head(todo[p]).what \in CallName
      BY <2>1 DEF StepSet
  <2>3. "ok" \notin Rpc[Head(todo[p]).what].refuses
      BY <2>2, Refusals
  <2> QED
      BY <1>0, <1>9, <2>3, EditMoves DEF Refuse, Answer, To, daemonVars
<1>10. ASSUME NEW p \in Process, Serve(p) PROVE EditInv'
    BY <1>10, EditServed
<1>11. CASE Stop
  <2>1. \A q \in Process : (Edited(q)' => Edited(q)) /\ (HasRead(q)' => HasRead(q))
      BY <1>11 DEF Stop, Edited, HasRead
  <2> QED
      BY <1>11, <2>1, EditQuiet DEF Stop
<1>12. CASE Start \/ StartMinting
  <2>1. UNCHANGED <<cmd, account, stale, overwrote, fetched, todo, cpc, reply>>
      BY <1>12 DEF Start, StartMinting, history
  <2>2. \A q \in Process : (Edited(q)' => Edited(q)) /\ (HasRead(q)' => HasRead(q))
      BY <2>1 DEF Edited, HasRead
  <2> QED
      BY <2>1, <2>2, EditQuiet
<1>13. CASE UNCHANGED clientVars
  <2>1. UNCHANGED <<cmd, account, stale, overwrote, fetched, todo, cpc, reply>>
      BY <1>13 DEF clientVars
  <2>2. \A q \in Process : (Edited(q)' => Edited(q)) /\ (HasRead(q)' => HasRead(q))
      BY <2>1 DEF Edited, HasRead
  <2> QED
      BY <2>1, <2>2, EditQuiet
<1> QED
    BY <1>1, <1>2, <1>3, <1>4, <1>5, <1>6, <1>7, <1>8, <1>9, <1>10, <1>11, <1>12, <1>13 DEF ClientNext, ClientStep

LEMMA AgreedAtFirst == ClientInit => TokenInv /\ EditInv
<1> SUFFICES ASSUME ClientInit PROVE TokenInv /\ EditInv
    OBVIOUS
<1>1. \A p \in Process : cmd[p] = "banner" /\ cpc[p] = "ready" /\ reply[p] = "none"
    BY DEF ClientInit
<1>2. TokenInv
    BY <1>1 DEF ClientInit, TokenInv
<1>3. \A p \in Process : ~Edited(p) /\ ~HasRead(p)
    BY <1>1 DEF Edited, HasRead
<1> QED
    BY <1>2, <1>3 DEF EditInv

LEMMA Agrees == ClientInv /\ TokenInv /\ EditInv => SettingsAgreed
<1> SUFFICES ASSUME ClientInv, TokenInv, EditInv PROVE SettingsAgreed
    OBVIOUS
<1>1. TokenAgreed
    BY DEF TokenAgreed, TokenInv
<1>2. ASSUME NEW p \in Process, Printed(p), reply[p] = "ok", cmd[p] = "account_edit", ~overwrote,
             account # NoAccount, OnlyOther(p)
      PROVE  account[EditField[p]] = p
  <2>1. todo[p] = << >>
      BY <1>2 DEF ClientInv, OnTrack, Printed
  <2> QED
      BY <1>2, <2>1 DEF EditInv, Edited
<1>3. EditsKept
    BY <1>2 DEF EditsKept, OnlyOther
<1> QED
    BY <1>1, <1>3 DEF SettingsAgreed

\* CommandOutcome: success is reported when the daemon carried out every call
\* of the command, and a failure only when it changed nothing, whatever number
\* of clients run and however often the daemon stops (runner.rs, grpc.rs).
THEOREM CommandsReportTruth == ClientInit /\ [][ClientNext]_clientVars => []CommandOutcome
<1>1. ClientInv /\ [ClientNext]_clientVars => ClientInv'
    BY ClientNextInv
<1> QED
    BY <1>1, ClientInitInv, OutcomeTrue, PTL

\* SettingsAgreed: unless two processes found the keyring empty at once, the
\* daemon and the clients use the token in it; and what an edit wrote stays
\* written, unless the account it had read had changed (vault.rs, runner.rs).
THEOREM ClientsAgree == ClientInit /\ [][ClientNext]_clientVars => []SettingsAgreed
<1> DEFINE Inv == ClientInv /\ TokenInv /\ EditInv
<1>1. ClientInit => Inv
    BY ClientInitInv, AgreedAtFirst
<1>2. Inv /\ [ClientNext]_clientVars => Inv'
    BY ClientNextInv, TokenNext, EditNext
<1>3. Inv => SettingsAgreed
    BY Agrees
<1> QED
    BY <1>1, <1>2, <1>3, PTL

-----------------------------------------------------------------------------
(* Self-update                                                             *)

Tag == Seq(Int)

LEMMA PartsAreNumbers ==
    ASSUME NEW v \in Tag
    PROVE  /\ DOMAIN parse_v(v) = 1 .. Len(v) /\ Len(v) \in Nat /\ Len(parse_v(v)) = Len(v)
           /\ \A i \in DOMAIN parse_v(v) : i \in Nat /\ i >= 1
           /\ \A i \in Nat : At(parse_v(v), i) \in Nat
           /\ \A i : i \notin DOMAIN parse_v(v) => At(parse_v(v), i) = 0
<1>1. DOMAIN v = 1 .. Len(v) /\ Len(v) \in Nat
    BY DEF Tag
<1>2. parse_v(v) \in Seq(Nat) /\ Len(parse_v(v)) = Len(v)
  <2>1. parse_v(v) \in [1 .. Len(v) -> Nat]
      BY <1>1 DEF parse_v
  <2> QED
      BY <1>1, <2>1
<1> QED
    BY <1>1, <1>2 DEF At

\* is_newer_version compares as releases are ordered.
LEMMA NewerIsLater ==
    ASSUME NEW a \in Tag, NEW b \in Tag
    PROVE  is_newer_version(a, b) => ReleasedBefore(a, b)
<1> DEFINE x == parse_v(a)
           y == parse_v(b)
           n == IF Len(x) > Len(y) THEN Len(x) ELSE Len(y)
<1>1. /\ DOMAIN x = 1 .. Len(a) /\ Len(a) \in Nat /\ Len(x) = Len(a)
      /\ DOMAIN y = 1 .. Len(b) /\ Len(b) \in Nat /\ Len(y) = Len(b)
      /\ \A i \in Nat : At(x, i) \in Nat /\ At(y, i) \in Nat
    BY PartsAreNumbers
<1> SUFFICES ASSUME is_newer_version(a, b) PROVE ReleasedBefore(a, b)
    OBVIOUS
<1>2. PICK i \in 1 .. n : At(y, i) > At(x, i) /\ \A j \in 1 .. i - 1 : At(y, j) = At(x, j)
    BY DEF is_newer_version
<1> HIDE DEF x, y
<1>3. i \in DOMAIN x \union DOMAIN y /\ i \in Nat
    BY <1>1
<1>4. At(x, i) < At(y, i) /\ \A j \in 1 .. i - 1 : At(x, j) = At(y, j)
    BY <1>1, <1>2, <1>3
<1> USE DEF x, y
<1> QED
    BY <1>3, <1>4 DEF ReleasedBefore

\* The order of releases is transitive, and nothing comes before the tag
\* without parts.
LEMMA LaterThanLater ==
    ASSUME NEW a \in Tag, NEW b \in Tag, NEW c \in Tag, ReleasedBefore(a, b), ReleasedBefore(b, c)
    PROVE  ReleasedBefore(a, c)
<1> DEFINE x == parse_v(a)
           y == parse_v(b)
           z == parse_v(c)
<1>a. (\A i \in DOMAIN x : i \in Nat /\ i >= 1) /\ (\A i \in Nat : At(x, i) \in Nat) /\ (\A i : i \notin DOMAIN x => At(x, i) = 0)
    BY PartsAreNumbers
<1>b. (\A i \in DOMAIN y : i \in Nat /\ i >= 1) /\ (\A i \in Nat : At(y, i) \in Nat)
    BY PartsAreNumbers
<1>c. (\A i \in DOMAIN z : i \in Nat /\ i >= 1) /\ (\A i \in Nat : At(z, i) \in Nat) /\ (\A i : i \notin DOMAIN z => At(z, i) = 0)
    BY PartsAreNumbers
<1>2. PICK i \in DOMAIN x \union DOMAIN y : At(x, i) < At(y, i) /\ \A j \in 1 .. i - 1 : At(x, j) = At(y, j)
    BY DEF ReleasedBefore
<1>3. PICK k \in DOMAIN y \union DOMAIN z : At(y, k) < At(z, k) /\ \A j \in 1 .. k - 1 : At(y, j) = At(z, j)
    BY DEF ReleasedBefore
<1> HIDE DEF x, y, z
<1>5. i \in Nat /\ k \in Nat /\ i >= 1 /\ k >= 1
    BY <1>a, <1>b, <1>c, <1>2, <1>3
<1> DEFINE m == IF i <= k THEN i ELSE k
<1>6. m \in Nat /\ m >= 1 /\ m <= i /\ m <= k /\ (m = i \/ m = k)
    BY <1>5
<1>7. \A j \in 1 .. m - 1 : At(x, j) = At(z, j)
  <2>1. ASSUME NEW j \in 1 .. m - 1 PROVE j \in 1 .. i - 1 /\ j \in 1 .. k - 1
      BY <1>5, <1>6
  <2> QED
      BY <2>1, <1>2, <1>3
<1>8. At(x, m) < At(z, m)
  <2> DEFINE X == At(x, m)
             Y == At(y, m)
             Z == At(z, m)
  <2>1. X \in Nat /\ Y \in Nat /\ Z \in Nat
      BY <1>a, <1>b, <1>c, <1>6
  <2>2. CASE i < k
    <3>1. m = i /\ i \in 1 .. k - 1
        BY <2>2, <1>5
    <3>2. X < Y /\ Y = Z
        BY <3>1, <1>2, <1>3
    <3> QED
        BY <3>2
  <2>3. CASE i = k
    <3>1. m = i /\ m = k
        BY <2>3, <1>5
    <3>2. X < Y /\ Y < Z
        BY <3>1, <1>2, <1>3
    <3> HIDE DEF X, Y, Z
    <3>3. X < Z
        BY <3>2, <2>1
    <3> QED
        BY <3>3 DEF X, Z
  <2>4. CASE k < i
    <3>1. m = k /\ k \in 1 .. i - 1
        BY <2>4, <1>5
    <3>2. X = Y /\ Y < Z
        BY <3>1, <1>2, <1>3
    <3> QED
        BY <3>2
  <2> QED
      BY <1>5, <2>2, <2>3, <2>4
<1>9. m \in DOMAIN x \union DOMAIN z
  <2>1. ASSUME m \notin DOMAIN x, m \notin DOMAIN z PROVE FALSE
    <3>1. At(x, m) = 0 /\ At(z, m) = 0
        BY <2>1, <1>a, <1>c
    <3> QED
        BY <3>1, <1>8
  <2> QED
      BY <2>1
<1> HIDE DEF m
<1> USE DEF x, y, z
<1> QED
    BY <1>7, <1>8, <1>9 DEF ReleasedBefore

LEMMA LaterIsSomething ==
    ASSUME NEW a \in Tag, NEW b \in Tag, ReleasedBefore(a, b)
    PROVE  b # << >>
<1> DEFINE x == parse_v(a)
           y == parse_v(b)
<1>1. PICK i \in DOMAIN x \union DOMAIN y : At(x, i) < At(y, i)
    BY DEF ReleasedBefore
<1>a. (\A k \in DOMAIN x : k \in Nat) /\ (\A k \in Nat : At(x, k) \in Nat)
    BY PartsAreNumbers
<1>b. (\A k \in DOMAIN y : k \in Nat) /\ (\A k : k \notin DOMAIN y => At(y, k) = 0)
    BY PartsAreNumbers
<1>3. b = << >> => DOMAIN y = {}
    BY DEF parse_v
<1> HIDE DEF x, y
<1> QED
    BY <1>1, <1>a, <1>b, <1>3

\* No executable is older than itself.
LEMMA NotBeforeItself ==
    ASSUME NEW a \in Tag
    PROVE  ~ReleasedBefore(a, a)
<1> DEFINE x == parse_v(a)
<1>1. \A i \in DOMAIN x : i \in Nat /\ At(x, i) \in Nat
    BY PartsAreNumbers
<1>2. \A i \in DOMAIN x : ~(At(x, i) < At(x, i))
  <2> HIDE DEF x
  <2> QED
      BY <1>1
<1> QED
    BY <1>2 DEF ReleasedBefore

Place == {"ready", "download", "verify", "extract", "write", "swap", "aside", "swap_aside", "next",
          "up_to_date", "failed", "updated", "killed"}
QuitWhy == {"none", "network", "checksum", "archive", "io"}
Exe == [tag : Tag, damaged : BOOLEAN, unchecked : BOOLEAN]
Info == [tag : Tag, archive : BOOLEAN, sums : {"none", "unlisted", "listed"}]
Locals == [pc : Place, why : QuitWhy, self : Tag, info : Info, damaged : BOOLEAN, unchecked : BOOLEAN,
           target : 0 .. Len(Siblings)]

UpdateTyped ==
    /\ platform \in {"unix", "windows"}
    /\ latest \in Info
    /\ disk \in [Binary -> [exe : Exe, old : Exe]]
    /\ updater \in [Updater -> Locals]

\* An executable, or .old, is no older than the first one, and damaged only if
\* no checksum was looked at.
Fit(x) ==
    /\ x # Absent => ~ReleasedBefore(x.tag, InstalledTag)
    /\ x.damaged => x.unchecked

AllFit ==
    /\ \A b \in Binary : Fit(disk[b].exe) /\ Fit(disk[b].old)
    /\ \A t \in announced : ReleasedBefore(InstalledTag, t)

AtWork == {"download", "verify", "extract", "write", "swap", "aside", "swap_aside", "next"}

\* What an updater at work has found out, and which file it is at.
Found(s) ==
    /\ s.pc \in AtWork \union {"updated"} =>
          ReleasedBefore(s.self, s.info.tag) /\ ~ReleasedBefore(s.info.tag, InstalledTag)
    /\ s.pc \in {"extract", "write", "swap", "aside", "swap_aside", "next", "updated"} /\ s.damaged =>
          s.unchecked
    /\ s.pc \in {"ready", "download", "verify", "failed"} => s.target = 0
    /\ s.target # 0 => Siblings[s.target] # OwnName
    /\ platform = "unix" => s.pc \notin {"aside", "swap_aside"}

\* An updater between the two renames of the own executable.
BetweenRenames(u) == updater[u].pc = "swap_aside" /\ updater[u].target = 0

\* While no two updaters overlap, one at most is at work, and the own executable is
\* away only between the two renames, or for good when the updater died there.
OwnFile ==
    /\ platform = "unix" => disk[OwnName].exe # Absent
    /\ ~overlap =>
          /\ \A u, o \in Updater : updater[u].pc \in AtWork /\ updater[o].pc \in AtWork => u = o
          /\ \A u \in Updater : BetweenRenames(u) => disk[OwnName].exe = Absent
          /\ disk[OwnName].exe = Absent =>
                /\ disk[OwnName].old # Absent
                /\ \E u \in Updater :
                      \/ BetweenRenames(u)
                      \/ updater[u].pc = "killed" /\ \A o \in Updater : updater[o].pc \notin AtWork

\* A lone updater has touched nothing before the own executable is in place.
Untouched(u) ==
    updater[u].target = 0 /\ updater[u].pc \notin {"next", "updated", "killed"} =>
        \A b \in Binary : disk[b].exe \in {Installed, Absent} /\ disk[b].old \in {Installed, Absent}

InPlace(u) ==
    (updater[u].target # 0 \/ updater[u].pc \in {"next", "updated"}) /\ updater[u].pc # "killed" =>
        disk[OwnName].exe = Version(u)

UpdateInv ==
    /\ UpdateTyped
    /\ AllFit
    /\ \A u \in Updater : Found(updater[u])
    /\ OwnFile
    /\ \A u \in Updater : Lone(u) => Untouched(u) /\ InPlace(u)

LEMMA OwnIsBinary == OwnName \in Binary /\ \A n \in 1 .. Len(Siblings) : n \in DOMAIN Siblings /\ Siblings[n] \in Binary
    BY UpdateAssumption DEF Binary

LEMMA AbsentTyped == Absent \in Exe /\ Installed \in Exe /\ Absent # Installed
<1>1. << >> \in Tag /\ InstalledTag \in Tag /\ InstalledTag # << >>
    BY UpdateAssumption DEF Tag
<1> QED
    BY <1>1 DEF Absent, Installed, Exe

\* Init is one of the states the invariant describes.
LEMMA UpdateInitInv == UpdateInit => UpdateInv
<1> SUFFICES ASSUME UpdateInit PROVE UpdateInv
    OBVIOUS
<1>a. latest \in Info /\ InstalledTag \in Tag
    BY UpdateAssumption DEF UpdateInit, Release, Info, Tag
<1>b. \A b \in Binary : disk[b].exe \in {Installed, Absent} /\ disk[b].old = Absent
    BY DEF UpdateInit
<1>1. UpdateTyped
  <2>1. disk \in [Binary -> [exe : Exe, old : Exe]]
      BY AbsentTyped DEF UpdateInit
  <2>2. 0 \in 0 .. Len(Siblings)
      BY UpdateAssumption
  <2>3. updater \in [Updater -> Locals]
      BY <1>a, <2>2 DEF UpdateInit, Locals, Place, QuitWhy
  <2> QED
      BY <1>a, <2>1, <2>3 DEF UpdateTyped, UpdateInit
<1>2. AllFit
  <2>1. Fit(Installed) /\ Fit(Absent)
      BY <1>a, NotBeforeItself DEF Fit, Installed, Absent
  <2> QED
      BY <1>b, <2>1 DEF AllFit, UpdateInit
<1>3. ASSUME NEW u \in Updater PROVE Found(updater[u]) /\ Untouched(u) /\ InPlace(u) /\ updater[u].pc = "ready"
  <2>1. updater[u].pc = "ready" /\ updater[u].target = 0
      BY DEF UpdateInit
  <2> QED
      BY <1>b, <2>1 DEF Found, AtWork, Untouched, InPlace
<1>4. OwnFile
    BY <1>3, AbsentTyped DEF OwnFile, UpdateInit, AtWork, BetweenRenames
<1> QED
    BY <1>1, <1>2, <1>3, <1>4 DEF UpdateInv

\* A step of one updater that leaves the disk alone.
LEMMA DiskAlone ==
    ASSUME UpdateInv, NEW u \in Updater, NEW t \in Locals,
           updater' = [updater EXCEPT ![u] = t],
           UNCHANGED <<platform, latest, disk, announced, overlap>>,
           Found(t),
           t.pc \in AtWork => updater[u].pc \in AtWork,
           t.pc = "swap_aside" => updater[u].pc = "swap_aside" /\ t.target = updater[u].target,
           updater[u].pc = "swap_aside" => t.pc = "killed",
           updater[u].pc = "killed" => t.pc = "killed",
           t.target = 0 /\ t.pc \notin {"next", "updated", "killed"} =>
               updater[u].target = 0 /\ updater[u].pc \notin {"next", "updated", "killed"},
           (t.target # 0 \/ t.pc \in {"next", "updated"}) /\ t.pc # "killed" =>
               /\ updater[u].target # 0 \/ updater[u].pc \in {"next", "updated"}
               /\ updater[u].pc # "killed"
               /\ t.info = updater[u].info /\ t.damaged = updater[u].damaged /\ t.unchecked = updater[u].unchecked,
           t.pc # "ready"
    PROVE  UpdateInv'
<1>1. updater'[u] = t /\ \A o \in Updater \ {u} : updater'[o] = updater[o]
    BY DEF UpdateInv, UpdateTyped
<1>2. UpdateTyped'
    BY DEF UpdateInv, UpdateTyped
<1>3. AllFit'
    BY DEF UpdateInv, AllFit, Fit
<1>4. \A o \in Updater : Found(updater[o])'
    BY <1>1 DEF UpdateInv, Found
<1>5. OwnFile'
  <2>1. ASSUME ~overlap PROVE \A v, o \in Updater : updater'[v].pc \in AtWork /\ updater'[o].pc \in AtWork => v = o
    <3>1. \A v \in Updater : updater'[v].pc \in AtWork => updater[v].pc \in AtWork
        BY <1>1
    <3> QED
        BY <2>1, <3>1 DEF UpdateInv, OwnFile
  <2>2. \A v \in Updater : BetweenRenames(v)' => BetweenRenames(v)
      BY <1>1 DEF BetweenRenames
  <2>3. ASSUME ~overlap, disk[OwnName].exe = Absent
        PROVE  \E v \in Updater :
                  \/ BetweenRenames(v)'
                  \/ updater'[v].pc = "killed" /\ \A o \in Updater : updater'[o].pc \notin AtWork
    <3>1. PICK v \in Updater : \/ BetweenRenames(v)
                               \/ updater[v].pc = "killed" /\ \A o \in Updater : updater[o].pc \notin AtWork
        BY <2>3 DEF UpdateInv, OwnFile
    <3>2. CASE BetweenRenames(v) /\ v # u
        BY <3>2, <1>1 DEF BetweenRenames
    <3>3. CASE BetweenRenames(v) /\ v = u
      <4>1. updater'[u].pc = "killed"
          BY <3>3, <1>1 DEF BetweenRenames
      <4>2. \A o \in Updater : updater[o].pc \in AtWork => o = u
          BY <2>3, <3>3 DEF UpdateInv, OwnFile, BetweenRenames, AtWork
      <4>3. \A o \in Updater : updater'[o].pc \notin AtWork
          BY <4>1, <4>2, <1>1 DEF AtWork
      <4> QED
          BY <4>1, <4>3
    <3>4. CASE updater[v].pc = "killed" /\ \A o \in Updater : updater[o].pc \notin AtWork
      <4>1. updater'[v].pc = "killed"
          BY <3>4, <1>1
      <4>2. \A o \in Updater : updater'[o].pc \notin AtWork
          BY <3>4, <1>1
      <4> QED
          BY <4>1, <4>2
    <3> QED
        BY <3>1, <3>2, <3>3, <3>4
  <2>4. UNCHANGED <<platform, disk, overlap>>
      OBVIOUS
  <2>5. OwnFile
      BY DEF UpdateInv
  <2> QED
      BY <2>1, <2>2, <2>3, <2>4, <2>5 DEF OwnFile
<1>6. ASSUME NEW v \in Updater, Lone(v)' PROVE Untouched(v)' /\ InPlace(v)'
  <2>1. CASE v = u
    <3>1. Lone(u)
        BY <1>6, <2>1, <1>1 DEF Lone
    <3>2. Untouched(u) /\ InPlace(u)
        BY <3>1 DEF UpdateInv
    <3>3. Untouched(u)'
        BY <3>2, <1>1 DEF Untouched
    <3>4. InPlace(u)'
        BY <3>2, <1>1 DEF InPlace, Version
    <3> QED
        BY <2>1, <3>3, <3>4
  <2>2. CASE v # u
    <3>1. t.pc = "ready"
        BY <1>6, <2>2, <1>1 DEF Lone
    <3> QED
        BY <3>1
  <2> QED
      BY <2>1, <2>2
<1> QED
    BY <1>2, <1>3, <1>4, <1>5, <1>6 DEF UpdateInv

\* A step of one updater that changes the file it is at.
LEMMA FileMoves ==
    ASSUME UpdateInv, NEW u \in Updater, NEW t \in Locals, NEW d \in [exe : Exe, old : Exe],
           updater' = [updater EXCEPT ![u] = t],
           disk' = [disk EXCEPT ![Target(u)] = d],
           UNCHANGED <<platform, latest, announced, overlap>>,
           updater[u].pc \in {"swap", "aside", "swap_aside"},
           t.pc \in {"next", "failed", "swap_aside"},
           t.target = updater[u].target, t.info = updater[u].info,
           t.damaged = updater[u].damaged, t.unchecked = updater[u].unchecked,
           Fit(d.exe) /\ Fit(d.old), Found(t),
           t.target = 0 =>
               /\ t.pc = "next" => d.exe = Version(u)
               /\ t.pc # "next" /\ (\A b \in Binary : disk[b].exe \in {Installed, Absent} /\ disk[b].old \in {Installed, Absent})
                                      => d.exe \in {Installed, Absent} /\ d.old \in {Installed, Absent}
               /\ t.pc = "swap_aside" => d.exe = Absent /\ d.old # Absent /\ platform = "windows"
               /\ t.pc # "swap_aside" => d.exe # Absent \/ (overlap /\ platform = "windows")
    PROVE  UpdateInv'
<1> DEFINE s == updater[u]
<1>0. s \in Locals /\ Target(u) \in Binary /\ Found(s)
  <2>1. s \in Locals
      BY DEF UpdateInv, UpdateTyped
  <2>2. s.target = 0 \/ s.target \in 1 .. Len(Siblings)
      BY <2>1, UpdateAssumption DEF Locals
  <2> QED
      BY <2>1, <2>2, OwnIsBinary DEF Target, UpdateInv
<1>1. updater'[u] = t /\ \A o \in Updater \ {u} : updater'[o] = updater[o]
    BY DEF UpdateInv, UpdateTyped
<1>2. disk'[Target(u)] = d /\ \A b \in Binary \ {Target(u)} : disk'[b] = disk[b]
    BY <1>0 DEF UpdateInv, UpdateTyped
<1>3. UpdateTyped'
    BY <1>0 DEF UpdateInv, UpdateTyped
<1>4. AllFit'
  <2>1. \A b \in Binary : Fit(disk'[b].exe) /\ Fit(disk'[b].old)
      BY <1>2 DEF UpdateInv, AllFit
  <2> QED
      BY <2>1 DEF UpdateInv, AllFit, Fit
<1>5. \A o \in Updater : Found(updater[o])'
    BY <1>1 DEF UpdateInv, Found
<1>6. \A v \in Updater : updater'[v].pc \in AtWork => updater[v].pc \in AtWork
    BY <1>1 DEF AtWork
<1>7. OwnFile'
  <2>0. OwnFile /\ s.pc \in AtWork
      BY DEF UpdateInv, AtWork
  <2>1. ~overlap => \A v, o \in Updater : updater'[v].pc \in AtWork /\ updater'[o].pc \in AtWork => v = o
      BY <1>6, <2>0 DEF OwnFile
  <2>2. ~overlap => \A v \in Updater \ {u} : ~BetweenRenames(v) /\ ~BetweenRenames(v)'
      BY <1>1, <2>0 DEF OwnFile, BetweenRenames, AtWork
  <2>3. CASE s.target = 0
    <3>1. disk'[OwnName] = d
        BY <2>3, <1>2 DEF Target
    <3>2. CASE t.pc = "swap_aside"
      <4>1. d.exe = Absent /\ d.old # Absent /\ platform = "windows" /\ BetweenRenames(u)'
          BY <2>3, <3>2, <1>1 DEF BetweenRenames
      <4> QED
          BY <3>1, <4>1, <2>1, <2>2 DEF OwnFile
    <3>3. CASE t.pc # "swap_aside"
      <4>1. d.exe # Absent \/ (overlap /\ platform = "windows")
          BY <2>3, <3>3
      <4>2. ~BetweenRenames(u)'
          BY <3>3, <1>1 DEF BetweenRenames
      <4> QED
          BY <3>1, <4>1, <4>2, <2>1, <2>2 DEF OwnFile
    <3> QED
        BY <3>2, <3>3
  <2>4. CASE s.target # 0
    <3>1. Target(u) # OwnName
        BY <2>4, <1>0 DEF Target, Found
    <3>2. disk'[OwnName] = disk[OwnName]
        BY <3>1, <1>2, OwnIsBinary
    <3>3. ~BetweenRenames(u) /\ ~BetweenRenames(u)'
        BY <2>4, <1>1 DEF BetweenRenames
    <3>4. ~overlap => disk[OwnName].exe # Absent
        BY <2>0, <2>2, <3>3 DEF OwnFile
    <3> QED
        BY <2>0, <2>1, <2>2, <3>2, <3>3, <3>4 DEF OwnFile
  <2> QED
      BY <2>3, <2>4
<1>8. ASSUME NEW v \in Updater, Lone(v)' PROVE Untouched(v)' /\ InPlace(v)'
  <2>1. v = u
      BY <1>8, <1>1 DEF Lone
  <2>2. Lone(u)
      BY <1>8, <2>1, <1>1 DEF Lone
  <2>3. Untouched(u) /\ InPlace(u)
      BY <2>2 DEF UpdateInv
  <2>4. Version(u)' = Version(u)
      BY <1>1 DEF Version
  <2>5. Untouched(u)'
    <3> SUFFICES ASSUME t.target = 0, t.pc # "next"
                 PROVE  \A b \in Binary : disk'[b].exe \in {Installed, Absent} /\ disk'[b].old \in {Installed, Absent}
        BY <1>1 DEF Untouched, Installed, Absent
    <3>1. \A b \in Binary : disk[b].exe \in {Installed, Absent} /\ disk[b].old \in {Installed, Absent}
        BY <2>3 DEF Untouched
    <3>2. d.exe \in {Installed, Absent} /\ d.old \in {Installed, Absent}
        BY <3>1
    <3> QED
        BY <3>1, <3>2, <1>2
  <2>6. InPlace(u)'
    <3>1. CASE t.target = 0
      <4>1. t.pc = "next" => disk'[OwnName].exe = Version(u)
          BY <3>1, <1>2 DEF Target
      <4> QED
          BY <3>1, <4>1, <2>4, <1>1 DEF InPlace
    <3>2. CASE t.target # 0
      <4>1. Target(u) # OwnName
          BY <3>2, <1>0 DEF Target, Found
      <4>2. disk[OwnName].exe = Version(u)
          BY <2>3, <3>2 DEF InPlace
      <4> QED
          BY <4>1, <4>2, <1>2, <2>4, OwnIsBinary DEF InPlace
    <3> QED
        BY <3>1, <3>2
  <2> QED
      BY <2>1, <2>5, <2>6
<1> QED
    BY <1>3, <1>4, <1>5, <1>7, <1>8 DEF UpdateInv

\* check_for_updates: a second updater at work is noted.
LEMMA CheckKeeps ==
    ASSUME UpdateInv, NEW u \in Updater, CheckForUpdates(u)
    PROVE  UpdateInv'
<1> DEFINE s == updater[u]
<1>0. s \in Locals /\ s.pc = "ready" /\ s.target = 0 /\ Found(s) /\ UNCHANGED <<platform, latest, disk, announced>>
      /\ DOMAIN updater = Updater /\ disk[OwnName].exe # Absent
    BY DEF CheckForUpdates, UpdateInv, UpdateTyped, Found
<1>1. disk[OwnName].exe \in Exe /\ latest \in Info /\ disk[OwnName].exe.tag \in Tag /\ latest.tag \in Tag /\ InstalledTag \in Tag
    BY OwnIsBinary, UpdateAssumption DEF UpdateInv, UpdateTyped, Exe, Info, Tag
<1>2. PICK t \in Locals :
        /\ updater' = [updater EXCEPT ![u] = t]
        /\ t.target = 0 /\ t.pc \in {"download", "up_to_date", "failed"}
        /\ Found(t)
  <2>1. CASE Quit(u, "network")
    <3> DEFINE t == [s EXCEPT !.pc = "failed", !.why = "network"]
    <3>1. updater' = [updater EXCEPT ![u] = t]
        BY <2>1, <1>0 DEF Quit
    <3>2. t \in Locals /\ t.pc = "failed" /\ t.target = 0
        BY <1>0 DEF Locals, Place, QuitWhy
    <3> HIDE DEF t
    <3>3. Found(t)
        BY <3>2 DEF Found, AtWork
    <3> QED
        BY <3>1, <3>2, <3>3
  <2>2. CASE updater' = [updater EXCEPT
             ![u].self = disk[OwnName].exe.tag,
             ![u].info = latest,
             ![u].pc = IF latest.archive /\ is_newer_version(disk[OwnName].exe.tag, latest.tag)
                       THEN "download" ELSE "up_to_date"]
    <3> DEFINE l == IF latest.archive /\ is_newer_version(disk[OwnName].exe.tag, latest.tag)
                    THEN "download" ELSE "up_to_date"
               t == [s EXCEPT !.self = disk[OwnName].exe.tag, !.info = latest, !.pc = l]
    <3>1. updater' = [updater EXCEPT ![u] = t]
        BY <2>2, <1>0
    <3>2. /\ l \in {"download", "up_to_date"}
          /\ l = "download" => is_newer_version(disk[OwnName].exe.tag, latest.tag)
        OBVIOUS
    <3> HIDE DEF l
    <3>3. t \in Locals /\ t.pc = l /\ t.target = 0 /\ t.self = disk[OwnName].exe.tag /\ t.info = latest
        BY <1>0, <1>1, <3>2 DEF Locals, Place
    <3> HIDE DEF t
    <3>4. l = "download" => ReleasedBefore(t.self, latest.tag) /\ ~ReleasedBefore(latest.tag, InstalledTag)
      <4> SUFFICES ASSUME l = "download" PROVE ReleasedBefore(t.self, latest.tag) /\ ~ReleasedBefore(latest.tag, InstalledTag)
          OBVIOUS
      <4>1. ReleasedBefore(t.self, latest.tag)
          BY <1>1, <3>2, <3>3, NewerIsLater
      <4>2. ~ReleasedBefore(t.self, InstalledTag)
          BY <1>0, <3>3, OwnIsBinary DEF UpdateInv, AllFit, Fit
      <4> QED
          BY <4>1, <4>2, <1>1, <3>3, LaterThanLater
    <3>5. Found(t)
        BY <3>2, <3>3, <3>4 DEF Found, AtWork
    <3> QED
        BY <3>1, <3>2, <3>3, <3>5
  <2> QED
      BY <2>1, <2>2 DEF CheckForUpdates
<1>3. updater'[u] = t /\ \A o \in Updater \ {u} : updater'[o] = updater[o]
    BY <1>0, <1>2
<1>4. overlap' = (overlap \/ \E o \in Updater \ {u} : updater[o].pc \in AtWork)
    BY DEF CheckForUpdates, Active, AtWork
<1>5. UpdateTyped'
    BY <1>0, <1>2 DEF UpdateInv, UpdateTyped
<1>6. AllFit'
    BY <1>0 DEF UpdateInv, AllFit, Fit
<1>7. \A o \in Updater : Found(updater[o])'
    BY <1>0, <1>2, <1>3 DEF UpdateInv, Found
<1>8. OwnFile'
  <2>1. disk'[OwnName].exe # Absent
      BY <1>0
  <2>2. ASSUME ~overlap' PROVE \A v, o \in Updater : updater'[v].pc \in AtWork /\ updater'[o].pc \in AtWork => v = o
    <3>1. \A o \in Updater \ {u} : updater'[o].pc \notin AtWork
        BY <2>2, <1>3, <1>4
    <3> QED
        BY <3>1
  <2>3. ASSUME ~overlap' PROVE \A v \in Updater : ~BetweenRenames(v)'
    <3>1. \A o \in Updater \ {u} : updater'[o].pc \notin AtWork
        BY <2>3, <1>3, <1>4
    <3> QED
        BY <3>1, <1>2, <1>3 DEF BetweenRenames, AtWork
  <2> QED
      BY <2>1, <2>2, <2>3 DEF OwnFile
<1>9. ASSUME NEW v \in Updater, Lone(v)' PROVE Untouched(v)' /\ InPlace(v)'
  <2>1. v = u
      BY <1>2, <1>3, <1>9 DEF Lone
  <2>2. Lone(u)
      BY <2>1, <1>3, <1>9 DEF Lone
  <2>3. Untouched(u)
      BY <2>2 DEF UpdateInv
  <2>4. Untouched(u)' /\ InPlace(u)'
      BY <2>3, <1>0, <1>2, <1>3 DEF Untouched, InPlace
  <2> QED
      BY <2>1, <2>4
<1> QED
    BY <1>5, <1>6, <1>7, <1>8, <1>9 DEF UpdateInv

\* What a move of an updater leaves of its locals.
Kept(t, s) ==
    /\ t.self = s.self /\ t.info = s.info /\ t.damaged = s.damaged /\ t.unchecked = s.unchecked
    /\ t.target = s.target

LEMMA GotoMoves ==
    ASSUME UpdateTyped, NEW u \in Updater, NEW l \in Place, Goto(u, l)
    PROVE  \E t \in Locals : updater' = [updater EXCEPT ![u] = t] /\ t.pc = l /\ Kept(t, updater[u])
<1> DEFINE s == updater[u]
           t == [s EXCEPT !.pc = l]
<1>1. s \in Locals
    BY DEF UpdateTyped
<1>2. updater' = [updater EXCEPT ![u] = t]
    BY DEF Goto, UpdateTyped
<1>3. t \in Locals /\ t.pc = l /\ Kept(t, s)
    BY <1>1 DEF Locals, Kept
<1> QED
    BY <1>2, <1>3

LEMMA QuitMoves ==
    ASSUME UpdateTyped, NEW u \in Updater, NEW w \in QuitWhy, Quit(u, w)
    PROVE  \E t \in Locals : updater' = [updater EXCEPT ![u] = t] /\ t.pc = "failed" /\ Kept(t, updater[u])
<1> DEFINE s == updater[u]
           t == [s EXCEPT !.pc = "failed", !.why = w]
<1>1. s \in Locals
    BY DEF UpdateTyped
<1>2. updater' = [updater EXCEPT ![u] = t]
    BY DEF Quit, UpdateTyped
<1>3. t \in Locals /\ t.pc = "failed" /\ Kept(t, s)
    BY <1>1 DEF Locals, Kept, Place
<1> QED
    BY <1>2, <1>3

\* replace_executable failed: the end for the own executable, the next file
\* otherwise.
LEMMA ReplaceFailedMoves ==
    ASSUME UpdateTyped, NEW u \in Updater, ReplaceFailed(u)
    PROVE  \E t \in Locals :
              /\ updater' = [updater EXCEPT ![u] = t]
              /\ t.pc = IF updater[u].target = 0 THEN "failed" ELSE "next"
              /\ Kept(t, updater[u])
<1>1. CASE updater[u].target = 0
  <2>1. Quit(u, "io") /\ "io" \in QuitWhy
      BY <1>1 DEF ReplaceFailed, QuitWhy
  <2> QED
      BY <1>1, <2>1, QuitMoves
<1>2. CASE updater[u].target # 0
  <2>1. Goto(u, "next") /\ "next" \in Place
      BY <1>2 DEF ReplaceFailed, Place
  <2> QED
      BY <1>2, <2>1, GotoMoves
<1> QED
    BY <1>1, <1>2

\* An updater that fails at the own executable, or leaves a sibling out.
LEMMA FailureKeeps ==
    ASSUME UpdateInv, NEW u \in Updater, NEW t \in Locals,
           updater' = [updater EXCEPT ![u] = t],
           UNCHANGED <<platform, latest, disk, announced, overlap>>,
           updater[u].pc \in {"download", "verify", "extract", "write", "swap", "aside"},
           t.pc = (IF updater[u].target = 0 THEN "failed" ELSE "next"),
           Kept(t, updater[u])
    PROVE  UpdateInv'
<1>1. Found(updater[u])
    BY DEF UpdateInv
<1>2. Found(t)
    BY <1>1 DEF Found, Kept, AtWork
<1> QED
    BY <1>1, <1>2, DiskAlone DEF Kept, Found, AtWork

LEMMA DownloadKeeps ==
    ASSUME UpdateInv, NEW u \in Updater, Download(u)
    PROVE  UpdateInv'
<1> DEFINE s == updater[u]
<1>0. /\ s \in Locals /\ s.pc = "download" /\ Found(s) /\ s.target = 0 /\ UpdateTyped
      /\ UNCHANGED <<platform, latest, disk, announced, overlap>>
    BY DEF Download, UpdateInv, UpdateTyped, Found
<1>1. CASE Quit(u, "network")
  <2>1. PICK t \in Locals : updater' = [updater EXCEPT ![u] = t] /\ t.pc = "failed" /\ Kept(t, s)
      BY <1>0, <1>1, QuitMoves DEF QuitWhy
  <2> QED
      BY <1>0, <2>1, FailureKeeps
<1>2. CASE \E damaged \in BOOLEAN : updater' = [updater EXCEPT ![u].pc = "verify", ![u].damaged = damaged]
  <2>1. PICK damaged \in BOOLEAN : updater' = [updater EXCEPT ![u].pc = "verify", ![u].damaged = damaged]
      BY <1>2
  <2> DEFINE t == [s EXCEPT !.pc = "verify", !.damaged = damaged]
  <2>2. updater' = [updater EXCEPT ![u] = t]
      BY <1>0, <2>1
  <2>3. t \in Locals /\ t.pc = "verify" /\ t.target = s.target /\ t.self = s.self /\ t.info = s.info
      BY <1>0 DEF Locals, Place
  <2> HIDE DEF t
  <2>4. Found(t)
      BY <1>0, <2>3 DEF Found, AtWork
  <2> QED
      BY <1>0, <2>2, <2>3, <2>4, DiskAlone DEF AtWork
<1> QED
    BY <1>1, <1>2 DEF Download

LEMMA VerifyKeeps ==
    ASSUME UpdateInv, NEW u \in Updater, Verify(u)
    PROVE  UpdateInv'
<1> DEFINE s == updater[u]
<1>0. /\ s \in Locals /\ s.pc = "verify" /\ Found(s) /\ s.target = 0 /\ UpdateTyped
      /\ UNCHANGED <<platform, latest, disk, announced, overlap>>
    BY DEF Verify, UpdateInv, UpdateTyped, Found
<1>1. PICK listed \in BOOLEAN :
          IF verify(s.info, s.damaged, listed)
          THEN updater' = [updater EXCEPT ![u].pc = "extract",
                  ![u].unchecked = (s.info.sums = "none" \/ ~listed)]
          ELSE Quit(u, "checksum")
    BY DEF Verify
<1>2. CASE ~verify(s.info, s.damaged, listed)
  <2>0. Quit(u, "checksum") /\ "checksum" \in QuitWhy
      BY <1>1, <1>2 DEF QuitWhy
  <2>1. PICK t \in Locals : updater' = [updater EXCEPT ![u] = t] /\ t.pc = "failed" /\ Kept(t, s)
      BY <1>0, <2>0, QuitMoves
  <2> QED
      BY <1>0, <2>1, FailureKeeps
<1>3. CASE verify(s.info, s.damaged, listed)
  <2> DEFINE w == (s.info.sums = "none" \/ ~listed)
             t == [s EXCEPT !.pc = "extract", !.unchecked = w]
  <2>1. w \in BOOLEAN
      OBVIOUS
  <2>2. updater' = [updater EXCEPT ![u] = t]
      BY <1>0, <1>1, <1>3
  <2>3. s.damaged => w
    <3>1. s.info.sums \in {"none", "unlisted", "listed"} /\ s.damaged \in BOOLEAN
        BY <1>0 DEF Locals, Info
    <3> QED
        BY <1>3, <3>1 DEF verify
  <2> HIDE DEF w
  <2>4. t \in Locals /\ t.pc = "extract" /\ t.target = s.target /\ t.self = s.self /\ t.info = s.info
        /\ t.damaged = s.damaged /\ t.unchecked = w
      BY <1>0, <2>1 DEF Locals, Place
  <2> HIDE DEF t
  <2>5. Found(t)
      BY <1>0, <2>3, <2>4 DEF Found, AtWork
  <2> QED
      BY <1>0, <2>2, <2>4, <2>5, DiskAlone DEF AtWork
<1> QED
    BY <1>2, <1>3

LEMMA ExtractKeeps ==
    ASSUME UpdateInv, NEW u \in Updater, Extract(u)
    PROVE  UpdateInv'
<1> DEFINE s == updater[u]
<1>0. /\ s \in Locals /\ s.pc = "extract" /\ Found(s) /\ UpdateTyped
      /\ UNCHANGED <<platform, latest, disk, announced, overlap>>
    BY DEF Extract, UpdateInv, UpdateTyped
<1>1. CASE Goto(u, "write")
  <2>1. PICK t \in Locals : updater' = [updater EXCEPT ![u] = t] /\ t.pc = "write" /\ Kept(t, s)
      BY <1>0, <1>1, GotoMoves DEF Place
  <2>2. Found(t)
      BY <1>0, <2>1 DEF Found, AtWork, Kept
  <2> QED
      BY <1>0, <2>1, <2>2, DiskAlone DEF AtWork, Kept
<1>2. CASE s.target = 0 /\ Quit(u, "archive")
  <2>1. PICK t \in Locals : updater' = [updater EXCEPT ![u] = t] /\ t.pc = "failed" /\ Kept(t, s)
      BY <1>0, <1>2, QuitMoves DEF QuitWhy
  <2> QED
      BY <1>0, <1>2, <2>1, FailureKeeps
<1>3. CASE s.target # 0 /\ Goto(u, "next")
  <2>1. PICK t \in Locals : updater' = [updater EXCEPT ![u] = t] /\ t.pc = "next" /\ Kept(t, s)
      BY <1>0, <1>3, GotoMoves DEF Place
  <2> QED
      BY <1>0, <1>3, <2>1, FailureKeeps
<1> QED
    BY <1>1, <1>2, <1>3 DEF Extract

LEMMA WriteTempKeeps ==
    ASSUME UpdateInv, NEW u \in Updater, WriteTemp(u)
    PROVE  UpdateInv'
<1> DEFINE s == updater[u]
<1>0. /\ s \in Locals /\ s.pc = "write" /\ Found(s) /\ UpdateTyped
      /\ UNCHANGED <<platform, latest, disk, announced, overlap>>
    BY DEF WriteTemp, UpdateInv, UpdateTyped
<1>1. CASE Goto(u, IF platform = "unix" THEN "swap" ELSE "aside")
  <2> DEFINE l == IF platform = "unix" THEN "swap" ELSE "aside"
  <2>0. l \in Place /\ l \in {"swap", "aside"} /\ (platform = "unix" => l = "swap")
      BY DEF Place
  <2> HIDE DEF l
  <2>a. Goto(u, l)
      BY <1>1 DEF l
  <2>1. PICK t \in Locals : updater' = [updater EXCEPT ![u] = t] /\ t.pc = l /\ Kept(t, s)
      BY <1>0, <2>0, <2>a, GotoMoves
  <2>2. Found(t)
      BY <1>0, <2>0, <2>1 DEF Found, AtWork, Kept
  <2> QED
      BY <1>0, <2>0, <2>1, <2>2, DiskAlone DEF AtWork, Kept
<1>2. CASE ReplaceFailed(u)
  <2>1. PICK t \in Locals : /\ updater' = [updater EXCEPT ![u] = t]
                            /\ t.pc = IF s.target = 0 THEN "failed" ELSE "next"
                            /\ Kept(t, s)
      BY <1>0, <1>2, ReplaceFailedMoves
  <2> QED
      BY <1>0, <2>1, FailureKeeps
<1> QED
    BY <1>1, <1>2 DEF WriteTemp

\* What an updater is about to put in place.
LEMMA VersionFits ==
    ASSUME UpdateInv, NEW u \in Updater, updater[u].pc \in {"swap", "aside", "swap_aside"}
    PROVE  Version(u) \in Exe /\ Fit(Version(u)) /\ Version(u) # Absent
<1> DEFINE s == updater[u]
<1>1. s \in Locals /\ Found(s) /\ s.self \in Tag /\ s.info.tag \in Tag
    BY DEF UpdateInv, UpdateTyped, Locals, Info
<1>2. ReleasedBefore(s.self, s.info.tag) /\ ~ReleasedBefore(s.info.tag, InstalledTag) /\ (s.damaged => s.unchecked)
    BY <1>1 DEF Found, AtWork
<1>3. s.info.tag # << >>
    BY <1>1, <1>2, LaterIsSomething
<1>4. Version(u) \in Exe
    BY <1>1 DEF Version, Exe, Locals
<1> QED
    BY <1>2, <1>3, <1>4 DEF Version, Fit, Absent

LEMMA SwapKeeps ==
    ASSUME UpdateInv, NEW u \in Updater, Swap(u)
    PROVE  UpdateInv'
<1> DEFINE s == updater[u]
<1>0. /\ s \in Locals /\ s.pc = "swap" /\ Found(s) /\ UpdateTyped
      /\ UNCHANGED <<platform, latest, announced, overlap>>
    BY DEF Swap, UpdateInv, UpdateTyped
<1>1. CASE disk' = [disk EXCEPT ![Target(u)].exe = Version(u)] /\ Goto(u, "next")
  <2>1. PICK t \in Locals : updater' = [updater EXCEPT ![u] = t] /\ t.pc = "next" /\ Kept(t, s)
      BY <1>0, <1>1, GotoMoves DEF Place
  <2>2. s.target = 0 \/ s.target \in 1 .. Len(Siblings)
      BY <1>0, UpdateAssumption DEF Locals
  <2>3. Target(u) \in Binary
      BY <2>2, OwnIsBinary DEF Target
  <2> DEFINE d == [disk[Target(u)] EXCEPT !.exe = Version(u)]
  <2>4. disk' = [disk EXCEPT ![Target(u)] = d]
      BY <1>0, <1>1, <2>3 DEF UpdateTyped
  <2>5. Version(u) \in Exe /\ Fit(Version(u)) /\ Version(u) # Absent
      BY <1>0, VersionFits
  <2>6. d \in [exe : Exe, old : Exe] /\ d.exe = Version(u) /\ d.old = disk[Target(u)].old
      BY <1>0, <2>3, <2>5 DEF UpdateTyped
  <2> HIDE DEF d
  <2>7. Fit(d.exe) /\ Fit(d.old)
      BY <2>3, <2>5, <2>6 DEF UpdateInv, AllFit
  <2>8. Found(t)
      BY <1>0, <2>1 DEF Found, AtWork, Kept
  <2> QED
      BY <1>0, <2>1, <2>4, <2>5, <2>6, <2>7, <2>8, FileMoves DEF Kept
<1>2. CASE UNCHANGED disk /\ ReplaceFailed(u)
  <2>1. PICK t \in Locals : /\ updater' = [updater EXCEPT ![u] = t]
                            /\ t.pc = IF s.target = 0 THEN "failed" ELSE "next"
                            /\ Kept(t, s)
      BY <1>0, <1>2, ReplaceFailedMoves
  <2> QED
      BY <1>0, <1>2, <2>1, FailureKeeps
<1> QED
    BY <1>1, <1>2 DEF Swap

LEMMA MoveAsideKeeps ==
    ASSUME UpdateInv, NEW u \in Updater, MoveAside(u)
    PROVE  UpdateInv'
<1> DEFINE s == updater[u]
<1>0. /\ s \in Locals /\ s.pc = "aside" /\ Found(s) /\ UpdateTyped /\ platform = "windows"
      /\ UNCHANGED <<platform, latest, announced, overlap>>
    BY DEF MoveAside, UpdateInv, UpdateTyped, Found
<1>1. CASE /\ disk[Target(u)].exe # Absent
           /\ disk' = [disk EXCEPT ![Target(u)] = [exe |-> Absent, old |-> @.exe]]
           /\ Goto(u, "swap_aside")
  <2>1. PICK t \in Locals : updater' = [updater EXCEPT ![u] = t] /\ t.pc = "swap_aside" /\ Kept(t, s)
      BY <1>0, <1>1, GotoMoves DEF Place
  <2>2. s.target = 0 \/ s.target \in 1 .. Len(Siblings)
      BY <1>0, UpdateAssumption DEF Locals
  <2>3. Target(u) \in Binary
      BY <2>2, OwnIsBinary DEF Target
  <2> DEFINE d == [exe |-> Absent, old |-> disk[Target(u)].exe]
  <2>4. disk' = [disk EXCEPT ![Target(u)] = d]
      BY <1>0, <1>1, <2>3 DEF UpdateTyped
  <2>6. d \in [exe : Exe, old : Exe] /\ d.exe = Absent /\ d.old = disk[Target(u)].exe
      BY <1>0, <2>3, AbsentTyped DEF UpdateTyped
  <2> HIDE DEF d
  <2>7. Fit(d.exe) /\ Fit(d.old)
    <3>1. Fit(Absent)
        BY DEF Fit, Absent
    <3> QED
        BY <2>3, <2>6, <3>1 DEF UpdateInv, AllFit
  <2>8. Found(t)
      BY <1>0, <2>1 DEF Found, AtWork, Kept
  <2>9. (\A b \in Binary : disk[b].exe \in {Installed, Absent} /\ disk[b].old \in {Installed, Absent})
           => d.exe \in {Installed, Absent} /\ d.old \in {Installed, Absent}
      BY <2>3, <2>6
  <2> QED
      BY <1>0, <1>1, <2>1, <2>4, <2>6, <2>7, <2>8, <2>9, FileMoves DEF Kept
<1>2. CASE UNCHANGED disk /\ ReplaceFailed(u)
  <2>1. PICK t \in Locals : /\ updater' = [updater EXCEPT ![u] = t]
                            /\ t.pc = IF s.target = 0 THEN "failed" ELSE "next"
                            /\ Kept(t, s)
      BY <1>0, <1>2, ReplaceFailedMoves
  <2> QED
      BY <1>0, <1>2, <2>1, FailureKeeps
<1> QED
    BY <1>1, <1>2 DEF MoveAside

LEMMA SwapAsideKeeps ==
    ASSUME UpdateInv, NEW u \in Updater, SwapAside(u)
    PROVE  UpdateInv'
<1> DEFINE s == updater[u]
<1>0. /\ s \in Locals /\ s.pc = "swap_aside" /\ Found(s) /\ UpdateTyped /\ platform = "windows"
      /\ UNCHANGED <<platform, latest, announced, overlap>>
    BY DEF SwapAside, UpdateInv, UpdateTyped, Found
<1>2. s.target = 0 \/ s.target \in 1 .. Len(Siblings)
    BY <1>0, UpdateAssumption DEF Locals
<1>3. Target(u) \in Binary
    BY <1>2, OwnIsBinary DEF Target
<1>4. disk[Target(u)].old \in Exe /\ Fit(disk[Target(u)].old) /\ Fit(Absent)
    BY <1>0, <1>3 DEF UpdateTyped, UpdateInv, AllFit, Fit, Absent
<1>5. CASE disk' = [disk EXCEPT ![Target(u)] = [exe |-> Version(u), old |-> Absent]] /\ Goto(u, "next")
  <2>1. PICK t \in Locals : updater' = [updater EXCEPT ![u] = t] /\ t.pc = "next" /\ Kept(t, s)
      BY <1>0, <1>5, GotoMoves DEF Place
  <2> DEFINE d == [exe |-> Version(u), old |-> Absent]
  <2>4. disk' = [disk EXCEPT ![Target(u)] = d]
      BY <1>5
  <2>5. Version(u) \in Exe /\ Fit(Version(u)) /\ Version(u) # Absent
      BY <1>0, VersionFits
  <2>6. d \in [exe : Exe, old : Exe] /\ d.exe = Version(u) /\ d.old = Absent
      BY <2>5, AbsentTyped
  <2> HIDE DEF d
  <2>8. Found(t)
      BY <1>0, <2>1 DEF Found, AtWork, Kept
  <2> QED
      BY <1>0, <1>4, <2>1, <2>4, <2>5, <2>6, <2>8, FileMoves DEF Kept
<1>6. CASE disk' = [disk EXCEPT ![Target(u)] = [exe |-> @.old, old |-> Absent]] /\ ReplaceFailed(u)
  <2>1. PICK t \in Locals : /\ updater' = [updater EXCEPT ![u] = t]
                            /\ t.pc = IF s.target = 0 THEN "failed" ELSE "next"
                            /\ Kept(t, s)
      BY <1>0, <1>6, ReplaceFailedMoves
  <2> DEFINE d == [exe |-> disk[Target(u)].old, old |-> Absent]
  <2>4. disk' = [disk EXCEPT ![Target(u)] = d]
      BY <1>0, <1>3, <1>6 DEF UpdateTyped
  <2>6. d \in [exe : Exe, old : Exe] /\ d.exe = disk[Target(u)].old /\ d.old = Absent
      BY <1>4, AbsentTyped
  <2> HIDE DEF d
  <2>7. Fit(d.exe) /\ Fit(d.old)
      BY <1>4, <2>6
  <2>8. Found(t)
      BY <1>0, <2>1 DEF Found, AtWork, Kept
  <2>9. (\A b \in Binary : disk[b].exe \in {Installed, Absent} /\ disk[b].old \in {Installed, Absent})
           => d.exe \in {Installed, Absent} /\ d.old \in {Installed, Absent}
      BY <1>3, <2>6
  <2>10. t.target = 0 => d.exe # Absent \/ (overlap /\ platform = "windows")
    <3> SUFFICES ASSUME s.target = 0, ~overlap PROVE d.exe # Absent
        BY <1>0, <2>1 DEF Kept
    <3>1. BetweenRenames(u) /\ Target(u) = OwnName
        BY <1>0 DEF BetweenRenames, Target
    <3>2. disk[OwnName].old # Absent
        BY <3>1 DEF UpdateInv, OwnFile
    <3> QED
        BY <2>6, <3>1, <3>2
  <2>11. t.target = s.target /\ t.info = s.info /\ t.damaged = s.damaged /\ t.unchecked = s.unchecked
         /\ (t.target = 0 => t.pc = "failed") /\ t.pc \in {"next", "failed"}
      BY <2>1 DEF Kept
  <2> QED
      BY <1>0, <2>1, <2>4, <2>6, <2>7, <2>8, <2>9, <2>10, <2>11, FileMoves
<1> QED
    BY <1>5, <1>6 DEF SwapAside

LEMMA NextSiblingKeeps ==
    ASSUME UpdateInv, NEW u \in Updater, NextSibling(u)
    PROVE  UpdateInv'
<1> DEFINE s == updater[u]
           left == {i \in DOMAIN Siblings :
                       /\ i > s.target /\ Siblings[i] # OwnName
                       /\ disk[Siblings[i]].exe # Absent}
           g == IF left = {} THEN s.target ELSE CHOOSE i \in left : \A j \in left : i <= j
           l == IF left = {} THEN "updated" ELSE "extract"
           t == [s EXCEPT !.target = g, !.pc = l]
<1>0. /\ s \in Locals /\ s.pc = "next" /\ Found(s) /\ UpdateTyped
      /\ UNCHANGED <<platform, latest, disk, announced, overlap>>
    BY DEF NextSibling, UpdateInv, UpdateTyped
<1>1. DOMAIN Siblings = 1 .. Len(Siblings) /\ Len(Siblings) \in Nat
    BY UpdateAssumption
<1>2. updater' = [updater EXCEPT ![u] = t]
  <2>1. updater' = [updater EXCEPT ![u].target = IF left = {} THEN @ ELSE CHOOSE i \in left : \A j \in left : i <= j,
                                   ![u].pc = IF left = {} THEN "updated" ELSE "extract"]
      BY DEF NextSibling
  <2> HIDE DEF left
  <2>2. updater' = [updater EXCEPT ![u].target = g, ![u].pc = l]
      BY <2>1
  <2> HIDE DEF g, l
  <2> QED
      BY <1>0, <2>2 DEF UpdateTyped
<1>3. /\ g \in 0 .. Len(Siblings) /\ l \in {"updated", "extract"}
      /\ g # 0 => Siblings[g] # OwnName
      /\ l = "extract" => g # 0
  <2>1. CASE left = {}
      BY <1>0, <2>1 DEF Locals, Found
  <2>2. CASE left # {}
    <3>1. left \subseteq Nat /\ left \subseteq 1 .. Len(Siblings)
        BY <1>1
    <3>2. \E i \in left : \A j \in left : i <= j
        BY <2>2, <3>1, LeastExists
    <3>3. g \in left
        BY <2>2, <3>2
    <3> HIDE DEF g
    <3>4. g \in 1 .. Len(Siblings) /\ Siblings[g] # OwnName
        BY <3>1, <3>3
    <3>5. g # 0 /\ g \in 0 .. Len(Siblings)
        BY <1>1, <3>4
    <3> QED
        BY <2>2, <3>4, <3>5
  <2> QED
      BY <2>1, <2>2
<1> HIDE DEF g, l, left
<1>4. t \in Locals /\ t.pc = l /\ t.target = g /\ t.self = s.self /\ t.info = s.info
      /\ t.damaged = s.damaged /\ t.unchecked = s.unchecked
    BY <1>0, <1>3 DEF Locals, Place
<1> HIDE DEF t
<1>5. Found(t)
    BY <1>0, <1>3, <1>4 DEF Found, AtWork
<1> QED
    BY <1>0, <1>2, <1>3, <1>4, <1>5, DiskAlone DEF AtWork

LEMMA KillKeeps ==
    ASSUME UpdateInv, NEW u \in Updater, Kill(u)
    PROVE  UpdateInv'
<1>0. /\ Found(updater[u]) /\ UpdateTyped /\ updater[u].pc \in AtWork
      /\ UNCHANGED <<platform, latest, disk, announced, overlap>>
    BY DEF Kill, UpdateInv, UpdateTyped, Locals, Place, AtWork
<1>1. PICK t \in Locals : updater' = [updater EXCEPT ![u] = t] /\ t.pc = "killed" /\ Kept(t, updater[u])
    BY <1>0, GotoMoves DEF Kill, Place
<1>2. Found(t)
    BY <1>0, <1>1 DEF Found, AtWork, Kept
<1> QED
    BY <1>0, <1>1, <1>2, DiskAlone DEF AtWork, Kept

\* A release that appears, and one the daemon announces, move no updater.
LEMMA ServerKeeps ==
    ASSUME UpdateInv, UNCHANGED <<platform, disk, updater, overlap>>,
           latest' \in Info, \A x \in announced' : ReleasedBefore(InstalledTag, x)
    PROVE  UpdateInv'
<1>1. UpdateTyped'
    BY DEF UpdateInv, UpdateTyped
<1>2. AllFit'
    BY DEF UpdateInv, AllFit, Fit
<1>3. \A u \in Updater : Found(updater[u])'
    BY DEF UpdateInv, Found
<1>4. OwnFile'
    BY DEF UpdateInv, OwnFile, BetweenRenames
<1>5. \A u \in Updater : Lone(u)' => Untouched(u)' /\ InPlace(u)'
    BY DEF UpdateInv, Lone, Untouched, InPlace, Version
<1> QED
    BY <1>1, <1>2, <1>3, <1>4, <1>5 DEF UpdateInv

LEMMA UpdateNextInv == UpdateInv /\ [UpdateNext]_updateVars => UpdateInv'
<1> SUFFICES ASSUME UpdateInv, [UpdateNext]_updateVars PROVE UpdateInv'
    OBVIOUS
<1>0. InstalledTag \in Tag /\ latest \in Info /\ \A x \in announced : ReleasedBefore(InstalledTag, x)
    BY UpdateAssumption DEF UpdateInv, UpdateTyped, AllFit, Tag
<1>1. CASE \E tag \in ReleaseTags, archive \in BOOLEAN, sums \in {"none", "unlisted", "listed"} :
              PublishRelease(tag, archive, sums)
  <2>1. PICK tag \in ReleaseTags, archive \in BOOLEAN, sums \in {"none", "unlisted", "listed"} :
              PublishRelease(tag, archive, sums)
      BY <1>1
  <2>2. latest' \in Info
      BY <2>1, UpdateAssumption DEF PublishRelease, Release, Info, Tag
  <2> QED
      BY <1>0, <2>1, <2>2, ServerKeeps DEF PublishRelease
<1>2. CASE AnnounceUpdate
  <2>1. latest.tag \in Tag
      BY <1>0 DEF Info
  <2>2. ReleasedBefore(InstalledTag, latest.tag)
      BY <1>0, <1>2, <2>1, NewerIsLater DEF AnnounceUpdate
  <2> QED
      BY <1>0, <1>2, <2>2, ServerKeeps DEF AnnounceUpdate
<1>3. ASSUME NEW u \in Updater, UpdateStep(u) PROVE UpdateInv'
    BY <1>3, CheckKeeps, DownloadKeeps, VerifyKeeps, ExtractKeeps, WriteTempKeeps, SwapKeeps, MoveAsideKeeps,
       SwapAsideKeeps, NextSiblingKeeps DEF UpdateStep
<1>4. ASSUME NEW u \in Updater, Kill(u) PROVE UpdateInv'
    BY <1>4, KillKeeps
<1>5. CASE UNCHANGED updateVars
    BY <1>0, <1>5, ServerKeeps DEF updateVars
<1> QED
    BY <1>1, <1>2, <1>3, <1>4, <1>5 DEF UpdateNext

LEMMA UpdateInvSound == UpdateInv => UpdateSound
<1> SUFFICES ASSUME UpdateInv PROVE UpdateSound
    OBVIOUS
<1>1. ExecutableStays
  <2> SUFFICES ASSUME disk[OwnName].exe = Absent
               PROVE  /\ platform = "windows"
                      /\ overlap \/ disk[OwnName].old # Absent
                      /\ overlap \/ \E u \in Updater : updater[u].pc \in {"swap_aside", "killed"}
      BY DEF ExecutableStays
  <2>1. platform = "windows"
      BY DEF UpdateInv, UpdateTyped, OwnFile
  <2>2. ASSUME ~overlap PROVE disk[OwnName].old # Absent /\ \E u \in Updater : updater[u].pc \in {"swap_aside", "killed"}
      BY <2>2 DEF UpdateInv, OwnFile, BetweenRenames
  <2> QED
      BY <2>1, <2>2
<1>2. NeverOlder
    BY DEF UpdateInv, AllFit, Fit, Found, NeverOlder
<1>3. DamagedOnlyUnchecked
    BY DEF UpdateInv, AllFit, Fit, DamagedOnlyUnchecked
<1>4. ReportTrue
  <2>1. ASSUME NEW u \in Updater, Lone(u), updater[u].pc = "updated" PROVE disk[OwnName].exe = Version(u)
      BY <2>1 DEF UpdateInv, InPlace
  <2>2. ASSUME NEW u \in Updater, Lone(u), updater[u].pc = "failed"
        PROVE  \A b \in Binary : disk[b].exe \in {Installed, Absent}
      BY <2>2 DEF UpdateInv, Untouched, Found
  <2> QED
      BY <2>1, <2>2 DEF ReportTrue
<1> QED
    BY <1>1, <1>2, <1>3, <1>4 DEF UpdateSound

\* Whatever fails and wherever an updater dies, the executable stays in one
\* piece, nothing older or unverified is installed, and what is reported is true.
THEOREM UpdatesAreSafe == UpdateInit /\ [][UpdateNext]_updateVars => []UpdateSound
<1>1. UpdateInit /\ [][UpdateNext]_updateVars => []UpdateInv
    BY UpdateInitInv, UpdateNextInv, PTL
<1> QED
    BY <1>1, UpdateInvSound, PTL

-----------------------------------------------------------------------------
(* The outbox                                                              *)

\* The types the retry arithmetic needs.
Rows ==
    /\ clock \in Nat
    /\ outbox \subseteq Row
    /\ batch \subseteq Row

\* The inductive invariant.
OutboxIndInv == Rows /\ OutboxInv

\* An update changes status and retry count of the rows under one id, and
\* leaves every other row and every id and mutation as it is.
IsUpdate(new, x, st, n) ==
    /\ new \subseteq Row
    /\ \A z \in new : \E y \in outbox :
          /\ z.id = y.id /\ z.mutation = y.mutation /\ z.created_at = y.created_at
          /\ y.id = x.id => z.status = st /\ z.retry_count = n
          /\ y.id # x.id => z = y
    /\ \A y \in outbox : \E z \in new :
          /\ z.id = y.id /\ z.mutation = y.mutation
          /\ y.id # x.id => z = y

\* update_mutation_status is such an update.
LEMMA UpdatedRows ==
    ASSUME Rows, NEW x \in Row, NEW st \in {"pending", "failed"}, NEW n \in Nat
    PROVE  IsUpdate(Updated(x, st, n), x, st, n)
<1> DEFINE upd(y) == IF y.id = x.id THEN [y EXCEPT !.status = st, !.retry_count = n] ELSE y
<1>1. \A y \in outbox :
         /\ upd(y) \in Row
         /\ upd(y).id = y.id /\ upd(y).mutation = y.mutation
         /\ upd(y).created_at = y.created_at
         /\ y.id = x.id => upd(y).status = st /\ upd(y).retry_count = n
         /\ y.id # x.id => upd(y) = y
  BY DEF Rows, Row
<1>2. Updated(x, st, n) = {upd(y) : y \in outbox}
  BY DEF Updated
<1> HIDE DEF upd
<1> QED
  BY <1>1, <1>2 DEF IsUpdate

\* Handling a row of the batch: both outcomes keep the invariant.
LEMMA HandledRow ==
    ASSUME OutboxIndInv, NEW x \in batch, NEW st \in {"pending", "failed"}, NEW n \in Nat,
           n = x.retry_count + 1,
           st = "pending" => n <= MAX_RETRIES,
           st = "failed" => n = MAX_RETRIES + 1,
           clock' = clock,
           outbox' = Updated(x, st, n),
           batch' = batch \ {x}
    PROVE  OutboxIndInv'
<1>1. x \in Row /\ MAX_RETRIES \in Nat /\ Rows
  BY OutboxAssumption DEF OutboxIndInv, Rows
<1>2. IsUpdate(outbox', x, st, n)
  BY <1>1, UpdatedRows
<1>3. Rows'
  BY <1>2 DEF OutboxIndInv, Rows, IsUpdate
<1>4. \A z, w \in outbox' : z.id = w.id => z = w
  <2> SUFFICES ASSUME NEW z \in outbox', NEW w \in outbox', z.id = w.id PROVE z = w
    OBVIOUS
  <2>0. z \in Row /\ w \in Row
    BY <1>3 DEF Rows
  <2>1. PICK y \in outbox :
           /\ z.id = y.id /\ z.mutation = y.mutation /\ z.created_at = y.created_at
           /\ y.id = x.id => z.status = st /\ z.retry_count = n
           /\ y.id # x.id => z = y
    BY <1>2 DEF IsUpdate
  <2>2. PICK v \in outbox :
           /\ w.id = v.id /\ w.mutation = v.mutation /\ w.created_at = v.created_at
           /\ v.id = x.id => w.status = st /\ w.retry_count = n
           /\ v.id # x.id => w = v
    BY <1>2 DEF IsUpdate
  <2>3. y = v
    <3>1. y.id = v.id
      BY <2>1, <2>2
    <3>2. \A q, r \in outbox : q.id = r.id => q = r
      BY DEF OutboxIndInv, OutboxInv
    <3> QED
      BY <3>1, <3>2
  <2>4. CASE y.id = x.id
    BY <2>0, <2>1, <2>2, <2>3, <2>4 DEF Row
  <2>5. CASE y.id # x.id
    BY <2>1, <2>2, <2>3, <2>5
  <2> QED
    BY <2>4, <2>5
<1>5. \A u \in batch' :
         /\ u.status = "pending" /\ u.retry_count <= MAX_RETRIES
         /\ \E z \in outbox' : z.id = u.id /\ (~SameTick => z = u)
  <2> SUFFICES ASSUME NEW u \in batch'
               PROVE  /\ u.status = "pending" /\ u.retry_count <= MAX_RETRIES
                      /\ \E z \in outbox' : z.id = u.id /\ (~SameTick => z = u)
    OBVIOUS
  <2>1. u \in batch /\ u.id # x.id
    BY DEF OutboxIndInv, OutboxInv
  <2>2. PICK y \in outbox : y.id = u.id /\ (~SameTick => y = u)
    BY <2>1 DEF OutboxIndInv, OutboxInv
  <2>3. y \in outbox'
    BY <1>2, <2>1, <2>2 DEF IsUpdate
  <2> QED
    BY <2>1, <2>2, <2>3 DEF OutboxIndInv, OutboxInv
<1>6. GivenUpAfterRetries'
  <2> SUFFICES ASSUME NEW z \in outbox'
               PROVE  \/ z.status = "pending" /\ z.retry_count <= MAX_RETRIES
                      \/ z.status = "failed" /\ z.retry_count = MAX_RETRIES + 1
    BY DEF GivenUpAfterRetries
  <2>1. PICK y \in outbox : /\ y.id = x.id => z.status = st /\ z.retry_count = n
                            /\ y.id # x.id => z = y
    BY <1>2 DEF IsUpdate
  <2>2. CASE y.id = x.id
    BY <2>1, <2>2
  <2>3. CASE y.id # x.id
    BY <2>1, <2>3 DEF OutboxIndInv, OutboxInv, GivenUpAfterRetries
  <2> QED
    BY <2>2, <2>3
<1>7. \A u, v \in batch' : u.id = v.id => u = v
  BY DEF OutboxIndInv, OutboxInv
<1> QED
  BY <1>3, <1>4, <1>5, <1>6, <1>7 DEF OutboxIndInv, OutboxInv

LEMMA InitInv == Init => OutboxIndInv
BY DEF Init, OutboxIndInv, Rows, OutboxInv, GivenUpAfterRetries

\* A new row replaces the one under its id, if there is one.
LEMMA EnqueueInv ==
    ASSUME OutboxIndInv, NEW m \in Mutation, Enqueue(m)
    PROVE  OutboxIndInv'
<1> DEFINE row == [id |-> clock, mutation |-> m, status |-> "pending",
                   retry_count |-> 0, created_at |-> clock \div TicksPerSecond]
<1>1. row \in Row /\ row.id = clock /\ row.status = "pending" /\ row.retry_count = 0
  BY OutboxAssumption DEF OutboxIndInv, Rows, Row
<1>2. /\ outbox' = {y \in outbox : y.id # clock} \union {row}
      /\ clock' = clock /\ batch' = batch
      /\ SameTick \/ \A y \in outbox : y.id # clock
  BY DEF Enqueue, mutation_id
<1> HIDE DEF row
<1>3. Rows'
  BY <1>1, <1>2 DEF OutboxIndInv, Rows
<1>4. \A y, z \in outbox' : y.id = z.id => y = z
  BY <1>1, <1>2 DEF OutboxIndInv, OutboxInv
<1>5. \A u \in batch' : \E y \in outbox' : y.id = u.id /\ (~SameTick => y = u)
  <2> SUFFICES ASSUME NEW u \in batch
               PROVE  \E y \in outbox' : y.id = u.id /\ (~SameTick => y = u)
    BY <1>2
  <2>1. PICK y \in outbox : y.id = u.id /\ (~SameTick => y = u)
    BY DEF OutboxIndInv, OutboxInv
  <2> QED
    BY <1>1, <1>2, <2>1
<1>6. GivenUpAfterRetries'
  BY <1>1, <1>2, OutboxAssumption DEF OutboxIndInv, OutboxInv, GivenUpAfterRetries
<1> QED
  BY <1>2, <1>3, <1>4, <1>5, <1>6 DEF OutboxIndInv, OutboxInv

LEMMA NextInv ==
    ASSUME OutboxIndInv, [Next]_vars
    PROVE  OutboxIndInv'
<1>1. CASE Tick
  BY <1>1 DEF Tick, OutboxIndInv, Rows, OutboxInv, GivenUpAfterRetries
<1>2. ASSUME NEW m \in Mutation, Enqueue(m) PROVE OutboxIndInv'
  BY <1>2, EnqueueInv
<1>3. CASE Poll
  <2>1. PICK b \in Polls : batch' = b
    BY <1>3 DEF Poll
  <2>2. b \subseteq Pending
    BY DEF Polls, kSubset
  <2>3. UNCHANGED <<clock, outbox>>
    BY <1>3 DEF Poll
  <2>4. \A u \in batch' : u \in outbox /\ u.status = "pending"
    BY <2>1, <2>2 DEF Pending
  <2>5. \A u \in batch' : u.retry_count <= MAX_RETRIES
    BY <2>4 DEF OutboxIndInv, OutboxInv, GivenUpAfterRetries
  <2> QED
    BY <2>3, <2>4, <2>5 DEF OutboxIndInv, Rows, OutboxInv, GivenUpAfterRetries
<1>4. ASSUME NEW x \in batch, GiveUp(x) PROVE OutboxIndInv'
  <2>1. x \in Row /\ x.retry_count <= MAX_RETRIES
    BY DEF OutboxIndInv, Rows, OutboxInv
  <2>2. x.retry_count + 1 = MAX_RETRIES + 1 /\ x.retry_count + 1 \in Nat
    BY <1>4, <2>1, OutboxAssumption DEF GiveUp, Row
  <2> QED
    BY <1>4, <2>2, HandledRow DEF GiveUp, Done
<1>5. ASSUME NEW x \in batch, BackOff(x) PROVE OutboxIndInv'
  <2>1. x.retry_count + 1 \in Nat
    BY DEF OutboxIndInv, Rows, Row
  <2> QED
    BY <1>5, <2>1, HandledRow DEF BackOff, Done
<1>6. ASSUME NEW x \in batch, UpdateFails(x) PROVE OutboxIndInv'
  BY <1>6 DEF UpdateFails, Done, OutboxIndInv, Rows, OutboxInv, GivenUpAfterRetries
<1>7. CASE Crash
  BY <1>7 DEF Crash, OutboxIndInv, Rows, OutboxInv, GivenUpAfterRetries
<1>8. CASE UNCHANGED vars
  BY <1>8 DEF vars, OutboxIndInv, Rows, OutboxInv, GivenUpAfterRetries
<1> QED
  BY <1>1, <1>2, <1>3, <1>4, <1>5, <1>6, <1>7, <1>8 DEF Next, Worker

\* The worker of main.rs: whatever updates fail and however often it starts
\* over, a pending row has at most MAX_RETRIES retries and a failed one exactly
\* one more.
THEOREM RetriesExact == Spec => []GivenUpAfterRetries
<1>1. Init => OutboxIndInv
  BY InitInv
<1>2. OutboxIndInv /\ [Next]_vars => OutboxIndInv'
  BY NextInv
<1>3. OutboxIndInv => GivenUpAfterRetries
  BY DEF OutboxIndInv, OutboxInv
<1> QED
  BY <1>1, <1>2, <1>3, PTL DEF Spec

\* save_pending_mutation and the worker: a mutation that was enqueued keeps its
\* row for ever, if no two are created at the same clock reading.
THEOREM NoMutationLost ==
    ASSUME ~SameTick
    PROVE  Spec => []NothingLost
<1>1. Init => NothingLost
  BY DEF Init, NothingLost
<1>2. OutboxIndInv /\ NothingLost /\ [Next]_vars => NothingLost'
  <2> SUFFICES ASSUME OutboxIndInv, NothingLost, [Next]_vars PROVE NothingLost'
    OBVIOUS
  <2>1. ASSUME NEW m \in Mutation, Enqueue(m) PROVE NothingLost'
    <3>1. \A y \in outbox : y.id # clock
      BY <2>1, Zenon DEF Enqueue, mutation_id
    <3> DEFINE row == [id |-> clock, mutation |-> m, status |-> "pending",
                       retry_count |-> 0, created_at |-> clock \div TicksPerSecond]
    <3>2. /\ outbox' = {y \in outbox : y.id # clock} \union {row}
          /\ enqueued' = enqueued \union {m}
      BY <2>1, Zenon DEF Enqueue, mutation_id
    <3>3. row.mutation = m
      OBVIOUS
    <3> HIDE DEF row
    <3>4. row \in outbox' /\ outbox \subseteq outbox'
      BY <3>1, <3>2
    <3> QED
      BY <3>2, <3>3, <3>4 DEF NothingLost
  <2>2. ASSUME NEW x \in batch, GiveUp(x) \/ BackOff(x) PROVE NothingLost'
    <3>1. x \in Row /\ x.retry_count + 1 \in Nat
      BY DEF OutboxIndInv, Rows, Row
    <3>2. PICK st \in {"pending", "failed"} : outbox' = Updated(x, st, x.retry_count + 1)
      BY <2>2 DEF GiveUp, BackOff
    <3>3. \A y \in outbox : \E z \in outbox' : z.mutation = y.mutation
      <4>1. IsUpdate(outbox', x, st, x.retry_count + 1)
        BY <3>1, <3>2, UpdatedRows DEF OutboxIndInv
      <4> QED
        BY <4>1 DEF IsUpdate
    <3>4. enqueued' = enqueued
      BY <2>2 DEF GiveUp, BackOff
    <3> QED
      BY <3>3, <3>4 DEF NothingLost
  <2>3. CASE UNCHANGED <<enqueued, outbox>>
    BY <2>3 DEF NothingLost
  <2> QED
    BY <2>1, <2>2, <2>3 DEF Next, Worker, Tick, Poll, UpdateFails, Crash, vars
<1>3. Init => OutboxIndInv
  BY InitInv
<1>4. OutboxIndInv /\ [Next]_vars => OutboxIndInv'
  BY NextInv
<1> QED
  BY <1>1, <1>2, <1>3, <1>4, PTL DEF Spec

(***************************************************************************)
(* The waits between two retries.                                          *)
(***************************************************************************)

\* How long the worker waits, spelt out.
WaitTable(n) ==
    IF n = 0 THEN 525 ELSE IF n = 1 THEN 1050 ELSE IF n = 2 THEN 2000 ELSE
    IF n = 3 THEN 4000 ELSE IF n = 4 THEN 8000 ELSE IF n = 5 THEN 16000 ELSE
    IF n = 6 THEN 32000 ELSE IF n = 7 THEN 64000 ELSE IF n = 8 THEN 128000 ELSE
    IF n = 9 THEN 256000 ELSE 512000

LEMMA WaitIs ==
    ASSUME NEW n \in Nat
    PROVE  calculate_backoff_ms(n) = WaitTable(n)
<1> DEFINE e == IF n <= 10 THEN n ELSE 10
           wait(b) == b + ((b \div 4) % 100)
<1>1. Min({n, 10}) = e
  <2>1. \A x : x \in {n, 10} /\ (\A y \in {n, 10} : x <= y) <=> x = e
    OBVIOUS
  <2> QED
    BY <2>1 DEF Min
<1>2. calculate_backoff_ms(n) = wait(500 * 2^e)
  <2>1. calculate_backoff_ms(n) = wait(500 * 2^Min({n, 10}))
    BY Zenon DEF calculate_backoff_ms, BASE_BACKOFF_MS
  <2> HIDE DEF wait, e
  <2> QED
    BY ONLY <1>1, <2>1
<1>3. /\ wait(500 * 2^0) = 525 /\ wait(500 * 2^1) = 1050 /\ wait(500 * 2^2) = 2000
      /\ wait(500 * 2^3) = 4000 /\ wait(500 * 2^4) = 8000 /\ wait(500 * 2^5) = 16000
      /\ wait(500 * 2^6) = 32000 /\ wait(500 * 2^7) = 64000 /\ wait(500 * 2^8) = 128000
      /\ wait(500 * 2^9) = 256000 /\ wait(500 * 2^10) = 512000
  OBVIOUS
<1>4. e \in {0, 1, 2, 3, 4, 5, 6, 7, 8, 9, 10} /\ WaitTable(n) = WaitTable(e)
  BY DEF WaitTable
<1> HIDE DEF wait, e
<1>5. ASSUME NEW k \in 0 .. 10, e = k PROVE calculate_backoff_ms(n) = wait(500 * 2^k)
  BY ONLY <1>2, <1>5
<1>6. \A k \in 0 .. 10 : e = k => calculate_backoff_ms(n) = wait(500 * 2^k)
  BY <1>5
<1>7. CASE e = 0
  BY <1>3, <1>4, <1>6, <1>7 DEF WaitTable
<1>8. CASE e = 1
  BY <1>3, <1>4, <1>6, <1>8 DEF WaitTable
<1>9. CASE e = 2
  BY <1>3, <1>4, <1>6, <1>9 DEF WaitTable
<1>10. CASE e = 3
  BY <1>3, <1>4, <1>6, <1>10 DEF WaitTable
<1>11. CASE e = 4
  BY <1>3, <1>4, <1>6, <1>11 DEF WaitTable
<1>12. CASE e = 5
  BY <1>3, <1>4, <1>6, <1>12 DEF WaitTable
<1>13. CASE e = 6
  BY <1>3, <1>4, <1>6, <1>13 DEF WaitTable
<1>14. CASE e = 7
  BY <1>3, <1>4, <1>6, <1>14 DEF WaitTable
<1>15. CASE e = 8
  BY <1>3, <1>4, <1>6, <1>15 DEF WaitTable
<1>16. CASE e = 9
  BY <1>3, <1>4, <1>6, <1>16 DEF WaitTable
<1>17. CASE e = 10
  BY <1>3, <1>4, <1>6, <1>17 DEF WaitTable
<1> QED
  BY <1>4, <1>7, <1>8, <1>9, <1>10, <1>11, <1>12, <1>13, <1>14, <1>15, <1>16, <1>17

\* A wait is a number of milliseconds, and after more retries it is no shorter.
LEMMA Waits ==
    ASSUME NEW n \in Nat
    PROVE  calculate_backoff_ms(n) \in Nat
BY WaitIs DEF WaitTable

LEMMA LongerWaits ==
    ASSUME NEW k \in Nat, NEW n \in Nat, k <= n
    PROVE  calculate_backoff_ms(k) <= calculate_backoff_ms(n)
BY WaitIs DEF WaitTable

\* A mutation has at most one row, and its row and the copy of it the worker
\* holds are about the same id; a row that took the place of another under its
\* id has not been retried as often; and no wait was longer than the next.
WaitInv ==
    /\ backoff \in [Mutation -> Nat]
    /\ \A x \in outbox \union batch : x.mutation \in enqueued
    /\ \A m \in Mutation \ enqueued : backoff[m] = 0
    /\ \A x, y \in outbox \union batch : x.mutation = y.mutation => x.id = y.id
    /\ \A x \in batch, y \in outbox : x.id = y.id => y.retry_count <= x.retry_count
    /\ \A x \in outbox \union batch : backoff[x.mutation] <= calculate_backoff_ms(x.retry_count)

LEMMA WaitInitInv == Init => WaitInv
BY DEF Init, WaitInv

\* Handling a row of the batch, with or without a wait.
LEMMA HandledWait ==
    ASSUME OutboxIndInv, WaitInv, NEW x \in batch, NEW st \in {"pending", "failed"},
           outbox' = Updated(x, st, x.retry_count + 1),
           batch' = batch \ {x},
           enqueued' = enqueued,
           \/ backoff' = backoff
           \/ backoff' = [backoff EXCEPT ![x.mutation] = calculate_backoff_ms(x.retry_count)]
    PROVE  WaitInv'
<1> DEFINE n == x.retry_count
<1>1. /\ x \in Row /\ x.mutation \in Mutation /\ n \in Nat /\ n + 1 \in Nat
      /\ Rows /\ outbox \subseteq Row /\ batch \subseteq Row
  BY DEF OutboxIndInv, Rows, Row
<1>2. /\ calculate_backoff_ms(n) \in Nat /\ calculate_backoff_ms(n + 1) \in Nat
      /\ calculate_backoff_ms(n) <= calculate_backoff_ms(n + 1)
  BY <1>1, Waits, LongerWaits
<1> HIDE DEF n
<1>3. /\ \A z \in outbox' : \E y \in outbox :
            /\ z.id = y.id /\ z.mutation = y.mutation
            /\ y.id = x.id => z.retry_count = n + 1
            /\ y.id # x.id => z = y
      /\ outbox' \subseteq Row
  <2>1. IsUpdate(outbox', x, st, n + 1)
    BY <1>1, UpdatedRows DEF n
  <2> QED
    BY <2>1 DEF IsUpdate
<1>4. backoff' \in [Mutation -> Nat] /\ \A m \in Mutation : m # x.mutation => backoff'[m] = backoff[m]
  BY <1>1, <1>2 DEF WaitInv, n
<1>5. backoff'[x.mutation] <= calculate_backoff_ms(n) /\ backoff'[x.mutation] \in Nat
  BY <1>1, <1>2 DEF WaitInv, n
<1>6. x.mutation \in enqueued
  BY DEF WaitInv
<1>7. \A u, v \in outbox \union batch : u.mutation = v.mutation => u.id = v.id
  BY DEF WaitInv
<1>8. \A u \in outbox' \union batch' : \E y \in outbox \union batch :
         u.mutation = y.mutation /\ u.id = y.id
  BY <1>3
<1>9. \A u, v \in outbox' \union batch' : u.mutation = v.mutation => u.id = v.id
  BY <1>7, <1>8
<1>10. \A u \in outbox' \union batch' : u.mutation \in enqueued
  BY <1>8 DEF WaitInv
<1>11. \A m \in Mutation \ enqueued : backoff'[m] = 0
  BY <1>4, <1>6 DEF WaitInv
<1>12. \A u \in batch' : u \in batch /\ u.id # x.id
  BY DEF OutboxIndInv, OutboxInv
<1>13. \A u \in batch', z \in outbox' : u.id = z.id => z.retry_count <= u.retry_count
  <2> SUFFICES ASSUME NEW u \in batch', NEW z \in outbox', u.id = z.id
               PROVE  z.retry_count <= u.retry_count
    OBVIOUS
  <2>1. PICK y \in outbox : z.id = y.id /\ (y.id # x.id => z = y)
    BY <1>3
  <2>2. u \in batch /\ z = y
    BY <1>12, <2>1
  <2> QED
    BY <2>2 DEF WaitInv
<1>14. \A u \in batch' : backoff'[u.mutation] <= calculate_backoff_ms(u.retry_count)
  <2> SUFFICES ASSUME NEW u \in batch'
               PROVE  backoff'[u.mutation] <= calculate_backoff_ms(u.retry_count)
    OBVIOUS
  <2>1. u \in batch /\ u.id # x.id /\ u.mutation \in Mutation
    BY <1>1, <1>12 DEF Row
  <2>2. u.mutation # x.mutation
    BY <1>7, <2>1
  <2> QED
    BY <1>4, <2>1, <2>2 DEF WaitInv
<1>15. \A z \in outbox' : backoff'[z.mutation] <= calculate_backoff_ms(z.retry_count)
  <2> SUFFICES ASSUME NEW z \in outbox'
               PROVE  backoff'[z.mutation] <= calculate_backoff_ms(z.retry_count)
    OBVIOUS
  <2>1. PICK y \in outbox : /\ z.id = y.id /\ z.mutation = y.mutation
                            /\ y.id = x.id => z.retry_count = n + 1
                            /\ y.id # x.id => z = y
    BY <1>3
  <2>2. y \in Row /\ y.mutation \in Mutation /\ y.retry_count \in Nat
    BY <1>1 DEF Row
  <2>3. backoff[y.mutation] <= calculate_backoff_ms(y.retry_count) /\ backoff[y.mutation] \in Nat
    BY <2>2 DEF WaitInv
  <2>4. CASE y.id # x.id
    <3>1. y.mutation # x.mutation
      BY <1>7, <2>4
    <3> QED
      BY <1>4, <2>1, <2>2, <2>3, <2>4, <3>1
  <2>5. CASE y.id = x.id /\ y.mutation = x.mutation
    BY <1>2, <1>5, <2>1, <2>5
  <2>6. CASE y.id = x.id /\ y.mutation # x.mutation
    <3>1. backoff'[z.mutation] = backoff[y.mutation]
      BY <1>4, <2>1, <2>2, <2>6
    <3>2. y.retry_count <= n
      BY <2>6 DEF WaitInv, n
    <3>3. calculate_backoff_ms(y.retry_count) <= calculate_backoff_ms(n)
      BY <1>1, <2>2, <3>2, LongerWaits
    <3>4. calculate_backoff_ms(y.retry_count) \in Nat
      BY <2>2, Waits
    <3> QED
      BY <1>2, <2>1, <2>3, <2>6, <3>1, <3>3, <3>4
  <2> QED
    BY <2>4, <2>5, <2>6
<1> QED
  BY <1>4, <1>9, <1>10, <1>11, <1>13, <1>14, <1>15 DEF WaitInv

LEMMA WaitEnqueue ==
    ASSUME OutboxIndInv, WaitInv, NEW m \in Mutation, Enqueue(m)
    PROVE  WaitInv'
<1> DEFINE row == [id |-> clock, mutation |-> m, status |-> "pending",
                   retry_count |-> 0, created_at |-> clock \div TicksPerSecond]
<1>1. row.id = clock /\ row.mutation = m /\ row.retry_count = 0
  OBVIOUS
<1>2. /\ outbox' = {y \in outbox : y.id # clock} \union {row}
      /\ batch' = batch /\ backoff' = backoff /\ enqueued' = enqueued \union {m}
      /\ m \notin enqueued
  BY Zenon DEF Enqueue, mutation_id
<1> HIDE DEF row
<1>3. \A x \in outbox \union batch : x.mutation \in enqueued /\ x.mutation # m
  BY <1>2 DEF WaitInv
<1>4. backoff[m] = 0 /\ calculate_backoff_ms(row.retry_count) \in Nat
  BY <1>1, <1>2, Waits DEF WaitInv
<1>5. \A x \in outbox' \union batch' : x = row \/ (x \in outbox \union batch /\ x.mutation # m)
  BY <1>2, <1>3
<1>6. \A x, y \in outbox' \union batch' : x.mutation = y.mutation => x.id = y.id
  <2> SUFFICES ASSUME NEW x \in outbox' \union batch', NEW y \in outbox' \union batch',
                      x.mutation = y.mutation
               PROVE  x.id = y.id
    OBVIOUS
  <2>1. CASE x = row \/ y = row
    BY <1>1, <1>5, <2>1
  <2>2. CASE x # row /\ y # row
    BY <1>5, <2>2 DEF WaitInv
  <2> QED
    BY <2>1, <2>2
<1>7. \A x \in batch', y \in outbox' : x.id = y.id => y.retry_count <= x.retry_count
  <2> SUFFICES ASSUME NEW x \in batch, NEW y \in outbox', x.id = y.id
               PROVE  y.retry_count <= x.retry_count
    BY <1>2
  <2>1. x.retry_count \in Nat
    BY DEF OutboxIndInv, Rows, Row
  <2>2. CASE y = row
    BY <1>1, <2>1, <2>2
  <2>3. CASE y \in outbox
    BY <2>3 DEF WaitInv
  <2> QED
    BY <1>2, <2>2, <2>3
<1>8. \A x \in outbox' \union batch' : backoff'[x.mutation] <= calculate_backoff_ms(x.retry_count)
  <2> SUFFICES ASSUME NEW x \in outbox' \union batch'
               PROVE  backoff'[x.mutation] <= calculate_backoff_ms(x.retry_count)
    OBVIOUS
  <2>1. CASE x = row
    BY <1>1, <1>2, <1>4, <2>1
  <2>2. CASE x # row
    BY <1>2, <1>5, <2>2 DEF WaitInv
  <2> QED
    BY <2>1, <2>2
<1>9. \A x \in outbox' \union batch' : x.mutation \in enqueued'
  BY <1>1, <1>2, <1>3, <1>5
<1>10. backoff' \in [Mutation -> Nat] /\ \A k \in Mutation \ enqueued' : backoff'[k] = 0
  BY <1>2 DEF WaitInv
<1> QED
  BY <1>6, <1>7, <1>8, <1>9, <1>10 DEF WaitInv

\* The worker polls, or forgets rows it holds.
LEMMA HeldRows ==
    ASSUME OutboxIndInv, WaitInv, UNCHANGED <<enqueued, outbox, backoff>>,
           batch' \subseteq batch \/ batch' \subseteq outbox
    PROVE  WaitInv'
<1>1. \A u \in batch', y \in outbox : u.id = y.id => y.retry_count <= u.retry_count
  <2> SUFFICES ASSUME NEW u \in batch', NEW y \in outbox, u.id = y.id
               PROVE  y.retry_count <= u.retry_count
    OBVIOUS
  <2>1. CASE u \in batch
    BY <2>1 DEF WaitInv
  <2>2. CASE u \in outbox
    <3>1. u = y
      BY <2>2 DEF OutboxIndInv, OutboxInv
    <3>2. y.retry_count \in Nat
      BY DEF OutboxIndInv, Rows, Row
    <3> QED
      BY <3>1, <3>2
  <2> QED
    BY <2>1, <2>2
<1>2. outbox' \union batch' \subseteq outbox \union batch
  OBVIOUS
<1> QED
  BY <1>1, <1>2 DEF WaitInv

LEMMA WaitNextInv ==
    ASSUME OutboxIndInv, WaitInv, [Next]_vars
    PROVE  WaitInv'
<1>1. CASE Tick
  BY <1>1, HeldRows DEF Tick
<1>2. ASSUME NEW m \in Mutation, Enqueue(m) PROVE WaitInv'
  BY <1>2, WaitEnqueue
<1>3. CASE Poll
  <2>1. batch' \subseteq outbox
    BY <1>3 DEF Poll, Polls, kSubset, Pending
  <2> QED
    BY <1>3, <2>1, HeldRows DEF Poll
<1>4. ASSUME NEW x \in batch, GiveUp(x) PROVE WaitInv'
  BY <1>4, HandledWait DEF GiveUp, Done
<1>5. ASSUME NEW x \in batch, BackOff(x) PROVE WaitInv'
  BY <1>5, HandledWait DEF BackOff, Done
<1>6. ASSUME NEW x \in batch, UpdateFails(x) PROVE WaitInv'
  <2>1. batch' \subseteq batch
    BY <1>6 DEF UpdateFails, Done
  <2> QED
    BY <1>6, <2>1, HeldRows DEF UpdateFails
<1>7. CASE Crash
  BY <1>7, HeldRows DEF Crash
<1>8. CASE UNCHANGED vars
  BY <1>8, HeldRows DEF vars
<1> QED
  BY <1>1, <1>2, <1>3, <1>4, <1>5, <1>6, <1>7, <1>8 DEF Next, Worker

\* calculate_backoff_ms and the worker: the waits for one mutation never get
\* shorter, although rows may replace each other and updates may be lost.
THEOREM WaitsGrow == Spec => BackoffGrows
<1>1. OutboxIndInv /\ WaitInv /\ [Next]_vars => [\A m \in Mutation : backoff'[m] >= backoff[m]]_vars
  <2> SUFFICES ASSUME OutboxIndInv, WaitInv, Next, NEW m \in Mutation
               PROVE  backoff'[m] >= backoff[m]
    OBVIOUS
  <2>1. backoff \in [Mutation -> Nat]
    BY DEF WaitInv
  <2>2. ASSUME NEW x \in batch, BackOff(x) PROVE backoff'[m] >= backoff[m]
    <3>1. backoff' = [backoff EXCEPT ![x.mutation] = calculate_backoff_ms(x.retry_count)]
      BY <2>2 DEF BackOff
    <3>2. backoff[x.mutation] <= calculate_backoff_ms(x.retry_count)
      BY DEF WaitInv
    <3>3. calculate_backoff_ms(x.retry_count) \in Nat
      BY Waits DEF OutboxIndInv, Rows, Row
    <3> QED
      BY <2>1, <3>1, <3>2, <3>3
  <2>3. CASE backoff' = backoff
    BY <2>1, <2>3
  <2> QED
    BY <2>2, <2>3 DEF Next, Worker, Tick, Enqueue, Poll, GiveUp, UpdateFails, Crash
<1>2. Init => OutboxIndInv /\ WaitInv
  BY InitInv, WaitInitInv
<1>3. OutboxIndInv /\ WaitInv /\ [Next]_vars => (OutboxIndInv /\ WaitInv)'
  BY NextInv, WaitNextInv
<1> QED
  BY <1>1, <1>2, <1>3, PTL DEF Spec, BackoffGrows
=============================================================================
