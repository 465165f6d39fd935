-------------------------------- MODULE Store --------------------------------
(***************************************************************************)
(* The messages and the accounts of the daemon's database: how a database  *)
(* file is opened and brought up to date, how a message is sealed, saved   *)
(* and indexed, and what the readers and the search make of it later.      *)
(*                                                                         *)
(* Source: connect_file, migrate and its parts, save_email, the readers of *)
(* messages and accounts in crates/nuncio-store/src/db.rs, cipher.rs,      *)
(* search.rs and get_or_create_key_bytes of vault.rs.                      *)
(*                                                                         *)
(* A text is one word; the rank of a hit and the limit of 50 hits are left *)
(* out.  Integrity checks and salvage are in Recovery.                     *)
(***************************************************************************)
EXTENDS Integers, Sequences, FiniteSets

CONSTANTS
    Email,        \* the emails save_email may be given
    AccountRow,   \* the accounts save_account may be given
    OldFile,      \* states of the file an earlier version may have left
    Short,        \* words of fewer than three characters
    Null,         \* an SQL NULL, or no such row
    MaxKeys,      \* bound: storage keys ever minted
    MaxCuts       \* bound: times an open fails or the daemon stops

EmailIds   == {e.id : e \in Email}
AccountIds == {a.id : a \in AccountRow}
Subjects   == {e.subject : e \in Email}
Texts     == {e.body : e \in Email}
Words      == (Subjects \union Texts) \ {Null, ""}

\* The modes of a connection as the columns hold them.
tls_mode_to_db == [ImplicitTls |-> "implicit_tls", StartTls |-> "start_tls", Plain |-> "plain"]

\* A message with its body as the program has it, or sealed as a row has it,
\* and an account with its modes as the program or as a row has them.
MessageForm(bodies) ==
    [id : EmailIds, account_id : {e.account_id : e \in Email}, folder_id : {e.folder_id : e \in Email},
     received_at : Nat, subject : Subjects, body : bodies]
SealedBodies == {Null, << >>} \union ((1..MaxKeys) \X Texts)

Hosts == {a.server_host : a \in AccountRow} \union {a.smtp_host : a \in AccountRow}
Ports == {a.server_port : a \in AccountRow} \union {a.smtp_port : a \in AccountRow}
AccountForm(modes) ==
    [id : AccountIds, server_host : Hosts, server_port : Ports, smtp_host : Hosts \union {Null},
     smtp_port : Ports \union {Null}, imap_tls_mode : modes, smtp_tls_mode : modes]
DbModes == {"implicit_tls", "start_tls", "plain"}

\* What migrate creates, in order, each only if it is not there.
SchemaObjects == <<"messages", "accounts", "messages_fts", "messages_ad">>
Columns       == {"smtp_host", "smtp_port", "imap_tls_mode", "smtp_tls_mode"}

\* A message of some id is of one account, and in a folder.
ASSUME StoreAssumption ==
    /\ MaxKeys \in Nat \ {0} /\ MaxCuts \in Nat
    /\ IsFiniteSet(EmailIds) /\ Email \subseteq MessageForm(Texts)
    /\ \A e, f \in Email : e.id = f.id => e.account_id = f.account_id
    /\ \A e \in Email : e.folder_id # Null
    /\ AccountRow \subseteq AccountForm(DOMAIN tls_mode_to_db)

\* A NULL is no text, no sealed text, no mode and no row.
ASSUME NullAssumption ==
    /\ Null \notin {"", << >>} \union ((1..MaxKeys) \X Texts) \union DbModes \union DOMAIN tls_mode_to_db
    /\ Null \notin MessageForm(Texts) /\ Null \notin MessageForm(SealedBodies)
    /\ Null \notin AccountForm(DOMAIN tls_mode_to_db \union DbModes \union {Null})

\* The modes of the connections came last: no earlier version stored one.
ASSUME OldFileAssumption ==
    \A old \in OldFile :
        /\ old.keys \in 0..MaxKeys /\ old.columns \subseteq Columns
        /\ old.messages \in [EmailIds -> Email \union {Null}]
        /\ \A i \in EmailIds : old.messages[i] # Null => old.keys > 0 /\ old.messages[i].id = i
        /\ old.accounts \in [AccountIds -> AccountForm({Null}) \union {Null}]
        /\ \A i \in AccountIds :
              old.accounts[i] # Null =>
                  /\ "accounts" \in old.schema
                  /\ old.accounts[i].id = i
                  /\ \A c \in Columns \ old.columns : old.accounts[i][c] = Null

-----------------------------------------------------------------------------
VARIABLES
    schema,       \* the objects of SchemaObjects in the file
    columns,      \* the later columns that table accounts has
    accounts,     \* table accounts
    messages,     \* table messages
    messages_fts, \* the index: the entries it has under each id
    vaultKey,     \* the storage key in the keyring; 0 for none
    storage_key,  \* the key of the open engine
    phase,        \* where connect_file and migrate are, or "open"
    toAdd,        \* columns still to be added
    toIndex,      \* rows still to be indexed
    minted,       \* storage keys minted so far
    cuts,
    saved,        \* what save_email was last given for a message
    configured    \* what save_account was last given for an account

storeVars == <<schema, columns, accounts, messages, messages_fts, vaultKey, storage_key, phase,
               toAdd, toIndex, minted, cuts, saved, configured>>
tableVars == <<schema, columns, accounts, messages, messages_fts>>
givenVars == <<saved, configured>>
work      == <<toAdd, toIndex>>

-----------------------------------------------------------------------------
(* The cipher                                                              *)

\* PayloadCipher::encrypt_text_at_rest: an empty text stays empty.
encrypt_text_at_rest(key, text) == IF text = "" THEN << >> ELSE <<key, text>>

\* decrypt_text_at_rest: a text sealed with another key reads as an empty one.
decrypt_text_at_rest(key, stored) ==
    IF stored = << >> \/ stored[1] # key THEN "" ELSE stored[2]

\* Option::map of either.
Seal(key, body)   == IF body = Null THEN Null ELSE encrypt_text_at_rest(key, body)
Unseal(key, body) == IF body = Null THEN Null ELSE decrypt_text_at_rest(key, body)
OrEmpty(text)     == IF text = Null THEN "" ELSE text

-----------------------------------------------------------------------------
(* Opening a database file                                                 *)

\* connect_file: resolve_engine_keys reads the storage key from the keyring,
\* or mints one when there is none.
ResolveKeys ==
    /\ phase = "closed"
    /\ \/ vaultKey # 0 /\ UNCHANGED <<vaultKey, minted>>
       \/ /\ vaultKey = 0 /\ minted < MaxKeys
          /\ minted' = minted + 1
          /\ vaultKey' = minted + 1
    /\ storage_key' = vaultKey'
    /\ phase' = "create"
    /\ UNCHANGED <<tableVars, work, cuts, givenVars>>

Missing == {n \in DOMAIN SchemaObjects : SchemaObjects[n] \notin schema}

\* migrate: CREATE ... IF NOT EXISTS.  A new accounts table has every column.
CreateNext ==
    /\ phase = "create"
    /\ \E n \in Missing :
          /\ \A later \in Missing : n <= later
          /\ schema' = schema \union {SchemaObjects[n]}
          /\ columns' = IF SchemaObjects[n] = "accounts" THEN Columns ELSE columns
    /\ UNCHANGED <<accounts, messages, messages_fts, vaultKey, storage_key, phase, work, minted,
                   cuts, givenVars>>

\* Mutant: the second column of a pair is taken to be there with the first.
absent_in_pairs(first, second) == IF first \in columns THEN << >> ELSE <<first, second>>

\* PRAGMA table_info, before either column is added.
absent(first, second) ==
    LET unless_there(c) == IF c \in columns THEN << >> ELSE <<c>>
    IN unless_there(first) \o unless_there(second)

\* The columns are looked up; then ALTER TABLE adds them one by one.
ensure_columns(from, to, first, second) ==
    /\ phase = from
    /\ toAdd' = absent(first, second)
    /\ phase' = to
    /\ UNCHANGED <<tableVars, toIndex, vaultKey, storage_key, minted, cuts, givenVars>>

\* ADD COLUMN gives the rows that are there its default.
AddColumn(from, default) ==
    /\ phase = from /\ toAdd # << >>
    /\ IF Head(toAdd) \in columns
       THEN phase' = "failed" /\ UNCHANGED <<columns, accounts, toAdd>>
       ELSE /\ columns' = columns \union {Head(toAdd)}
            /\ accounts' = [i \in AccountIds |->
                              IF accounts[i] = Null THEN Null
                              ELSE [accounts[i] EXCEPT ![Head(toAdd)] = default]]
            /\ toAdd' = Tail(toAdd)
            /\ UNCHANGED phase
    /\ UNCHANGED <<schema, messages, messages_fts, toIndex, vaultKey, storage_key, minted, cuts, givenVars>>

\* The tables are there.
ensure_accounts_smtp_columns ==
    /\ Missing = {}
    /\ ensure_columns("create", "smtp", "smtp_host", "smtp_port")

ensure_accounts_tls_mode_columns ==
    /\ toAdd = << >>
    /\ ensure_columns("smtp", "tls", "imap_tls_mode", "smtp_tls_mode")

Indexed(id) == messages_fts[id] # << >>

\* Mutant: every row is indexed on every open.
unindexed_all == {i \in EmailIds : messages[i] # Null}

\* The rows the backfill selects.
unindexed == {i \in EmailIds : messages[i] # Null /\ ~Indexed(i)}

\* backfill_message_fts: the rows are read at once ...
ReadUnindexed ==
    /\ phase = "tls" /\ toAdd = << >>
    /\ phase' = "backfill"
    /\ toIndex' = unindexed
    /\ UNCHANGED <<tableVars, toAdd, vaultKey, storage_key, minted, cuts, givenVars>>

\* ... and indexed one by one; a body that cannot be read counts as empty.
BackfillRow(i) ==
    /\ phase = "backfill" /\ i \in toIndex
    /\ messages_fts' = [messages_fts EXCEPT ![i] = Append(@,
            [subject |-> messages[i].subject, body |-> OrEmpty(Unseal(storage_key, messages[i].body))])]
    /\ toIndex' = toIndex \ {i}
    /\ UNCHANGED <<schema, columns, accounts, messages, vaultKey, storage_key, phase, toAdd, minted,
                   cuts, givenVars>>

Opened ==
    /\ phase = "backfill" /\ toIndex = {}
    /\ phase' = "open"
    /\ UNCHANGED <<work, tableVars, vaultKey, storage_key, minted, cuts, givenVars>>

\* A statement fails, or the daemon stops: what was written stays.
Cut ==
    /\ phase # "closed" /\ cuts < MaxCuts
    /\ cuts' = cuts + 1
    /\ phase' = "closed"
    /\ toAdd' = << >> /\ toIndex' = {}
    /\ storage_key' = 0
    /\ UNCHANGED <<tableVars, vaultKey, minted, givenVars>>

\* The keyring loses the storage key while the daemon is down.
LoseKey ==
    /\ phase = "closed" /\ vaultKey # 0 /\ minted < MaxKeys
    /\ vaultKey' = 0
    /\ UNCHANGED <<tableVars, storage_key, phase, work, minted, cuts, givenVars>>

-----------------------------------------------------------------------------
(* Writing                                                                 *)

\* Mutant: the index keeps the entry of the message as it was.
save_adding_entry(e) ==
    /\ phase = "open"
    /\ messages' = [messages EXCEPT ![e.id] = [e EXCEPT !.body = Seal(storage_key, e.body)]]
    /\ messages_fts' = [messages_fts EXCEPT ![e.id] = Append(@, [subject |-> e.subject, body |-> OrEmpty(e.body)])]
    /\ saved' = [saved EXCEPT ![e.id] = e]
    /\ UNCHANGED <<schema, columns, accounts, vaultKey, storage_key, phase, work, minted, cuts, configured>>

\* save_email: the row and its entry in the index, in place of any other, in
\* one transaction.
save_email(e) ==
    /\ phase = "open"
    /\ messages' = [messages EXCEPT ![e.id] = [e EXCEPT !.body = Seal(storage_key, e.body)]]
    /\ messages_fts' = [messages_fts EXCEPT ![e.id] = <<[subject |-> e.subject, body |-> OrEmpty(e.body)]>>]
    /\ saved' = [saved EXCEPT ![e.id] = e]
    /\ UNCHANGED <<schema, columns, accounts, vaultKey, storage_key, phase, work, minted, cuts, configured>>

\* Mutant: plain is read as a mode nobody knows.
starttls_from_db(value) == IF value = "start_tls" THEN "StartTls" ELSE "ImplicitTls"

\* A value nobody knows reads as implicit TLS.
tls_mode_from_db(value) ==
    IF \E mode \in DOMAIN tls_mode_to_db : tls_mode_to_db[mode] = value
    THEN CHOOSE mode \in DOMAIN tls_mode_to_db : tls_mode_to_db[mode] = value
    ELSE "ImplicitTls"

\* save_account: INSERT OR REPLACE of every column.
save_account(a) ==
    /\ phase = "open"
    /\ accounts' = [accounts EXCEPT ![a.id] =
            [a EXCEPT !.imap_tls_mode = tls_mode_to_db[@], !.smtp_tls_mode = tls_mode_to_db[@]]]
    /\ configured' = [configured EXCEPT ![a.id] = a]
    /\ UNCHANGED <<schema, columns, messages, messages_fts, vaultKey, storage_key, phase, work, minted,
                   cuts, saved>>

-----------------------------------------------------------------------------
(* Reading                                                                 *)

\* A row as every reader returns it.
get_message(id) == [messages[id] EXCEPT !.body = Unseal(storage_key, @)]
Rows == {i \in EmailIds : messages[i] # Null}

\* ORDER BY received_at DESC LIMIT limit: the rows with fewer than limit newer ones.
list_messages(folder_id, limit) ==
    LET of == {i \in Rows : messages[i].folder_id = folder_id}
    IN {get_message(i) : i \in {j \in of :
            Cardinality({k \in of : messages[k].received_at > messages[j].received_at}) < limit}}

\* Null for an account or a folder that is not asked for.
list_messages_for_export(account_id, folder_id) ==
    {get_message(i) : i \in {j \in Rows :
        /\ account_id # Null => messages[j].account_id = account_id
        /\ folder_id # Null => messages[j].folder_id = folder_id}}

\* search_messages: a blank query has no hits, nor has one with too few
\* characters for a trigram.
search_messages(query) ==
    IF query = "" \/ query \in Short THEN {}
    ELSE {i \in EmailIds : \E n \in DOMAIN messages_fts[i] :
              query \in {messages_fts[i][n].subject, messages_fts[i][n].body}}

\* list_folders: the folders with a message, with all and the unread ones
\* counted; here all of them.
list_folders ==
    LET folder(f) == [folder_id |-> f, total |-> Cardinality({i \in Rows : messages[i].folder_id = f})]
    IN {folder(f) : f \in {messages[i].folder_id : i \in Rows}}

\* list_accounts: an account without an SMTP endpoint uses that of its server.
list_accounts ==
    {[a EXCEPT !.smtp_host = IF @ = Null THEN a.server_host ELSE @,
               !.smtp_port = IF @ = Null THEN a.server_port ELSE @,
               !.imap_tls_mode = tls_mode_from_db(@),
               !.smtp_tls_mode = tls_mode_from_db(@)] :
        a \in {accounts[i] : i \in AccountIds} \ {Null}}

-----------------------------------------------------------------------------
StoreInit ==
    /\ \E old \in OldFile :
          /\ schema = old.schema
          /\ columns = old.columns
          /\ accounts = old.accounts
          /\ messages = [i \in EmailIds |->
                            IF old.messages[i] = Null THEN Null
                            ELSE [old.messages[i] EXCEPT !.body = Seal(1, @)]]
          /\ saved = old.messages
          /\ configured = old.accounts
          /\ minted = old.keys /\ vaultKey = old.keys
    /\ messages_fts = [i \in EmailIds |-> << >>]
    /\ storage_key = 0
    /\ phase = "closed"
    /\ toAdd = << >> /\ toIndex = {}
    /\ cuts = 0

StoreNext ==
    \/ ResolveKeys
    \/ CreateNext
    \/ ensure_accounts_smtp_columns
    \/ AddColumn("smtp", Null)
    \/ ensure_accounts_tls_mode_columns
    \/ AddColumn("tls", "implicit_tls")
    \/ ReadUnindexed
    \/ \E i \in EmailIds : BackfillRow(i)
    \/ Opened
    \/ Cut
    \/ LoseKey
    \/ \E e \in Email : save_email(e)
    \/ \E a \in AccountRow : save_account(a)

-----------------------------------------------------------------------------
(* Properties                                                              *)

\* The row was sealed with a key that the keyring has lost since.
Locked(i) == messages[i].body \notin {Null, << >>} /\ messages[i].body[1] # storage_key

\* Every message saved is read back as it was given, unless its key is lost:
\* then everything but the body is.
ReadAsSaved ==
    phase = "open" =>
        \A i \in Rows : get_message(i) = IF Locked(i) THEN [saved[i] EXCEPT !.body = ""] ELSE saved[i]

\* migrate: "no message ... saved before the first search call is ever
\* permanently unindexed", whichever open was cut short; the search finds
\* what the readers show, and no message as it used to be.  A message whose
\* key is lost may still be found by the body it had.
SearchAgrees ==
    phase = "open" =>
        \A q \in Words \ Short :
            LET shown == {m.id : m \in {r \in list_messages_for_export(Null, Null) :
                                            q \in {r.subject, r.body}}}
            IN /\ shown \subseteq search_messages(q)
               /\ \A i \in search_messages(q) \ shown : Locked(i) /\ saved[i].body = q

\* One entry for each row: a hit is not listed twice.
HitsOnce ==
    phase = "open" =>
        \A i \in EmailIds :
            Len(messages_fts[i]) = IF messages[i] = Null THEN 0 ELSE 1

\* A folder shows its newest messages first: none is left out for an older
\* one, and with a limit as high as list_folders counts it shows them all.
NewestShown ==
    phase = "open" =>
        /\ \A f \in list_folders :
              list_messages(f.folder_id, f.total) = list_messages_for_export(Null, f.folder_id)
        /\ \A m, n \in list_messages_for_export(Null, Null) :
              /\ m.folder_id = n.folder_id /\ m.received_at >= n.received_at
              /\ n \in list_messages(n.folder_id, 1)
              => m \in list_messages(m.folder_id, 1)

\* The upgrade of the accounts table ends, however often it was cut short,
\* and every account keeps its settings; one from before the new columns has
\* the endpoint of its server and implicit TLS.
Upgraded(a) ==
    [a EXCEPT !.smtp_host = IF @ = Null THEN a.server_host ELSE @,
              !.smtp_port = IF @ = Null THEN a.server_port ELSE @,
              !.imap_tls_mode = IF @ = Null THEN "ImplicitTls" ELSE @,
              !.smtp_tls_mode = IF @ = Null THEN "ImplicitTls" ELSE @]

AccountsUpgraded ==
    /\ phase # "failed"
    /\ phase = "open" =>
        /\ columns = Columns
        /\ list_accounts = {Upgraded(a) : a \in {configured[i] : i \in AccountIds} \ {Null}}

\* The database of an open daemon, after any cuts and upgrades: what was
\* saved is read, found and configured as it was given.
StoreSound == ReadAsSaved /\ SearchAgrees /\ HitsOnce /\ NewestShown /\ AccountsUpgraded
=============================================================================
