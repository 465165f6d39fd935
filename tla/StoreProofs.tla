----------------------------- MODULE StoreProofs -----------------------------
(***************************************************************************)
(* The database, proved for any texts, any number of requests, opens and   *)
(* failures.  The filter rules: what is live was validated or imported,    *)
(* the daemon can start over what is stored, and the live engine agrees    *)
(* with the store once a reload ran undisturbed.  The messages and the     *)
(* accounts: what was saved is read, found and configured as it was given. *)
(* The calendar and the contacts: the search has them as they are, and a   *)
(* listing is right for its window.                                        *)
(***************************************************************************)
EXTENDS FilterRules, Store, Organizer, BasicLemmas, FiniteSetTheorems, SequenceTheorems

-----------------------------------------------------------------------------
(* Filter rules                                                            *)


\* Rules that were validated or imported, one by one.
Vetted(rs) == \A t \in Text : rs[t] \notin Invalid \ Imported

\* LiveRulesValidated is not inductive by itself: a reload makes live what the
\* handler listed, and a listing what is stored.
VettedInv ==
    /\ TypeOK
    /\ Vetted(rules) /\ Vetted(live)
    /\ \A r \in Request : Vetted(listed[r])
    /\ AlwaysStarts

\* What holds while no RPC overlapped another: one handler at a time, which
\* reloads what is stored, and updates a rule that is stored.
Alone ==
    /\ \A q, r \in Request : pc[q] # "idle" /\ pc[r] # "idle" => q = r
    /\ (\A r \in Request : pc[r] \in {"idle", "update"}) /\ Compiles(rules) => live = rules
    /\ \A r \in Request : pc[r] = "reload" => listed[r] = rules
    /\ \A r \in Request : pc[r] = "update" => rules[target[r]] # None

AloneInv == TypeOK /\ (~disturbed => Alone)

-----------------------------------------------------------------------------
(* Lemmas about rule sets                                                  *)

\* The empty set of rules is a rule set, vetted, and compiles.
LEMMA NoRulesFacts == NoRules \in Rules /\ Vetted(NoRules) /\ Compiles(NoRules)
BY RulesAssumption DEF NoRules, Rules, Vetted, Compiles

\* Saving a validated or imported text, or deleting a rule, keeps a set vetted.
LEMMA SaveKeepsVetted ==
    ASSUME NEW rs \in Rules, NEW id \in Text, NEW new \in Text \union {None},
           Vetted(rs), new \notin Invalid \ Imported
    PROVE  /\ [rs EXCEPT ![id] = new] \in Rules
           /\ Vetted([rs EXCEPT ![id] = new])
BY DEF Rules, Vetted

\* Vetted rules compile unless clients import rules that do not.
LEMMA VettedCompiles ==
    ASSUME NEW rs, Vetted(rs), Imported \intersect Uncompilable = {}
    PROVE  Compiles(rs)
BY RulesAssumption DEF Vetted, Compiles

-----------------------------------------------------------------------------
(* Types                                                                   *)

\* The handlers start from nothing.
LEMMA InitType == Init => TypeOK
<1> SUFFICES ASSUME Init PROVE TypeOK
  OBVIOUS
<1>1. rules \in Rules /\ live \in Rules /\ listed \in [Request -> Rules]
  BY NoRulesFacts DEF Init
<1>2. /\ pc \in [Request -> {"idle", "update", "import", "list", "reload"}]
      /\ \A r \in Request : pc[r] # "update"
      /\ target \in [Request -> Text \union {None}]
  BY DEF Init
<1>3. up \in BOOLEAN /\ disturbed \in BOOLEAN /\ faults \in Nat
  BY DEF Init
<1> QED
  BY <1>1, <1>2, <1>3 DEF TypeOK

\* Every step of every handler, failure and restart keeps the types; None is
\* never a rule that an update works on.
LEMMA NextType == TypeOK /\ [Next]_vars => TypeOK'
<1> SUFFICES ASSUME TypeOK, [Next]_vars PROVE TypeOK'
  OBVIOUS
<1> USE RulesAssumption
<1>1. ASSUME NEW r \in Request, NEW t \in Text, CreateRule(r, t) PROVE TypeOK'
  BY <1>1 DEF TypeOK, CreateRule, Begin, Goto, Rules, rule_id
<1>2. ASSUME NEW r \in Request, NEW t \in Text, DeleteRule(r, t) PROVE TypeOK'
  BY <1>2 DEF TypeOK, DeleteRule, Begin, Goto, Rules
<1>3. ASSUME NEW r \in Request, NEW t \in Text, FindRule(r, t) PROVE TypeOK'
  BY <1>3 DEF TypeOK, FindRule, Begin, Goto
<1>4. ASSUME NEW r \in Request, NEW t \in Imported, ImportLine(r, t) PROVE TypeOK'
  BY <1>4 DEF TypeOK, ImportLine, Begin, Goto, Rules, rule_id
<1>5. ASSUME NEW r \in Request, NEW t \in Text, UpdateRule(r, t) PROVE TypeOK'
  BY <1>5 DEF TypeOK, UpdateRule, Goto, Rules
<1>6. ASSUME NEW r \in Request, NEW t \in Text, UpdateRefused(r, t) PROVE TypeOK'
  BY <1>6 DEF TypeOK, UpdateRefused, Goto
<1>7. ASSUME NEW r \in Request, ImportEnds(r) PROVE TypeOK'
  BY <1>7 DEF TypeOK, ImportEnds, Goto
<1>8. ASSUME NEW r \in Request, ListRules(r) PROVE TypeOK'
  BY <1>8 DEF TypeOK, ListRules, Goto
<1>9. ASSUME NEW r \in Request, ReloadRules(r) PROVE TypeOK'
  BY <1>9, NoRulesFacts DEF TypeOK, ReloadRules, Goto
<1>10. ASSUME NEW r \in Request, HandlerStops(r) PROVE TypeOK'
  BY <1>10, NoRulesFacts DEF TypeOK, HandlerStops, Abandon, Goto, Fault
<1>11. ASSUME NEW readable \in BOOLEAN, Restart(readable) PROVE TypeOK'
  BY <1>11, NoRulesFacts DEF TypeOK, Restart, Fault, Compiles
<1>12. CASE UNCHANGED vars
  BY <1>12 DEF TypeOK, vars
<1> QED
  BY <1>1, <1>2, <1>3, <1>4, <1>5, <1>6, <1>7, <1>8, <1>9, <1>10, <1>11, <1>12
     DEF Next, Step

-----------------------------------------------------------------------------
(* What is live was validated or imported                                  *)

\* Every step keeps what is stored, listed and live vetted.
LEMMA NextVetted == VettedInv /\ [Next]_vars => VettedInv'
<1> SUFFICES ASSUME VettedInv, [Next]_vars PROVE VettedInv'
  OBVIOUS
<1>0. TypeOK /\ TypeOK'
  BY NextType DEF VettedInv
<1> USE RulesAssumption, <1>0
<1>1. ASSUME NEW r \in Request, NEW t \in Text, CreateRule(r, t) PROVE VettedInv'
  BY <1>1, SaveKeepsVetted
     DEF VettedInv, AlwaysStarts, TypeOK, CreateRule, Validated, rule_id
<1>2. ASSUME NEW r \in Request, NEW t \in Text, DeleteRule(r, t) PROVE VettedInv'
  BY <1>2, SaveKeepsVetted DEF VettedInv, AlwaysStarts, TypeOK, DeleteRule
<1>3. ASSUME NEW r \in Request, NEW t \in Text, FindRule(r, t) PROVE VettedInv'
  BY <1>3 DEF VettedInv, AlwaysStarts, FindRule
<1>4. ASSUME NEW r \in Request, NEW t \in Imported, ImportLine(r, t) PROVE VettedInv'
  BY <1>4, SaveKeepsVetted DEF VettedInv, AlwaysStarts, TypeOK, ImportLine, rule_id
<1>5. ASSUME NEW r \in Request, NEW t \in Text, UpdateRule(r, t) PROVE VettedInv'
  BY <1>5, SaveKeepsVetted DEF VettedInv, AlwaysStarts, TypeOK, UpdateRule, Validated
<1>6. ASSUME NEW r \in Request, NEW t \in Text, UpdateRefused(r, t) PROVE VettedInv'
  BY <1>6 DEF VettedInv, AlwaysStarts, UpdateRefused
<1>7. ASSUME NEW r \in Request, ImportEnds(r) PROVE VettedInv'
  BY <1>7 DEF VettedInv, AlwaysStarts, ImportEnds
<1>8. ASSUME NEW r \in Request, ListRules(r) PROVE VettedInv'
  BY <1>8 DEF VettedInv, AlwaysStarts, TypeOK, ListRules
<1>9. ASSUME NEW r \in Request, ReloadRules(r) PROVE VettedInv'
  BY <1>9, NoRulesFacts DEF VettedInv, AlwaysStarts, TypeOK, ReloadRules
<1>10. ASSUME NEW r \in Request, HandlerStops(r) PROVE VettedInv'
  BY <1>10, NoRulesFacts DEF VettedInv, AlwaysStarts, TypeOK, HandlerStops, Abandon
<1>11. ASSUME NEW readable \in BOOLEAN, Restart(readable) PROVE VettedInv'
  BY <1>11, NoRulesFacts, VettedCompiles DEF VettedInv, AlwaysStarts, Restart
<1>12. CASE UNCHANGED vars
  BY <1>12 DEF VettedInv, AlwaysStarts, vars
<1> QED
  BY <1>1, <1>2, <1>3, <1>4, <1>5, <1>6, <1>7, <1>8, <1>9, <1>10, <1>11, <1>12
     DEF Next, Step

\* Whatever RPCs overlap or fail and whenever the daemon restarts, no rule
\* that NsqlValidator rejects is live unless import_rules brought it in, and
\* the daemon can load what was persisted unless clients import rules that do
\* not compile.
THEOREM RulesStaySafe == Spec => []RulesInv
<1>1. Init => VettedInv
  BY InitType, NoRulesFacts DEF Init, VettedInv, AlwaysStarts
<1>2. VettedInv => RulesInv
  BY DEF VettedInv, Vetted, RulesInv, LiveRulesValidated
<1> QED
  BY <1>1, <1>2, NextVetted, PTL DEF Spec

-----------------------------------------------------------------------------
(* The live engine agrees with the store                                   *)

\* An RPC that begins without disturbing another finds every handler idle.
LEMMA BeginAlone ==
    ASSUME TypeOK, NEW r \in Request, Begin(r), ~disturbed'
    PROVE  ~disturbed /\ Quiet
BY DEF Begin, Quiet, TypeOK

\* Every step keeps what a lone handler relies on; the reload that finds all
\* others idle establishes it again.
LEMMA NextAlone == AloneInv /\ [Next]_vars => AloneInv'
<1> SUFFICES ASSUME AloneInv, [Next]_vars, ~disturbed' PROVE Alone'
  BY NextType DEF AloneInv
<1>0. TypeOK /\ TypeOK' /\ (~disturbed => Alone)
  BY NextType DEF AloneInv
<1> USE RulesAssumption, <1>0
<1>1. ASSUME NEW r \in Request, NEW t \in Text, CreateRule(r, t) PROVE Alone'
  BY <1>1, BeginAlone DEF Alone, TypeOK, CreateRule, Goto, Quiet
<1>2. ASSUME NEW r \in Request, NEW t \in Text, DeleteRule(r, t) PROVE Alone'
  BY <1>2, BeginAlone DEF Alone, TypeOK, DeleteRule, Goto, Quiet
<1>3. ASSUME NEW r \in Request, NEW t \in Text, FindRule(r, t) PROVE Alone'
  BY <1>3, BeginAlone DEF Alone, TypeOK, FindRule, Goto, Quiet
<1>4. ASSUME NEW r \in Request, NEW t \in Imported, ImportLine(r, t) PROVE Alone'
  <2>1. CASE Begin(r)
    BY <1>4, <2>1, BeginAlone DEF Alone, TypeOK, ImportLine, Goto, Quiet
  <2>2. CASE pc[r] = "import" /\ UNCHANGED disturbed
    BY <1>4, <2>2 DEF Alone, TypeOK, ImportLine, Goto
  <2> QED
    BY <1>4, <2>1, <2>2 DEF ImportLine
<1>5. ASSUME NEW r \in Request, NEW t \in Text, UpdateRule(r, t) PROVE Alone'
  BY <1>5 DEF Alone, TypeOK, UpdateRule, Goto
<1>6. ASSUME NEW r \in Request, NEW t \in Text, UpdateRefused(r, t) PROVE Alone'
  BY <1>6 DEF Alone, TypeOK, UpdateRefused, Goto
<1>7. ASSUME NEW r \in Request, ImportEnds(r) PROVE Alone'
  BY <1>7 DEF Alone, TypeOK, ImportEnds, Goto
<1>8. ASSUME NEW r \in Request, ListRules(r) PROVE Alone'
  BY <1>8 DEF Alone, TypeOK, ListRules, Goto
<1>9. ASSUME NEW r \in Request, ReloadRules(r) PROVE Alone'
  BY <1>9 DEF Alone, TypeOK, ReloadRules, Goto
<1>10. ASSUME NEW r \in Request, HandlerStops(r) PROVE Alone'
  BY <1>10 DEF HandlerStops
<1>11. ASSUME NEW readable \in BOOLEAN, Restart(readable) PROVE Alone'
  BY <1>11 DEF Alone, Restart
<1>12. CASE UNCHANGED vars
  BY <1>12 DEF Alone, vars
<1> QED
  BY <1>1, <1>2, <1>3, <1>4, <1>5, <1>6, <1>7, <1>8, <1>9, <1>10, <1>11, <1>12
     DEF Next, Step

\* The lone-handler invariant holds at the start.
LEMMA InitAlone == Init => AloneInv
BY InitType DEF Init, AloneInv, Alone

\* With no Filters RPC in progress the live engine and the store hold the same
\* rules, if these compile and nothing overlapped or stopped short since the
\* last reload that ran alone.
THEOREM LiveAgreesWithStore == Spec => []AgreeAtRest
<1>1. AloneInv => AgreeAtRest
  BY DEF AloneInv, Alone, AgreeAtRest, Quiet
<1> QED
  BY <1>1, InitAlone, NextAlone, PTL DEF Spec

\* An update_rule that no other RPC overlaps saves over a rule that exists.
THEOREM UpdatesNeverCreate == Spec => UpdatesOnlyPersisted
<1>1. AloneInv /\ [Next]_vars =>
        [\A r \in Request :
           pc[r] = "update" /\ pc'[r] = "list" /\ ~disturbed => rules[target[r]] # None]_vars
  BY DEF AloneInv, Alone
<1> QED
  BY <1>1, InitAlone, NextAlone, PTL DEF Spec, UpdatesOnlyPersisted

-----------------------------------------------------------------------------
(* Messages and accounts                                                   *)


Phases == {"closed", "create", "smtp", "tls", "backfill", "open"}

\* A row is what save_email was last given, sealed with some key; the index
\* has no entry for it, or one; only the entry of a row whose key is lost may
\* lack the body.
RowKept(i) ==
    IF saved[i] = Null THEN messages[i] = Null /\ messages_fts[i] = << >>
    ELSE \E k \in 1..minted :
            /\ messages[i] = [saved[i] EXCEPT !.body = Seal(k, @)]
            /\ \/ messages_fts[i] = << >>
               \/ messages_fts[i] = <<[subject |-> saved[i].subject, body |-> OrEmpty(saved[i].body)]>>
               \/ k < minted /\ messages_fts[i] = <<[subject |-> saved[i].subject, body |-> ""]>>

\* An account has the settings it was last given, in the words of the columns;
\* what is in a column to come was never given.
ModeKept(stored, given) == tls_mode_from_db(stored) = IF given = Null THEN "ImplicitTls" ELSE given

AccountKept(i) ==
    IF configured[i] = Null THEN accounts[i] = Null
    ELSE /\ accounts[i] \in AccountForm(DbModes \union {Null})
         /\ accounts[i].id = configured[i].id
         /\ accounts[i].server_host = configured[i].server_host
         /\ accounts[i].server_port = configured[i].server_port
         /\ accounts[i].smtp_host = configured[i].smtp_host
         /\ accounts[i].smtp_port = configured[i].smtp_port
         /\ ModeKept(accounts[i].imap_tls_mode, configured[i].imap_tls_mode)
         /\ ModeKept(accounts[i].smtp_tls_mode, configured[i].smtp_tls_mode)
         /\ "smtp_host" \in columns \/ configured[i].smtp_host = Null
         /\ "smtp_port" \in columns \/ configured[i].smtp_port = Null
         /\ "imap_tls_mode" \in columns \/ configured[i].imap_tls_mode = Null
         /\ "smtp_tls_mode" \in columns \/ configured[i].smtp_tls_mode = Null

RowsInv ==
    /\ messages \in [EmailIds -> MessageForm(SealedBodies) \union {Null}]
    /\ DOMAIN messages_fts = EmailIds
    /\ saved \in [EmailIds -> Email \union {Null}]
    /\ \A i \in EmailIds : saved[i] # Null => saved[i].id = i
    /\ \A i \in EmailIds : RowKept(i)

AccountsInv ==
    /\ DOMAIN accounts = AccountIds
    /\ configured \in [AccountIds -> AccountForm(DOMAIN tls_mode_to_db \union {Null}) \union {Null}]
    /\ \A i \in AccountIds : AccountKept(i)

\* What a phase knows of the steps before it.
PhaseInv ==
    /\ phase \in Phases
    /\ minted \in 0..MaxKeys /\ vaultKey \in {0, minted}
    /\ phase # "closed" => storage_key = minted /\ minted # 0
    /\ columns \subseteq Columns
    /\ phase = "smtp" => toAdd = absent("smtp_host", "smtp_port")
    /\ phase = "tls" => /\ toAdd = absent("imap_tls_mode", "smtp_tls_mode")
                        /\ {"smtp_host", "smtp_port"} \subseteq columns
    /\ phase \in {"backfill", "open"} => columns = Columns
    /\ phase = "backfill" => toIndex = unindexed
    /\ phase = "open" => unindexed = {}

StoreInv == RowsInv /\ AccountsInv /\ PhaseInv

-----------------------------------------------------------------------------
(* The cipher and the modes                                                *)

\* A sealed email is a row, and differs from the email in its body alone.
LEMMA SealedRow ==
    ASSUME NEW e \in Email, NEW k \in 1..MaxKeys
    PROVE  LET r == [e EXCEPT !.body = Seal(k, @)]
           IN /\ r \in MessageForm(SealedBodies) /\ r # Null /\ r.body = Seal(k, e.body)
              /\ r.id = e.id /\ r.account_id = e.account_id /\ r.folder_id = e.folder_id
              /\ r.received_at = e.received_at /\ r.subject = e.subject
<1>1. e \in MessageForm(Texts)
    BY StoreAssumption
<1>2. e.body \in Texts
    BY DEF Texts
<1>3. Seal(k, e.body) \in SealedBodies
    BY <1>2 DEF Seal, encrypt_text_at_rest, SealedBodies
<1> DEFINE r == [e EXCEPT !.body = Seal(k, @)]
<1>4. r \in MessageForm(SealedBodies)
    BY <1>1, <1>3 DEF MessageForm
<1>5. r # Null
    BY <1>4, NullAssumption
<1> QED
    BY <1>1, <1>4, <1>5 DEF MessageForm

\* A text reads back with the key it was sealed with, and as none with another.
LEMMA Unsealed ==
    ASSUME NEW b \in Texts, NEW k \in 1..MaxKeys, NEW key \in Nat
    PROVE  /\ Unseal(key, Seal(k, b)) = IF b = Null THEN Null ELSE IF k = key THEN b ELSE ""
           /\ Seal(k, b) \notin {Null, << >>} => b \notin {Null, ""} /\ Seal(k, b)[1] = k
           /\ Seal(k, b) \in {Null, << >>} => b \in {Null, ""}
<1>1. <<k, b>> # Null /\ << >> # Null /\ "" # Null
  <2> DEFINE sealed == (1..MaxKeys) \X Texts
  <2>1. Null \notin {"", << >>} /\ Null \notin sealed
      BY NullAssumption
  <2>2. <<k, b>> \in sealed
      OBVIOUS
  <2> HIDE DEF sealed
  <2> QED
      BY <2>1, <2>2
<1>2. <<k, b>> # << >> /\ <<k, b>>[1] = k /\ <<k, b>>[2] = b
    OBVIOUS
<1> QED
    BY <1>1, <1>2 DEF Unseal, Seal, encrypt_text_at_rest, decrypt_text_at_rest

\* A mode is read as it was written; a NULL as implicit TLS.
LEMMA ModeRead ==
    /\ \A m \in DOMAIN tls_mode_to_db : tls_mode_to_db[m] \in DbModes /\ tls_mode_from_db(tls_mode_to_db[m]) = m
    /\ tls_mode_from_db(Null) = "ImplicitTls" /\ tls_mode_from_db("implicit_tls") = "ImplicitTls"
    /\ Null \notin DOMAIN tls_mode_to_db
<1> DEFINE db == tls_mode_to_db
<1>1. DOMAIN db = {"ImplicitTls", "StartTls", "Plain"}
    BY DEF tls_mode_to_db
<1>2. db["ImplicitTls"] = "implicit_tls" /\ db["StartTls"] = "start_tls" /\ db["Plain"] = "plain"
    BY DEF tls_mode_to_db
<1>3. Null \notin DbModes /\ Null \notin DOMAIN db
    BY NullAssumption
<1>4. \A m \in DOMAIN db : db[m] \in DbModes
    BY <1>1, <1>2 DEF DbModes
<1>5. \A m, n \in DOMAIN db : db[m] = db[n] => m = n
    BY <1>1, <1>2
<1> HIDE DEF db
<1>6. ASSUME NEW m \in DOMAIN db
      PROVE  tls_mode_from_db(db[m]) = m
    BY <1>5 DEF tls_mode_from_db, db
<1>7. tls_mode_from_db(Null) = "ImplicitTls"
    BY <1>3, <1>4 DEF tls_mode_from_db, db
<1> QED
    BY <1>1, <1>2, <1>3, <1>4, <1>6, <1>7 DEF db

-----------------------------------------------------------------------------
(* The invariant                                                           *)

\* What the invariant says of a row follows from the row, its entry and the
\* keys alone.
LEMMA RowStays ==
    ASSUME NEW i, RowKept(i), minted \in Nat, minted' \in Nat, minted <= minted',
           messages'[i] = messages[i], messages_fts'[i] = messages_fts[i], saved'[i] = saved[i]
    PROVE  RowKept(i)'
<1>1. CASE saved[i] = Null
    BY <1>1 DEF RowKept
<1>2. CASE saved[i] # Null
  <2>0. PICK k \in 1..minted : /\ messages[i] = [saved[i] EXCEPT !.body = Seal(k, @)]
                               /\ \/ messages_fts[i] = << >>
                                  \/ messages_fts[i] = <<[subject |-> saved[i].subject, body |-> OrEmpty(saved[i].body)]>>
                                  \/ k < minted /\ messages_fts[i] = <<[subject |-> saved[i].subject, body |-> ""]>>
      BY <1>2 DEF RowKept
  <2>1. k \in 1..minted' /\ (k < minted => k < minted')
    <3> DEFINE m == minted
               n == minted'
    <3>1. k \in 1..m /\ m \in Nat /\ n \in Nat /\ m <= n
        OBVIOUS
    <3> HIDE DEF m, n
    <3>2. k \in 1..n /\ (k < m => k < n)
        BY <3>1
    <3> QED
        BY <3>2 DEF m, n
  <2>2. messages'[i] = [saved'[i] EXCEPT !.body = Seal(k, @)]
      BY <2>0
  <2>3. \/ messages_fts'[i] = << >>
        \/ messages_fts'[i] = <<[subject |-> saved'[i].subject, body |-> OrEmpty(saved'[i].body)]>>
        \/ k < minted' /\ messages_fts'[i] = <<[subject |-> saved'[i].subject, body |-> ""]>>
      BY <2>0, <2>1
  <2> QED
      BY <1>2, <2>1, <2>2, <2>3 DEF RowKept
<1> QED
    BY <1>1, <1>2

LEMMA RowsStay ==
    ASSUME RowsInv, minted \in Nat, minted' \in Nat, minted <= minted', UNCHANGED <<messages, messages_fts, saved>>
    PROVE  RowsInv'
<1>1. \A i \in EmailIds : RowKept(i)'
    BY RowStays DEF RowsInv
<1> QED
    BY <1>1 DEF RowsInv

\* An account stays as it is while its row does and columns are only added.
LEMMA AccountStays ==
    ASSUME NEW i, AccountKept(i), columns \subseteq columns', accounts'[i] = accounts[i], configured'[i] = configured[i]
    PROVE  AccountKept(i)'
    BY DEF AccountKept

LEMMA AccountsStay ==
    ASSUME AccountsInv, columns \subseteq columns', UNCHANGED <<accounts, configured>>
    PROVE  AccountsInv'
<1>1. \A i \in AccountIds : AccountKept(i)'
    BY AccountStays DEF AccountsInv
<1> QED
    BY <1>1 DEF AccountsInv

\* The rows to be indexed depend on the table and the index alone.
LEMMA UnindexedStays ==
    ASSUME UNCHANGED <<messages, messages_fts>>
    PROVE  unindexed' = unindexed
    BY DEF unindexed, Indexed

LEMMA AbsentStays ==
    ASSUME UNCHANGED columns, NEW c, NEW d
    PROVE  absent(c, d)' = absent(c, d)
    BY DEF absent

\* None of a pair is absent: both are there.
LEMMA AbsentNone ==
    ASSUME NEW c, NEW d, absent(c, d) = << >>
    PROVE  {c, d} \subseteq columns
<1>1. CASE c \in columns /\ d \notin columns
  <2>1. absent(c, d) = <<d>>
      BY <1>1 DEF absent
  <2> QED
      BY <2>1
<1>2. CASE c \notin columns /\ d \in columns
  <2>1. absent(c, d) = <<c>>
      BY <1>2 DEF absent
  <2> QED
      BY <2>1
<1>3. CASE c \notin columns /\ d \notin columns
  <2>1. absent(c, d) = <<c>> \o <<d>>
      BY <1>3 DEF absent
  <2>2. <<c>> \in Seq({c, d}) /\ <<d>> \in Seq({c, d}) /\ Len(<<c>>) = 1 /\ Len(<<d>>) = 1
      OBVIOUS
  <2> QED
      BY <2>1, <2>2
<1> QED
    BY <1>1, <1>2, <1>3

\* The invariant holds of every file an earlier version may have left.
LEMMA StoreStarts == StoreInit => StoreInv
<1> SUFFICES ASSUME StoreInit PROVE StoreInv
    OBVIOUS
<1>1. PICK old \in OldFile :
          /\ columns = old.columns
          /\ accounts = old.accounts
          /\ messages = [i \in EmailIds |-> IF old.messages[i] = Null THEN Null
                                            ELSE [old.messages[i] EXCEPT !.body = Seal(1, @)]]
          /\ saved = old.messages
          /\ configured = old.accounts
          /\ minted = old.keys /\ vaultKey = old.keys
    BY DEF StoreInit
<1>2. /\ old.keys \in 0..MaxKeys /\ old.columns \subseteq Columns
      /\ old.messages \in [EmailIds -> Email \union {Null}]
      /\ \A i \in EmailIds : old.messages[i] # Null => old.keys > 0 /\ old.messages[i].id = i
      /\ old.accounts \in [AccountIds -> AccountForm({Null}) \union {Null}]
      /\ \A i \in AccountIds :
            old.accounts[i] # Null =>
               /\ old.accounts[i].id = i
               /\ \A c \in Columns \ old.columns : old.accounts[i][c] = Null
    BY OldFileAssumption
<1>3. RowsInv
  <2>1. ASSUME NEW i \in EmailIds
        PROVE  RowKept(i) /\ messages[i] \in MessageForm(SealedBodies) \union {Null}
               /\ saved[i] \in Email \union {Null} /\ (saved[i] # Null => saved[i].id = i)
    <3>1. CASE saved[i] = Null
        BY <1>1, <3>1 DEF RowKept, StoreInit
    <3>2. CASE saved[i] # Null
      <4>1. saved[i] \in Email /\ saved[i].id = i /\ 1 \in 1..minted /\ 1 \in 1..MaxKeys
        <5>1. old.keys > 0 /\ old.keys <= MaxKeys /\ old.keys \in Nat /\ MaxKeys \in Nat
            BY <1>1, <1>2, <3>2, StoreAssumption
        <5> QED
            BY <1>1, <1>2, <3>2, <5>1
      <4>2. messages[i] = [saved[i] EXCEPT !.body = Seal(1, @)] /\ messages_fts[i] = << >>
          BY <1>1, <3>2 DEF StoreInit
      <4>3. messages[i] \in MessageForm(SealedBodies)
          BY <4>1, <4>2, SealedRow
      <4> QED
          BY <3>2, <4>1, <4>2, <4>3 DEF RowKept
    <3> QED
        BY <3>1, <3>2
  <2> QED
      BY <1>1, <1>2, <2>1 DEF RowsInv, StoreInit
<1>4. AccountsInv
  <2>1. ASSUME NEW i \in AccountIds, accounts[i] # Null
        PROVE  AccountKept(i) /\ configured[i] \in AccountForm({Null})
    <3>1. /\ accounts[i] \in AccountForm({Null}) /\ configured[i] = accounts[i]
          /\ \A c \in Columns \ columns : configured[i][c] = Null
        BY <1>1, <1>2, <2>1
    <3>2. accounts[i] \in AccountForm(DbModes \union {Null})
        BY <3>1 DEF AccountForm
    <3>3. accounts[i].imap_tls_mode = Null /\ accounts[i].smtp_tls_mode = Null
        BY <3>1 DEF AccountForm
    <3>4. \A c \in {"smtp_host", "smtp_port", "imap_tls_mode", "smtp_tls_mode"} : c \in columns \/ configured[i][c] = Null
        BY <3>1 DEF Columns
    <3> QED
        BY <2>1, <3>1, <3>2, <3>3, <3>4, ModeRead DEF AccountKept, ModeKept
  <2>2. \A i \in AccountIds : AccountKept(i)
      BY <1>1, <2>1 DEF AccountKept
  <2>3. AccountForm({Null}) \subseteq AccountForm(DOMAIN tls_mode_to_db \union {Null})
      BY DEF AccountForm
  <2>4. \A i \in AccountIds : configured[i] \in AccountForm(DOMAIN tls_mode_to_db \union {Null}) \union {Null}
      BY <1>1, <2>1, <2>3
  <2> QED
      BY <1>1, <1>2, <2>2, <2>4 DEF AccountsInv
<1>5. PhaseInv
    BY <1>1, <1>2 DEF PhaseInv, StoreInit, Phases
<1> QED
    BY <1>3, <1>4, <1>5 DEF StoreInv

\* What the steps of an open leave alone.
LEMMA TablesStay ==
    ASSUME StoreInv, UNCHANGED <<accounts, configured, messages, messages_fts, saved>>,
           columns \subseteq columns', minted' \in 0..MaxKeys, minted <= minted'
    PROVE  RowsInv' /\ AccountsInv' /\ unindexed' = unindexed
<1>1. minted \in Nat /\ minted' \in Nat
    BY StoreAssumption DEF StoreInv, PhaseInv
<1> QED
    BY <1>1, RowsStay, AccountsStay, UnindexedStays DEF StoreInv

\* A column is added to every row with what it has when nothing was given.
LEMMA ColumnAdded ==
    ASSUME StoreInv, NEW c \in {"smtp_host", "smtp_port", "imap_tls_mode", "smtp_tls_mode"}, NEW default, c \notin columns,
           default = IF c \in {"smtp_host", "smtp_port"} THEN Null ELSE "implicit_tls",
           columns' = columns \union {c}, UNCHANGED configured,
           accounts' = [i \in AccountIds |-> IF accounts[i] = Null THEN Null ELSE [accounts[i] EXCEPT ![c] = default]]
    PROVE  AccountsInv'
<1>1. ASSUME NEW i \in AccountIds
      PROVE  AccountKept(i)'
  <2>1. AccountKept(i) /\ configured'[i] = configured[i]
      BY DEF StoreInv, AccountsInv
  <2>2. CASE configured[i] = Null
      BY <2>1, <2>2 DEF AccountKept
  <2>3. CASE configured[i] # Null
    <3>1. accounts[i] \in AccountForm(DbModes \union {Null}) /\ accounts[i] # Null
        BY <2>1, <2>3, NullAssumption DEF AccountKept, AccountForm
    <3>2. accounts'[i] = [accounts[i] EXCEPT ![c] = default]
        BY <3>1
    <3> DEFINE old == accounts[i]
               new == accounts'[i]
               given == configured[i]
    <3>3. CASE c = "smtp_host"
      <4>1. new = [old EXCEPT !.smtp_host = Null]
          BY <3>2, <3>3
      <4>2. given.smtp_host = Null
          BY <2>1, <2>3, <3>3 DEF AccountKept
      <4> HIDE DEF new
      <4>3. /\ new \in AccountForm(DbModes \union {Null}) /\ new.smtp_host = Null /\ new.smtp_port = old.smtp_port
            /\ new.id = old.id /\ new.server_host = old.server_host /\ new.server_port = old.server_port
            /\ new.imap_tls_mode = old.imap_tls_mode /\ new.smtp_tls_mode = old.smtp_tls_mode
          BY <3>1, <4>1 DEF AccountForm
      <4> QED
          BY <2>1, <2>3, <4>2, <4>3 DEF AccountKept, new
    <3>4. CASE c = "smtp_port"
      <4>1. new = [old EXCEPT !.smtp_port = Null]
          BY <3>2, <3>4
      <4>2. given.smtp_port = Null
          BY <2>1, <2>3, <3>4 DEF AccountKept
      <4> HIDE DEF new
      <4>3. /\ new \in AccountForm(DbModes \union {Null}) /\ new.smtp_port = Null /\ new.smtp_host = old.smtp_host
            /\ new.id = old.id /\ new.server_host = old.server_host /\ new.server_port = old.server_port
            /\ new.imap_tls_mode = old.imap_tls_mode /\ new.smtp_tls_mode = old.smtp_tls_mode
          BY <3>1, <4>1 DEF AccountForm
      <4> QED
          BY <2>1, <2>3, <4>2, <4>3 DEF AccountKept, new
    <3>5. CASE c = "imap_tls_mode"
      <4>1. new = [old EXCEPT !.imap_tls_mode = "implicit_tls"]
          BY <3>2, <3>5
      <4>2. given.imap_tls_mode = Null
          BY <2>1, <2>3, <3>5 DEF AccountKept
      <4> HIDE DEF new
      <4>3. /\ new \in AccountForm(DbModes \union {Null}) /\ new.imap_tls_mode = "implicit_tls"
            /\ new.id = old.id /\ new.server_host = old.server_host /\ new.server_port = old.server_port
            /\ new.smtp_host = old.smtp_host /\ new.smtp_port = old.smtp_port /\ new.smtp_tls_mode = old.smtp_tls_mode
          BY <3>1, <4>1 DEF AccountForm, DbModes
      <4> QED
          BY <2>1, <2>3, <4>2, <4>3, ModeRead DEF AccountKept, ModeKept, new
    <3>6. CASE c = "smtp_tls_mode"
      <4>1. new = [old EXCEPT !.smtp_tls_mode = "implicit_tls"]
          BY <3>2, <3>6
      <4>2. given.smtp_tls_mode = Null
          BY <2>1, <2>3, <3>6 DEF AccountKept
      <4> HIDE DEF new
      <4>3. /\ new \in AccountForm(DbModes \union {Null}) /\ new.smtp_tls_mode = "implicit_tls"
            /\ new.id = old.id /\ new.server_host = old.server_host /\ new.server_port = old.server_port
            /\ new.smtp_host = old.smtp_host /\ new.smtp_port = old.smtp_port /\ new.imap_tls_mode = old.imap_tls_mode
          BY <3>1, <4>1 DEF AccountForm, DbModes
      <4> QED
          BY <2>1, <2>3, <4>2, <4>3, ModeRead DEF AccountKept, ModeKept, new
    <3> QED
        BY <3>3, <3>4, <3>5, <3>6
  <2> QED
      BY <2>2, <2>3
<1> QED
    BY <1>1 DEF StoreInv, AccountsInv

LEMMA AddColumnKeeps ==
    ASSUME StoreInv, NEW from, NEW default, AddColumn(from, default),
           \/ from = "smtp" /\ default = Null
           \/ from = "tls" /\ default = "implicit_tls"
    PROVE  StoreInv'
<1> DEFINE first  == IF from = "smtp" THEN "smtp_host" ELSE "imap_tls_mode"
           second == IF from = "smtp" THEN "smtp_port" ELSE "smtp_tls_mode"
           c == Head(toAdd)
<1>1. /\ toAdd = absent(first, second) /\ toAdd # << >> /\ first # second
      /\ from = "tls" => {"smtp_host", "smtp_port"} \subseteq columns
    BY DEF StoreInv, PhaseInv, AddColumn
<1>2. /\ c \notin columns /\ c \in {first, second}
      /\ Tail(toAdd) = (IF c = first /\ second \notin columns THEN <<second>> ELSE << >>)
      /\ c = second => first \in columns
  <2> HIDE DEF first, second
  <2>1. CASE first \in columns
    <3>1. toAdd = << >> \/ (second \notin columns /\ toAdd = <<second>>)
        BY <1>1, <2>1 DEF absent
    <3>2. second \notin columns /\ toAdd = <<second>>
        BY <1>1, <3>1
    <3>3. c = second /\ Tail(toAdd) = << >>
        BY <3>2
    <3> QED
        BY <1>1, <2>1, <3>2, <3>3
  <2>2. CASE first \notin columns /\ second \in columns
    <3>1. toAdd = <<first>>
        BY <1>1, <2>2 DEF absent
    <3>2. c = first /\ Tail(toAdd) = << >>
        BY <3>1
    <3> QED
        BY <1>1, <2>2, <3>2
  <2>3. CASE first \notin columns /\ second \notin columns
    <3>0. toAdd = <<first>> \o <<second>>
        BY <1>1, <2>3 DEF absent
    <3> DEFINE S == {first, second}
    <3>1. <<first>> \in Seq(S) /\ <<second>> \in Seq(S) /\ Len(<<first>>) = 1 /\ Len(<<second>>) = 1
        OBVIOUS
    <3>2. toAdd \in Seq(S) /\ Len(toAdd) = 2 /\ toAdd[1] = first /\ toAdd[2] = second
        BY <3>0, <3>1
    <3>3. c = first /\ Tail(toAdd) \in Seq(S) /\ Len(Tail(toAdd)) = 1 /\ Tail(toAdd)[1] = second
        BY <3>2
    <3>4. Tail(toAdd) = <<second>>
      <4> DEFINE t == Tail(toAdd)
                 u == <<second>>
      <4>1. t \in Seq(S) /\ u \in Seq(S) /\ Len(t) = 1 /\ Len(u) = 1 /\ t[1] = second /\ u[1] = second
          BY <3>1, <3>3
      <4> HIDE DEF t, u
      <4>2. Len(t) = Len(u) /\ \A i \in 1 .. Len(t) : t[i] = u[i]
          BY <4>1
      <4>3. t = u
          BY ONLY <4>1, <4>2, SeqEqual
      <4> QED
          BY <4>3 DEF t, u
    <3> QED
        BY <1>1, <2>3, <3>3, <3>4
  <2> QED
      BY <2>1, <2>2, <2>3
<1>3. /\ columns' = columns \union {c} /\ toAdd' = Tail(toAdd)
      /\ accounts' = [i \in AccountIds |-> IF accounts[i] = Null THEN Null ELSE [accounts[i] EXCEPT ![c] = default]]
      /\ UNCHANGED phase
      /\ UNCHANGED <<schema, messages, messages_fts, toIndex, vaultKey, storage_key, minted, cuts, givenVars>>
    BY <1>2 DEF AddColumn
<1>4. c \in {"smtp_host", "smtp_port", "imap_tls_mode", "smtp_tls_mode"}
    BY <1>2
<1>5. default = IF c \in {"smtp_host", "smtp_port"} THEN Null ELSE "implicit_tls"
    BY <1>2
<1>6. AccountsInv'
  <2> HIDE DEF c
  <2> QED
      BY <1>2, <1>3, <1>4, <1>5, ColumnAdded DEF givenVars
<1>7. RowsInv'
  <2>1. minted \in Nat
      BY StoreAssumption DEF StoreInv, PhaseInv
  <2> QED
      BY <1>3, <2>1, RowsStay DEF StoreInv, givenVars
<1>8. toAdd' = absent(first, second)'
    BY <1>1, <1>2, <1>3 DEF absent
<1>9. PhaseInv'
  <2>1. phase = from
      BY DEF AddColumn
  <2>2. columns' \subseteq Columns
      BY <1>3, <1>4 DEF StoreInv, PhaseInv, Columns
  <2> HIDE DEF c
  <2>3. phase' = "smtp" => toAdd' = absent("smtp_host", "smtp_port")'
      BY <1>3, <1>8, <2>1
  <2>4. phase' = "tls" => toAdd' = absent("imap_tls_mode", "smtp_tls_mode")' /\ {"smtp_host", "smtp_port"} \subseteq columns'
      BY <1>1, <1>3, <1>8, <2>1
  <2> QED
      BY <1>3, <2>1, <2>2, <2>3, <2>4 DEF StoreInv, PhaseInv
<1> QED
    BY <1>6, <1>7, <1>9 DEF StoreInv

\* A row that a backfill indexes gets the text it was given; but without the
\* body if its key is lost.
LEMMA BackfillKeeps ==
    ASSUME StoreInv, NEW j \in EmailIds, BackfillRow(j)
    PROVE  StoreInv'
<1>1. /\ phase = "backfill" /\ j \in toIndex /\ toIndex = unindexed /\ columns = Columns
      /\ storage_key = minted /\ minted \in 1..MaxKeys /\ minted \in Nat
    BY StoreAssumption DEF BackfillRow, StoreInv, PhaseInv
<1>2. /\ DOMAIN messages_fts = EmailIds
      /\ messages[j] # Null /\ messages_fts[j] = << >>
    BY <1>1 DEF unindexed, Indexed, StoreInv, RowsInv
<1> DEFINE entry == [subject |-> messages[j].subject, body |-> OrEmpty(Unseal(storage_key, messages[j].body))]
<1>3. /\ messages_fts' = [messages_fts EXCEPT ![j] = <<entry>>]
      /\ toIndex' = toIndex \ {j}
      /\ UNCHANGED <<columns, accounts, configured, messages, saved, vaultKey, storage_key, phase, minted>>
    BY <1>2 DEF BackfillRow, givenVars
<1>4. saved[j] # Null /\ saved[j] \in Email /\ RowKept(j)
    BY <1>2 DEF StoreInv, RowsInv, RowKept
<1>5. RowKept(j)'
  <2>1. PICK k \in 1..minted : messages[j] = [saved[j] EXCEPT !.body = Seal(k, @)]
      BY <1>4 DEF RowKept
  <2>2. k \in 1..MaxKeys /\ k \in Nat /\ saved[j].body \in Texts
    <3>1. MaxKeys \in Nat
        BY StoreAssumption
    <3>2. saved[j].body \in Texts
        BY <1>4 DEF Texts
    <3> QED
        BY <1>1, <3>1, <3>2
  <2>3. messages[j].subject = saved[j].subject /\ messages[j].body = Seal(k, saved[j].body)
      BY <1>4, <2>1, <2>2, SealedRow
  <2>4. Unseal(storage_key, messages[j].body) = IF saved[j].body = Null THEN Null
                                                ELSE IF k = minted THEN saved[j].body ELSE ""
    <3> DEFINE b == saved[j].body
    <3>1. Unseal(minted, Seal(k, b)) = IF b = Null THEN Null ELSE IF k = minted THEN b ELSE ""
      <4>1. b \in Texts /\ minted \in Nat /\ k \in 1..MaxKeys
          BY <1>1, <2>2
      <4> HIDE DEF b
      <4> QED
          BY ONLY <4>1, Unsealed
    <3> QED
        BY <1>1, <2>3, <3>1
  <2>5. \/ entry = [subject |-> saved[j].subject, body |-> OrEmpty(saved[j].body)]
        \/ k < minted /\ entry = [subject |-> saved[j].subject, body |-> ""]
    <3>1. CASE saved[j].body = Null \/ k = minted
        BY <2>3, <2>4, <3>1 DEF OrEmpty
    <3>2. CASE saved[j].body # Null /\ k # minted
      <4>1. k < minted
          BY <1>1, <2>1, <3>2
      <4> QED
          BY <2>3, <2>4, <3>2, <4>1, NullAssumption DEF OrEmpty
    <3> QED
        BY <3>1, <3>2
  <2> HIDE DEF entry
  <2>6. messages_fts'[j] = <<entry>>
      BY <1>2, <1>3
  <2>7. /\ saved'[j] # Null /\ k \in 1..minted'
        /\ messages'[j] = [saved'[j] EXCEPT !.body = Seal(k, @)]
        /\ \/ messages_fts'[j] = <<[subject |-> saved'[j].subject, body |-> OrEmpty(saved'[j].body)]>>
           \/ k < minted' /\ messages_fts'[j] = <<[subject |-> saved'[j].subject, body |-> ""]>>
      BY <1>3, <1>4, <2>1, <2>5, <2>6
  <2> QED
      BY <2>7 DEF RowKept
<1>6. RowsInv'
  <2> HIDE DEF entry
  <2>1. \A i \in EmailIds \ {j} : RowKept(i)'
    <3>1. \A i \in EmailIds \ {j} : messages_fts'[i] = messages_fts[i]
        BY <1>2, <1>3
    <3> QED
        BY <1>1, <1>3, <3>1, RowStays DEF StoreInv, RowsInv
  <2> QED
      BY <1>2, <1>3, <1>5, <2>1 DEF StoreInv, RowsInv
<1>7. unindexed' = unindexed \ {j}
    <2> HIDE DEF entry
    <2>1. <<entry>> # << >>
        OBVIOUS
    <2> QED
        BY <1>2, <1>3, <2>1 DEF unindexed, Indexed
<1>8. AccountsInv'
    BY <1>3, AccountsStay DEF StoreInv
<1>9. PhaseInv'
    BY <1>1, <1>3, <1>7 DEF StoreInv, PhaseInv
<1> QED
    BY <1>6, <1>8, <1>9 DEF StoreInv

LEMMA SaveEmailKeeps ==
    ASSUME StoreInv, NEW e \in Email, save_email(e)
    PROVE  StoreInv'
<1> DEFINE entry == [subject |-> e.subject, body |-> OrEmpty(e.body)]
           row == [e EXCEPT !.body = Seal(storage_key, e.body)]
           j == e.id
<1>1. /\ phase = "open" /\ columns = Columns /\ unindexed = {}
      /\ storage_key = minted /\ minted \in 1..MaxKeys /\ minted \in Nat
    BY StoreAssumption DEF save_email, StoreInv, PhaseInv
<1>2. /\ messages' = [messages EXCEPT ![j] = row]
      /\ messages_fts' = [messages_fts EXCEPT ![j] = <<entry>>]
      /\ saved' = [saved EXCEPT ![j] = e]
      /\ UNCHANGED <<columns, accounts, configured, vaultKey, storage_key, phase, toAdd, toIndex, minted>>
    BY DEF save_email, work
<1>3. /\ j \in EmailIds /\ DOMAIN messages_fts = EmailIds /\ DOMAIN messages = EmailIds /\ DOMAIN saved = EmailIds
      /\ e # Null
    BY StoreAssumption, NullAssumption DEF EmailIds, StoreInv, RowsInv
<1>4. row \in MessageForm(SealedBodies) /\ row # Null
    BY <1>1, SealedRow
<1> HIDE DEF entry, row, j
<1>5. messages'[j] = row /\ messages_fts'[j] = <<entry>> /\ saved'[j] = e /\ <<entry>> # << >>
    BY <1>2, <1>3
<1>6. RowKept(j)'
  <2>1. messages'[j] = [saved'[j] EXCEPT !.body = Seal(minted, @)]
      BY <1>1, <1>5 DEF row
  <2>2. messages_fts'[j] = <<[subject |-> saved'[j].subject, body |-> OrEmpty(saved'[j].body)]>>
      BY <1>5 DEF entry
  <2>3. minted \in 1..minted' /\ saved'[j] # Null
      BY <1>1, <1>2, <1>3, <1>5
  <2> QED
      BY <2>1, <2>2, <2>3 DEF RowKept
<1>7. \A i \in EmailIds \ {j} : messages'[i] = messages[i] /\ messages_fts'[i] = messages_fts[i] /\ saved'[i] = saved[i]
    BY <1>2, <1>3
<1>8. RowsInv'
  <2>1. \A i \in EmailIds \ {j} : RowKept(i)'
      BY <1>1, <1>2, <1>7, RowStays DEF StoreInv, RowsInv
  <2>2. \A i \in EmailIds : RowKept(i)'
      BY <1>6, <2>1
  <2>3. messages' \in [EmailIds -> MessageForm(SealedBodies) \union {Null}] /\ saved' \in [EmailIds -> Email \union {Null}]
      BY <1>2, <1>3, <1>4 DEF StoreInv, RowsInv
  <2>4. \A i \in EmailIds : saved'[i] # Null => saved'[i].id = i
      BY <1>5, <1>7 DEF StoreInv, RowsInv, j
  <2>5. DOMAIN messages_fts' = EmailIds
      BY <1>2, <1>3
  <2> QED
      BY <2>2, <2>3, <2>4, <2>5 DEF RowsInv
<1>9. unindexed' = {}
    BY <1>1, <1>5, <1>7 DEF unindexed, Indexed
<1>10. AccountsInv'
    BY <1>2, AccountsStay DEF StoreInv
<1>11. PhaseInv'
    BY <1>1, <1>2, <1>9 DEF StoreInv, PhaseInv
<1> QED
    BY <1>8, <1>10, <1>11 DEF StoreInv

LEMMA SaveAccountKeeps ==
    ASSUME StoreInv, NEW a \in AccountRow, save_account(a)
    PROVE  StoreInv'
<1> DEFINE row == [a EXCEPT !.imap_tls_mode = tls_mode_to_db[@], !.smtp_tls_mode = tls_mode_to_db[@]]
           j == a.id
<1>1. phase = "open" /\ columns = Columns
    BY DEF save_account, StoreInv, PhaseInv
<1>2. /\ accounts' = [accounts EXCEPT ![j] = row]
      /\ configured' = [configured EXCEPT ![j] = a]
      /\ UNCHANGED <<columns, messages, messages_fts, saved, vaultKey, storage_key, phase, toAdd, toIndex, minted>>
    BY DEF save_account, work
<1>3. a \in AccountForm(DOMAIN tls_mode_to_db)
    BY StoreAssumption
<1>4. a \in AccountForm(DOMAIN tls_mode_to_db \union {Null}) /\ a # Null
  <2>1. a \in AccountForm(DOMAIN tls_mode_to_db \union {Null})
      BY <1>3 DEF AccountForm
  <2>2. a \in AccountForm(DOMAIN tls_mode_to_db \union DbModes \union {Null})
      BY <1>3 DEF AccountForm
  <2> QED
      BY <2>1, <2>2, NullAssumption
<1>5. /\ row.id = a.id /\ row.server_host = a.server_host /\ row.server_port = a.server_port
      /\ row.smtp_host = a.smtp_host /\ row.smtp_port = a.smtp_port
      /\ row.imap_tls_mode = tls_mode_to_db[a.imap_tls_mode] /\ row.smtp_tls_mode = tls_mode_to_db[a.smtp_tls_mode]
    BY <1>3 DEF AccountForm
<1>6. row \in AccountForm(DbModes \union {Null})
  <2>1. tls_mode_to_db[a.imap_tls_mode] \in DbModes /\ tls_mode_to_db[a.smtp_tls_mode] \in DbModes
      BY <1>3, ModeRead DEF AccountForm
  <2> QED
      BY <1>3, <2>1 DEF AccountForm
<1>7. /\ a.imap_tls_mode # Null /\ tls_mode_from_db(row.imap_tls_mode) = a.imap_tls_mode
      /\ a.smtp_tls_mode # Null /\ tls_mode_from_db(row.smtp_tls_mode) = a.smtp_tls_mode
  <2>1. a.imap_tls_mode \in DOMAIN tls_mode_to_db /\ a.smtp_tls_mode \in DOMAIN tls_mode_to_db
      BY <1>3 DEF AccountForm
  <2> QED
      BY <1>5, <2>1, ModeRead
<1>8. j \in AccountIds /\ DOMAIN accounts = AccountIds /\ DOMAIN configured = AccountIds
    BY DEF StoreInv, AccountsInv, AccountIds
<1> HIDE DEF row, j
<1>9. accounts'[j] = row /\ configured'[j] = a
    BY <1>2, <1>8
<1>10. AccountKept(j)'
  <2>1. ModeKept(row.imap_tls_mode, a.imap_tls_mode) /\ ModeKept(row.smtp_tls_mode, a.smtp_tls_mode)
      BY <1>7 DEF ModeKept
  <2>2. {"smtp_host", "smtp_port", "imap_tls_mode", "smtp_tls_mode"} \subseteq columns'
      BY <1>1, <1>2 DEF Columns
  <2> QED
      BY <1>4, <1>5, <1>6, <1>9, <2>1, <2>2 DEF AccountKept
<1>11. AccountsInv'
  <2>1. \A i \in AccountIds \ {j} : AccountKept(i)'
    <3>1. \A i \in AccountIds \ {j} : accounts'[i] = accounts[i] /\ configured'[i] = configured[i]
        BY <1>2, <1>8
    <3> QED
        BY <1>2, <3>1, AccountStays DEF StoreInv, AccountsInv
  <2>2. configured' \in [AccountIds -> AccountForm(DOMAIN tls_mode_to_db \union {Null}) \union {Null}]
      BY <1>2, <1>4, <1>8 DEF StoreInv, AccountsInv
  <2> QED
      BY <1>2, <1>8, <1>10, <2>1, <2>2 DEF AccountsInv
<1>12. RowsInv' /\ unindexed' = unindexed
  <2>1. minted \in Nat
      BY StoreAssumption DEF StoreInv, PhaseInv
  <2> QED
      BY <1>2, <2>1, RowsStay, UnindexedStays DEF StoreInv
<1>13. PhaseInv'
    BY <1>1, <1>2, <1>12 DEF StoreInv, PhaseInv
<1> QED
    BY <1>11, <1>12, <1>13 DEF StoreInv

LEMMA StoreStep == StoreInv /\ [StoreNext]_storeVars => StoreInv'
<1> SUFFICES ASSUME StoreInv, [StoreNext]_storeVars PROVE StoreInv'
    OBVIOUS
<1>0. /\ minted \in 0..MaxKeys /\ minted \in Nat /\ vaultKey \in {0, minted} /\ columns \subseteq Columns
      /\ MaxKeys \in Nat
    BY StoreAssumption DEF StoreInv, PhaseInv
<1>1. CASE ResolveKeys
  <2>1. /\ minted' \in 0..MaxKeys /\ minted <= minted' /\ storage_key' = minted' /\ minted' # 0 /\ vaultKey' = minted'
    <3>1. CASE vaultKey # 0 /\ UNCHANGED <<vaultKey, minted>>
        BY <1>0, <1>1, <3>1 DEF ResolveKeys
    <3>2. CASE vaultKey = 0 /\ minted < MaxKeys /\ minted' = minted + 1 /\ vaultKey' = minted + 1
        BY <1>0, <1>1, <3>2 DEF ResolveKeys
    <3> QED
        BY <1>1, <3>1, <3>2 DEF ResolveKeys
  <2>2. RowsInv' /\ AccountsInv'
      BY <1>0, <1>1, <2>1, TablesStay DEF ResolveKeys, tableVars, givenVars
  <2>3. PhaseInv'
      BY <1>0, <1>1, <2>1 DEF PhaseInv, ResolveKeys, tableVars, Phases
  <2> QED
      BY <2>2, <2>3 DEF StoreInv
<1>2. CASE CreateNext
  <2>1. columns' \in {columns, Columns}
      BY <1>2 DEF CreateNext
  <2>2. RowsInv' /\ AccountsInv'
      BY <1>0, <1>2, <2>1, TablesStay DEF CreateNext, givenVars
  <2>3. PhaseInv'
      BY <1>0, <1>2, <2>1 DEF StoreInv, PhaseInv, CreateNext
  <2> QED
      BY <2>2, <2>3 DEF StoreInv
<1>3. CASE ensure_accounts_smtp_columns
  <2>1. RowsInv' /\ AccountsInv'
      BY <1>0, <1>3, TablesStay DEF ensure_accounts_smtp_columns, ensure_columns, tableVars, givenVars
  <2>2. toAdd' = absent("smtp_host", "smtp_port")'
      BY <1>3, AbsentStays DEF ensure_accounts_smtp_columns, ensure_columns, tableVars
  <2>3. PhaseInv'
      BY <1>3, <2>2 DEF StoreInv, PhaseInv, Phases, ensure_accounts_smtp_columns, ensure_columns, tableVars
  <2> QED
      BY <2>1, <2>3 DEF StoreInv
<1>4. CASE AddColumn("smtp", Null)
    BY <1>4, AddColumnKeeps
<1>5. CASE ensure_accounts_tls_mode_columns
  <2>1. RowsInv' /\ AccountsInv'
      BY <1>0, <1>5, TablesStay DEF ensure_accounts_tls_mode_columns, ensure_columns, tableVars, givenVars
  <2>2. toAdd' = absent("imap_tls_mode", "smtp_tls_mode")'
      BY <1>5, AbsentStays DEF ensure_accounts_tls_mode_columns, ensure_columns, tableVars
  <2>3. {"smtp_host", "smtp_port"} \subseteq columns
    <3>1. absent("smtp_host", "smtp_port") = << >>
        BY <1>5 DEF ensure_accounts_tls_mode_columns, ensure_columns, StoreInv, PhaseInv
    <3> QED
        BY <3>1, AbsentNone
  <2>4. PhaseInv'
      BY <1>5, <2>2, <2>3 DEF StoreInv, PhaseInv, Phases, ensure_accounts_tls_mode_columns, ensure_columns, tableVars
  <2> QED
      BY <2>1, <2>4 DEF StoreInv
<1>6. CASE AddColumn("tls", "implicit_tls")
    BY <1>6, AddColumnKeeps
<1>7. CASE ReadUnindexed
  <2>1. RowsInv' /\ AccountsInv' /\ unindexed' = unindexed
      BY <1>0, <1>7, TablesStay DEF ReadUnindexed, tableVars, givenVars
  <2>2. columns = Columns
    <3>1. absent("imap_tls_mode", "smtp_tls_mode") = << >> /\ {"smtp_host", "smtp_port"} \subseteq columns
        BY <1>7 DEF ReadUnindexed, StoreInv, PhaseInv
    <3>2. {"imap_tls_mode", "smtp_tls_mode"} \subseteq columns
        BY <3>1, AbsentNone
    <3> QED
        BY <1>0, <3>1, <3>2 DEF Columns
  <2>3. PhaseInv'
      BY <1>7, <2>1, <2>2 DEF StoreInv, PhaseInv, Phases, ReadUnindexed, tableVars
  <2> QED
      BY <2>1, <2>3 DEF StoreInv
<1>8. CASE \E i \in EmailIds : BackfillRow(i)
    BY <1>8, BackfillKeeps
<1>9. CASE Opened
  <2>1. RowsInv' /\ AccountsInv' /\ unindexed' = unindexed
      BY <1>0, <1>9, TablesStay DEF Opened, tableVars, givenVars
  <2>2. PhaseInv'
      BY <1>9, <2>1 DEF StoreInv, PhaseInv, Phases, Opened, tableVars
  <2> QED
      BY <2>1, <2>2 DEF StoreInv
<1>10. CASE Cut
  <2>1. RowsInv' /\ AccountsInv'
      BY <1>0, <1>10, TablesStay DEF Cut, tableVars, givenVars
  <2>2. PhaseInv'
      BY <1>0, <1>10 DEF PhaseInv, Phases, Cut, tableVars
  <2> QED
      BY <2>1, <2>2 DEF StoreInv
<1>11. CASE LoseKey
  <2>1. RowsInv' /\ AccountsInv'
      BY <1>0, <1>11, TablesStay DEF LoseKey, tableVars, givenVars
  <2>2. PhaseInv'
      BY <1>0, <1>11 DEF PhaseInv, Phases, LoseKey, tableVars
  <2> QED
      BY <2>1, <2>2 DEF StoreInv
<1>12. CASE \E e \in Email : save_email(e)
    BY <1>12, SaveEmailKeeps
<1>13. CASE \E a \in AccountRow : save_account(a)
    BY <1>13, SaveAccountKeeps
<1>14. CASE UNCHANGED storeVars
  <2>1. RowsInv' /\ AccountsInv' /\ unindexed' = unindexed
      BY <1>0, <1>14, TablesStay DEF storeVars
  <2>2. \A c, d : absent(c, d)' = absent(c, d)
      BY <1>14, AbsentStays DEF storeVars
  <2>3. PhaseInv'
      BY <1>14, <2>1, <2>2 DEF StoreInv, PhaseInv, storeVars
  <2> QED
      BY <2>1, <2>3 DEF StoreInv
<1> QED
    BY <1>1, <1>2, <1>3, <1>4, <1>5, <1>6, <1>7, <1>8, <1>9, <1>10, <1>11, <1>12, <1>13, <1>14 DEF StoreNext

-----------------------------------------------------------------------------
(* What the readers and the search make of the rows                        *)

\* A row of an open database: the message it stands for, and its one entry.
LEMMA OpenRow ==
    ASSUME StoreInv, phase = "open", NEW i \in Rows
    PROVE  /\ saved[i] \in Email /\ saved[i] # Null /\ saved[i].id = i
           /\ get_message(i) = IF Locked(i) THEN [saved[i] EXCEPT !.body = ""] ELSE saved[i]
           /\ get_message(i).id = i /\ get_message(i).subject = saved[i].subject
           /\ get_message(i).body = (IF Locked(i) THEN "" ELSE saved[i].body)
           /\ messages[i].folder_id = saved[i].folder_id /\ get_message(i).folder_id = saved[i].folder_id
           /\ messages[i].received_at = saved[i].received_at /\ get_message(i).received_at = saved[i].received_at
           /\ \E b : /\ messages_fts[i] = <<[subject |-> saved[i].subject, body |-> b]>>
                     /\ b = OrEmpty(saved[i].body) \/ (b = "" /\ (Locked(i) \/ saved[i].body \in {Null, ""}))
<1>1. /\ i \in EmailIds /\ messages[i] # Null /\ messages_fts[i] # << >>
      /\ storage_key = minted /\ minted \in 0..MaxKeys /\ MaxKeys \in Nat
    BY StoreAssumption DEF Rows, StoreInv, PhaseInv, unindexed, Indexed
<1>2. saved[i] \in Email /\ saved[i] # Null /\ saved[i].id = i /\ RowKept(i)
    BY <1>1 DEF StoreInv, RowsInv, RowKept
<1>3. PICK k \in 1..minted :
            /\ messages[i] = [saved[i] EXCEPT !.body = Seal(k, @)]
            /\ \/ messages_fts[i] = <<[subject |-> saved[i].subject, body |-> OrEmpty(saved[i].body)]>>
               \/ k < minted /\ messages_fts[i] = <<[subject |-> saved[i].subject, body |-> ""]>>
    BY <1>1, <1>2 DEF RowKept
<1> DEFINE m == messages[i]
           e == saved[i]
           b == e.body
<1>4. k \in 1..MaxKeys /\ minted \in Nat /\ k \in Nat
    BY <1>1
<1>5. e \in MessageForm(Texts) /\ b \in Texts
    BY <1>2, StoreAssumption DEF Texts
<1>6. /\ m = [e EXCEPT !.body = Seal(k, @)] /\ m \in MessageForm(SealedBodies) /\ m.body = Seal(k, b)
      /\ m.folder_id = e.folder_id /\ m.received_at = e.received_at
  <2>1. e \in Email /\ k \in 1..MaxKeys /\ m = [e EXCEPT !.body = Seal(k, @)]
      BY <1>2, <1>3, <1>4
  <2> HIDE DEF m, e
  <2> QED
      BY ONLY <2>1, SealedRow
<1>7. /\ Unseal(minted, Seal(k, b)) = IF b = Null THEN Null ELSE IF k = minted THEN b ELSE ""
      /\ Seal(k, b) \notin {Null, << >>} => b \notin {Null, ""} /\ Seal(k, b)[1] = k
      /\ Seal(k, b) \in {Null, << >>} => b \in {Null, ""}
  <2>1. b \in Texts /\ minted \in Nat /\ k \in 1..MaxKeys
      BY <1>4, <1>5
  <2> HIDE DEF b
  <2> QED
      BY ONLY <2>1, Unsealed
<1>8. Locked(i) <=> (b \notin {Null, ""} /\ k # minted)
    BY <1>1, <1>6, <1>7, NullAssumption DEF Locked
<1>9. get_message(i) = [m EXCEPT !.body = Unseal(minted, Seal(k, b))]
    BY <1>1, <1>6 DEF get_message
<1> DEFINE text == IF Locked(i) THEN "" ELSE b
<1>10. Unseal(minted, Seal(k, b)) = text
    BY <1>7, <1>8
<1>11. get_message(i) = [e EXCEPT !.body = text]
  <2> HIDE DEF text, e, m, b
  <2>1. get_message(i) = [m EXCEPT !.body = text] /\ m = [e EXCEPT !.body = Seal(k, @)] /\ e \in MessageForm(Texts)
      BY <1>5, <1>6, <1>9, <1>10
  <2> QED
      BY ONLY <2>1 DEF MessageForm
<1>12. get_message(i) = IF Locked(i) THEN [e EXCEPT !.body = ""] ELSE e
  <2>1. [e EXCEPT !.body = e.body] = e
    <3> HIDE DEF e
    <3> QED
        BY <1>5 DEF MessageForm
  <2> QED
      BY <1>11, <2>1
<1>13. /\ get_message(i).id = i /\ get_message(i).subject = e.subject /\ get_message(i).folder_id = e.folder_id
       /\ get_message(i).received_at = e.received_at /\ get_message(i).body = text
  <2> HIDE DEF text, e
  <2>1. e \in MessageForm(Texts) /\ e.id = i
      BY <1>2, <1>5 DEF e
  <2> QED
      BY <1>11, <2>1 DEF MessageForm
<1>14. \E c : /\ messages_fts[i] = <<[subject |-> saved[i].subject, body |-> c]>>
              /\ c = OrEmpty(saved[i].body) \/ (c = "" /\ (Locked(i) \/ saved[i].body \in {Null, ""}))
  <2>1. CASE messages_fts[i] = <<[subject |-> saved[i].subject, body |-> OrEmpty(saved[i].body)]>>
      BY <2>1
  <2>2. CASE k < minted /\ messages_fts[i] = <<[subject |-> saved[i].subject, body |-> ""]>>
    <3>1. k # minted
      <4>1. k < minted /\ k \in Nat /\ minted \in Nat
          BY <1>4, <2>2
      <4> QED
          BY ONLY <4>1
    <3> QED
        BY <1>8, <2>2, <3>1
  <2> QED
      BY <1>3, <2>1, <2>2
<1> QED
    BY <1>2, <1>6, <1>12, <1>13, <1>14

\* Nothing is saved under the ids of the other rows, and the index has none.
LEMMA OpenNoRow ==
    ASSUME StoreInv, NEW i \in EmailIds \ Rows
    PROVE  messages[i] = Null /\ saved[i] = Null /\ messages_fts[i] = << >>
<1>1. messages[i] = Null /\ RowKept(i)
    BY DEF Rows, StoreInv, RowsInv
<1>2. CASE saved[i] = Null
    BY <1>1, <1>2 DEF RowKept
<1>3. CASE saved[i] # Null
  <2>1. PICK k \in 1..minted : messages[i] = [saved[i] EXCEPT !.body = Seal(k, @)]
      BY <1>1, <1>3 DEF RowKept
  <2>2. saved[i] \in Email /\ k \in 1..MaxKeys
    <3>1. minted \in 0..MaxKeys /\ MaxKeys \in Nat
        BY StoreAssumption DEF StoreInv, PhaseInv
    <3> QED
        BY <1>3, <2>1, <3>1 DEF StoreInv, RowsInv
  <2>3. [saved[i] EXCEPT !.body = Seal(k, @)] # Null
      BY <2>2, SealedRow
  <2> QED
      BY <1>1, <2>1, <2>3
<1> QED
    BY <1>2, <1>3

\* The export of everything is what every row stands for.
LEMMA ExportAll == list_messages_for_export(Null, Null) = {get_message(i) : i \in Rows}
    BY DEF list_messages_for_export

\* Every message is read as it was saved.
LEMMA ReadsHold == StoreInv => ReadAsSaved
    BY OpenRow DEF ReadAsSaved

\* Each has one entry.
LEMMA HitsHold == StoreInv => HitsOnce
<1> SUFFICES ASSUME StoreInv, phase = "open", NEW i \in EmailIds
             PROVE  Len(messages_fts[i]) = IF messages[i] = Null THEN 0 ELSE 1
    BY DEF HitsOnce
<1>1. CASE i \in Rows
  <2>1. PICK b : messages_fts[i] = <<[subject |-> saved[i].subject, body |-> b]>>
      BY <1>1, OpenRow
  <2> QED
      BY <1>1, <2>1 DEF Rows
<1>2. CASE i \notin Rows
    BY <1>2, OpenNoRow
<1> QED
    BY <1>1, <1>2

\* The search finds what the readers show.
LEMMA SearchHolds == StoreInv => SearchAgrees
<1> SUFFICES ASSUME StoreInv, phase = "open", NEW q \in Words \ Short
             PROVE  LET shown == {m.id : m \in {r \in list_messages_for_export(Null, Null) : q \in {r.subject, r.body}}}
                    IN /\ shown \subseteq search_messages(q)
                       /\ \A i \in search_messages(q) \ shown : Locked(i) /\ saved[i].body = q
    BY DEF SearchAgrees
<1> DEFINE shown == {m.id : m \in {r \in list_messages_for_export(Null, Null) : q \in {r.subject, r.body}}}
           found == {i \in EmailIds : \E n \in DOMAIN messages_fts[i] :
                                          q \in {messages_fts[i][n].subject, messages_fts[i][n].body}}
<1>1. search_messages(q) = found /\ q # "" /\ q # Null
    BY DEF search_messages, Words
<1>2. shown = {i \in Rows : q \in {get_message(i).subject, get_message(i).body}}
  <2>1. \A i \in Rows : get_message(i).id = i
      BY OpenRow
  <2> QED
      BY <2>1, ExportAll
<1>3. ASSUME NEW i \in Rows
      PROVE  /\ i \in shown => i \in found
             /\ i \in found /\ i \notin shown => Locked(i) /\ saved[i].body = q
  <2>1. PICK b : /\ messages_fts[i] = <<[subject |-> saved[i].subject, body |-> b]>>
                 /\ b = OrEmpty(saved[i].body) \/ (b = "" /\ (Locked(i) \/ saved[i].body \in {Null, ""}))
      BY OpenRow
  <2>2. i \in found <=> q \in {saved[i].subject, b}
    <3> DEFINE entry == [subject |-> saved[i].subject, body |-> b]
    <3>1. entry.subject = saved[i].subject /\ entry.body = b
        OBVIOUS
    <3> HIDE DEF entry
    <3>2. messages_fts[i] = <<entry>>
        BY <2>1 DEF entry
    <3>3. DOMAIN messages_fts[i] = {1} /\ messages_fts[i][1] = entry
        BY <3>2
    <3>4. i \in EmailIds
        BY DEF Rows
    <3> QED
        BY <3>1, <3>3, <3>4
  <2>3. i \in shown <=> q \in {saved[i].subject, IF Locked(i) THEN "" ELSE saved[i].body}
      BY <1>2, OpenRow
  <2> HIDE DEF found, shown
  <2> QED
      BY <1>1, <2>1, <2>2, <2>3 DEF OrEmpty
<1>4. ASSUME NEW i \in found PROVE i \in Rows
  <2>1. CASE i \notin Rows
    <3>1. messages_fts[i] = << >>
        BY <2>1, OpenNoRow
    <3> QED
        BY <3>1
  <2> QED
      BY <2>1
<1>5. \A i \in shown : i \in Rows
    BY <1>2
<1> HIDE DEF found, shown
<1>6. shown \subseteq found /\ \A i \in found \ shown : Locked(i) /\ saved[i].body = q
    BY <1>3, <1>4, <1>5
<1> QED
    BY <1>1, <1>6 DEF shown

\* The rows of a folder, and those of them that are newer than one.
InFolder(f) == {i \in Rows : messages[i].folder_id = f}
NewerThan(j) == {k \in InFolder(messages[j].folder_id) : messages[k].received_at > messages[j].received_at}

LEMMA RowsFinite == \A f : IsFiniteSet(InFolder(f))
<1>1. IsFiniteSet(EmailIds)
    BY StoreAssumption
<1> QED
    BY <1>1, FS_Subset DEF InFolder, Rows

\* Fewer rows of a folder are newer than one of its own than it has.
LEMMA FewerNewer ==
    ASSUME StoreInv, phase = "open", NEW j \in Rows
    PROVE  /\ Cardinality(NewerThan(j)) \in Nat /\ Cardinality(InFolder(messages[j].folder_id)) \in Nat
           /\ Cardinality(NewerThan(j)) < Cardinality(InFolder(messages[j].folder_id))
           /\ Cardinality(NewerThan(j)) < 1 <=> NewerThan(j) = {}
<1> DEFINE all == InFolder(messages[j].folder_id)
           newer == NewerThan(j)
<1>1. messages[j].received_at \in Nat
  <2>1. saved[j] \in MessageForm(Texts) /\ messages[j].received_at = saved[j].received_at
      BY OpenRow, StoreAssumption
  <2> QED
      BY <2>1 DEF MessageForm
<1>2. newer \subseteq all /\ j \in all /\ j \notin newer
    BY <1>1 DEF NewerThan, InFolder
<1>3. IsFiniteSet(all)
    BY RowsFinite
<1> HIDE DEF all, newer
<1>4. IsFiniteSet(newer) /\ Cardinality(newer) <= Cardinality(all) /\ (Cardinality(newer) = Cardinality(all) => newer = all)
    BY <1>2, <1>3, FS_Subset
<1>5. Cardinality(newer) \in Nat /\ Cardinality(all) \in Nat /\ (Cardinality(newer) = 0 <=> newer = {})
    BY <1>3, <1>4, FS_CardinalityType, FS_EmptySet
<1>6. newer # all
    BY <1>2
<1>7. Cardinality(newer) < Cardinality(all) /\ (Cardinality(newer) < 1 <=> Cardinality(newer) = 0)
    BY <1>4, <1>5, <1>6
<1> QED
    BY <1>5, <1>7 DEF all, newer

\* A folder lists its newest messages.
LEMMA NewestHolds == StoreInv => NewestShown
<1> SUFFICES ASSUME StoreInv, phase = "open" PROVE NewestShown
    BY DEF NewestShown
<1>1. \A f, n : list_messages(f, n) = {get_message(j) : j \in {i \in InFolder(f) : Cardinality(NewerThan(i)) < n}}
  <2> SUFFICES ASSUME NEW f, NEW n
               PROVE  list_messages(f, n) = {get_message(j) : j \in {i \in InFolder(f) : Cardinality(NewerThan(i)) < n}}
      OBVIOUS
  <2>1. \A i \in InFolder(f) : NewerThan(i) = {k \in InFolder(f) : messages[k].received_at > messages[i].received_at}
      BY DEF InFolder, NewerThan
  <2> QED
      BY <2>1 DEF list_messages, InFolder
<1>2. ASSUME NEW folder \in list_folders
      PROVE  list_messages(folder.folder_id, folder.total) = list_messages_for_export(Null, folder.folder_id)
  <2>1. PICK i \in Rows : folder = [folder_id |-> messages[i].folder_id, total |-> Cardinality(InFolder(messages[i].folder_id))]
      BY DEF list_folders, InFolder
  <2> DEFINE f == messages[i].folder_id
  <2>2. folder.folder_id = f /\ folder.total = Cardinality(InFolder(f))
      BY <2>1
  <2>3. f # Null
    <3>1. saved[i] \in Email /\ messages[i].folder_id = saved[i].folder_id
        BY OpenRow
    <3> QED
        BY <3>1, StoreAssumption
  <2>4. \A j \in InFolder(f) : j \in Rows /\ messages[j].folder_id = f
      BY DEF InFolder
  <2>5. \A j \in InFolder(f) : Cardinality(NewerThan(j)) < Cardinality(InFolder(f))
      BY <2>4, FewerNewer
  <2>6. list_messages(f, Cardinality(InFolder(f))) = {get_message(j) : j \in InFolder(f)}
      BY <1>1, <2>5
  <2>7. list_messages_for_export(Null, f) = {get_message(j) : j \in InFolder(f)}
      BY <2>3 DEF list_messages_for_export, InFolder
  <2> QED
      BY <2>2, <2>6, <2>7
<1>3. ASSUME NEW m \in list_messages_for_export(Null, Null), NEW n \in list_messages_for_export(Null, Null),
             m.folder_id = n.folder_id, m.received_at >= n.received_at, n \in list_messages(n.folder_id, 1)
      PROVE  m \in list_messages(m.folder_id, 1)
  <2>1. PICK i \in Rows : m = get_message(i)
      BY ExportAll
  <2>2. PICK j \in InFolder(n.folder_id) : n = get_message(j) /\ Cardinality(NewerThan(j)) < 1
      BY <1>1, <1>3
  <2>3. j \in Rows
      BY DEF InFolder
  <2>4. /\ messages[i].folder_id = m.folder_id /\ messages[j].folder_id = n.folder_id
        /\ messages[i].received_at = m.received_at /\ messages[j].received_at = n.received_at
      BY <2>1, <2>2, <2>3, OpenRow
  <2>5. NewerThan(j) = {}
      BY <2>2, <2>3, FewerNewer
  <2>6. \A k \in Rows : messages[k].received_at \in Nat
    <3>1. \A k \in Rows : saved[k] \in MessageForm(Texts) /\ messages[k].received_at = saved[k].received_at
        BY OpenRow, StoreAssumption
    <3> QED
        BY <3>1 DEF MessageForm
  <2>7. NewerThan(i) \subseteq NewerThan(j)
    <3> SUFFICES ASSUME NEW k \in NewerThan(i) PROVE k \in NewerThan(j)
        OBVIOUS
    <3>1. k \in Rows /\ messages[k].folder_id = m.folder_id /\ messages[k].received_at > messages[i].received_at
        BY <2>4 DEF NewerThan, InFolder
    <3> DEFINE a == messages[k].received_at
               b == messages[i].received_at
               c == messages[j].received_at
    <3>2. a \in Nat /\ b \in Nat /\ c \in Nat /\ a > b /\ b >= c
        BY <1>3, <2>3, <2>4, <2>6, <3>1
    <3> HIDE DEF a, b, c
    <3>3. a > c
        BY <3>2
    <3> QED
        BY <1>3, <2>4, <3>1, <3>3 DEF NewerThan, InFolder, a, c
  <2>8. Cardinality(NewerThan(i)) < 1
      BY <2>5, <2>7, FewerNewer
  <2>9. i \in InFolder(m.folder_id)
      BY <2>4 DEF InFolder
  <2> QED
      BY <1>1, <2>1, <2>8, <2>9
<1> QED
    BY <1>2, <1>3 DEF NewestShown

\* An account reads as it was configured, with the defaults for what was not.
LEMMA AccountsHold == StoreInv => AccountsUpgraded
<1> SUFFICES ASSUME StoreInv PROVE AccountsUpgraded
    OBVIOUS
<1>1. phase # "failed" /\ (phase = "open" => columns = Columns)
    BY DEF StoreInv, PhaseInv, Phases
<1> DEFINE shown(a) == [a EXCEPT !.smtp_host = IF @ = Null THEN a.server_host ELSE @,
                                 !.smtp_port = IF @ = Null THEN a.server_port ELSE @,
                                 !.imap_tls_mode = tls_mode_from_db(@),
                                 !.smtp_tls_mode = tls_mode_from_db(@)]
           known == {i \in AccountIds : configured[i] # Null}
<1>2. ASSUME NEW i \in AccountIds
      PROVE  (accounts[i] = Null <=> configured[i] = Null) /\ (configured[i] # Null => shown(accounts[i]) = Upgraded(configured[i]))
  <2>1. AccountKept(i)
      BY DEF StoreInv, AccountsInv
  <2>2. CASE configured[i] = Null
      BY <2>1, <2>2 DEF AccountKept
  <2>3. CASE configured[i] # Null
    <3> DEFINE a == accounts[i]
               g == configured[i]
    <3>1. a \in AccountForm(DbModes \union {Null}) /\ a # Null
        BY <2>1, <2>3, NullAssumption DEF AccountKept, AccountForm
    <3>2. g \in AccountForm(DOMAIN tls_mode_to_db \union {Null})
        BY <2>3 DEF StoreInv, AccountsInv
    <3>3. /\ a.id = g.id /\ a.server_host = g.server_host /\ a.server_port = g.server_port
          /\ a.smtp_host = g.smtp_host /\ a.smtp_port = g.smtp_port
          /\ tls_mode_from_db(a.imap_tls_mode) = IF g.imap_tls_mode = Null THEN "ImplicitTls" ELSE g.imap_tls_mode
          /\ tls_mode_from_db(a.smtp_tls_mode) = IF g.smtp_tls_mode = Null THEN "ImplicitTls" ELSE g.smtp_tls_mode
        BY <2>1, <2>3 DEF AccountKept, ModeKept
    <3> HIDE DEF a, g
    <3>4. shown(a) = Upgraded(g)
        BY <3>1, <3>2, <3>3 DEF Upgraded, AccountForm
    <3> QED
        BY <2>3, <3>1, <3>4 DEF a, g
  <2> QED
      BY <2>2, <2>3
<1>3. list_accounts = {shown(accounts[i]) : i \in known}
  <2>1. list_accounts = {shown(a) : a \in {accounts[i] : i \in AccountIds} \ {Null}}
      BY DEF list_accounts
  <2> HIDE DEF shown
  <2>2. {accounts[i] : i \in AccountIds} \ {Null} = {accounts[i] : i \in known}
      BY <1>2
  <2>3. {shown(a) : a \in {accounts[i] : i \in known}} = {shown(accounts[i]) : i \in known}
      OBVIOUS
  <2> QED
      BY <2>1, <2>2, <2>3
<1>4. {Upgraded(a) : a \in {configured[i] : i \in AccountIds} \ {Null}} = {Upgraded(configured[i]) : i \in known}
    OBVIOUS
<1>5. {shown(accounts[i]) : i \in known} = {Upgraded(configured[i]) : i \in known}
  <2> HIDE DEF shown
  <2> QED
      BY <1>2
<1> QED
    BY <1>1, <1>3, <1>4, <1>5 DEF AccountsUpgraded

-----------------------------------------------------------------------------
\* Whatever an earlier version left, however often an open is cut short and
\* the key is lost, every message saved is read back and found as it was
\* given, once, the newest first, and every account keeps its settings.
THEOREM SavedIsServed == StoreInit /\ [][StoreNext]_storeVars => []StoreSound
<1>1. StoreInv => StoreSound
    BY ReadsHold, SearchHolds, HitsHold, NewestHolds, AccountsHold DEF StoreSound
<1> QED
    BY <1>1, StoreStarts, StoreStep, PTL

-----------------------------------------------------------------------------
(* Calendar                                                                *)

\* What parse_ical makes of a VEVENT.
ParsedForm == [summary : {v.summary : v \in Vevents}, rrule : RRules, start : Nat, end : Nat]

LEMMA ResolvedTimes ==
    ASSUME NEW t \in Moments, NEW d \in Nat
    PROVE  resolve_timestamp(t, d) \subseteq Nat
<1>1. t.at \in Nat
    BY DEF Moments
<1>2. Day \in Nat
    BY CalendarAssumption
<1>3. t.at * Day + d \in Nat
    BY <1>1, <1>2
<1> QED
    BY <1>1, <1>3 DEF resolve_timestamp

LEMMA ParsedEvents ==
    ASSUME NEW v \in Vevents
    PROVE  parse_ical(v) \subseteq ParsedForm
<1>1. Hour \in Nat /\ Day \in Nat \ {0} /\ v.start \in Moments \union {NoEvent} /\ v.end \in Moments \union {NoEvent}
      /\ v.rrule \in RRules /\ Day - 1 \in Nat
    BY CalendarAssumption
<1> DEFINE starts == IF v.start = NoEvent THEN {0} ELSE resolve_timestamp(v.start, 0)
           ends(s) == IF v.end = NoEvent THEN {s + Hour} ELSE resolve_timestamp(v.end, Day - 1)
<1>2. starts \subseteq Nat /\ \A s \in Nat : ends(s) \subseteq Nat
    BY <1>1, ResolvedTimes
<1>3. parse_ical(v) = UNION {{[summary |-> v.summary, rrule |-> v.rrule, start |-> s, end |-> e] : e \in ends(s)} : s \in starts}
    BY DEF parse_ical
<1> HIDE DEF starts, ends
<1> SUFFICES ASSUME NEW s \in starts, NEW e \in ends(s)
             PROVE  [summary |-> v.summary, rrule |-> v.rrule, start |-> s, end |-> e] \in ParsedForm
    BY <1>3
<1> QED
    BY <1>1, <1>2 DEF ParsedForm

LEMMA AnswersParsed ==
    ASSUME NEW raw \in Responses
    PROVE  /\ parse_multistatus_response(raw) \in Seq(ParsedForm)
           /\ Len(parse_multistatus_response(raw)) <= Len(raw)
<1> DEFINE T == {n \in DOMAIN raw : parse_ical(raw[n]) # {}}
           good == Picked(raw, T)
           E == {raw[n] : n \in T \cap DOMAIN raw}
<1>1. raw \in Seq(Vevents)
    BY CalendarAssumption
<1>2. good \in Seq(E) /\ Len(good) <= Len(raw)
    BY <1>1, PickedFrom
<1>3. \A v \in E : v \in Vevents /\ parse_ical(v) # {}
    BY <1>1
<1>4. \A v \in E : (CHOOSE e \in parse_ical(v) : TRUE) \in ParsedForm
    BY <1>3, ParsedEvents
<1> DEFINE parsed == [n \in DOMAIN good |-> CHOOSE e \in parse_ical(good[n]) : TRUE]
<1>5. parse_multistatus_response(raw) = parsed
    BY DEF parse_multistatus_response
<1> HIDE DEF good, E
<1>6. parsed \in Seq(ParsedForm) /\ Len(parsed) = Len(good)
    BY <1>2, <1>4
<1> QED
    BY <1>2, <1>5, <1>6

\* One entry in the index for each event, with its summary.
EventsIndexed == \A i \in EventIds : Mirrors(events_fts, i, i \in Present, IF i \in Present THEN events[i].summary ELSE NoEvent)

\* A sync under way saves under the ids of the answer it has.
RoundInv ==
    /\ round \in [of : Collection \union {NoEvent}, left : Seq(ParsedForm), n : Nat]
    /\ round.left # << >> => /\ round.of \in Collection
                             /\ \E raw \in Responses : round.n + Len(round.left) <= Len(raw)

BetweenForm ==
    [at : {"between"}, window : Windows, calendar : Collection \union {NoEvent},
     rows : SUBSET [id : EventIds, row : EventForm], touched : SUBSET EventIds]

Overlaps(row, w) == row.start <= w.to /\ row.end >= w.from

\* What the first query of a listing read is still right for every event that
\* was not saved since.
BetweenInv ==
    listing.at = "between" =>
        /\ listing \in BetweenForm
        /\ \A i \in EventIds \ listing.touched : \A row \in EventForm :
              [id |-> i, row |-> row] \in listing.rows <=> row = events[i] /\ Overlaps(row, listing.window)

CalendarInv ==
    /\ events \in [EventIds -> EventForm \union {NoEvent}]
    /\ DOMAIN events_fts = EventIds
    /\ EventsIndexed
    /\ RoundInv
    /\ BetweenInv
    /\ WindowRight

\* The search finds what is indexed.
LEMMA EventsFound == CalendarInv => EventsMirrored
<1> SUFFICES ASSUME CalendarInv, NEW i \in EventIds
             PROVE  /\ Mirrors(events_fts, i, i \in Present, IF i \in Present THEN events[i].summary ELSE NoEvent)
                    /\ i \in Present => i \in search(events_fts, events[i].summary)
    BY DEF EventsMirrored
<1>1. Mirrors(events_fts, i, i \in Present, IF i \in Present THEN events[i].summary ELSE NoEvent)
    BY DEF CalendarInv, EventsIndexed
<1>2. ASSUME i \in Present PROVE i \in search(events_fts, events[i].summary)
  <2>1. events_fts[i] = <<events[i].summary>>
      BY <1>1, <1>2 DEF Mirrors
  <2>2. 1 \in DOMAIN events_fts[i] /\ events_fts[i][1] = events[i].summary
      BY <2>1
  <2> QED
      BY <2>2 DEF search, CalendarInv
<1> QED
    BY <1>1, <1>2

LEMMA CalendarStarts == CalendarInit => CalendarInv
<1> SUFFICES ASSUME CalendarInit PROVE CalendarInv
    OBVIOUS
<1>1. EventsIndexed
    BY DEF CalendarInit, EventsIndexed, Mirrors, Present
<1>2. RoundInv
    BY DEF CalendarInit, RoundInv, NoRound
<1>3. BetweenInv /\ WindowRight
    BY DEF CalendarInit, BetweenInv, WindowRight, NoListing
<1> QED
    BY <1>1, <1>2, <1>3 DEF CalendarInit, CalendarInv

-----------------------------------------------------------------------------
\* The occurrences of a rule are finitely many.
LEMMA OccurrencesFinite ==
    ASSUME NEW row \in EventForm, row.rrule.kind = "rule"
    PROVE  IsFiniteSet(Occurrences(row)) /\ Occurrences(row) \subseteq Nat
<1> DEFINE c == row.rrule.count
           s == row.start
           v == row.rrule.every
           f == [k \in 0 .. (c - 1) |-> s + k * v]
<1>1. c \in Nat /\ s \in Nat /\ v \in Nat
    BY DEF EventForm, RRules
<1>2. Occurrences(row) = {s + k * v : k \in 0 .. (c - 1)}
    BY DEF Occurrences
<1>3. \A k \in 0 .. (c - 1) : k \in Nat
    BY <1>1
<1> HIDE DEF c, s, v
<1>4. \A k \in Nat : k * v \in Nat /\ s + k * v \in Nat
    BY <1>1
<1>5. f \in Surjection(0 .. (c - 1), Occurrences(row))
    BY <1>2 DEF Surjection
<1>6. IsFiniteSet(0 .. (c - 1))
  <2>1. 0 \in Int /\ c - 1 \in Int
      BY <1>1
  <2> QED
      BY ONLY <2>1, FS_Interval
<1>7. IsFiniteSet(Occurrences(row))
  <2> HIDE DEF f
  <2> QED
      BY <1>5, <1>6, FS_Surjection
<1> QED
    BY <1>2, <1>3, <1>4, <1>7

\* What the answer for a window should hold of one event.
Expected(e, w) ==
    IF e.row.rrule.kind = "empty" \/ (e.row.rrule.kind = "null" /\ ~Overlaps(e.row, w)) THEN {}
    ELSE IF e.row.rrule.kind = "null" THEN {Instance(e, 0, e.row.start)}
    ELSE expand_occurrences(e, w)

LEMMA ExpectedOf ==
    ASSUME NEW e, NEW w, NEW a \in Expected(e, w)
    PROVE  a.id = e.id /\ a.calendar = e.row.calendar
<1>1. \E occ, at : a = Instance(e, occ, at)
    BY DEF Expected, expand_occurrences
<1> QED
    BY <1>1 DEF Instance

\* It is there once for each of its starts.
LEMMA ExpectedOnce ==
    ASSUME NEW e, NEW w, e.row \in EventForm
    PROVE  Cardinality(Expected(e, w)) = Cardinality({a.start : a \in Expected(e, w)})
<1>1. CASE Expected(e, w) = {}
  <2>1. {a.start : a \in Expected(e, w)} = {}
      BY <1>1
  <2> QED
      BY <1>1, <2>1
<1>2. CASE Expected(e, w) = {Instance(e, 0, e.row.start)}
  <2>1. {a.start : a \in Expected(e, w)} = {Instance(e, 0, e.row.start).start}
      BY <1>2
  <2> QED
      BY <1>2, <2>1, FS_Singleton
<1>3. CASE e.row.rrule.kind = "rule"
  <2> DEFINE within == {t \in Occurrences(e.row) : w.from <= t /\ t <= w.to}
             nth(t) == Cardinality({u \in within : u <= t})
             Q == {u \in within : nth(u) <= MAX_EXPANSION_COUNT}
             I(t) == Instance(e, nth(t), t)
             f == [t \in Q |-> I(t)]
             all == Expected(e, w)
  <2>1. all = {I(t) : t \in Q}
      BY <1>3 DEF Expected, expand_occurrences
  <2>2. \A t \in Q : I(t).start = t
      BY DEF Instance
  <2>3. IsFiniteSet(Q)
      BY <1>3, OccurrencesFinite, FS_Subset
  <2> HIDE DEF Q, I, all
  <2>4. {a.start : a \in all} = Q
      BY <2>1, <2>2
  <2>5. f \in Bijection(Q, all)
    <3>1. f \in [Q -> all] /\ \A a \in all : \E t \in Q : f[t] = a
        BY <2>1
    <3>2. \A t, u \in Q : f[t] = f[u] => t = u
        BY <2>2
    <3> HIDE DEF f
    <3> QED
        BY <3>1, <3>2 DEF Bijection, Injection, Surjection, IsInjective
  <2>6. Cardinality(all) = Cardinality(Q)
    <3> HIDE DEF f
    <3>1. ExistsBijection(Q, all)
        BY <2>5 DEF ExistsBijection
    <3> QED
        BY <2>3, <3>1, FS_Bijection
  <2> QED
      BY <2>4, <2>6 DEF all
<1> QED
  <2>1. e.row.rrule.kind \in {"null", "empty", "blank", "malformed", "rule"}
      BY DEF EventForm, RRules
  <2> QED
      BY <1>1, <1>2, <1>3, <2>1 DEF Expected, expand_occurrences

\* It is there at the starts the window shows, up to the limit.
LEMMA ExpectedShown ==
    ASSUME NEW e, NEW w \in Windows, e.row \in EventForm, Forward(e.row, w)
    PROVE  /\ {a.start : a \in Expected(e, w)} \subseteq Shown(e.row, w)
           /\ \A t \in Shown(e.row, w) :
                 Cardinality({u \in Shown(e.row, w) : u <= t}) <= MAX_EXPANSION_COUNT
                    => \E a \in Expected(e, w) : a.start = t
<1> DEFINE row == e.row
           kind == e.row.rrule.kind
<1>0. /\ row.start \in Nat /\ row.end \in Nat /\ w.from \in Nat /\ w.to \in Nat
      /\ row.start <= row.end /\ w.from <= w.to /\ row # NoEvent
      /\ kind \in {"null", "empty", "blank", "malformed", "rule"}
    BY CalendarAssumption DEF EventForm, RRules, Forward
<1>1. CASE kind = "empty"
    BY <1>1 DEF Shown, Expected
<1>2. CASE kind = "null"
  <2>1. OnAt(row.start, row.end, w) <=> Overlaps(row, w)
    <3> DEFINE s == row.start
               d == row.end
               x == w.from
               y == w.to
    <3>1. s \in Nat /\ d \in Nat /\ x \in Nat /\ y \in Nat /\ s <= d /\ x <= y
        BY <1>0
    <3> HIDE DEF s, d, x, y
    <3>2. (\E t \in x .. y : s <= t /\ t <= d) <=> (s <= y /\ d >= x)
      <4>1. ASSUME s <= y, d >= x PROVE \E t \in x .. y : s <= t /\ t <= d
        <5>1. CASE s <= x
          <6>1. x \in x .. y /\ s <= x /\ x <= d
              BY <3>1, <4>1, <5>1
          <6> QED
              BY <6>1
        <5>2. CASE ~(s <= x)
          <6>1. s \in x .. y /\ s <= s /\ s <= d
              BY <3>1, <4>1, <5>2
          <6> QED
              BY <6>1
        <5> QED
            BY <5>1, <5>2
      <4>2. ASSUME NEW t \in x .. y, s <= t, t <= d PROVE s <= y /\ d >= x
          BY <3>1, <4>2
      <4> QED
          BY <4>1, <4>2
    <3> QED
        BY <3>2 DEF OnAt, Overlaps, s, d, x, y
  <2>2. Shown(row, w) = IF Overlaps(row, w) THEN {row.start} ELSE {}
      BY <1>0, <1>2, <2>1 DEF Shown
  <2>3. Expected(e, w) = IF Overlaps(row, w) THEN {Instance(e, 0, row.start)} ELSE {}
      BY <1>2 DEF Expected
  <2>4. Instance(e, 0, row.start).start = row.start
      BY DEF Instance
  <2> QED
      BY <2>2, <2>3, <2>4
<1>3. CASE kind \in {"blank", "malformed"}
  <2>1. Expected(e, w) = {Instance(e, 0, row.start)} /\ Shown(row, w) = {row.start}
      BY <1>0, <1>3 DEF Expected, expand_occurrences, Shown
  <2>2. Instance(e, 0, row.start).start = row.start
      BY DEF Instance
  <2> QED
      BY <2>1, <2>2
<1>4. CASE kind = "rule"
  <2> DEFINE within == {t \in Occurrences(row) : w.from <= t /\ t <= w.to}
             nth(t) == Cardinality({u \in within : u <= t})
  <2>1. Expected(e, w) = {Instance(e, nth(t), t) : t \in {u \in within : nth(u) <= MAX_EXPANSION_COUNT}}
      BY <1>4 DEF Expected, expand_occurrences
  <2>2. Shown(row, w) = within
    <3>1. Shown(row, w) = {t \in Occurrences(row) : t >= w.from /\ OnAt(t, t + row.end - row.start, w)}
        BY <1>0, <1>4 DEF Shown
    <3>2. ASSUME NEW t \in Nat
          PROVE  t >= w.from /\ OnAt(t, t + row.end - row.start, w) <=> w.from <= t /\ t <= w.to
      <4> DEFINE s == row.start
                 d == row.end
                 x == w.from
                 y == w.to
      <4>1. s \in Nat /\ d \in Nat /\ x \in Nat /\ y \in Nat /\ s <= d
          BY <1>0
      <4> HIDE DEF s, d, x, y
      <4>2. t >= x /\ (\E n \in x .. y : t <= n /\ n <= t + d - s) <=> x <= t /\ t <= y
        <5>1. ASSUME x <= t, t <= y PROVE t \in x .. y /\ t <= t + d - s
            BY <4>1, <5>1
        <5>2. ASSUME NEW n \in x .. y, t <= n, t >= x PROVE x <= t /\ t <= y
            BY <4>1, <5>2
        <5>3. t >= x <=> x <= t
            BY <4>1
        <5>4. t <= t
            OBVIOUS
        <5> QED
            BY <5>1, <5>2, <5>3, <5>4
      <4> QED
          BY <4>2 DEF OnAt, s, d, x, y
    <3> QED
        BY <1>4, <3>1, <3>2, OccurrencesFinite
  <2>3. \A t : Instance(e, nth(t), t).start = t
      BY DEF Instance
  <2> HIDE DEF nth
  <2>4. /\ {a.start : a \in Expected(e, w)} \subseteq within
        /\ \A t \in within : nth(t) <= MAX_EXPANSION_COUNT => \E a \in Expected(e, w) : a.start = t
      BY <2>1, <2>3
  <2> QED
      BY <2>2, <2>4 DEF nth
<1> QED
    BY <1>0, <1>1, <1>2, <1>3, <1>4

-----------------------------------------------------------------------------
\* The second query of a listing, joined with the first.
LEMMA ListingRight ==
    ASSUME CalendarInv, listing.at = "between", NEW i \in EventIds \ listing.touched,
           NEW all, all = expand_events_for_window(listing.rows, list_recurring_calendar_events, listing.window)
    PROVE  {a \in all : a.id = i} = IF events[i] = NoEvent THEN {} ELSE Expected([id |-> i, row |-> events[i]], listing.window)
<1> DEFINE w == listing.window
           row == events[i]
           e == [id |-> i, row |-> row]
           plain == {Instance(x, 0, x.row.start) : x \in {y \in listing.rows : y.row.rrule.kind = "null"}}
           recurring == list_recurring_calendar_events
<1>0. /\ events \in [EventIds -> EventForm \union {NoEvent}] /\ NoEvent \notin EventForm
      /\ listing.rows \subseteq [id : EventIds, row : EventForm]
      /\ \A r \in EventForm : [id |-> i, row |-> r] \in listing.rows <=> r = row /\ Overlaps(r, w)
    BY CalendarAssumption DEF CalendarInv, BetweenInv, BetweenForm
<1>1. all = plain \union UNION {expand_occurrences(x, w) : x \in recurring}
    BY DEF expand_events_for_window
<1>2. \A x : Instance(x, 0, x.row.start).id = x.id
    BY DEF Instance
<1>3. \A x : \A a \in expand_occurrences(x, w) : a.id = x.id
  <2>1. \A x : \A a \in expand_occurrences(x, w) : \E occ, at : a = Instance(x, occ, at)
      BY DEF expand_occurrences
  <2> QED
      BY <2>1 DEF Instance
<1>4. \A x \in listing.rows : x.id = i => x = e /\ row \in EventForm /\ Overlaps(row, w)
  <2>1. \A x \in listing.rows : x = [id |-> x.id, row |-> x.row] /\ x.row \in EventForm
      BY <1>0
  <2> QED
      BY <1>0, <2>1
<1>5. row \in EventForm /\ Overlaps(row, w) => e \in listing.rows
    BY <1>0
<1>6. \A x : x \in recurring <=> \E j \in EventIds : /\ x = [id |-> j, row |-> events[j]] /\ events[j] # NoEvent
                                                     /\ events[j].rrule.kind \notin {"null", "empty"}
    BY DEF list_recurring_calendar_events, Present
<1>7. \A x \in recurring : x.id = i => x = e /\ row # NoEvent /\ row.rrule.kind \notin {"null", "empty"}
    BY <1>6
<1>8. row # NoEvent /\ row.rrule.kind \notin {"null", "empty"} => e \in recurring
    BY <1>6
<1>9. e.id = i /\ e.row = row
    OBVIOUS
<1> HIDE DEF e, w, plain, recurring
<1>10. \A a \in {b \in all : b.id = i} :
          \/ a = Instance(e, 0, row.start) /\ row \in EventForm /\ Overlaps(row, w) /\ row.rrule.kind = "null"
          \/ a \in expand_occurrences(e, w) /\ row # NoEvent /\ row.rrule.kind \notin {"null", "empty"}
  <2> TAKE a \in {b \in all : b.id = i}
  <2>1. CASE a \in plain
    <3>1. PICK x \in listing.rows : a = Instance(x, 0, x.row.start) /\ x.row.rrule.kind = "null"
        BY <2>1 DEF plain
    <3>2. x.id = i
        BY <1>2, <3>1
    <3> QED
        BY <1>4, <1>9, <3>1, <3>2
  <2>2. CASE \E x \in recurring : a \in expand_occurrences(x, w)
    <3>1. PICK x \in recurring : a \in expand_occurrences(x, w)
        BY <2>2
    <3>2. x.id = i
        BY <1>3, <3>1
    <3> QED
        BY <1>7, <3>1, <3>2
  <2> QED
      BY <1>1, <2>1, <2>2
<1>11. row # NoEvent => row \in EventForm
    BY <1>0
<1>12. CASE row = NoEvent
    BY <1>0, <1>10, <1>12
<1>13. CASE row # NoEvent /\ row.rrule.kind = "null" /\ Overlaps(row, w)
  <2>1. Instance(e, 0, row.start) \in plain
      BY <1>5, <1>9, <1>11, <1>13 DEF plain
  <2>2. Instance(e, 0, row.start).id = i
      BY <1>2, <1>9
  <2>3. {a \in all : a.id = i} = {Instance(e, 0, row.start)}
      BY <1>1, <1>10, <1>13, <2>1, <2>2
  <2> QED
      BY <1>9, <1>13, <2>3 DEF Expected, e, w
<1>14. CASE row # NoEvent /\ (row.rrule.kind = "empty" \/ (row.rrule.kind = "null" /\ ~Overlaps(row, w)))
  <2>1. {a \in all : a.id = i} = {}
      BY <1>10, <1>14
  <2> QED
      BY <1>9, <1>14, <2>1 DEF Expected, e, w
<1>15. CASE row # NoEvent /\ row.rrule.kind \notin {"null", "empty"}
  <2>1. \A a \in expand_occurrences(e, w) : a \in all /\ a.id = i
      BY <1>1, <1>3, <1>8, <1>9, <1>15
  <2>2. {a \in all : a.id = i} = expand_occurrences(e, w)
      BY <1>10, <1>15, <2>1
  <2> QED
      BY <1>9, <1>15, <2>2 DEF Expected, e, w
<1> QED
    BY <1>12, <1>13, <1>14, <1>15

\* WindowRight is about the listing alone.
LEMMA SameListing ==
    ASSUME WindowRight, UNCHANGED listing
    PROVE  WindowRight'
BY ONLY WindowRight, UNCHANGED listing DEF WindowRight

\* What WindowRight says of one event and the answer to a listing.
RightFor(i, row, calendar, answer, w) ==
    LET mine == {a \in answer : a.id = i}
        asked == row # NoEvent /\ calendar \in {NoEvent, row.calendar}
        want == IF asked THEN Shown(row, w) ELSE {}
    IN /\ mine # {} => asked
       /\ Cardinality(mine) = Cardinality({a.start : a \in mine})
       /\ Forward(row, w) =>
             /\ {a.start : a \in mine} \subseteq want
             /\ \A t \in want : Cardinality({u \in want : u <= t}) <= MAX_EXPANSION_COUNT
                                   => \E a \in mine : a.start = t

LEMMA ListRecurringKeeps ==
    ASSUME CalendarInv, ListRecurring
    PROVE  CalendarInv'
<1> DEFINE all == expand_events_for_window(listing.rows, list_recurring_calendar_events, listing.window)
           kept == {a \in all : listing.calendar = NoEvent \/ a.calendar = listing.calendar}
           w == listing.window
<1>1. /\ listing.at = "between"
      /\ listing' = [at |-> "answered", window |-> w, calendar |-> listing.calendar, touched |-> listing.touched,
                     answer |-> kept, table |-> events]
      /\ UNCHANGED <<events, events_fts, round>>
    BY DEF ListRecurring
<1>2. w \in Windows
    BY <1>1 DEF CalendarInv, BetweenInv, BetweenForm
<1> HIDE DEF all, w
<1>3. ASSUME NEW i \in EventIds \ listing.touched
      PROVE  RightFor(i, events[i], listing.calendar, kept, w)
  <2> DEFINE row  == events[i]
             e == [id |-> i, row |-> row]
             mine == {a \in kept : a.id = i}
             asked == row # NoEvent /\ listing.calendar \in {NoEvent, row.calendar}
             want == IF asked THEN Shown(row, w) ELSE {}
  <2>1. {a \in all : a.id = i} = IF row = NoEvent THEN {} ELSE Expected(e, w)
      BY <1>1, ListingRight DEF all, w
  <2>2. \A a \in Expected(e, w) : a.calendar = row.calendar
      BY ExpectedOf
  <2>3. mine = {a \in {b \in all : b.id = i} : listing.calendar = NoEvent \/ a.calendar = listing.calendar}
      OBVIOUS
  <2> HIDE DEF e
  <2>4. mine = IF asked THEN Expected(e, w) ELSE {}
      BY <2>1, <2>2, <2>3
  <2>5. e.row = row /\ (row # NoEvent => row \in EventForm)
      BY DEF e, CalendarInv
  <2> HIDE DEF kept, row, mine
  <2>6. CASE asked
    <3>1. mine = Expected(e, w) /\ want = Shown(e.row, w) /\ e.row \in EventForm
        BY <2>4, <2>5, <2>6
    <3>2. Cardinality(mine) = Cardinality({a.start : a \in mine})
        BY <3>1, ExpectedOnce
    <3>3. ASSUME Forward(row, w)
          PROVE  /\ {a.start : a \in mine} \subseteq want
                 /\ \A t \in want : Cardinality({u \in want : u <= t}) <= MAX_EXPANSION_COUNT => \E a \in mine : a.start = t
        BY <1>2, <2>5, <3>1, <3>3, ExpectedShown
    <3> QED
        BY <2>6, <3>2, <3>3 DEF RightFor, row, mine
  <2>7. CASE ~asked
    <3>1. mine = {} /\ want = {}
        BY <2>4, <2>7
    <3>2. {a.start : a \in mine} = {}
        BY <3>1
    <3> QED
        BY <2>7, <3>1, <3>2 DEF RightFor, row, mine
  <2> QED
      BY <2>6, <2>7
<1>4. /\ listing'.at = "answered" /\ listing'.touched = listing.touched /\ listing'.table = events
      /\ listing'.answer = kept /\ listing'.calendar = listing.calendar /\ listing'.window = w
    BY <1>1
<1> HIDE DEF kept
<1>5. WindowRight'
  <2>1. \A i \in EventIds \ listing'.touched :
            RightFor(i, listing'.table[i], listing'.calendar, listing'.answer, listing'.window)
      BY <1>3, <1>4
  <2> QED
      BY <2>1 DEF RightFor, WindowRight
<1>6. BetweenInv'
    BY <1>4 DEF BetweenInv
<1>7. EventsIndexed' /\ RoundInv'
    BY <1>1 DEF CalendarInv, EventsIndexed, RoundInv, Present, Mirrors
<1> QED
    BY <1>1, <1>5, <1>6, <1>7 DEF CalendarInv

LEMMA SaveNextEventKeeps ==
    ASSUME CalendarInv, SaveNextEvent
    PROVE  CalendarInv'
<1> DEFINE j == round.n + 1
           event == Head(round.left)
           row == [summary |-> event.summary, rrule |-> event.rrule, start |-> event.start, end |-> event.end,
                   calendar |-> round.of]
<1>1. /\ round.left # << >> /\ round.left \in Seq(ParsedForm) /\ round.n \in Nat /\ round.of \in Collection
      /\ round \in [of : Collection \union {NoEvent}, left : Seq(ParsedForm), n : Nat]
    BY DEF SaveNextEvent, CalendarInv, RoundInv
<1>2. PICK raw \in Responses : round.n + Len(round.left) <= Len(raw)
    BY <1>1 DEF CalendarInv, RoundInv
<1>3. /\ events' = [events EXCEPT ![j] = row]
      /\ events_fts' = mirror(events_fts, events[j] # NoEvent, j, event.summary)
      /\ round' = [round EXCEPT !.left = Tail(@), !.n = @ + 1]
      /\ listing' = IF listing.at = "between" THEN [listing EXCEPT !.touched = @ \union {j}] ELSE listing
    BY DEF SaveNextEvent, save_calendar_event
<1>4. event \in ParsedForm /\ Tail(round.left) \in Seq(ParsedForm) /\ Len(Tail(round.left)) = Len(round.left) - 1
      /\ Len(round.left) \in Nat \ {0}
    BY <1>1
<1>5. row \in EventForm /\ row # NoEvent
  <2>1. row \in EventForm
      BY <1>1, <1>4 DEF ParsedForm, EventForm
  <2> QED
      BY <2>1, CalendarAssumption
<1>6. j \in EventIds
  <2> DEFINE k == Len(round.left)
             l == Len(raw)
             n == round.n
  <2>1. raw \in Seq(Vevents)
      BY CalendarAssumption
  <2>2. n \in Nat /\ k \in Nat \ {0} /\ l \in Nat /\ n + k <= l /\ DOMAIN raw = 1 .. l
      BY <1>1, <1>2, <1>4, <2>1
  <2> HIDE DEF k, l, n
  <2>3. n + 1 \in 1 .. l
      BY <2>2
  <2> QED
      BY <2>2, <2>3 DEF EventIds, n
<1>7. /\ DOMAIN events = EventIds /\ DOMAIN events_fts = EventIds
      /\ events \in [EventIds -> EventForm \union {NoEvent}]
    BY DEF CalendarInv
<1>8. row.summary = event.summary
    OBVIOUS
<1> HIDE DEF j, event, row
<1>9. events'[j] = row /\ \A i \in EventIds \ {j} : events'[i] = events[i]
    BY <1>3, <1>6, <1>7
<1>10. events_fts'[j] = <<row.summary>> /\ DOMAIN events_fts' = EventIds
       /\ \A i \in EventIds \ {j} : events_fts'[i] = events_fts[i]
  <2>1. events_fts' = [events_fts EXCEPT ![j] = Append(IF events[j] # NoEvent THEN << >> ELSE @, event.summary)]
      BY <1>3 DEF mirror
  <2>2. events[j] = NoEvent => events_fts[j] = << >>
      BY <1>6 DEF CalendarInv, EventsIndexed, Mirrors, Present
  <2>3. Append(IF events[j] # NoEvent THEN << >> ELSE events_fts[j], event.summary) = <<event.summary>>
    <3>1. (IF events[j] # NoEvent THEN << >> ELSE events_fts[j]) = << >>
        BY <2>2
    <3>2. Append(<< >>, event.summary) = <<event.summary>>
        OBVIOUS
    <3> QED
        BY <3>1, <3>2
  <2>4. events_fts' = [events_fts EXCEPT ![j] = <<event.summary>>]
      BY <2>1, <2>3
  <2> QED
      BY <1>6, <1>7, <1>8, <2>4
<1>11. EventsIndexed'
  <2> SUFFICES ASSUME NEW i \in EventIds
               PROVE  events_fts'[i] = IF events'[i] # NoEvent THEN <<events'[i].summary>> ELSE << >>
      BY DEF EventsIndexed, Mirrors, Present
  <2>1. CASE i = j
      BY <1>5, <1>9, <1>10, <2>1
  <2>2. CASE i # j
    <3>1. events_fts[i] = IF events[i] # NoEvent THEN <<events[i].summary>> ELSE << >>
        BY DEF CalendarInv, EventsIndexed, Mirrors, Present
    <3> QED
        BY <1>9, <1>10, <2>2, <3>1
  <2> QED
      BY <2>1, <2>2
<1>12. RoundInv'
  <2>1. round'.left = Tail(round.left) /\ round'.n = round.n + 1 /\ round'.of = round.of
        /\ round' \in [of : Collection \union {NoEvent}, left : Seq(ParsedForm), n : Nat]
    <3> DEFINE t == Tail(round.left)
               m == round.n + 1
    <3>1. t \in Seq(ParsedForm) /\ m \in Nat /\ round' = [round EXCEPT !.left = t, !.n = m]
        BY <1>1, <1>3, <1>4
    <3> HIDE DEF t, m
    <3>2. /\ round'.left = t /\ round'.n = m /\ round'.of = round.of
          /\ round' \in [of : Collection \union {NoEvent}, left : Seq(ParsedForm), n : Nat]
        BY ONLY <1>1, <3>1
    <3> QED
        BY <3>2 DEF t, m
  <2>2. round'.n + Len(round'.left) = round.n + Len(round.left)
    <3> DEFINE k == Len(round.left)
               t == Len(Tail(round.left))
               n == round.n
    <3>1. n \in Nat /\ k \in Nat /\ t = k - 1
        BY <1>1, <1>4
    <3> HIDE DEF k, t, n
    <3>2. n + 1 + t = n + k
        BY <3>1
    <3> QED
        BY <2>1, <3>2 DEF k, t, n
  <2> QED
      BY <1>1, <1>2, <2>1, <2>2 DEF RoundInv
<1>13. BetweenInv' /\ WindowRight'
  <2>1. CASE listing.at = "between"
    <3>1. listing \in BetweenForm
        BY <2>1 DEF CalendarInv, BetweenInv
    <3>2. /\ listing' \in BetweenForm /\ listing'.touched = listing.touched \union {j} /\ listing'.at = "between"
          /\ listing'.rows = listing.rows /\ listing'.window = listing.window
        BY <1>3, <1>6, <2>1, <3>1 DEF BetweenForm
    <3>3. \A i \in EventIds \ listing'.touched : i \in EventIds \ listing.touched /\ events'[i] = events[i]
        BY <1>9, <3>2
    <3>4. BetweenInv'
        BY <2>1, <3>2, <3>3 DEF CalendarInv, BetweenInv
    <3> QED
        BY <3>2, <3>4 DEF WindowRight
  <2>2. CASE listing.at # "between"
    <3>1. listing' = listing
        BY <1>3, <2>2
    <3>2. BetweenInv'
        BY <2>2, <3>1 DEF BetweenInv
    <3> QED
        BY <3>1, <3>2, SameListing DEF CalendarInv
  <2> QED
      BY <2>1, <2>2
<1>14. events' \in [EventIds -> EventForm \union {NoEvent}]
    BY <1>3, <1>5, <1>6, <1>7
<1> QED
    BY <1>10, <1>11, <1>12, <1>13, <1>14 DEF CalendarInv

LEMMA CalendarStep == CalendarInv /\ [CalendarNext]_calendarVars => CalendarInv'
<1> SUFFICES ASSUME CalendarInv, [CalendarNext]_calendarVars PROVE CalendarInv'
    OBVIOUS
<1>1. ASSUME UNCHANGED <<events, events_fts>> PROVE EventsIndexed'
    BY <1>1 DEF CalendarInv, EventsIndexed, Mirrors, Present
<1>2. ASSUME UNCHANGED <<events, listing>> PROVE BetweenInv' /\ WindowRight'
  <2>1. BetweenInv'
      BY <1>2 DEF CalendarInv, BetweenInv
  <2>2. WindowRight'
      BY <1>2, SameListing DEF CalendarInv
  <2> QED
      BY <2>1, <2>2
<1>3. ASSUME UNCHANGED round PROVE RoundInv'
    BY <1>3 DEF CalendarInv, RoundInv
<1>4. ASSUME NEW calendar \in Collection, NEW raw \in Responses, SyncCalendar(calendar, raw)
      PROVE  CalendarInv'
  <2> DEFINE parsed == parse_multistatus_response(raw)
  <2>1. parsed \in Seq(ParsedForm) /\ Len(parsed) <= Len(raw)
      BY AnswersParsed
  <2> HIDE DEF parsed
  <2>2. round' = [of |-> calendar, left |-> parsed, n |-> 0] /\ UNCHANGED <<events, events_fts, listing>>
      BY <1>4 DEF SyncCalendar, parsed
  <2>3. round'.n + Len(round'.left) <= Len(raw)
    <3> DEFINE k == Len(parsed)
    <3>1. k \in Nat /\ k <= Len(raw) /\ round'.n = 0 /\ Len(round'.left) = k
        BY <2>1, <2>2
    <3> HIDE DEF k
    <3>2. 0 + k = k
        BY <3>1
    <3> QED
        BY <3>1, <3>2
  <2>4. RoundInv'
      BY <2>1, <2>2, <2>3 DEF RoundInv
  <2> QED
      BY <1>1, <1>2, <2>2, <2>4 DEF CalendarInv
<1>5. CASE SaveNextEvent
    BY <1>5, SaveNextEventKeeps
<1>6. CASE SyncEnds
  <2>1. RoundInv'
      BY <1>6 DEF SyncEnds, RoundInv, NoRound
  <2> QED
      BY <1>1, <1>2, <1>6, <2>1 DEF SyncEnds, CalendarInv
<1>7. ASSUME NEW w \in Windows, NEW calendar \in Collection \union {NoEvent}, ListEvents(w, calendar)
      PROVE  CalendarInv'
  <2>1. /\ listing' = [at |-> "between", window |-> w, calendar |-> calendar, rows |-> list_calendar_events(w), touched |-> {}]
        /\ UNCHANGED <<events, events_fts, round>>
      BY <1>7 DEF ListEvents
  <2>2. list_calendar_events(w) \subseteq [id : EventIds, row : EventForm]
      BY DEF list_calendar_events, Present, CalendarInv
  <2>3. \A i \in EventIds, row \in EventForm :
            [id |-> i, row |-> row] \in list_calendar_events(w) <=> row = events[i] /\ Overlaps(row, w)
    <3> SUFFICES ASSUME NEW i \in EventIds, NEW row \in EventForm
                 PROVE  [id |-> i, row |-> row] \in list_calendar_events(w) <=> row = events[i] /\ Overlaps(row, w)
        OBVIOUS
    <3>1. row # NoEvent
        BY CalendarAssumption
    <3>2. \A j \in EventIds : [id |-> i, row |-> row] = [id |-> j, row |-> events[j]] => i = j /\ row = events[j]
      <4> TAKE j \in EventIds
      <4>1. [id |-> i, row |-> row].id = i /\ [id |-> j, row |-> events[j]].id = j
            /\ [id |-> i, row |-> row].row = row /\ [id |-> j, row |-> events[j]].row = events[j]
          OBVIOUS
      <4> QED
          BY <4>1
    <3> QED
        BY <3>1, <3>2 DEF list_calendar_events, Present, Overlaps
  <2> DEFINE rows == list_calendar_events(w)
  <2> HIDE DEF rows
  <2>4. listing' \in BetweenForm /\ listing'.rows = rows /\ listing'.window = w /\ listing'.at = "between"
      BY <2>1, <2>2 DEF BetweenForm, rows
  <2>5. BetweenInv'
      BY <2>1, <2>3, <2>4 DEF BetweenInv, rows
  <2>6. WindowRight'
      BY <2>4 DEF WindowRight
  <2> QED
      BY <1>1, <1>3, <2>1, <2>5, <2>6 DEF CalendarInv
<1>8. CASE ListRecurring
    BY <1>8, ListRecurringKeeps
<1>9. CASE Answered
  <2>1. BetweenInv' /\ WindowRight'
      BY <1>9 DEF Answered, NoListing, BetweenInv, WindowRight
  <2> QED
      BY <1>1, <1>3, <1>9, <2>1 DEF Answered, CalendarInv
<1>10. CASE UNCHANGED calendarVars
    BY <1>1, <1>2, <1>3, <1>10 DEF calendarVars, CalendarInv
<1> QED
    BY <1>4, <1>5, <1>6, <1>7, <1>8, <1>9, <1>10 DEF CalendarNext

-----------------------------------------------------------------------------
(* Contacts                                                                *)

\* The names a contact may have.
Names == NewContact \union (({c.fn : c \in Cards} \union {c.email : c \in Cards}) \ {NoContact})

FetchInv ==
    /\ fetch \in [on : BOOLEAN, left : Seq(Names), n : Nat]
    /\ fetch.left # << >> => \E raw \in CardAnswers : fetch.n + Len(fetch.left) <= Len(raw)

ContactsInv ==
    /\ contacts \in [ContactIds -> Names \union {NoContact}]
    /\ DOMAIN contacts_fts = ContactIds
    /\ \A i \in ContactIds : Mirrors(contacts_fts, i, contacts[i] # NoContact, contacts[i])
    /\ FetchInv
    /\ millis \in 0 .. MaxCreated
    /\ \A c \in made : c.id \in {"ct"} \X (0 .. MaxCreated)
    /\ \A c \in made : c.id \notin doubled => contacts[c.id] = c.name

LEMMA CardsParsed ==
    ASSUME NEW raw \in CardAnswers, parse_cards(raw) # {}
    PROVE  LET parsed == CHOOSE c \in parse_cards(raw) : TRUE
           IN parsed \in Seq(Names) /\ Len(parsed) = Len(raw)
<1> DEFINE p == [n \in DOMAIN raw |-> CHOOSE c \in parse_vcard(raw[n]) : TRUE]
<1>1. raw \in Seq(Cards)
    BY ContactsAssumption
<1>2. parse_cards(raw) = {p} /\ \A n \in DOMAIN raw : parse_vcard(raw[n]) # {}
    BY DEF parse_cards
<1>3. \A v \in Cards : parse_vcard(v) \subseteq Names
    BY DEF parse_vcard, Names
<1>4. \A n \in DOMAIN raw : (CHOOSE c \in parse_vcard(raw[n]) : TRUE) \in Names
    BY <1>1, <1>2, <1>3
<1>5. p \in Seq(Names) /\ Len(p) = Len(raw)
    BY <1>1, <1>4
<1> HIDE DEF p
<1> QED
    BY <1>2, <1>5

\* Saving a contact under an id no hand-made one has, or a hand-made one.
LEMMA SavedContact ==
    ASSUME ContactsInv, NEW i \in ContactIds, NEW name \in Names, save_contact(i, name)
    PROVE  /\ contacts' \in [ContactIds -> Names \union {NoContact}]
           /\ DOMAIN contacts_fts' = ContactIds
           /\ \A k \in ContactIds : Mirrors(contacts_fts, k, contacts[k] # NoContact, contacts[k])'
           /\ contacts'[i] = name /\ \A k \in ContactIds \ {i} : contacts'[k] = contacts[k]
<1>1. /\ contacts' = [contacts EXCEPT ![i] = name]
      /\ contacts_fts' = [contacts_fts EXCEPT ![i] = Append(IF contacts[i] # NoContact THEN << >> ELSE @, name)]
    BY DEF save_contact, mirror
<1>2. DOMAIN contacts = ContactIds /\ DOMAIN contacts_fts = ContactIds /\ contacts \in [ContactIds -> Names \union {NoContact}]
    BY DEF ContactsInv
<1>3. \A k \in ContactIds : contacts_fts[k] = IF contacts[k] # NoContact THEN <<contacts[k]>> ELSE << >>
    BY DEF ContactsInv, Mirrors
<1>4. contacts_fts' = [contacts_fts EXCEPT ![i] = <<name>>]
  <2>1. (IF contacts[i] # NoContact THEN << >> ELSE contacts_fts[i]) = << >>
      BY <1>3
  <2>2. Append(<< >>, name) = <<name>>
      OBVIOUS
  <2> QED
      BY <1>1, <2>1, <2>2
<1>5. name # NoContact
    BY ContactsAssumption DEF Names
<1>6. contacts'[i] = name /\ \A k \in ContactIds \ {i} : contacts'[k] = contacts[k]
    BY <1>1, <1>2
<1>7. contacts_fts'[i] = <<name>> /\ \A k \in ContactIds \ {i} : contacts_fts'[k] = contacts_fts[k]
    BY <1>2, <1>4
<1>8. \A k \in ContactIds : contacts_fts'[k] = IF contacts'[k] # NoContact THEN <<contacts'[k]>> ELSE << >>
    BY <1>3, <1>5, <1>6, <1>7
<1>9. contacts' \in [ContactIds -> Names \union {NoContact}] /\ DOMAIN contacts_fts' = ContactIds
    BY <1>1, <1>2, <1>4
<1> QED
    BY <1>6, <1>8, <1>9 DEF Mirrors

LEMMA ContactsStart == ContactsInit => ContactsInv
<1> SUFFICES ASSUME ContactsInit PROVE ContactsInv
    OBVIOUS
<1>1. FetchInv
    BY DEF ContactsInit, FetchInv, NoFetch
<1>2. \A i \in ContactIds : Mirrors(contacts_fts, i, contacts[i] # NoContact, contacts[i])
    BY DEF ContactsInit, Mirrors
<1> QED
    BY <1>1, <1>2, ContactsAssumption DEF ContactsInit, ContactsInv

LEMMA ContactsStep == ContactsInv /\ [ContactsNext]_contactVars => ContactsInv'
<1> SUFFICES ASSUME ContactsInv, [ContactsNext]_contactVars PROVE ContactsInv'
    OBVIOUS
<1>0. MaxCreated \in Nat
    BY ContactsAssumption
<1>1. ASSUME NEW raw \in CardAnswers, SyncContacts(raw)
      PROVE  ContactsInv'
  <2>1. FetchInv'
    <3>1. CASE parse_cards(raw) = {}
        BY <1>1, <3>1 DEF SyncContacts, FetchInv, NoFetch
    <3>2. CASE parse_cards(raw) # {}
      <4> DEFINE parsed == CHOOSE c \in parse_cards(raw) : TRUE
      <4>1. parsed \in Seq(Names) /\ Len(parsed) = Len(raw)
          BY <3>2, CardsParsed
      <4>2. fetch' = [on |-> TRUE, left |-> parsed, n |-> 0]
          BY <1>1, <3>2 DEF SyncContacts
      <4> HIDE DEF parsed
      <4> DEFINE k == Len(parsed)
      <4>3. k \in Nat /\ k = Len(raw) /\ fetch'.n = 0 /\ Len(fetch'.left) = k
          BY <4>1, <4>2
      <4> HIDE DEF k
      <4>4. 0 + k <= k
          BY <4>3
      <4>5. fetch'.n + Len(fetch'.left) <= Len(raw)
          BY <4>3, <4>4
      <4> QED
          BY <4>1, <4>2, <4>5 DEF FetchInv
    <3> QED
        BY <3>1, <3>2
  <2> QED
      BY <1>1, <2>1 DEF SyncContacts, ContactsInv, Mirrors
<1>2. CASE SaveNextContact
  <2> DEFINE i == <<"carddav", fetch.n + 1>>
             k == Len(fetch.left)
             n == fetch.n
             t == Len(Tail(fetch.left))
  <2>1. /\ fetch.left # << >> /\ fetch.left \in Seq(Names) /\ n \in Nat /\ fetch \in [on : BOOLEAN, left : Seq(Names), n : Nat]
        /\ Head(fetch.left) \in Names /\ Tail(fetch.left) \in Seq(Names) /\ k \in Nat \ {0} /\ t = k - 1
      BY <1>2 DEF SaveNextContact, ContactsInv, FetchInv
  <2>2. PICK raw \in CardAnswers : n + k <= Len(raw)
      BY <2>1 DEF ContactsInv, FetchInv
  <2>3. raw \in Seq(Cards)
      BY ContactsAssumption
  <2>4. n + 1 \in DOMAIN raw /\ n + 1 + t = n + k
    <3> DEFINE l == Len(raw)
    <3>1. l \in Nat /\ DOMAIN raw = 1 .. l /\ n + k <= l
        BY <2>2, <2>3
    <3> HIDE DEF l, k, n, t
    <3> QED
        BY <2>1, <3>1
  <2>5. i \in ContactIds /\ i \notin {"ct"} \X (0 .. MaxCreated)
      BY <2>4 DEF ContactIds
  <2>6. save_contact(i, Head(fetch.left)) /\ fetch' = [fetch EXCEPT !.left = Tail(@), !.n = @ + 1]
        /\ UNCHANGED <<fetches, millis, made, doubled>>
      BY <1>2 DEF SaveNextContact
  <2>7. /\ contacts' \in [ContactIds -> Names \union {NoContact}]
        /\ DOMAIN contacts_fts' = ContactIds
        /\ \A j \in ContactIds : Mirrors(contacts_fts, j, contacts[j] # NoContact, contacts[j])'
        /\ \A j \in ContactIds \ {i} : contacts'[j] = contacts[j]
    <3> HIDE DEF i
    <3> QED
        BY <2>1, <2>5, <2>6, SavedContact
  <2>8. FetchInv'
    <3>1. fetch'.left = Tail(fetch.left) /\ fetch'.n = n + 1 /\ fetch' \in [on : BOOLEAN, left : Seq(Names), n : Nat]
      <4> DEFINE l == Tail(fetch.left)
                 m == fetch.n + 1
      <4>1. l \in Seq(Names) /\ m \in Nat /\ fetch' = [fetch EXCEPT !.left = l, !.n = m]
            /\ fetch \in [on : BOOLEAN, left : Seq(Names), n : Nat]
          BY <2>1, <2>6
      <4> HIDE DEF l, m
      <4>2. fetch'.left = l /\ fetch'.n = m /\ fetch' \in [on : BOOLEAN, left : Seq(Names), n : Nat]
          BY ONLY <4>1
      <4> QED
          BY <4>2 DEF l, m
    <3>2. fetch'.n + Len(fetch'.left) = n + k
        BY <2>4, <3>1
    <3>3. fetch'.n + Len(fetch'.left) <= Len(raw)
        BY <2>2, <3>2
    <3> QED
        BY <3>1, <3>3 DEF FetchInv
  <2>9. \A c \in made' : c.id \notin doubled' => contacts'[c.id] = c.name
    <3>1. \A c \in made : c.id \in ContactIds \ {i}
        BY <2>5 DEF ContactsInv, ContactIds
    <3> QED
        BY <2>6, <2>7, <3>1 DEF ContactsInv
  <2> QED
      BY <2>6, <2>7, <2>8, <2>9 DEF ContactsInv
<1>3. CASE FetchEnds
  <2>1. FetchInv'
      BY <1>3 DEF FetchEnds, FetchInv, NoFetch
  <2> QED
      BY <1>3, <2>1 DEF FetchEnds, ContactsInv, Mirrors
<1>4. ASSUME NEW name \in NewContact, create_contact(name)
      PROVE  ContactsInv'
  <2> DEFINE i == contact_id
  <2>1. i \in {"ct"} \X (0 .. MaxCreated) /\ i \in ContactIds /\ name \in Names
      BY DEF contact_id, ContactIds, ContactsInv, Names
  <2>2. /\ save_contact(i, name)
        /\ made' = made \union {[id |-> i, name |-> name]}
        /\ doubled' = (IF \E c \in made : c.id = i THEN doubled \union {i} ELSE doubled)
        /\ millis' \in {millis, millis + 1} /\ millis' <= MaxCreated
        /\ UNCHANGED <<fetch, fetches>>
      BY <1>4 DEF create_contact
  <2> HIDE DEF i
  <2>3. /\ contacts' \in [ContactIds -> Names \union {NoContact}]
        /\ DOMAIN contacts_fts' = ContactIds
        /\ \A k \in ContactIds : Mirrors(contacts_fts, k, contacts[k] # NoContact, contacts[k])'
        /\ contacts'[i] = name /\ \A k \in ContactIds \ {i} : contacts'[k] = contacts[k]
      BY <2>1, <2>2, SavedContact
  <2>4. millis' \in 0 .. MaxCreated
      BY <1>0, <2>2 DEF ContactsInv
  <2>5. FetchInv'
      BY <2>2 DEF FetchInv, ContactsInv
  <2>6. \A c \in made' : c.id \in {"ct"} \X (0 .. MaxCreated)
      BY <2>1, <2>2 DEF ContactsInv
  <2>7. ASSUME NEW c \in made', c.id \notin doubled'
        PROVE  contacts'[c.id] = c.name
    <3>1. CASE c \in made
      <4>1. c.id # i /\ c.id \notin doubled
          BY <2>2, <2>7, <3>1
      <4>2. c.id \in ContactIds
          BY <3>1 DEF ContactsInv, ContactIds
      <4> QED
          BY <2>3, <3>1, <4>1, <4>2 DEF ContactsInv
    <3>2. CASE c = [id |-> i, name |-> name]
      <4>1. c.id = i /\ c.name = name
          BY <3>2
      <4> QED
          BY <2>3, <4>1
    <3> QED
        BY <2>2, <3>1, <3>2
  <2> QED
      BY <2>3, <2>4, <2>5, <2>6, <2>7 DEF ContactsInv
<1>5. CASE UNCHANGED contactVars
    BY <1>5 DEF contactVars, ContactsInv, FetchInv, Mirrors
<1> QED
    BY <1>1, <1>2, <1>3, <1>4, <1>5 DEF ContactsNext

LEMMA ContactsHold == ContactsInv => ContactsKept
<1> SUFFICES ASSUME ContactsInv, NEW i \in ContactIds, contacts[i] # NoContact
             PROVE  i \in search(contacts_fts, contacts[i])
    BY DEF ContactsKept, ContactsInv
<1>1. contacts_fts[i] = <<contacts[i]>>
    BY DEF ContactsInv, Mirrors
<1>2. 1 \in DOMAIN contacts_fts[i] /\ contacts_fts[i][1] = contacts[i]
    BY <1>1
<1> QED
    BY <1>2 DEF search, ContactsInv

-----------------------------------------------------------------------------
\* However syncs, listings and requests interleave: the search finds every
\* event and contact under the name it has now, a listing holds each event of
\* its window once, and a contact stays as it was created.
THEOREM OrganizerKeeps ==
    /\ CalendarInit /\ [][CalendarNext]_calendarVars
    /\ ContactsInit /\ [][ContactsNext]_contactVars
    => []OrganizerSound
<1>1. CalendarInv => CalendarSound
    BY EventsFound DEF CalendarSound, CalendarInv
<1>2. CalendarInv /\ ContactsInv => OrganizerSound
    BY <1>1, ContactsHold DEF OrganizerSound
<1> QED
    BY <1>2, CalendarStarts, CalendarStep, ContactsStart, ContactsStep, PTL
=============================================================================
