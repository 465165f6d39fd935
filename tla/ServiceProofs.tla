---------------------------- MODULE ServiceProofs ----------------------------
(***************************************************************************)
(* What the services that share no state promise, for every value of the   *)
(* constants.                                                              *)
(***************************************************************************)
EXTENDS EngineLifecycle, Jmap, Triage, EventFeed, Submission, BasicLemmas, FiniteSetTheorems,
        SequenceTheorems

-----------------------------------------------------------------------------
(* The sync over JMAP                                                      *)

JmapRunning == {"next", "query", "get", "save", "filter"}

JmapTyped ==
    /\ boxes \in [JMail -> SUBSET Mailbox]
    /\ unread \in [JMail -> BOOLEAN]
    /\ DOMAIN row = JMail
    /\ fired \in [JMail -> Nat]
    /\ jpc \in JmapRunning \union {"idle", "folders", "ok", "failed"}
    /\ toSync \subseteq Mailbox
    /\ ids \subseteq JMail
    /\ \A g \in got : g.id \in JMail /\ g.read \in BOOLEAN
    /\ filtering \subseteq JMail
    /\ steady \subseteq JMail
    /\ jfaults \in Nat

\* The locals of a run say something only where the run uses them.
RunLocals ==
    /\ jpc \in JmapRunning \ {"next"} => box \in toSync
    /\ jpc \notin {"save", "filter"} => got = {}
    /\ jpc = "ok" => toSync = {}

\* A message is stored as the server has it.
Current(m) == row[m] # NoRow /\ row[m].read = ~unread[m]

\* What is on its way to the store is what the server still has.
FetchedCurrent ==
    /\ \A m \in steady : boxes[m] # {}
    /\ \A g \in got : g.id \in steady => g.read = ~unread[g.id]

\* A message that has not changed since the run began is stored once a
\* mailbox it is in has been left behind, and is on its way while the run is
\* at that mailbox.
Covered ==
    ~refused =>
        /\ jpc \in JmapRunning \union {"ok"} =>
              \A m \in steady : \A b \in boxes[m] : b \in toSync \/ Current(m)
        /\ jpc = "get" => \A m \in steady : box \in boxes[m] => m \in ids
        /\ jpc \in {"save", "filter"} =>
              \A m \in steady : box \in boxes[m] => Current(m) \/ \E g \in got : g.id = m

\* A message's filters are due when its row is written for the first time.
FiltersDue ==
    /\ filtering # {} => jpc = "filter"
    /\ \A m \in JMail :
          /\ row[m] = NoRow => fired[m] = 0 /\ m \notin filtering
          /\ m \in filtering => fired[m] = 0

JmapInv == JmapTyped /\ RunLocals /\ FetchedCurrent /\ Covered /\ FiltersDue /\ FiltersOnce

\* Init is one of the states the invariant describes.
LEMMA JmapInitInv == JmapInit => JmapInv
<1> SUFFICES ASSUME JmapInit PROVE JmapInv
    OBVIOUS
<1>1. JmapTyped
    BY DEF JmapInit, JmapTyped
<1>2. RunLocals /\ FetchedCurrent /\ Covered
    BY DEF JmapInit, RunLocals, FetchedCurrent, Covered, JmapRunning
<1>3. FiltersDue /\ FiltersOnce
    BY DEF JmapInit, FiltersDue, FiltersOnce
<1> QED
    BY <1>1, <1>2, <1>3 DEF JmapInv

\* A change at the server takes the message out of those the run answers for.
LEMMA ServerKeeps ==
    ASSUME JmapInv, NEW m \in JMail, ServerChanges(m)
    PROVE  JmapInv'
<1>0. UNCHANGED <<row, stateOf, fired, jpc, toSync, box, since, ids, got, newState, filtering, refused, runs, jfaults>>
    BY DEF ServerChanges, runVars
<1>1. steady' = steady \ {m}
    BY DEF ServerChanges
<1>2. \A n \in JMail \ {m} : boxes'[n] = boxes[n] /\ unread'[n] = unread[n]
    BY DEF ServerChanges, JmapInv, JmapTyped
<1>3. boxes' \in [JMail -> SUBSET Mailbox]
    BY DEF ServerChanges, JmapInv, JmapTyped
<1>4. unread' \in [JMail -> BOOLEAN]
  <2>1. CASE unread' = unread
      BY <2>1 DEF JmapInv, JmapTyped
  <2>2. CASE unread' = [unread EXCEPT ![m] = ~@]
      BY <2>2 DEF JmapInv, JmapTyped
  <2> QED
      BY <2>1, <2>2 DEF ServerChanges
<1>5. JmapTyped'
    BY <1>0, <1>1, <1>3, <1>4 DEF JmapInv, JmapTyped
<1>6. RunLocals' /\ FiltersDue' /\ FiltersOnce'
    BY <1>0 DEF JmapInv, RunLocals, FiltersDue, FiltersOnce
<1>7. \A n \in steady' : n \in steady /\ n \in JMail /\ boxes'[n] = boxes[n] /\ unread'[n] = unread[n] /\ Current(n)' = Current(n)
    BY <1>0, <1>1, <1>2 DEF JmapInv, JmapTyped, Current
<1>8. FetchedCurrent'
    BY <1>0, <1>7 DEF JmapInv, FetchedCurrent
<1>9. Covered'
    BY <1>0, <1>7 DEF JmapInv, Covered
<1> QED
    BY <1>5, <1>6, <1>8, <1>9 DEF JmapInv

\* Fetching reads the rows and the flags as they are.
LEMMA FetchKeeps ==
    ASSUME JmapInv, BeginRun \/ sync_folders \/ NextMailbox \/ email_query \/ QueryRefused \/ email_get
    PROVE  JmapInv'
<1>0. UNCHANGED <<boxes, unread, row, fired, filtering>>
    BY DEF BeginRun, sync_folders, NextMailbox, email_query, QueryRefused, email_get, serverVars
<1>1. FiltersDue' /\ FiltersOnce'
  <2>1. filtering # {} => jpc' = "filter"
      BY DEF JmapInv, FiltersDue, BeginRun, sync_folders, NextMailbox, email_query, QueryRefused, email_get
  <2>2. jfaults' = 0 => jfaults = 0
      BY DEF JmapInv, JmapTyped, BeginRun, sync_folders, NextMailbox, email_query, QueryRefused, email_get, JmapFault
  <2> QED
      BY <1>0, <2>1, <2>2 DEF JmapInv, FiltersDue, FiltersOnce
<1>2. \A m \in JMail : Current(m)' = Current(m)
    BY <1>0 DEF Current
<1>3. CASE BeginRun
  <2>1. jpc' = "folders" /\ UNCHANGED <<toSync, ids, got, jfaults, box>> /\ steady' = {m \in JMail : boxes[m] # {}} /\ got = {}
      BY <1>3 DEF BeginRun, JmapInv, RunLocals
  <2>2. JmapTyped'
      BY <1>0, <2>1 DEF JmapInv, JmapTyped
  <2>3. RunLocals' /\ FetchedCurrent' /\ Covered'
      BY <1>0, <2>1 DEF RunLocals, FetchedCurrent, Covered, JmapRunning
  <2> QED
      BY <1>1, <2>2, <2>3 DEF JmapInv
<1>4. CASE sync_folders
  <2>1. jpc = "folders" /\ jpc' = "next" /\ toSync' = Mailbox /\ UNCHANGED <<ids, got, jfaults, box, steady, refused>>
      BY <1>4 DEF sync_folders
  <2>2. JmapTyped'
      BY <1>0, <2>1 DEF JmapInv, JmapTyped, JmapRunning
  <2>3. RunLocals' /\ FetchedCurrent'
      BY <1>0, <2>1 DEF JmapInv, RunLocals, FetchedCurrent, JmapRunning
  <2>4. Covered'
      BY <1>0, <2>1 DEF JmapInv, JmapTyped, Covered
  <2> QED
      BY <1>1, <2>2, <2>3, <2>4 DEF JmapInv
<1>5. CASE NextMailbox
  <2>1. /\ jpc = "next" /\ UNCHANGED <<toSync, ids, got, jfaults, steady, refused>>
        /\ \/ jpc' = "query" /\ box' \in toSync
           \/ jpc' = "ok" /\ toSync = {}
      BY <1>5 DEF NextMailbox
  <2>2. JmapTyped'
      BY <1>0, <2>1 DEF JmapInv, JmapTyped, JmapRunning
  <2>3. RunLocals' /\ FetchedCurrent'
      BY <1>0, <2>1 DEF JmapInv, RunLocals, FetchedCurrent, JmapRunning
  <2>4. Covered'
      BY <1>0, <1>2, <2>1 DEF JmapInv, JmapTyped, Covered, JmapRunning
  <2> QED
      BY <1>1, <2>2, <2>3, <2>4 DEF JmapInv
<1>6. CASE email_query \/ QueryRefused
  <2>1. /\ jpc = "query" /\ jpc' = "get" /\ UNCHANGED <<toSync, box, got, steady>>
        /\ ids' \subseteq JMail /\ jfaults' \in Nat
        /\ refused' \/ (refused' = refused /\ ids' = InBox(box))
      BY <1>6 DEF email_query, QueryRefused, JmapFault, JmapInv, JmapTyped, InBox
  <2>2. JmapTyped'
      BY <1>0, <2>1 DEF JmapInv, JmapTyped, JmapRunning
  <2>3. RunLocals' /\ FetchedCurrent'
      BY <1>0, <2>1 DEF JmapInv, RunLocals, FetchedCurrent, JmapRunning
  <2>4. Covered'
      BY <1>0, <1>2, <2>1 DEF JmapInv, JmapTyped, Covered, JmapRunning, InBox
  <2> QED
      BY <1>1, <2>2, <2>3, <2>4 DEF JmapInv
<1>7. CASE email_get
  <2>1. /\ jpc = "get" /\ jpc' = "save" /\ UNCHANGED <<toSync, box, steady, refused, jfaults>> /\ ids' = {}
        /\ got' = {[id |-> m, read |-> ~unread[m]] : m \in {i \in ids : boxes[i] # {}}}
      BY <1>7 DEF email_get
  <2>2. \A g \in got' : g.id \in JMail /\ g.read = ~unread[g.id]
      BY <2>1 DEF JmapInv, JmapTyped
  <2>3. \A m \in ids : boxes[m] # {} => \E g \in got' : g.id = m
    <3> SUFFICES ASSUME NEW m \in ids, boxes[m] # {} PROVE \E g \in got' : g.id = m
        OBVIOUS
    <3>1. [id |-> m, read |-> ~unread[m]] \in got'
        BY <2>1
    <3> QED
        BY <3>1
  <2>4. \A g \in got' : g.read \in BOOLEAN
      BY <2>2
  <2>5. JmapTyped'
      BY <1>0, <2>1, <2>2, <2>4 DEF JmapInv, JmapTyped, JmapRunning
  <2>6. RunLocals' /\ FetchedCurrent'
      BY <1>0, <2>1, <2>2 DEF JmapInv, RunLocals, FetchedCurrent, JmapRunning
  <2>7. Covered'
      BY <1>0, <1>2, <2>1, <2>3 DEF JmapInv, JmapTyped, Covered, FetchedCurrent, JmapRunning
  <2> QED
      BY <1>1, <2>5, <2>6, <2>7 DEF JmapInv
<1> QED
    BY <1>3, <1>4, <1>5, <1>6, <1>7

\* Saving a message makes it current if it has not changed, and its filters
\* are due if it had no row.
LEMMA SaveKeeps ==
    ASSUME JmapInv, SaveMessage
    PROVE  JmapInv'
<1>0. /\ UNCHANGED <<boxes, unread, fired, toSync, box, ids, refused, steady>>
      /\ jpc = "save"
    BY DEF SaveMessage, serverVars
<1>1. PICK g \in got :
          /\ row' = [row EXCEPT ![g.id] = [folder |-> "inbox", read |-> g.read]]
          /\ got' = got \ {g}
          /\ \/ is_new_message(g) /\ filtering' = {g.id} /\ jpc' = "filter" /\ jfaults' = jfaults
             \/ ~is_new_message(g) /\ filtering' = filtering /\ jpc' = jpc /\ jfaults' = jfaults
             \/ JmapFault /\ filtering' = filtering /\ jpc' = jpc
    BY DEF SaveMessage
<1>2. g.id \in JMail /\ g.read \in BOOLEAN
    BY DEF JmapInv, JmapTyped
<1> DEFINE r == [folder |-> "inbox", read |-> g.read]
<1>3. r # NoRow /\ r.read = g.read
    BY <1>2, JmapAssumption
<1> HIDE DEF r
<1>4. /\ DOMAIN row' = JMail /\ row'[g.id] = r
      /\ \A m \in JMail \ {g.id} : row'[m] = row[m]
    BY <1>1, <1>2 DEF JmapInv, JmapTyped, r
<1>5. jfaults' \in Nat /\ (jfaults' = 0 => ~JmapFault /\ jfaults = 0)
    BY <1>1 DEF JmapInv, JmapTyped, JmapFault
<1>6. filtering = {}
    BY <1>0 DEF JmapInv, FiltersDue
<1>7. JmapTyped'
    BY <1>0, <1>1, <1>2, <1>4, <1>5, <1>6 DEF JmapInv, JmapTyped, JmapRunning
<1>8. jpc' \in {"save", "filter"}
    BY <1>0, <1>1
<1>9. RunLocals' /\ FetchedCurrent'
    BY <1>0, <1>1, <1>8 DEF JmapInv, RunLocals, FetchedCurrent, JmapRunning
<1>10. g.id \in steady => Current(g.id)'
  <2> SUFFICES ASSUME g.id \in steady PROVE Current(g.id)'
      OBVIOUS
  <2>1. g.read = ~unread[g.id]
      BY DEF JmapInv, FetchedCurrent
  <2> QED
      BY <1>0, <1>3, <1>4, <2>1 DEF Current
<1>11. \A m \in steady : Current(m) => Current(m)'
  <2> SUFFICES ASSUME NEW m \in steady, Current(m), m # g.id PROVE Current(m)'
      BY <1>10
  <2> QED
      BY <1>0, <1>4 DEF JmapInv, JmapTyped, Current
<1>12. Covered'
    BY <1>0, <1>1, <1>8, <1>10, <1>11 DEF JmapInv, Covered, JmapRunning
<1>13. FiltersDue' /\ FiltersOnce'
  <2>1. \A m \in JMail : row'[m] = NoRow => row[m] = NoRow /\ m # g.id
      BY <1>3, <1>4
  <2>2. row[g.id] = NoRow => fired[g.id] = 0
      BY <1>2 DEF JmapInv, FiltersDue
  <2>3. filtering' # {} => filtering' = {g.id} /\ row[g.id] = NoRow /\ jpc' = "filter"
      BY <1>1, <1>6 DEF is_new_message
  <2>4. FiltersDue'
      BY <1>0, <1>2, <2>1, <2>2, <2>3 DEF JmapInv, FiltersDue
  <2>5. ASSUME jfaults' = 0, NEW m \in JMail, row'[m] # NoRow, m \notin filtering'
        PROVE  fired[m] = 1
    <3>1. row[m] # NoRow
        BY <1>1, <1>4, <1>5, <2>5 DEF is_new_message
    <3> QED
        BY <1>5, <1>6, <2>5, <3>1 DEF JmapInv, FiltersOnce
  <2> QED
      BY <1>0, <2>4, <2>5 DEF JmapInv, FiltersOnce
<1> QED
    BY <1>7, <1>9, <1>12, <1>13 DEF JmapInv

\* The filters run once for the message that is due, and the rest of a run
\* writes no row.
LEMMA RestKeeps ==
    ASSUME JmapInv, ApplyFilters \/ SaveState \/ RunFails
    PROVE  JmapInv'
<1>0. UNCHANGED <<boxes, unread, row, box, refused, steady>>
    BY DEF ApplyFilters, SaveState, RunFails, serverVars
<1>1. \A m \in JMail : Current(m)' = Current(m)
    BY <1>0 DEF Current
<1>2. CASE ApplyFilters
  <2>1. /\ jpc = "filter" /\ jpc' = "save" /\ filtering' = {}
        /\ fired' = [m \in JMail |-> IF m \in filtering THEN fired[m] + 1 ELSE fired[m]]
        /\ UNCHANGED <<toSync, ids, got, jfaults>>
      BY <1>2 DEF ApplyFilters
  <2>2. fired' \in [JMail -> Nat]
      BY <2>1 DEF JmapInv, JmapTyped
  <2>3. JmapTyped'
      BY <1>0, <2>1, <2>2 DEF JmapInv, JmapTyped, JmapRunning
  <2>4. RunLocals' /\ FetchedCurrent'
      BY <1>0, <2>1 DEF JmapInv, RunLocals, FetchedCurrent, JmapRunning
  <2>5. Covered'
      BY <1>0, <1>1, <2>1 DEF JmapInv, JmapTyped, Covered, JmapRunning
  <2>6. \A m \in JMail : fired'[m] = IF m \in filtering THEN 1 ELSE fired[m]
      BY <2>1 DEF JmapInv, FiltersDue
  <2>7. FiltersDue' /\ FiltersOnce'
      BY <1>0, <2>1, <2>6 DEF JmapInv, FiltersDue, FiltersOnce
  <2> QED
      BY <2>3, <2>4, <2>5, <2>7 DEF JmapInv
<1>3. CASE SaveState
  <2>1. /\ jpc = "save" /\ jpc' = "next" /\ got = {} /\ toSync' = toSync \ {box}
        /\ UNCHANGED <<fired, filtering, ids, got, jfaults>>
      BY <1>3 DEF SaveState
  <2>2. JmapTyped'
      BY <1>0, <2>1 DEF JmapInv, JmapTyped, JmapRunning
  <2>3. RunLocals' /\ FetchedCurrent'
      BY <1>0, <2>1 DEF JmapInv, RunLocals, FetchedCurrent, JmapRunning
  <2>4. Covered'
      BY <1>0, <1>1, <2>1 DEF JmapInv, JmapTyped, Covered, JmapRunning
  <2>5. FiltersDue' /\ FiltersOnce'
      BY <1>0, <2>1 DEF JmapInv, FiltersDue, FiltersOnce
  <2> QED
      BY <2>2, <2>3, <2>4, <2>5 DEF JmapInv
<1>4. CASE RunFails
  <2>1. /\ jpc' = "failed" /\ got' = {} /\ toSync' = {} /\ ids' = {} /\ filtering' = {}
        /\ fired' = fired /\ jfaults' = jfaults + 1
      BY <1>4 DEF RunFails, JmapFault
  <2>2. JmapTyped'
      BY <1>0, <2>1 DEF JmapInv, JmapTyped
  <2>3. RunLocals' /\ FetchedCurrent' /\ Covered'
      BY <1>0, <2>1 DEF JmapInv, RunLocals, FetchedCurrent, Covered, JmapRunning
  <2>4. jfaults' # 0
      BY <2>1 DEF JmapInv, JmapTyped
  <2>5. FiltersDue' /\ FiltersOnce'
      BY <1>0, <2>1, <2>4 DEF JmapInv, FiltersDue, FiltersOnce
  <2> QED
      BY <2>2, <2>3, <2>5 DEF JmapInv
<1> QED
    BY <1>2, <1>3, <1>4

LEMMA JmapNextInv == JmapInv /\ [JmapNext]_jmapVars => JmapInv'
<1> SUFFICES ASSUME JmapInv, [JmapNext]_jmapVars PROVE JmapInv'
    OBVIOUS
<1>1. CASE UNCHANGED jmapVars
    BY <1>1 DEF jmapVars, serverVars, runVars, JmapInv, JmapTyped, RunLocals, FetchedCurrent,
                Covered, Current, FiltersDue, FiltersOnce
<1> QED
    BY <1>1, ServerKeeps, FetchKeeps, SaveKeeps, RestKeeps DEF JmapNext

\* A mailbox left behind is stored, so at the end every mailbox is.
LEMMA JmapInvSound == JmapInv => JmapSound
<1> SUFFICES ASSUME JmapInv, jpc = "ok", ~refused, NEW m \in steady
             PROVE  Current(m)
    BY DEF JmapInv, JmapSound, RunComplete, Current
<1>1. toSync = {} /\ \E b : b \in boxes[m]
    BY DEF JmapInv, RunLocals, FetchedCurrent
<1> QED
    BY <1>1 DEF JmapInv, Covered

\* JMAP sync: for any mailboxes, messages, runs and failures, and whatever
\* changes at the server between two requests, a run that reports success
\* has stored every message that did not change, and no filter runs twice.
THEOREM JmapSyncSound == JmapInit /\ [][JmapNext]_jmapVars => []JmapSound
<1> QED
    BY JmapInitInv, JmapNextInv, JmapInvSound, PTL

-----------------------------------------------------------------------------
(* The rescan                                                              *)

LEMMA LeastOf ==
    ASSUME NEW S, S \subseteq Nat, S # {}
    PROVE  Min(S) \in S /\ \A y \in S : Min(S) <= y
    BY LeastExists DEF Min

\* The first n of a finite set of ids: with one of them come all smaller ones,
\* and when there are fewer than n of them they are all there is.
FirstOf(A, n) == {r \in A : Cardinality({o \in A : o <= r}) <= n}

LEMMA FirstOfSet ==
    ASSUME NEW A, A \subseteq Nat, IsFiniteSet(A), NEW n \in Nat
    PROVE  /\ \A p \in FirstOf(A, n), r \in A : r <= p => r \in FirstOf(A, n)
           /\ Cardinality(FirstOf(A, n)) < n => FirstOf(A, n) = A
<1> DEFINE Upto(r) == {o \in A : o <= r}
           P == FirstOf(A, n)
<1>0. \A r \in A : IsFiniteSet(Upto(r)) /\ Cardinality(Upto(r)) \in Nat
    BY FS_Subset, FS_CardinalityType
<1>1. ASSUME NEW p \in P, NEW r \in A, r <= p PROVE r \in P
    <2>0. p \in Nat /\ r \in Nat /\ \A o \in A : o \in Nat
        BY DEF FirstOf
    <2>1. \A o \in A : o <= r => o <= p
        BY <1>1, <2>0
    <2>a. Upto(r) \in SUBSET Upto(p)
        BY <2>1
    <2>2. Cardinality(Upto(r)) <= Cardinality(Upto(p))
        BY <1>0, <2>a, FS_Subset DEF FirstOf
    <2>3. Cardinality(Upto(p)) <= n /\ Cardinality(Upto(p)) \in Nat /\ Cardinality(Upto(r)) \in Nat
        BY <1>0 DEF FirstOf
    <2> QED
        BY <2>2, <2>3 DEF FirstOf
<1>2. ASSUME Cardinality(P) < n PROVE P = A
    <2> SUFFICES ASSUME A \ P # {} PROVE FALSE
        BY DEF FirstOf
    <2>1. PICK r \in A \ P : \A y \in A \ P : r <= y
        BY LeastExists
    <2>0. \A o \in A : o <= r => o \in P \/ o = r
        BY <2>1
    <2>2. Upto(r) \in SUBSET (P \union {r})
        BY <2>0
    <2>3. IsFiniteSet(P) /\ Cardinality(P) \in Nat
        BY FS_Subset, FS_CardinalityType DEF FirstOf
    <2>4. IsFiniteSet(P \union {r}) /\ Cardinality(P \union {r}) = Cardinality(P) + 1
        BY <2>1, <2>3, FS_AddElement
    <2>5. Cardinality(Upto(r)) <= Cardinality(P \union {r})
        BY <2>2, <2>4, FS_Subset
    <2>6. Cardinality(Upto(r)) <= n
        BY <1>0, <1>2, <2>1, <2>3, <2>4, <2>5
    <2> QED
        BY <2>1, <2>6 DEF FirstOf
<1> QED
    BY <1>1, <1>2

Report ==
    [failed : {TRUE}] \union
    [failed : {FALSE}, scanned_count : Nat, matched_count : Nat, last_message_id : Nat, done : BOOLEAN]

TriageTyped ==
    /\ rows \subseteq MessageIds
    /\ asked \subseteq rows
    /\ chunk \in Nat
    /\ worker \in {"off", "page", "apply", "send", "fail", "ended"}
    /\ pageRows \subseteq MessageIds
    /\ short \in BOOLEAN
    /\ last_id \in Nat
    /\ scanned \in Seq(MessageIds)
    /\ channel \in Seq(Report)
    /\ updates \in Seq(Report)

\* The walk goes up the ids: behind last_id is what was looked at, before it
\* the rest of the page.
WalkUp ==
    /\ \A i \in DOMAIN scanned : scanned[i] <= last_id
    /\ \A r \in pageRows : last_id < r
    /\ worker = "off" => last_id = 0
    /\ ScannedAtMostOnce
    /\ matched = Cardinality(ScannedSet \intersect Matching)

\* What was asked for and not looked at yet is before last_id; on the page, or
\* behind it if another page follows.
Ahead ==
    /\ \A r \in asked : r \in ScannedSet \/ last_id < r
    /\ worker = "apply" =>
          \A r \in asked : \/ r \in ScannedSet
                           \/ r \in pageRows
                           \/ ~short /\ \A p \in pageRows : p < r
    /\ worker = "send" /\ short => asked \subseteq ScannedSet

\* A report of the whole scan.
Whole(p) ==
    /\ worker = "ended"
    /\ asked \subseteq ScannedSet
    /\ p.scanned_count = Len(scanned)
    /\ p.matched_count = matched

\* Only such a one says done, on its way or where the client has it.
DoneIsWhole ==
    /\ \A i \in DOMAIN channel : ~channel[i].failed /\ channel[i].done => Whole(channel[i])
    /\ reader = "complete" => updates # << >> /\ Whole(updates[Len(updates)])

TriageInv == TriageTyped /\ WalkUp /\ Ahead /\ DoneIsWhole

\* A step of the worker before it has ended, that sends nothing, takes no
\* report along.
LEMMA ReportsStay ==
    ASSUME DoneIsWhole, UNCHANGED <<channel, updates>>, reader' = "complete" => reader = "complete",
           \/ worker # "ended"
           \/ UNCHANGED <<worker, asked, scanned, matched>>
    PROVE  DoneIsWhole'
    BY DEF DoneIsWhole, Whole, ScannedSet

\* The rescan begins behind every id.
LEMMA TriageBegins ==
    ASSUME TriageInv, NEW n \in ChunkSizes, Triage(n)
    PROVE  TriageInv'
<1>1. TriageTyped'
    BY TriageAssumption DEF TriageInv, TriageTyped, Triage
<1>2. WalkUp'
    BY DEF TriageInv, WalkUp, Triage, ScannedAtMostOnce, ScannedSet
<1>3. Ahead'
    <2>1. \A r \in rows : 0 < r
        BY TriageAssumption DEF TriageInv, TriageTyped
    <2> QED
        BY <2>1 DEF TriageInv, WalkUp, Ahead, Triage
<1>4. DoneIsWhole'
    BY ReportsStay DEF TriageInv, Triage
<1> QED
    BY <1>1, <1>2, <1>3, <1>4 DEF TriageInv

\* A page holds the ids next in order, and all of them when it is short.
LEMMA PageRead ==
    ASSUME TriageInv, ReadPage
    PROVE  TriageInv'
<1> DEFINE A == After(last_id)
<1>1. A \subseteq rows /\ A \subseteq Nat /\ IsFiniteSet(A) /\ \A r \in A : last_id < r
    <2>1. A \in SUBSET MessageIds
        BY DEF TriageInv, TriageTyped, After
    <2> QED
        BY <2>1, TriageAssumption, FS_Subset DEF After
<1>2. pageRows' = FirstOf(A, chunk) /\ chunk \in Nat /\ short' = (Cardinality(pageRows') < chunk)
    BY DEF ReadPage, get_message_chunk, FirstOf, TriageInv, TriageTyped
<1>3. pageRows' \subseteq A
    BY <1>2 DEF FirstOf
<1>4. /\ \A p \in pageRows', r \in A : r <= p => r \in pageRows'
      /\ short' => pageRows' = A
    BY <1>1, <1>2, FirstOfSet
<1>5. /\ UNCHANGED <<rows, asked, chunk, last_id, scanned, matched, channel, reader, updates>>
      /\ worker = "page" /\ worker' = "apply"
    BY DEF ReadPage
<1>6. TriageTyped'
    BY <1>1, <1>2, <1>3, <1>5 DEF TriageInv, TriageTyped
<1>7. WalkUp'
    BY <1>1, <1>3, <1>5 DEF TriageInv, WalkUp, ScannedAtMostOnce, ScannedSet
<1>8. Ahead'
    <2>1. ASSUME NEW r \in asked, r \notin ScannedSet
          PROVE  r \in pageRows' \/ (~short' /\ \A p \in pageRows' : p < r)
        <3>1. r \in Nat /\ r \in A
            BY <2>1, TriageAssumption DEF TriageInv, TriageTyped, Ahead, After
        <3>2. \A p \in pageRows' : p \in Nat /\ (r <= p \/ p < r)
            BY <1>1, <1>3, <3>1
        <3> QED
            BY <1>4, <3>1, <3>2
    <2> QED
        BY <1>5, <2>1 DEF TriageInv, Ahead, ScannedSet
<1>9. DoneIsWhole'
    BY <1>5, ReportsStay DEF TriageInv
<1> QED
    BY <1>6, <1>7, <1>8, <1>9 DEF TriageInv

\* The next message is the lowest of the page, so none is looked at twice.
LEMMA NextApplied ==
    ASSUME TriageInv, Apply
    PROVE  TriageInv'
<1>0. PICK e : e = Min(pageRows)
    OBVIOUS
<1>1. e \in pageRows /\ e \in MessageIds /\ e \in Nat /\ \A y \in pageRows : y \in Nat /\ e <= y
    <2>1. pageRows \subseteq Nat /\ pageRows # {} /\ pageRows \subseteq MessageIds
        BY TriageAssumption DEF Apply, TriageInv, TriageTyped
    <2> QED
        BY <1>0, <2>1, LeastOf
<1>2. /\ pageRows' = pageRows \ {e} /\ last_id' = e /\ scanned' = Append(scanned, e)
      /\ matched' = matched + (IF e \in Matching THEN 1 ELSE 0)
      /\ worker = "apply" /\ UNCHANGED <<rows, asked, chunk, worker, short, channel, reader, updates>>
    BY <1>0 DEF Apply
<1> DEFINE k == Len(scanned)
<1>3. /\ scanned' \in Seq(MessageIds) /\ k \in Nat
      /\ DOMAIN scanned' = DOMAIN scanned \union {k + 1}
      /\ scanned'[k + 1] = e /\ \A i \in DOMAIN scanned : scanned'[i] = scanned[i]
    <2>1. scanned \in Seq(MessageIds)
        BY DEF TriageInv, TriageTyped
    <2> QED
        BY <1>1, <1>2, <2>1, AppendAt
<1>4. last_id \in Nat /\ last_id < e /\ \A i \in DOMAIN scanned : scanned[i] \in Nat /\ scanned[i] < e
    <2>1. last_id \in Nat /\ last_id < e
        BY <1>1 DEF TriageInv, TriageTyped, WalkUp
    <2>a. scanned \in Seq(MessageIds) /\ MessageIds \subseteq Nat
        BY TriageAssumption DEF TriageInv, TriageTyped
    <2>2. \A i \in DOMAIN scanned : scanned[i] \in Nat /\ scanned[i] <= last_id
        <3>1. \A i \in DOMAIN scanned : scanned[i] \in MessageIds
            BY <2>a
        <3>2. \A i \in DOMAIN scanned : scanned[i] <= last_id
            BY DEF TriageInv, WalkUp
        <3> QED
            BY <2>a, <3>1, <3>2
    <2> QED
        BY <1>1, <2>1, <2>2
<1>5. ScannedSet' = ScannedSet \union {e} /\ e \notin ScannedSet
    <2>1. ScannedSet' = ScannedSet \union {e}
        BY <1>3 DEF ScannedSet
    <2>2. e \notin ScannedSet
        BY <1>1, <1>4 DEF ScannedSet
    <2> QED
        BY <2>1, <2>2
<1>6. TriageTyped'
    BY <1>1, <1>2, <1>3 DEF TriageInv, TriageTyped
<1>7. WalkUp'
    <2>1. \A i \in DOMAIN scanned' : scanned'[i] <= last_id'
        BY <1>1, <1>2, <1>3, <1>4
    <2>2. \A r \in pageRows' : last_id' < r
        BY <1>1, <1>2
    <2>3. ScannedAtMostOnce'
        <3>1. \A i \in DOMAIN scanned : scanned'[i] # e
            BY <1>1, <1>3, <1>4
        <3> QED
            BY <1>3, <3>1 DEF TriageInv, WalkUp, ScannedAtMostOnce
    <2>4. matched' = Cardinality((ScannedSet \intersect Matching)')
        <3>1. PICK W : W = ScannedSet \intersect Matching
            OBVIOUS
        <3>2. W \in SUBSET MessageIds
            BY <3>1 DEF TriageInv, TriageTyped, ScannedSet
        <3>3. IsFiniteSet(W) /\ Cardinality(W) \in Nat
            BY <3>2, TriageAssumption, FS_Subset, FS_CardinalityType
        <3>4. e \notin W /\ Cardinality(W \union {e}) = Cardinality(W) + 1
            BY <1>5, <3>1, <3>3, FS_AddElement
        <3>5. (ScannedSet \intersect Matching)' = IF e \in Matching THEN W \union {e} ELSE W
            BY <1>5, <3>1
        <3>6. matched = Cardinality(W)
            BY <3>1 DEF TriageInv, WalkUp
        <3>7. CASE e \in Matching
            <4>1. matched' = Cardinality(W) + 1 /\ (ScannedSet \intersect Matching)' = W \union {e}
                BY <1>2, <3>5, <3>6, <3>7
            <4> QED
                BY <3>4, <4>1
        <3>8. CASE e \notin Matching
            <4>1. matched' = Cardinality(W) /\ (ScannedSet \intersect Matching)' = W
                BY <1>2, <3>3, <3>5, <3>6, <3>8
            <4> QED
                BY <4>1
        <3> QED
            BY <3>7, <3>8
    <2> QED
        BY <1>2, <2>1, <2>2, <2>3, <2>4 DEF WalkUp
<1>8. Ahead'
    <2>1. ASSUME NEW r \in asked, r \notin ScannedSet, r # e
          PROVE  /\ e < r
                 /\ r \in pageRows \ {e} \/ (~short /\ \A p \in pageRows : p < r)
        <3>1. r \in pageRows \/ (~short /\ \A p \in pageRows : p < r)
            BY <1>2, <2>1 DEF TriageInv, Ahead
        <3>2. r \in Nat
            BY TriageAssumption DEF TriageInv, TriageTyped
        <3> QED
            BY <1>1, <2>1, <3>1, <3>2
    <2>2. \A r \in asked' : r \in ScannedSet' \/ last_id' < r
        BY <1>2, <1>5, <2>1
    <2>3. \A r \in asked' : r \in ScannedSet' \/ r \in pageRows' \/ (~short' /\ \A p \in pageRows' : p < r)
        BY <1>2, <1>5, <2>1
    <2> QED
        BY <1>2, <2>2, <2>3 DEF Ahead
<1>9. DoneIsWhole'
    BY <1>2, ReportsStay DEF TriageInv
<1> QED
    BY <1>6, <1>7, <1>8, <1>9 DEF TriageInv

\* The page is behind the worker, or could not be read.
LEMMA PageLeft ==
    ASSUME TriageInv, PageApplied \/ ReadPageFails
    PROVE  TriageInv'
<1>1. /\ UNCHANGED <<rows, asked, chunk, pageRows, short, last_id, scanned, matched, channel, reader, updates>>
      /\ worker \in {"apply", "page"} /\ worker' \in {"send", "fail"}
      /\ worker' = "send" => worker = "apply" /\ pageRows = {}
    BY DEF PageApplied, ReadPageFails
<1>2. TriageTyped'
    BY <1>1 DEF TriageInv, TriageTyped
<1>3. WalkUp'
    BY <1>1 DEF TriageInv, WalkUp, ScannedAtMostOnce, ScannedSet
<1>4. Ahead'
    <2>1. ScannedSet' = ScannedSet
        BY <1>1 DEF ScannedSet
    <2>2. worker' = "send" /\ short => asked \subseteq ScannedSet
        BY <1>1 DEF TriageInv, Ahead
    <2> QED
        BY <1>1, <2>1, <2>2 DEF TriageInv, Ahead
<1>5. DoneIsWhole'
    BY <1>1, ReportsStay DEF TriageInv
<1> QED
    BY <1>2, <1>3, <1>4, <1>5 DEF TriageInv

\* done goes out with the report of the last page, and with no other.
LEMMA ReportSent ==
    ASSUME TriageInv, SendProgress \/ SendError
    PROVE  TriageInv'
<1>1. /\ UNCHANGED <<rows, asked, chunk, pageRows, short, last_id, scanned, matched, reader, updates>>
      /\ worker \in {"send", "fail"} /\ worker' \in {"ended", "page"}
    BY DEF SendProgress, SendError
<1>2. Failure \in Report /\ Progress \in Report /\ Failure.failed
      /\ Progress.done = short /\ Progress.scanned_count = Len(scanned) /\ Progress.matched_count = matched
    <2>1. matched \in Nat
        <3>1. ScannedSet \intersect Matching \in SUBSET MessageIds
            BY DEF TriageInv, TriageTyped, ScannedSet
        <3> QED
            BY <3>1, TriageAssumption, FS_Subset, FS_CardinalityType DEF TriageInv, WalkUp
    <2>2. short \in BOOLEAN /\ last_id \in Nat /\ Len(scanned) \in Nat
        BY DEF TriageInv, TriageTyped
    <2> QED
        BY <2>1, <2>2 DEF Report, Failure, Progress
<1>3. \/ channel' = channel
      \/ channel' = Append(channel, Failure)
      \/ channel' = Append(channel, Progress) /\ worker = "send" /\ worker' = IF short THEN "ended" ELSE "page"
    BY DEF SendProgress, SendError
<1>4. channel \in Seq(Report)
    BY DEF TriageInv, TriageTyped
<1>5. TriageTyped'
    <2>1. channel' \in Seq(Report)
        BY <1>2, <1>3, <1>4, AppendAt
    <2> QED
        BY <1>1, <2>1 DEF TriageInv, TriageTyped
<1>6. WalkUp'
    BY <1>1 DEF TriageInv, WalkUp, ScannedAtMostOnce, ScannedSet
<1>7. Ahead'
    BY <1>1 DEF TriageInv, Ahead, ScannedSet
<1>8. \A i \in DOMAIN channel : ~(~channel[i].failed /\ channel[i].done)
    BY <1>1 DEF TriageInv, DoneIsWhole, Whole
<1>9. reader' # "complete"
    BY <1>1 DEF TriageInv, DoneIsWhole, Whole
<1>10. \A i \in DOMAIN channel' : ~channel'[i].failed /\ channel'[i].done => Whole(channel[i])'
    <2>1. CASE channel' = channel
        BY <1>8, <2>1
    <2>2. CASE channel' = Append(channel, Failure)
        BY <1>2, <1>4, <1>8, <2>2, AppendAt
    <2>3. CASE channel' = Append(channel, Progress) /\ worker = "send" /\ worker' = IF short THEN "ended" ELSE "page"
        <3>1. PICK P \in Report : P = Progress
            BY <1>2
        <3>2. \A i \in DOMAIN channel' : (i \in DOMAIN channel /\ channel'[i] = channel[i]) \/ channel'[i] = P
            BY <1>4, <2>3, <3>1, AppendAt
        <3>3. P.done => /\ worker' = "ended" /\ asked' \subseteq ScannedSet'
                        /\ P.scanned_count = Len(scanned') /\ P.matched_count = matched'
            BY <1>1, <1>2, <2>3, <3>1 DEF TriageInv, Ahead, ScannedSet
        <3> QED
            BY <1>8, <3>2, <3>3 DEF Whole
    <2> QED
        BY <1>3, <2>1, <2>2, <2>3
<1> QED
    BY <1>5, <1>6, <1>7, <1>9, <1>10 DEF TriageInv, DoneIsWhole

\* The client takes the next report, or goes.
LEMMA ReportTaken ==
    ASSUME TriageInv, ReadUpdate \/ Interrupt
    PROVE  TriageInv'
<1>1. UNCHANGED <<rows, asked, chunk, worker, pageRows, short, last_id, scanned, matched>> /\ reader = "reading"
    BY DEF ReadUpdate, Interrupt, workerVars
<1>2. \A p : Whole(p)' <=> Whole(p)
    BY <1>1 DEF Whole, ScannedSet
<1>3. WalkUp' /\ Ahead'
    BY <1>1 DEF TriageInv, WalkUp, Ahead, ScannedAtMostOnce, ScannedSet
<1>4. channel \in Seq(Report) /\ updates \in Seq(Report)
    BY DEF TriageInv, TriageTyped
<1>5. CASE Interrupt
    <2>1. channel' = << >> /\ updates' = updates /\ reader' = "gone"
        BY <1>5 DEF Interrupt
    <2>2. TriageTyped'
        BY <1>1, <2>1 DEF TriageInv, TriageTyped
    <2>3. DoneIsWhole'
        BY <2>1 DEF DoneIsWhole
    <2> QED
        BY <1>3, <2>2, <2>3 DEF TriageInv
<1>6. CASE ReadUpdate
    <2>0. PICK h : h = Head(channel)
        OBVIOUS
    <2>1. /\ channel # << >> /\ channel' = Tail(channel)
          /\ \/ reader' = "failed" /\ updates' = updates
             \/ /\ ~h.failed /\ updates' = Append(updates, h)
                /\ reader' = IF h.done THEN "complete" ELSE "reading"
        BY <1>6, <2>0 DEF ReadUpdate
    <2>2. /\ channel' \in Seq(Report) /\ h \in Report /\ 1 \in DOMAIN channel /\ h = channel[1]
          /\ \A i \in DOMAIN channel' : i + 1 \in DOMAIN channel /\ channel'[i] = channel[i + 1]
        BY <1>4, <2>0, <2>1, TailAt
    <2>3. ~h.failed /\ h.done => Whole(h)
        BY <2>2 DEF TriageInv, DoneIsWhole
    <2>4. /\ Append(updates, h) \in Seq(Report) /\ Append(updates, h) # << >>
          /\ Append(updates, h)[Len(Append(updates, h))] = h
        BY <1>4, <2>2
    <2>5. TriageTyped'
        BY <1>1, <1>4, <2>1, <2>2, <2>4 DEF TriageInv, TriageTyped
    <2>6. \A i \in DOMAIN channel' : ~channel'[i].failed /\ channel'[i].done => Whole(channel'[i])
        BY <2>2 DEF TriageInv, DoneIsWhole
    <2>7. reader' = "complete" => updates' # << >> /\ updates'[Len(updates')] = h /\ Whole(h)
        BY <2>1, <2>3, <2>4
    <2>8. reader' = "complete" => updates' # << >> /\ Whole(updates[Len(updates)])'
        BY <1>1, <2>7 DEF Whole, ScannedSet
    <2>9. \A i \in DOMAIN channel' : ~channel'[i].failed /\ channel'[i].done => Whole(channel[i])'
        BY <1>1, <2>6 DEF Whole, ScannedSet
    <2> QED
        BY <1>3, <2>5, <2>8, <2>9 DEF TriageInv, DoneIsWhole
<1> QED
    BY <1>5, <1>6

LEMMA TriageKeeps ==
    ASSUME TriageInv, [TriageNext]_triageVars
    PROVE  TriageInv'
<1>1. ASSUME NEW id \in MessageIds, SyncSaves(id) PROVE TriageInv'
    <2>1. rows' = rows \union {id} /\ UNCHANGED <<asked, workerVars, channel, reader, updates>>
        BY <1>1 DEF SyncSaves
    <2>2. TriageTyped'
        BY <2>1 DEF TriageInv, TriageTyped, workerVars
    <2>3. WalkUp' /\ Ahead'
        BY <2>1 DEF TriageInv, WalkUp, Ahead, ScannedAtMostOnce, ScannedSet, workerVars
    <2>4. DoneIsWhole'
        BY <2>1, ReportsStay DEF TriageInv, workerVars
    <2> QED
        BY <2>2, <2>3, <2>4 DEF TriageInv
<1>2. CASE UNCHANGED triageVars
    <2>1. TriageTyped' /\ WalkUp' /\ Ahead'
        BY <1>2 DEF TriageInv, TriageTyped, WalkUp, Ahead, ScannedAtMostOnce, ScannedSet, triageVars
    <2>2. DoneIsWhole'
        BY <1>2, ReportsStay DEF TriageInv, triageVars
    <2> QED
        BY <2>1, <2>2 DEF TriageInv
<1> QED
    BY <1>1, <1>2, TriageBegins, PageRead, NextApplied, PageLeft, ReportSent, ReportTaken
       DEF TriageNext, TriageWorker

\* The triage worker and handle_filter_triage: whatever a sync saves between
\* two pages, and wherever a page cannot be read or the client goes, no message
\* is looked at twice, and the client takes a rescan for complete only when
\* every message the store had at its start has been looked at and the figures
\* are those of the whole scan.
THEOREM RescanIsSound == TriageInit /\ [][TriageNext]_triageVars => []RescanSound
<1>1. TriageInit => TriageInv
    <2> SUFFICES ASSUME TriageInit PROVE TriageInv
        OBVIOUS
    <2>0. \A S : << >> \in Seq(S)
        OBVIOUS
    <2>1. TriageTyped
        <3>1. rows \subseteq MessageIds /\ asked \subseteq rows /\ pageRows \subseteq MessageIds
            BY DEF TriageInit
        <3>2. chunk \in Nat /\ last_id \in Nat /\ short \in BOOLEAN /\ worker = "off"
            BY DEF TriageInit
        <3>3. scanned \in Seq(MessageIds) /\ channel \in Seq(Report) /\ updates \in Seq(Report)
            BY <2>0 DEF TriageInit
        <3> QED
            BY <3>1, <3>2, <3>3 DEF TriageTyped
    <2>2. ScannedSet \intersect Matching = {}
        BY DEF TriageInit, ScannedSet
    <2>a. DOMAIN scanned = {} /\ pageRows = {} /\ last_id = 0
        BY DEF TriageInit
    <2>b. matched = Cardinality(ScannedSet \intersect Matching)
        BY <2>2, FS_EmptySet DEF TriageInit
    <2>3. WalkUp
        BY <2>a, <2>b DEF WalkUp, ScannedAtMostOnce
    <2>4. Ahead /\ DoneIsWhole
        BY DEF TriageInit, Ahead, DoneIsWhole
    <2> QED
        BY <2>1, <2>3, <2>4 DEF TriageInv
<1>2. TriageInv /\ [TriageNext]_triageVars => TriageInv'
    BY TriageKeeps
<1>3. TriageInv => RescanSound
    BY DEF TriageInv, WalkUp, DoneIsWhole, Whole, RescanSound, CompleteCoversStore
<1> QED
    BY <1>1, <1>2, <1>3, PTL

-----------------------------------------------------------------------------
(* The event stream                                                        *)

AnyMessage == CHOOSE m \in Message : TRUE
Call  == [pc : {"ready", "store", "publish", "refused", "done"},
          message : Message \union {AnyMessage}, read : BOOLEAN]
Event == [kind : {"MessageFlagsChanged"}, message : Message, read : BOOLEAN] \union [kind : OtherKinds]

FeedTyped ==
    /\ read_flag \in [Message -> BOOLEAN]
    /\ bus \in Seq(Event)
    /\ mark \in [MarkRequest -> Call]
    /\ \A q \in MarkRequest : mark[q].pc # "ready" => mark[q].message \in Message
    /\ cursor \in [Subscriber -> Nat]
    /\ received \in [Subscriber -> Seq(Nat)]
    /\ drifted \in BOOLEAN

Pending(m)  == \E q \in MarkRequest : mark[q].pc = "publish" /\ mark[q].message = m
FlagsOf(m)  == {k \in DOMAIN bus : bus[k].kind = "MessageFlagsChanged" /\ bus[k].message = m}

\* Two calls at work on a message have crossed.
OneAtATime ==
    \A q, o \in MarkRequest :
        q # o /\ Busy(q) /\ Busy(o) /\ mark[q].message = mark[o].message => mark[q].message \in crossed

\* The flag of a message is the one its call is about to publish, or else the
\* one the last event about it tells.
BusTells ==
    \A m \in Message \ (silent \union crossed) :
        /\ \A q \in MarkRequest :
              mark[q].pc = "publish" /\ mark[q].message = m => mark[q].read = read_flag[m]
        /\ ~Pending(m) =>
              \A k \in FlagsOf(m) : (\A j \in FlagsOf(m) : j <= k) => bus[k].read = read_flag[m]

\* A stream has yielded events from before its place, in order.
StreamOrder ==
    \A s \in Subscriber :
        /\ cursor[s] <= Len(bus) + 1
        /\ \A i \in DOMAIN received[s] : /\ received[s][i] \in DOMAIN bus
                                         /\ Kept(s) => received[s][i] < cursor[s]

\* The messages unread_count counts: a change is counted when it is published.
Counting == {m \in Message : read_flag[m] <=> Pending(m)}

CountTracks ==
    /\ ~drifted => silent = {}
    /\ (~drifted /\ crossed = {}) => unread_count = Cardinality(Counting)

FeedInv == FeedTyped /\ OneAtATime /\ BusTells /\ StreamOrder /\ InOrderOnce /\ CountTracks

\* What a call does leaves the streams alone, whether it publishes or not.
LEMMA StreamsStay ==
    ASSUME FeedTyped, StreamOrder, InOrderOnce, UNCHANGED <<cursor, received, lagging>>,
           bus' = bus \/ \E e \in Event : bus' = Append(bus, e)
    PROVE  StreamOrder' /\ InOrderOnce'
<1>1. /\ Len(bus) \in Nat /\ Len(bus') \in Nat /\ Len(bus) <= Len(bus')
      /\ \A k \in DOMAIN bus : k \in DOMAIN bus' /\ bus'[k] = bus[k]
    BY AppendAt DEF FeedTyped
<1>2. StreamOrder'
    BY <1>1 DEF FeedTyped, StreamOrder, Kept
<1>3. ASSUME NEW s \in Subscriber, Kept(s), s \notin lagging, received[s] # << >>,
             NEW k \in received[s][1]..(cursor[s] - 1), Forwarded(bus'[k])
      PROVE  \E i \in DOMAIN received[s] : received[s][i] = k
    <2>1. 1 \in DOMAIN received[s] /\ received[s] \in Seq(Nat)
        BY <1>3 DEF FeedTyped
    <2>2. received[s][1] \in DOMAIN bus /\ cursor[s] \in Nat /\ cursor[s] <= Len(bus) + 1
        BY <2>1 DEF StreamOrder, FeedTyped
    <2>3. bus \in Seq(Event)
        BY DEF FeedTyped
    <2>4. k \in DOMAIN bus
        BY <1>1, <1>3, <2>2, <2>3
    <2> QED
        BY <1>1, <1>3, <2>4 DEF InOrderOnce
<1>4. InOrderOnce'
    BY <1>3 DEF InOrderOnce, Kept
<1> QED
    BY <1>2, <1>4

\* A new call, or one that is refused, publishes nothing and changes no flag.
LEMMA CallsWait ==
    ASSUME FeedInv, NEW q \in MarkRequest,
           (\E m \in Message, r \in BOOLEAN : MarkRead(q, m, r)) \/ SetMessageReadFails(q)
    PROVE  FeedInv'
<1>1. /\ UNCHANGED <<read_flag, bus, unread_count, cursor, received, silent, lagging, drifted>>
      /\ crossed \subseteq crossed'
    BY DEF MarkRead, SetMessageReadFails
<1>2. /\ mark[q].pc # "publish" /\ mark'[q].pc # "publish" /\ mark'[q].message \in Message
      /\ mark' \in [MarkRequest -> Call] /\ \A o \in MarkRequest \ {q} : mark'[o] = mark[o]
    <2>1. ASSUME NEW m \in Message, NEW r \in BOOLEAN, MarkRead(q, m, r)
          PROVE  /\ mark[q].pc # "publish" /\ mark'[q].pc # "publish" /\ mark'[q].message \in Message
                 /\ mark' \in [MarkRequest -> Call] /\ \A o \in MarkRequest \ {q} : mark'[o] = mark[o]
        <3>1. [pc |-> "store", message |-> m, read |-> r] \in Call
            BY DEF Call
        <3> QED
            BY <2>1, <3>1 DEF MarkRead, FeedInv, FeedTyped
    <2>2. CASE SetMessageReadFails(q)
        BY <2>2 DEF SetMessageReadFails, FeedInv, FeedTyped, Call
    <2> QED
        BY <2>1, <2>2
<1>3. FeedTyped'
    BY <1>1, <1>2 DEF FeedInv, FeedTyped
<1>4. OneAtATime'
    <2>1. ASSUME NEW m \in Message, NEW r \in BOOLEAN, MarkRead(q, m, r) PROVE OneAtATime'
        <3>1. mark'[q] = [pc |-> "store", message |-> m, read |-> r]
            BY <2>1 DEF MarkRead, FeedInv, FeedTyped
        <3>2. \A o \in MarkRequest \ {q} : Busy(o)' /\ mark'[o].message = m => m \in crossed'
            BY <1>2, <2>1 DEF MarkRead, Busy
        <3> QED
            BY <1>1, <1>2, <3>1, <3>2 DEF FeedInv, OneAtATime, Busy
    <2>2. CASE SetMessageReadFails(q)
        <3>1. ~Busy(q)' /\ crossed' = crossed
            BY <2>2 DEF SetMessageReadFails, Busy, FeedInv, FeedTyped, Call
        <3> QED
            BY <1>2, <3>1 DEF FeedInv, OneAtATime, Busy
    <2> QED
        BY <2>1, <2>2
<1>5. \A m \in Message : (Pending(m)' <=> Pending(m)) /\ FlagsOf(m)' = FlagsOf(m)
    BY <1>1, <1>2 DEF Pending, FlagsOf
<1>6. BusTells'
    BY <1>1, <1>2, <1>5 DEF FeedInv, BusTells
<1>7. StreamOrder' /\ InOrderOnce'
    BY <1>1, StreamsStay DEF FeedInv
<1>8. CountTracks'
    <2>1. Counting' = Counting
        BY <1>1, <1>5 DEF Counting
    <2> QED
        BY <1>1, <2>1 DEF FeedInv, CountTracks
<1> QED
    BY <1>3, <1>4, <1>6, <1>7, <1>8 DEF FeedInv

\* A call that has stored its flag owes the event: to the count nothing has
\* changed yet.
LEMMA FlagStored ==
    ASSUME FeedInv, NEW q \in MarkRequest, SetMessageRead(q)
    PROVE  FeedInv'
<1>0. PICK m \in Message, r \in BOOLEAN : m = mark[q].message /\ r = mark[q].read
    BY DEF SetMessageRead, FeedInv, FeedTyped, Call
<1>1. /\ UNCHANGED <<bus, unread_count, cursor, received, silent, crossed, lagging>>
      /\ read_flag' = [read_flag EXCEPT ![m] = r] /\ mark[q].pc = "store"
      /\ drifted' = (drifted \/ read_flag[m] = r)
    BY <1>0 DEF SetMessageRead
<1>2. /\ mark' \in [MarkRequest -> Call] /\ \A o \in MarkRequest \ {q} : mark'[o] = mark[o]
      /\ mark'[q].pc = "publish" /\ mark'[q].message = m /\ mark'[q].read = r
    BY <1>0 DEF SetMessageRead, FeedInv, FeedTyped, Call
<1>3. read_flag' \in [Message -> BOOLEAN] /\ read_flag'[m] = r /\ \A n \in Message \ {m} : read_flag'[n] = read_flag[n]
    BY <1>1 DEF FeedInv, FeedTyped
<1>4. FeedTyped'
    BY <1>0, <1>1, <1>2, <1>3 DEF FeedInv, FeedTyped
<1>5. OneAtATime'
    BY <1>0, <1>1, <1>2 DEF FeedInv, OneAtATime, Busy
<1>6. m \notin crossed => \A o \in MarkRequest \ {q} : ~(mark[o].pc = "publish" /\ mark[o].message = m)
    BY <1>0, <1>1 DEF FeedInv, OneAtATime, Busy
<1>7. \A n \in Message \ {m} : (Pending(n)' <=> Pending(n)) /\ FlagsOf(n)' = FlagsOf(n)
    BY <1>0, <1>1, <1>2 DEF Pending, FlagsOf
<1>8. Pending(m)' /\ (m \notin crossed => ~Pending(m))
    BY <1>0, <1>1, <1>2, <1>6 DEF Pending
<1>9. BusTells'
    <2> SUFFICES ASSUME NEW n \in Message, n \notin silent, n \notin crossed
                 PROVE  /\ \A o \in MarkRequest :
                              mark'[o].pc = "publish" /\ mark'[o].message = n => mark'[o].read = read_flag'[n]
                        /\ ~Pending(n)' =>
                              \A k \in FlagsOf(n)' : (\A j \in FlagsOf(n)' : j <= k) => bus'[k].read = read_flag'[n]
        BY <1>1 DEF BusTells
    <2>1. CASE n = m
        BY <1>2, <1>3, <1>6, <1>8, <2>1
    <2>2. CASE n # m
        BY <1>0, <1>1, <1>2, <1>3, <1>7, <2>2 DEF FeedInv, BusTells
    <2> QED
        BY <2>1, <2>2
<1>10. StreamOrder' /\ InOrderOnce'
    BY <1>1, StreamsStay DEF FeedInv
<1>11. CountTracks'
    <2>1. ASSUME ~drifted', crossed = {} PROVE Counting' = Counting
        <3>1. read_flag[m] # r /\ read_flag[m] \in BOOLEAN
            BY <1>1, <2>1 DEF FeedInv, FeedTyped
        <3>2. (read_flag'[m] <=> Pending(m)') <=> (read_flag[m] <=> Pending(m))
            BY <1>3, <1>8, <2>1, <3>1
        <3>3. \A n \in Message \ {m} : (read_flag'[n] <=> Pending(n)') <=> (read_flag[n] <=> Pending(n))
            BY <1>3, <1>7
        <3> QED
            BY <3>2, <3>3 DEF Counting
    <2>2. ~drifted' => ~drifted
        BY <1>1 DEF FeedInv, FeedTyped
    <2> QED
        BY <1>1, <2>1, <2>2 DEF FeedInv, CountTracks
<1> QED
    BY <1>4, <1>5, <1>9, <1>10, <1>11 DEF FeedInv

\* The event and the count follow together.
LEMMA FlagPublished ==
    ASSUME FeedInv, NEW q \in MarkRequest, ProcessMarkRead(q)
    PROVE  FeedInv'
<1>0. PICK m \in Message, r \in BOOLEAN : m = mark[q].message /\ r = mark[q].read
    BY DEF ProcessMarkRead, FeedInv, FeedTyped, Call
<1>1. /\ UNCHANGED <<read_flag, cursor, received, silent, crossed, lagging, drifted>>
      /\ unread_count' = Recount(unread_count, r) /\ mark[q].pc = "publish"
      /\ bus' = Append(bus, FlagsChanged(m, r))
    BY <1>0 DEF ProcessMarkRead, Publish
<1>2. /\ mark' \in [MarkRequest -> Call] /\ \A o \in MarkRequest \ {q} : mark'[o] = mark[o]
      /\ mark'[q].pc = "done" /\ mark'[q].message = m
    BY <1>0 DEF ProcessMarkRead, FeedInv, FeedTyped, Call
<1> DEFINE n == Len(bus)
<1>3. /\ FlagsChanged(m, r) \in Event
      /\ FlagsChanged(m, r).kind = "MessageFlagsChanged" /\ FlagsChanged(m, r).message = m /\ FlagsChanged(m, r).read = r
    BY DEF FlagsChanged, Event
<1>4. /\ bus' \in Seq(Event) /\ n \in Nat
      /\ DOMAIN bus' = DOMAIN bus \union {n + 1} /\ n + 1 \notin DOMAIN bus
      /\ bus'[n + 1] = FlagsChanged(m, r) /\ \A k \in DOMAIN bus : bus'[k] = bus[k] /\ k \in Nat /\ k <= n
    <2>1. bus \in Seq(Event)
        BY DEF FeedInv, FeedTyped
    <2>2. \A k \in DOMAIN bus : k \in Nat /\ k <= n
        BY <2>1
    <2> QED
        BY <1>1, <1>3, <2>1, <2>2, AppendAt
<1>5. FeedTyped'
    BY <1>1, <1>2, <1>4 DEF FeedInv, FeedTyped
<1>6. OneAtATime'
    BY <1>1, <1>2 DEF FeedInv, OneAtATime, Busy
<1>7. m \notin crossed => \A o \in MarkRequest \ {q} : ~(mark[o].pc = "publish" /\ mark[o].message = m)
    BY <1>0, <1>1 DEF FeedInv, OneAtATime, Busy
<1>8. Pending(m) /\ (m \notin crossed => ~Pending(m)')
    BY <1>0, <1>1, <1>2, <1>7 DEF Pending
<1>9. \A x \in Message \ {m} : (Pending(x)' <=> Pending(x)) /\ FlagsOf(x)' = FlagsOf(x)
    <2>1. \A x \in Message \ {m} : Pending(x)' <=> Pending(x)
        BY <1>0, <1>2 DEF Pending
    <2>2. \A x \in Message \ {m} : FlagsOf(x)' = FlagsOf(x)
        BY <1>3, <1>4 DEF FlagsOf
    <2> QED
        BY <2>1, <2>2
<1>10. FlagsOf(m)' = FlagsOf(m) \union {n + 1}
    BY <1>3, <1>4 DEF FlagsOf
<1>11. m \notin silent /\ m \notin crossed => r = read_flag[m]
    BY <1>0, <1>1 DEF FeedInv, BusTells
<1>12. BusTells'
    <2> SUFFICES ASSUME NEW x \in Message, x \notin silent, x \notin crossed
                 PROVE  /\ \A o \in MarkRequest :
                              mark'[o].pc = "publish" /\ mark'[o].message = x => mark'[o].read = read_flag'[x]
                        /\ ~Pending(x)' =>
                              \A k \in FlagsOf(x)' : (\A j \in FlagsOf(x)' : j <= k) => bus'[k].read = read_flag'[x]
        BY <1>1 DEF BusTells
    <2>1. \A o \in MarkRequest : mark'[o].pc = "publish" /\ mark'[o].message = x => mark'[o].read = read_flag'[x]
        BY <1>1, <1>2 DEF FeedInv, BusTells
    <2>2. CASE x = m
        <3>1. \A k \in FlagsOf(m)' : (\A j \in FlagsOf(m)' : j <= k) => k = n + 1
            BY <1>4, <1>10 DEF FlagsOf
        <3> QED
            BY <1>1, <1>3, <1>4, <1>11, <2>1, <2>2, <3>1
    <2>3. CASE x # m
        <3>1. \A k \in FlagsOf(x) : bus'[k] = bus[k]
            BY <1>4 DEF FlagsOf
        <3> QED
            BY <1>1, <1>9, <2>1, <2>3, <3>1 DEF FeedInv, BusTells
    <2> QED
        BY <2>2, <2>3
<1>13. StreamOrder' /\ InOrderOnce'
    BY <1>1, <1>3, StreamsStay DEF FeedInv
<1>14. CountTracks'
    <2>1. ASSUME ~drifted, crossed = {} PROVE unread_count' = Cardinality(Counting')
        <3>1. m \notin silent /\ m \notin crossed
            BY <2>1 DEF FeedInv, CountTracks
        <3>2. PICK W : W = Counting
            OBVIOUS
        <3>3. IsFiniteSet(W) /\ Cardinality(W) \in Nat /\ unread_count = Cardinality(W)
            BY <2>1, <3>2, FeedAssumption, FS_Subset, FS_CardinalityType DEF Counting, FeedInv, CountTracks
        <3>4. \A x \in Message \ {m} : x \in Counting' <=> x \in W
            BY <1>1, <1>9, <3>2 DEF Counting
        <3>5. (m \in W <=> r) /\ (m \in Counting' <=> ~r)
            BY <1>1, <1>8, <1>11, <3>1, <3>2 DEF Counting
        <3>6. Counting' \subseteq Message /\ W \subseteq Message
            BY <3>2 DEF Counting
        <3>7. CASE r
            <4>1. Counting' = W \ {m} /\ m \in W
                BY <3>4, <3>5, <3>6, <3>7
            <4>2. Cardinality(W \ {m}) = Cardinality(W) - 1 /\ W # {}
                BY <3>3, <4>1, FS_RemoveElement
            <4>3. Cardinality(W) # 0
                BY <3>3, <4>2, FS_EmptySet
            <4>4. unread_count' = unread_count - 1
                BY <1>1, <3>3, <3>7, <4>3 DEF Recount
            <4> QED
                BY <3>3, <4>1, <4>2, <4>4
        <3>8. CASE ~r
            <4>1. Counting' = W \union {m} /\ m \notin W
                BY <3>4, <3>5, <3>6, <3>8
            <4>2. Cardinality(W \union {m}) = Cardinality(W) + 1
                BY <3>3, <4>1, FS_AddElement
            <4>3. unread_count' = unread_count + 1
                BY <1>1, <3>8 DEF Recount
            <4> QED
                BY <3>3, <4>1, <4>2, <4>3
        <3> QED
            BY <3>7, <3>8
    <2> QED
        BY <1>1, <2>1 DEF FeedInv, CountTracks
<1> QED
    BY <1>5, <1>6, <1>12, <1>13, <1>14 DEF FeedInv

\* A flag that no call changed is one no event tells of.
LEMMA FlagWritten ==
    ASSUME FeedInv, NEW m \in Message, NEW r \in BOOLEAN, WriteFlag(m, r)
    PROVE  FeedInv'
<1>1. /\ UNCHANGED <<bus, mark, cursor, received, crossed, lagging>>
      /\ read_flag' = [read_flag EXCEPT ![m] = r] /\ silent' = silent \union {m} /\ drifted' = TRUE
    BY DEF WriteFlag
<1>2. FeedTyped'
    BY <1>1 DEF FeedInv, FeedTyped
<1>3. OneAtATime'
    BY <1>1 DEF FeedInv, OneAtATime, Busy
<1>4. \A n \in Message : (Pending(n)' <=> Pending(n)) /\ FlagsOf(n)' = FlagsOf(n)
    BY <1>1 DEF Pending, FlagsOf
<1>5. \A n \in Message \ {m} : read_flag'[n] = read_flag[n]
    BY <1>1 DEF FeedInv, FeedTyped
<1>6. BusTells'
    BY <1>1, <1>4, <1>5 DEF FeedInv, BusTells
<1>7. StreamOrder' /\ InOrderOnce'
    BY <1>1, StreamsStay DEF FeedInv
<1>8. CountTracks'
    BY <1>1 DEF CountTracks
<1> QED
    BY <1>2, <1>3, <1>6, <1>7, <1>8 DEF FeedInv

\* Events of other kinds tell of no flag.
LEMMA OtherPublished ==
    ASSUME FeedInv, NEW k \in OtherKinds, PublishOther(k)
    PROVE  FeedInv'
<1>1. /\ UNCHANGED <<read_flag, unread_count, mark, cursor, received, silent, crossed, lagging, drifted>>
      /\ bus' = Append(bus, [kind |-> k]) /\ bus \in Seq(Event) /\ [kind |-> k] \in Event
      /\ [kind |-> k].kind # "MessageFlagsChanged"
    BY FeedAssumption DEF PublishOther, Publish, FeedInv, FeedTyped, Event
<1>2. /\ bus' \in Seq(Event) /\ DOMAIN bus' = DOMAIN bus \union {Len(bus) + 1} /\ Len(bus) + 1 \notin DOMAIN bus
      /\ bus'[Len(bus) + 1] = [kind |-> k] /\ \A i \in DOMAIN bus : bus'[i] = bus[i]
    BY <1>1, AppendAt
<1>3. FeedTyped'
    BY <1>1, <1>2 DEF FeedInv, FeedTyped
<1>4. OneAtATime'
    BY <1>1 DEF FeedInv, OneAtATime, Busy
<1>5. \A n \in Message : (Pending(n)' <=> Pending(n)) /\ FlagsOf(n)' = FlagsOf(n)
    BY <1>1, <1>2 DEF Pending, FlagsOf
<1>6. \A n \in Message : \A i \in FlagsOf(n) : bus'[i] = bus[i]
    BY <1>2 DEF FlagsOf
<1>7. BusTells'
    <2> SUFFICES ASSUME NEW x \in Message, x \notin silent, x \notin crossed
                 PROVE  /\ \A o \in MarkRequest :
                              mark'[o].pc = "publish" /\ mark'[o].message = x => mark'[o].read = read_flag'[x]
                        /\ ~Pending(x)' =>
                              \A i \in FlagsOf(x)' : (\A j \in FlagsOf(x)' : j <= i) => bus'[i].read = read_flag'[x]
        BY <1>1 DEF BusTells
    <2>1. /\ \A o \in MarkRequest : mark[o].pc = "publish" /\ mark[o].message = x => mark[o].read = read_flag[x]
          /\ ~Pending(x) => \A i \in FlagsOf(x) : (\A j \in FlagsOf(x) : j <= i) => bus[i].read = read_flag[x]
        BY DEF FeedInv, BusTells
    <2> QED
        BY <1>1, <1>5, <1>6, <2>1
<1>8. StreamOrder' /\ InOrderOnce'
    BY <1>1, StreamsStay DEF FeedInv
<1>9. CountTracks'
    <2>1. Counting' = Counting
        BY <1>1, <1>5 DEF Counting
    <2> QED
        BY <1>1, <2>1 DEF FeedInv, CountTracks
<1> QED
    BY <1>3, <1>4, <1>7, <1>8, <1>9 DEF FeedInv

\* The streams leave the store, the calls and the bus alone.
LEMMA OnlyStreams ==
    ASSUME FeedInv, UNCHANGED <<read_flag, bus, unread_count, mark, silent, crossed, drifted>>
    PROVE  OneAtATime' /\ BusTells' /\ CountTracks'
<1>1. \A n \in Message : (Pending(n)' <=> Pending(n)) /\ FlagsOf(n)' = FlagsOf(n)
    BY DEF Pending, FlagsOf
<1>2. Counting' = Counting
    BY <1>1 DEF Counting
<1> QED
    BY <1>1, <1>2 DEF FeedInv, OneAtATime, Busy, BusTells, CountTracks

\* A stream moves on by one event, which it yields or leaves out.
LEMMA EventYielded ==
    ASSUME FeedInv, NEW s \in Subscriber, Yield(s)
    PROVE  FeedInv'
<1>0. PICK c \in Nat, old \in Seq(Nat) : c = cursor[s] /\ old = received[s]
    BY DEF FeedInv, FeedTyped
<1>1. /\ UNCHANGED <<read_flag, bus, unread_count, mark, silent, crossed, lagging, drifted>>
      /\ c > 0 /\ c <= Len(bus) /\ Len(bus) \in Nat
      /\ cursor' = [cursor EXCEPT ![s] = c + 1]
      /\ received' = IF Forwarded(bus[c]) THEN [received EXCEPT ![s] = Append(old, c)] ELSE received
    BY <1>0, FeedAssumption DEF Yield, Behind, FeedInv, FeedTyped
<1>2. c \in DOMAIN bus
    <2>1. bus \in Seq(Event)
        BY DEF FeedInv, FeedTyped
    <2> QED
        BY <1>1, <2>1
<1>3. /\ Append(old, c) \in Seq(Nat) /\ DOMAIN Append(old, c) = DOMAIN old \union {Len(old) + 1}
      /\ Append(old, c)[Len(old) + 1] = c /\ \A i \in DOMAIN old : Append(old, c)[i] = old[i]
    BY AppendAt
<1>4. \A i \in DOMAIN old : i \in Nat /\ i <= Len(old) /\ i >= 1 /\ Len(old) \in Nat
    OBVIOUS
<1>5. /\ \A i \in DOMAIN old : old[i] \in DOMAIN bus /\ old[i] < c /\ old[i] \in Nat
      /\ \A i, j \in DOMAIN old : i < j => old[i] < old[j]
    BY <1>0, <1>1 DEF FeedInv, StreamOrder, InOrderOnce, Kept
<1>6. /\ cursor' \in [Subscriber -> Nat] /\ cursor'[s] = c + 1
      /\ received' \in [Subscriber -> Seq(Nat)]
      /\ received'[s] = IF Forwarded(bus[c]) THEN Append(old, c) ELSE old
      /\ \A t \in Subscriber \ {s} : cursor'[t] = cursor[t] /\ received'[t] = received[t]
    BY <1>0, <1>1, <1>3 DEF FeedInv, FeedTyped
<1>7. FeedTyped'
    BY <1>1, <1>6 DEF FeedInv, FeedTyped
<1>8. /\ \A i \in DOMAIN received'[s] : received'[s][i] \in DOMAIN bus /\ received'[s][i] < c + 1
      /\ \A i, j \in DOMAIN received'[s] : i < j => received'[s][i] < received'[s][j]
    <2>1. CASE ~Forwarded(bus[c])
        BY <1>5, <1>6, <2>1
    <2>2. CASE Forwarded(bus[c])
        BY <1>2, <1>3, <1>4, <1>5, <1>6, <2>2
    <2> QED
        BY <2>1, <2>2
<1>9. StreamOrder'
    <2>1. \A t \in Subscriber \ {s} :
              /\ cursor[t] <= Len(bus) + 1
              /\ \A i \in DOMAIN received[t] : /\ received[t][i] \in DOMAIN bus
                                               /\ cursor[t] > 0 => received[t][i] < cursor[t]
        BY DEF FeedInv, StreamOrder, Kept
    <2>2. cursor'[s] <= Len(bus) + 1
        BY <1>1, <1>6
    <2> QED
        BY <1>1, <1>6, <1>8, <2>1, <2>2 DEF StreamOrder, Kept
<1>10. ASSUME s \notin lagging, received'[s] # << >>, NEW k \in received'[s][1]..(cursor'[s] - 1), Forwarded(bus[k])
       PROVE  \E i \in DOMAIN received'[s] : received'[s][i] = k
    <2>1. k \in Int /\ k <= c /\ received'[s][1] <= k
        <3>1. received'[s][1] \in Nat
            BY <1>6, <1>10
        <3> QED
            BY <1>6, <1>10, <3>1
    <2>2. CASE k = c
        BY <1>3, <1>6, <1>10, <2>2
    <2>3. CASE k < c
        <3>1. old # << >>
            <4> SUFFICES ASSUME old = << >> PROVE FALSE
                OBVIOUS
            <4>1. received'[s] = Append(old, c) /\ Len(old) = 0
                BY <1>6, <1>10
            <4>2. received'[s][1] = c
                BY <1>3, <4>1
            <4> QED
                BY <2>1, <2>3, <4>2
        <3>2. 1 \in DOMAIN old
            BY <3>1
        <3>3. received'[s][1] = old[1] /\ \A i \in DOMAIN old : i \in DOMAIN received'[s] /\ received'[s][i] = old[i]
            BY <1>3, <1>6, <3>2
        <3>4. k \in old[1]..(c - 1)
            BY <1>5, <2>1, <2>3, <3>2, <3>3
        <3>5. \E i \in DOMAIN old : old[i] = k
            BY <1>0, <1>1, <1>10, <3>1, <3>4 DEF FeedInv, InOrderOnce, Kept
        <3> QED
            BY <3>3, <3>5
    <2> QED
        BY <2>1, <2>2, <2>3
<1>11. InOrderOnce'
    <2>1. ASSUME NEW t \in Subscriber
          PROVE  /\ \A i, j \in DOMAIN received'[t] : i < j => received'[t][i] < received'[t][j]
                 /\ (cursor'[t] > 0 /\ t \notin lagging /\ received'[t] # << >>) =>
                       \A k \in received'[t][1]..(cursor'[t] - 1) :
                           Forwarded(bus[k]) => \E i \in DOMAIN received'[t] : received'[t][i] = k
        <3>1. CASE t = s
            <4>1. \A i, j \in DOMAIN received'[s] : i < j => received'[s][i] < received'[s][j]
                BY <1>8
            <4>2. (s \notin lagging /\ received'[s] # << >>) =>
                      \A k \in received'[s][1]..(cursor'[s] - 1) :
                          Forwarded(bus[k]) => \E i \in DOMAIN received'[s] : received'[s][i] = k
                BY <1>10
            <4> QED
                BY <3>1, <4>1, <4>2
        <3>2. CASE t # s
            <4>1. cursor'[t] = cursor[t] /\ received'[t] = received[t]
                BY <1>6, <3>2
            <4>2. /\ \A i, j \in DOMAIN received[t] : i < j => received[t][i] < received[t][j]
                  /\ (cursor[t] > 0 /\ t \notin lagging /\ received[t] # << >>) =>
                        \A k \in received[t][1]..(cursor[t] - 1) :
                            Forwarded(bus[k]) => \E i \in DOMAIN received[t] : received[t][i] = k
                BY DEF FeedInv, InOrderOnce, Kept
            <4> QED
                BY <4>1, <4>2
        <3> QED
            BY <3>1, <3>2
    <2> QED
        BY <1>1, <2>1 DEF InOrderOnce, Kept
<1> QED
    BY <1>1, <1>7, <1>9, <1>11, OnlyStreams DEF FeedInv

\* A stream begins, skips what the channel has dropped, or ends.
LEMMA StreamMoves ==
    ASSUME FeedInv, NEW s \in Subscriber, Subscribe(s) \/ SkipLagged(s) \/ Disconnect(s)
    PROVE  FeedInv'
<1>0. PICK c \in Nat, n \in Nat : c = cursor[s] /\ n = Len(bus)
    BY DEF FeedInv, FeedTyped
<1>1. /\ UNCHANGED <<read_flag, bus, unread_count, mark, silent, crossed, drifted, received>>
      /\ lagging \subseteq lagging'
    BY DEF Subscribe, SkipLagged, Disconnect
<1>2. PICK d \in Nat : /\ cursor' = [cursor EXCEPT ![s] = d] /\ d <= n + 1
                       /\ (d > 0 => received[s] = << >> \/ (d >= c /\ c > 0 /\ s \in lagging'))
    <2>1. CASE Subscribe(s)
        <3>1. cursor' = [cursor EXCEPT ![s] = n + 1] /\ received[s] = << >>
            BY <1>0, <2>1 DEF Subscribe
        <3>2. n + 1 \in Nat /\ n + 1 <= n + 1
            OBVIOUS
        <3> QED
            BY <3>1, <3>2
    <2>2. CASE Disconnect(s)
        <3>1. cursor' = [cursor EXCEPT ![s] = 0]
            BY <2>2 DEF Disconnect
        <3>2. 0 \in Nat /\ 0 <= n + 1 /\ ~(0 > 0)
            OBVIOUS
        <3> QED
            BY <3>1, <3>2
    <2>3. CASE SkipLagged(s)
        <3>1. /\ c > 0 /\ n + 1 - c > EVENT_CAPACITY /\ s \in lagging'
              /\ cursor' = [cursor EXCEPT ![s] = n + 1 - EVENT_CAPACITY]
            BY <1>0, <2>3 DEF SkipLagged, Behind
        <3>2. EVENT_CAPACITY \in Nat
            BY FeedAssumption
        <3>3. n + 1 - EVENT_CAPACITY \in Nat /\ n + 1 - EVENT_CAPACITY <= n + 1 /\ n + 1 - EVENT_CAPACITY >= c
            BY <3>1, <3>2
        <3> QED
            BY <3>1, <3>3
    <2> QED
        BY <2>1, <2>2, <2>3
<1>3. /\ cursor' \in [Subscriber -> Nat] /\ cursor'[s] = d
      /\ \A t \in Subscriber \ {s} : cursor'[t] = cursor[t]
    BY <1>2 DEF FeedInv, FeedTyped
<1>4. FeedTyped'
    BY <1>1, <1>3 DEF FeedInv, FeedTyped
<1>5. StreamOrder'
    <2>1. \A t \in Subscriber \ {s} :
              /\ cursor[t] <= Len(bus) + 1
              /\ \A i \in DOMAIN received[t] : /\ received[t][i] \in DOMAIN bus
                                               /\ cursor[t] > 0 => received[t][i] < cursor[t]
        BY DEF FeedInv, StreamOrder, Kept
    <2>2. \A i \in DOMAIN received[s] : received[s][i] \in DOMAIN bus /\ (c > 0 => received[s][i] < c)
        BY <1>0 DEF FeedInv, StreamOrder, Kept
    <2>3. \A i \in DOMAIN received[s] : received[s][i] \in Nat
        BY DEF FeedInv, FeedTyped
    <2>4. \A i \in DOMAIN received[s] : d > 0 => received[s][i] < d
        BY <1>2, <2>2, <2>3
    <2> QED
        BY <1>0, <1>1, <1>2, <1>3, <2>1, <2>2, <2>4 DEF StreamOrder, Kept
<1>6. InOrderOnce'
    <2>1. ASSUME NEW t \in Subscriber
          PROVE  /\ \A i, j \in DOMAIN received[t] : i < j => received[t][i] < received[t][j]
                 /\ (cursor'[t] > 0 /\ t \notin lagging' /\ received[t] # << >>) =>
                       \A k \in received[t][1]..(cursor'[t] - 1) :
                           Forwarded(bus[k]) => \E i \in DOMAIN received[t] : received[t][i] = k
        <3>1. CASE t = s
            BY <1>2, <1>3, <3>1 DEF FeedInv, InOrderOnce
        <3>2. CASE t # s
            BY <1>1, <1>3, <3>2 DEF FeedInv, InOrderOnce, Kept
        <3> QED
            BY <3>1, <3>2
    <2> QED
        BY <1>1, <2>1 DEF InOrderOnce, Kept
<1> QED
    BY <1>1, <1>4, <1>5, <1>6, OnlyStreams DEF FeedInv

LEMMA FeedKeeps ==
    ASSUME FeedInv, [FeedNext]_feedVars
    PROVE  FeedInv'
<1>1. CASE UNCHANGED feedVars
    <2>1. FeedTyped' /\ StreamOrder' /\ InOrderOnce'
        BY <1>1, StreamsStay DEF FeedInv, FeedTyped, feedVars
    <2>2. OneAtATime' /\ BusTells' /\ CountTracks'
        BY <1>1, OnlyStreams DEF feedVars
    <2> QED
        BY <2>1, <2>2 DEF FeedInv
<1> QED
    BY <1>1, CallsWait, FlagStored, FlagPublished, FlagWritten, OtherPublished, EventYielded, StreamMoves DEF FeedNext

LEMMA GreatestExists ==
    ASSUME NEW n \in Nat, NEW S, S \subseteq 1..n, S # {}
    PROVE  \E x \in S : \A y \in S : y <= x
<1> DEFINE T == {n - x : x \in S}
<1>0. \A x \in S : n - x \in Nat
    OBVIOUS
<1>1. T \subseteq Nat /\ T # {}
    BY <1>0
<1>2. PICK d \in T : \A e \in T : d <= e
    BY <1>1, LeastExists
<1>3. PICK x \in S : d = n - x
    BY <1>2
<1>4. ASSUME NEW y \in S PROVE y <= x
    <2>1. n - x <= n - y
        BY <1>2, <1>3, <1>4
    <2>2. x \in 1..n /\ y \in 1..n
        BY ONLY x \in S, y \in S, S \subseteq 1..n
    <2> QED
        BY ONLY n \in Nat, <2>1, <2>2
<1> QED
    BY <1>4

\* The last event a caught-up stream has about a message is the last there is.
LEMMA LastIsLast ==
    ASSUME FeedInv, NEW s \in Subscriber, NEW m \in Message,
           Kept(s), Behind(s) = 0, s \notin lagging,
           NEW l \in FlagEvents(s, m), \A i \in FlagEvents(s, m) : i <= l
    PROVE  received[s][l] \in FlagsOf(m) /\ \A j \in FlagsOf(m) : j <= received[s][l]
<1>1. PICK rec \in Seq(Nat), n \in Nat : rec = received[s] /\ n = Len(bus)
    BY DEF FeedInv, FeedTyped
<1>2. l \in DOMAIN rec /\ rec[l] \in DOMAIN bus /\ rec[l] \in FlagsOf(m)
    BY <1>1 DEF FlagEvents, FlagsOf, FeedInv, StreamOrder
<1>3. cursor[s] = n + 1
    BY <1>1 DEF Behind, FeedInv, FeedTyped
<1>4. bus \in Seq(Event) /\ l \in 1..Len(rec) /\ 1 \in DOMAIN rec /\ rec # << >>
    BY <1>2 DEF FeedInv, FeedTyped
<1>5. \A i, j \in DOMAIN rec : i < j => rec[i] < rec[j]
    BY <1>1 DEF FeedInv, InOrderOnce
<1>6. rec[1] \in Nat /\ rec[l] \in Nat /\ rec[1] <= rec[l]
    <2>1. rec[1] \in Nat /\ rec[l] \in Nat
        BY <1>2, <1>4
    <2>2. 1 = l \/ 1 < l
        BY <1>4
    <2> QED
        BY <1>2, <1>4, <1>5, <2>1, <2>2
<1>7. ASSUME NEW j \in FlagsOf(m), ~(j <= rec[l]) PROVE FALSE
    <2>1. j \in DOMAIN bus /\ j \in Nat /\ j <= n
        BY <1>1, <1>4 DEF FlagsOf
    <2>2. j \in rec[1]..(cursor[s] - 1)
        BY <1>3, <1>6, <1>7, <2>1
    <2>3. Forwarded(bus[j])
        BY DEF Forwarded, FlagsOf
    <2>4. PICK i \in DOMAIN rec : rec[i] = j
        BY <1>1, <1>4, <2>2, <2>3 DEF FeedInv, InOrderOnce
    <2>5. i \in FlagEvents(s, m)
        BY <1>1, <2>4 DEF FlagEvents, FlagsOf
    <2>6. i <= l /\ i \in Nat /\ l \in Nat
        BY <1>4, <2>4, <2>5
    <2>7. i = l \/ rec[i] < rec[l]
        BY <1>2, <1>5, <2>4, <2>6
    <2> QED
        BY <1>6, <1>7, <2>1, <2>4, <2>7
<1> QED
    BY <1>1, <1>2, <1>7

\* mark_read, process_command and subscribe: for any number of calls, streams
\* and events and any capacity of the channel, a stream yields events in order
\* and leaves none out unless it lagged; a subscriber that has caught up holds
\* the flags of the store and the daemon counts the unread messages right,
\* except after the interleavings and silent writes the properties name.
THEOREM FeedIsTruthful == FeedInit /\ [][FeedNext]_feedVars => []FeedTruthful
<1>1. FeedInit => FeedInv
    <2> SUFFICES ASSUME FeedInit PROVE FeedInv
        OBVIOUS
    <2>0. \A S : << >> \in Seq(S)
        OBVIOUS
    <2>1. [pc |-> "ready", message |-> AnyMessage, read |-> FALSE] \in Call
        BY DEF Call
    <2>2. mark = [q \in MarkRequest |-> [pc |-> "ready", message |-> AnyMessage, read |-> FALSE]]
        BY DEF FeedInit, AnyMessage
    <2>3. mark \in [MarkRequest -> Call] /\ \A q \in MarkRequest : mark[q].pc = "ready"
        BY <2>1, <2>2
    <2>4. FeedTyped
        BY <2>0, <2>3 DEF FeedInit, FeedTyped
    <2>5. OneAtATime
        BY <2>3 DEF OneAtATime, Busy
    <2>6. DOMAIN bus = {}
        BY DEF FeedInit
    <2>7. BusTells
        BY <2>3, <2>6 DEF BusTells, FlagsOf
    <2>8. StreamOrder /\ InOrderOnce
        BY <2>0 DEF FeedInit, StreamOrder, InOrderOnce, Kept
    <2>9. Counting = {x \in Message : ~read_flag[x]}
        BY <2>3 DEF Counting, Pending, FeedInit
    <2>10. CountTracks
        BY <2>9 DEF CountTracks, FeedInit, UnreadIn
    <2> QED
        BY <2>4, <2>5, <2>7, <2>8, <2>10 DEF FeedInv
<1>2. FeedInv /\ [FeedNext]_feedVars => FeedInv'
    BY FeedKeeps
<1>3. FeedInv => FeedTruthful
    <2> SUFFICES ASSUME FeedInv PROVE FeedTruthful
        OBVIOUS
    <2>1. MirrorAgrees
        <3> SUFFICES ASSUME NEW s \in Subscriber, NEW m \in Message,
                            Kept(s), Behind(s) = 0, s \notin lagging,
                            \A q \in MarkRequest : ~Busy(q),
                            m \notin silent \union crossed, FlagEvents(s, m) # {},
                            NEW l, l = CHOOSE i \in FlagEvents(s, m) : \A j \in FlagEvents(s, m) : j <= i
                     PROVE  bus[received[s][l]].read = read_flag[m]
            BY DEF MirrorAgrees
        <3>1. FlagEvents(s, m) \subseteq 1..Len(received[s]) /\ Len(received[s]) \in Nat
            BY DEF FlagEvents, FeedInv, FeedTyped
        <3>2. \E i \in FlagEvents(s, m) : \A j \in FlagEvents(s, m) : j <= i
            BY <3>1, GreatestExists
        <3>3. l \in FlagEvents(s, m) /\ \A j \in FlagEvents(s, m) : j <= l
            BY <3>2
        <3>4. received[s][l] \in FlagsOf(m) /\ \A j \in FlagsOf(m) : j <= received[s][l]
            BY <3>3, LastIsLast
        <3>5. ~Pending(m)
            BY DEF Pending, Busy
        <3> QED
            BY <3>4, <3>5 DEF FeedInv, BusTells
    <2>2. UnreadTracks
        <3> SUFFICES ASSUME ~drifted, crossed = {}, \A q \in MarkRequest : ~Busy(q)
                     PROVE  unread_count = UnreadIn(read_flag)
            BY DEF UnreadTracks
        <3>1. \A m \in Message : ~Pending(m) /\ read_flag[m] \in BOOLEAN
            BY DEF Pending, Busy, FeedInv, FeedTyped
        <3>2. Counting = {m \in Message : ~read_flag[m]}
            BY <3>1 DEF Counting
        <3> QED
            BY <3>2 DEF FeedInv, CountTracks, UnreadIn
    <2> QED
        BY <2>1, <2>2 DEF FeedInv, FeedTruthful
<1> QED
    BY <1>1, <1>2, <1>3, PTL

-----------------------------------------------------------------------------
(* Outgoing mail                                                           *)

Part == {"plain", "html", "empty"} \union UNION {Range(c.attachments) : c \in Compose}

Sent == [by : SendRequest, from : Nat, parts : Seq(Part), cc : BOOLEAN]

SendPlace == {"ready", "resolve", "secret", "build", "dial", "submit", "taken", "sent", "failed", "dropped"}

Reason == {"none", "invalid_argument", "no_account", "store", "vault", "unbuildable", "bad_smtp_config",
           "transport", "refused", "reply_lost"}

SubmissionTyped ==
    /\ present \subseteq SenderIds
    /\ rowVersion \in [SenderIds -> Nat]
    /\ secret \in [SenderIds -> Nat]
    /\ send \in [SendRequest -> [pc : SendPlace, why : Reason, compose : Compose \union {NotAsked},
                                 account : SenderIds \union {AnyAccount}, from : Nat, host : Nat,
                                 password : Nat]]
    /\ delivered \in Seq(Sent)

\* A call that has chosen an account sends from it, and from the one named.
SenderChosen(q) ==
    /\ send[q].pc # "ready" => send[q].compose \in Compose
    /\ send[q].pc \in {"secret", "build", "dial", "submit", "taken", "sent"} =>
          /\ send[q].from \in SenderIds
          /\ send[q].account # AnyAccount => send[q].from = send[q].account

\* While nobody moves the account, the password a call is about to read, or
\* has read, is the one of the server it read.
SecretOfServer(q) ==
    q \notin crossedEdit =>
        /\ send[q].pc = "secret" => secret[send[q].from] = send[q].host
        /\ send[q].pc \in {"build", "dial"} => send[q].password = send[q].host

\* No letter of a call is out before the server took one, and then it is the
\* one composed.
LetterOut(q) ==
    /\ \A i, j \in Letters(q) : i = j
    /\ \/ send[q].pc \in {"ready", "resolve", "secret", "build", "dial", "submit"}
       \/ send[q].pc = "failed" /\ send[q].why # "reply_lost"
       => Letters(q) = {}
    /\ send[q].pc \in {"taken", "sent"} =>
          \E i \in DOMAIN delivered : Letters(q) = {i} /\ delivered[i] = Letter(q)

SubmissionInv ==
    /\ SubmissionTyped
    /\ \A q \in SendRequest : SenderChosen(q) /\ SecretOfServer(q) /\ LetterOut(q)
    /\ SecretsToTheirServer

\* Init is one of the states the invariant describes.
LEMMA SubmissionInitInv == SubmissionInit => SubmissionInv
<1> SUFFICES ASSUME SubmissionInit PROVE SubmissionInv
    OBVIOUS
<1>1. SubmissionTyped
  <2>1. send \in [SendRequest -> [pc : SendPlace, why : Reason, compose : Compose \union {NotAsked},
                                  account : SenderIds \union {AnyAccount}, from : Nat, host : Nat,
                                  password : Nat]]
      BY DEF SubmissionInit, SendPlace, Reason
  <2>2. delivered \in Seq(Sent)
      BY DEF SubmissionInit
  <2> QED
      BY <2>1, <2>2 DEF SubmissionInit, SubmissionTyped
<1>2. \A q \in SendRequest : SenderChosen(q) /\ SecretOfServer(q) /\ LetterOut(q)
    BY DEF SubmissionInit, SenderChosen, SecretOfServer, LetterOut, Letters
<1>3. SecretsToTheirServer
    BY DEF SubmissionInit, SecretsToTheirServer
<1> QED
    BY <1>1, <1>2, <1>3 DEF SubmissionInv

\* A step of one call leaves the others alone.
LEMMA OtherCalls ==
    ASSUME SubmissionInv, NEW q \in SendRequest, SubmissionTyped',
           \A o \in SendRequest \ {q} : send'[o] = send[o],
           \A o \in SendRequest \ {q} : Letters(o)' = Letters(o),
           \A i \in DOMAIN delivered : i \in DOMAIN delivered' /\ delivered'[i] = delivered[i],
           UNCHANGED <<secret, rowVersion>>, crossedEdit \subseteq crossedEdit',
           SenderChosen(q)', SecretOfServer(q)', LetterOut(q)', SecretsToTheirServer'
    PROVE  SubmissionInv'
<1>1. ASSUME NEW o \in SendRequest \ {q} PROVE SenderChosen(o)' /\ SecretOfServer(o)' /\ LetterOut(o)'
  <2>1. SenderChosen(o)' /\ SecretOfServer(o)'
      BY DEF SubmissionInv, SenderChosen, SecretOfServer
  <2>2. LetterOut(o)
      BY DEF SubmissionInv
  <2>3. Letter(o)' = Letter(o)
      BY DEF Letter
  <2>4. LetterOut(o)'
      BY <2>2, <2>3 DEF LetterOut
  <2> QED
      BY <2>1, <2>4
<1> QED
    BY <1>1 DEF SubmissionInv

\* Looking things up sends nothing and shows nothing.
LEMMA LookupKeeps ==
    ASSUME SubmissionInv, NEW q \in SendRequest,
           \/ \E c \in Compose, a \in SenderIds \union {AnyAccount} : SendMessage(q, c, a)
           \/ ResolveAccount(q) \/ ReadSecret(q) \/ BuildMessage(q)
    PROVE  SubmissionInv'
<1>0. UNCHANGED <<settingVars, delivered, shown>> /\ crossedEdit \subseteq crossedEdit' /\ SubmissionTyped
    BY DEF SendMessage, ResolveAccount, ReadSecret, BuildMessage, SubmissionInv
<1> DEFINE s == send[q]
<1>a. s \in [pc : SendPlace, why : Reason, compose : Compose \union {NotAsked},
             account : SenderIds \union {AnyAccount}, from : Nat, host : Nat, password : Nat]
    BY <1>0 DEF SubmissionTyped
<1>b. SenderChosen(q) /\ SecretOfServer(q) /\ LetterOut(q)
    BY DEF SubmissionInv
<1> DEFINE S == [pc : SendPlace, why : Reason, compose : Compose \union {NotAsked},
                 account : SenderIds \union {AnyAccount}, from : Nat, host : Nat, password : Nat]
           Allowed(t) ==
        /\ t \in S
        /\ s.pc \in {"ready", "resolve", "secret", "build"}
        /\ \/ t.pc \in {"resolve", "secret", "build", "dial"}
           \/ t.pc = "failed" /\ t.why # "reply_lost"
        /\ t.compose \in Compose
        /\ t.pc \in {"secret", "build", "dial"} =>
              t.from \in SenderIds /\ (t.account # AnyAccount => t.from = t.account)
        /\ q \notin crossedEdit' /\ t.pc = "secret" => secret[t.from] = t.host
        /\ q \notin crossedEdit' /\ t.pc \in {"build", "dial"} => t.password = t.host
           Moves == \E t : send' = [send EXCEPT ![q] = t] /\ Allowed(t)
<1>e. DOMAIN send = SendRequest
    BY <1>0 DEF SubmissionTyped
<1>f. ASSUME NEW w \in Reason, Fail(q, w), w # "reply_lost", s.compose \in Compose,
             s.pc \in {"ready", "resolve", "secret", "build"}
      PROVE  Moves
  <2> DEFINE t == [s EXCEPT !.pc = "failed", !.why = w]
  <2>1. send' = [send EXCEPT ![q] = t]
      BY <1>f, <1>e DEF Fail
  <2>2. t \in S /\ t.pc = "failed" /\ t.why = w /\ t.compose = s.compose
      BY <1>a, <1>f DEF SendPlace, Reason
  <2> HIDE DEF t, S
  <2>3. Allowed(t)
      BY <2>2, <1>f
  <2> QED
      BY <2>1, <2>3
<1>1. Moves
  <2>1. ASSUME NEW c \in Compose, NEW a \in SenderIds \union {AnyAccount}, SendMessage(q, c, a) PROVE Moves
    <3> DEFINE t == IF c.to = "blank" \/ ~c.subject
                    THEN [s EXCEPT !.compose = c, !.account = a, !.pc = "failed", !.why = "invalid_argument"]
                    ELSE [s EXCEPT !.compose = c, !.account = a, !.pc = "resolve"]
    <3>1. send' = [send EXCEPT ![q] = t] /\ s.pc = "ready"
        BY <2>1, <1>e DEF SendMessage
    <3>2. t \in S /\ t.compose = c /\ (t.pc = "resolve" \/ (t.pc = "failed" /\ t.why = "invalid_argument"))
      <4>1. CASE c.to = "blank" \/ ~c.subject
          BY <1>a, <4>1 DEF SendPlace, Reason
      <4>2. CASE ~(c.to = "blank" \/ ~c.subject)
          BY <1>a, <4>2 DEF SendPlace, Reason
      <4> QED
          BY <4>1, <4>2
    <3> HIDE DEF t, S
    <3>3. Allowed(t)
        BY <3>1, <3>2
    <3> QED
        BY <3>1, <3>3
  <2>2. ASSUME ResolveAccount(q) PROVE Moves
    <3>0. s.compose \in Compose /\ s.pc = "resolve"
        BY <2>2, <1>b DEF SenderChosen, ResolveAccount
    <3>1. ASSUME NEW a \in resolve_sending_account(s.account),
                 send' = [send EXCEPT ![q].pc = "secret", ![q].from = a, ![q].host = rowVersion[a]],
                 crossedEdit' = IF secret[a] # rowVersion[a] THEN crossedEdit \union {q} ELSE crossedEdit
          PROVE  Moves
      <4> DEFINE t == [s EXCEPT !.pc = "secret", !.from = a, !.host = rowVersion[a]]
      <4>1. a \in SenderIds /\ a \in Nat /\ (s.account # AnyAccount => a = s.account)
          BY <1>0, <3>1, LeastOf, SubmissionAssumption DEF resolve_sending_account, SubmissionTyped
      <4>2. send' = [send EXCEPT ![q] = t]
          BY <3>1, <1>e
      <4>3. q \notin crossedEdit' => secret[a] = rowVersion[a]
          BY <3>1
      <4>4. rowVersion[a] \in Nat
          BY <4>1, <1>0 DEF SubmissionTyped
      <4>5. t \in S /\ t.pc = "secret" /\ t.compose = s.compose /\ t.from = a /\ t.host = rowVersion[a] /\ t.account = s.account
          BY <1>a, <4>1, <4>4 DEF SendPlace
      <4> HIDE DEF t, S
      <4>6. Allowed(t)
          BY <3>0, <4>1, <4>3, <4>5
      <4> QED
          BY <4>2, <4>6
    <3>2. ASSUME NEW w \in {"no_account", "store"}, Fail(q, w) PROVE Moves
        BY <3>0, <3>2, <1>f DEF Reason
    <3> HIDE DEF Moves
    <3> QED
        BY <2>2, <3>1, <3>2 DEF ResolveAccount
  <2>3. ASSUME ReadSecret(q) PROVE Moves
    <3>0. s.compose \in Compose /\ s.pc = "secret" /\ crossedEdit' = crossedEdit /\ s.from \in SenderIds
          /\ (s.account # AnyAccount => s.from = s.account) /\ secret[s.from] \in Nat
          /\ (q \notin crossedEdit => secret[s.from] = s.host)
        BY <2>3, <1>b, <1>0 DEF SenderChosen, SecretOfServer, ReadSecret, SubmissionTyped
    <3>1. ASSUME send' = [send EXCEPT ![q].pc = "build", ![q].password = secret[send[q].from]] PROVE Moves
      <4> DEFINE t == [s EXCEPT !.pc = "build", !.password = secret[s.from]]
      <4>1. send' = [send EXCEPT ![q] = t]
          BY <3>1, <1>e
      <4>2. t \in S /\ t.pc = "build" /\ t.compose = s.compose /\ t.from = s.from /\ t.host = s.host
            /\ t.account = s.account /\ t.password = secret[s.from]
          BY <1>a, <3>0 DEF SendPlace
      <4> HIDE DEF t, S
      <4>3. Allowed(t)
          BY <3>0, <4>2
      <4> QED
          BY <4>1, <4>3
    <3> HIDE DEF Moves
    <3> QED
        BY <2>3, <3>0, <3>1, <1>f DEF ReadSecret, Reason
  <2>4. ASSUME BuildMessage(q) PROVE Moves
    <3>0. s.compose \in Compose /\ s.pc = "build" /\ crossedEdit' = crossedEdit /\ s.from \in SenderIds
          /\ (s.account # AnyAccount => s.from = s.account)
          /\ (q \notin crossedEdit => s.password = s.host)
        BY <2>4, <1>b, <1>0 DEF SenderChosen, SecretOfServer, BuildMessage
    <3>1. ASSUME Step(q, "dial") PROVE Moves
      <4> DEFINE t == [s EXCEPT !.pc = "dial"]
      <4>1. send' = [send EXCEPT ![q] = t]
          BY <3>1, <1>e DEF Step
      <4>2. t \in S /\ t.pc = "dial" /\ t.compose = s.compose /\ t.from = s.from /\ t.host = s.host
            /\ t.account = s.account /\ t.password = s.password
          BY <1>a DEF SendPlace
      <4> HIDE DEF t, S
      <4>3. Allowed(t)
          BY <3>0, <4>2
      <4> QED
          BY <4>1, <4>3
    <3> HIDE DEF Moves
    <3> QED
        BY <2>4, <3>0, <3>1, <1>f DEF BuildMessage, Reason
  <2> HIDE DEF Moves
  <2> QED
      BY <2>1, <2>2, <2>3, <2>4
<1>p. PICK t : send' = [send EXCEPT ![q] = t] /\ Allowed(t)
    BY <1>1
<1>2. send'[q] = t /\ \A o \in SendRequest \ {q} : send'[o] = send[o]
    BY <1>0, <1>p DEF SubmissionTyped
<1>3. SubmissionTyped'
    BY <1>0, <1>p DEF SubmissionTyped, settingVars
<1>4. \A o \in SendRequest : Letters(o)' = Letters(o)
    BY <1>0 DEF Letters
<1>5. SenderChosen(q)' /\ SecretOfServer(q)'
    BY <1>0, <1>p, <1>2 DEF SenderChosen, SecretOfServer, settingVars
<1>6. Letters(q) = {}
    BY <1>b, <1>p DEF LetterOut
<1>7. LetterOut(q)'
    BY <1>p, <1>2, <1>4, <1>6 DEF LetterOut
<1>8. SecretsToTheirServer'
    BY <1>0 DEF SubmissionInv, SecretsToTheirServer
<1> QED
    BY <1>0, <1>2, <1>3, <1>4, <1>5, <1>7, <1>8, OtherCalls DEF settingVars

\* A step of the session, or its end.
LEMMA SessionKeeps ==
    ASSUME SubmissionInv, NEW q \in SendRequest,
           \/ \E offer \in Offered : OpenSession(q, offer)
           \/ ServerTakes(q) \/ ServerRefuses(q) \/ ReplyArrives(q) \/ ReplyLost(q) \/ Abandon(q)
    PROVE  SubmissionInv'
<1> DEFINE s == send[q]
           S == [pc : SendPlace, why : Reason, compose : Compose \union {NotAsked},
                 account : SenderIds \union {AnyAccount}, from : Nat, host : Nat, password : Nat]
<1>0. UNCHANGED <<settingVars, crossedEdit>> /\ SubmissionTyped /\ s \in S
    BY DEF OpenSession, ServerTakes, ServerRefuses, ReplyArrives, ReplyLost, Abandon, SubmissionInv, SubmissionTyped
<1>b. SenderChosen(q) /\ SecretOfServer(q) /\ LetterOut(q)
    BY DEF SubmissionInv
\* Where it may go from where, whatever else it does.
<1> DEFINE Goes(l, w) == send' = [send EXCEPT ![q] = [s EXCEPT !.pc = l, !.why = w]]
<1>c. ASSUME NEW l, Step(q, l) PROVE Goes(l, s.why)
  <2>1. [s EXCEPT !.pc = l, !.why = s.why] = [s EXCEPT !.pc = l]
      BY <1>0
  <2> QED
      BY <1>c, <2>1, <1>0 DEF Step, SubmissionTyped
<1>d. ASSUME NEW w, Fail(q, w) PROVE Goes("failed", w)
    BY <1>d, <1>0 DEF Fail, SubmissionTyped
<1>e. ASSUME NEW l \in SendPlace, NEW w \in Reason, Goes(l, w)
      PROVE  /\ send'[q] = [s EXCEPT !.pc = l, !.why = w]
             /\ \A o \in SendRequest \ {q} : send'[o] = send[o]
             /\ send' \in [SendRequest -> S]
             /\ send'[q].pc = l /\ send'[q].why = w
             /\ send'[q].compose = s.compose /\ send'[q].account = s.account /\ send'[q].from = s.from
             /\ send'[q].host = s.host /\ send'[q].password = s.password
             /\ Letter(q)' = Letter(q)
  <2>1. send'[q] = [s EXCEPT !.pc = l, !.why = w] /\ \A o \in SendRequest \ {q} : send'[o] = send[o]
      BY <1>e, <1>0 DEF SubmissionTyped
  <2>2. [s EXCEPT !.pc = l, !.why = w] \in S
      BY <1>0
  <2>3. /\ send'[q].pc = l /\ send'[q].why = w
        /\ send'[q].compose = s.compose /\ send'[q].account = s.account /\ send'[q].from = s.from
        /\ send'[q].host = s.host /\ send'[q].password = s.password
      BY <1>0, <2>1
  <2>4. send' \in [SendRequest -> S]
      BY <1>e, <2>2, <1>0 DEF SubmissionTyped
  <2>5. Letter(q)' = Letter(q)
      BY <2>3 DEF Letter
  <2> QED
      BY <2>1, <2>2, <2>3, <2>4, <2>5
<1>s. s.why \in Reason
    BY <1>0
<1> HIDE DEF Goes, S
\* Nothing is delivered.
<1>f. ASSUME NEW l \in SendPlace, NEW w \in Reason, Goes(l, w), delivered' = delivered, SecretsToTheirServer',
             s.pc # "ready",
             l \in {"dial", "submit"} => s.pc = "dial",
             l = "failed" => (w # "reply_lost" => s.pc \in {"dial", "submit"}),
             l = "sent" => s.pc = "taken",
             l \in {"submit", "sent", "failed", "dropped"}
      PROVE  SubmissionInv'
  <2>1. SubmissionTyped'
      BY <1>0, <1>e, <1>f DEF SubmissionTyped, settingVars, S
  <2>2. \A o \in SendRequest : Letters(o)' = Letters(o)
      BY <1>f DEF Letters
  <2>3. SenderChosen(q)'
      BY <1>b, <1>e, <1>f DEF SenderChosen
  <2>4. SecretOfServer(q)'
      BY <1>e, <1>f DEF SecretOfServer
  <2>5. LetterOut(q)'
    <3>1. l \in {"submit"} \/ (l = "failed" /\ w # "reply_lost") => Letters(q) = {}
        BY <1>b, <1>f DEF LetterOut
    <3>2. l = "sent" => \E i \in DOMAIN delivered : Letters(q) = {i} /\ delivered[i] = Letter(q)
        BY <1>b, <1>f DEF LetterOut
    <3>3. \A i, j \in Letters(q) : i = j
        BY <1>b DEF LetterOut
    <3>4. Letter(q)' = Letter(q) /\ send'[q].pc = l /\ send'[q].why = w
        BY <1>e, <1>f
    <3>5. l # "taken" /\ l \notin {"ready", "resolve", "secret", "build", "dial"}
        BY <1>f
    <3> QED
        BY <1>f, <2>2, <3>1, <3>2, <3>3, <3>4, <3>5 DEF LetterOut
  <2> QED
      BY <1>0, <1>e, <1>f, <2>1, <2>2, <2>3, <2>4, <2>5, OtherCalls DEF settingVars
<1>1. ASSUME NEW offer \in Offered, OpenSession(q, offer) PROVE SubmissionInv'
  <2>0. s.pc = "dial" /\ delivered' = delivered
      BY <1>1 DEF OpenSession
  <2>1. CASE Fail(q, "transport") /\ UNCHANGED shown
    <3>1. SecretsToTheirServer'
        BY <2>1, <1>0 DEF SubmissionInv, SecretsToTheirServer
    <3>2. Goes("failed", "transport") /\ "failed" \in SendPlace
        BY <2>1, <1>d DEF SendPlace
    <3> QED
        BY <2>0, <3>1, <3>2, <1>f DEF Reason
  <2>2. CASE /\ offer \in security(TlsOf[send[q].from])
             /\ shown' = shown \union
                   {[by |-> q, of |-> send[q].password, to |-> send[q].host, account |-> send[q].from,
                     clear |-> Clear(TlsOf[send[q].from], offer)]}
             /\ Step(q, "submit")
    <3>1. s.from \in SenderIds /\ (q \notin crossedEdit => s.password = s.host)
        BY <1>b, <2>0 DEF SenderChosen, SecretOfServer
    <3>2. Clear(TlsOf[s.from], offer) => TlsOf[s.from] = "Plain"
        BY <2>2, <3>1, SubmissionAssumption DEF Clear, security
    <3>3. SecretsToTheirServer'
        BY <2>2, <1>0, <3>1, <3>2 DEF SubmissionInv, SecretsToTheirServer
    <3> QED
        BY <2>0, <2>2, <3>3, <1>c, <1>f, <1>s DEF SendPlace
  <2> QED
      BY <1>1, <2>1, <2>2 DEF OpenSession
<1>2. CASE ServerTakes(q)
  <2>0. s.pc = "submit" /\ delivered' = Append(delivered, Letter(q)) /\ Goes("taken", s.why) /\ shown' = shown
      BY <1>2, <1>c DEF ServerTakes
  <2>t. /\ \A o \in SendRequest \ {q} : send'[o] = send[o]
        /\ send' \in [SendRequest -> S]
        /\ send'[q].pc = "taken" /\ send'[q].why = s.why
        /\ send'[q].compose = s.compose /\ send'[q].account = s.account /\ send'[q].from = s.from
        /\ send'[q].host = s.host /\ send'[q].password = s.password
        /\ Letter(q)' = Letter(q)
    <3>1. "taken" \in SendPlace
        BY DEF SendPlace
    <3> QED
        BY ONLY <1>e, <1>s, <2>0, <3>1
  <2>1. Letter(q) \in Sent /\ Letter(q).by = q
    <3>1. s.compose \in Compose /\ s.from \in Nat
        BY <1>b, <1>0, <2>0 DEF SenderChosen, S
    <3>2. s.compose.attachments \in Seq(Part)
        BY <3>1, SubmissionAssumption DEF Part
    <3>3. Bodies(s.compose) \in Seq(Part) /\ <<"empty">> \in Seq(Part)
      <4>1. s.compose.plain \in BOOLEAN /\ s.compose.html \in BOOLEAN
          BY <3>1, SubmissionAssumption
      <4>2. "plain" \in Part /\ "html" \in Part /\ "empty" \in Part
          BY DEF Part
      <4> QED
          BY <4>1, <4>2 DEF Bodies
    <3>4. finish_message(s.compose) \in Seq(Part)
        BY <3>2, <3>3 DEF finish_message
    <3> QED
        BY <3>1, <3>4 DEF Letter, Sent
  <2>2. /\ delivered' \in Seq(Sent) /\ DOMAIN delivered' = DOMAIN delivered \union {Len(delivered) + 1}
        /\ Len(delivered) + 1 \notin DOMAIN delivered
        /\ delivered'[Len(delivered) + 1] = Letter(q)
        /\ \A i \in DOMAIN delivered : delivered'[i] = delivered[i]
      BY <1>0, <2>0, <2>1, AppendAt DEF SubmissionTyped
  <2>3. SubmissionTyped'
      BY <1>0, <2>t, <2>0, <2>2 DEF SubmissionTyped, settingVars, S
  <2>4. \A o \in SendRequest \ {q} : Letters(o)' = Letters(o)
      BY <2>1, <2>2 DEF Letters
  <2>5. Letters(q) = {}
      BY <1>b, <2>0 DEF LetterOut
  <2>6. Letters(q)' = {Len(delivered) + 1}
    <3>1. delivered'[Len(delivered) + 1].by = q
        BY <2>1, <2>2
    <3>2. \A i \in DOMAIN delivered : delivered'[i].by # q
        BY <2>2, <2>5 DEF Letters
    <3> DEFINE n == Len(delivered) + 1
    <3>3. DOMAIN delivered' = DOMAIN delivered \union {n} /\ delivered'[n].by = q
        BY <2>2, <3>1
    <3> HIDE DEF n
    <3>4. Letters(q)' = {n}
        BY ONLY <3>2, <3>3 DEF Letters
    <3> QED
        BY <3>4 DEF n
  <2>7. send'[q].pc = "taken" /\ Letter(q)' = Letter(q)
      BY ONLY <2>t
  <2>8. LetterOut(q)'
      BY <2>2, <2>6, <2>7 DEF LetterOut
  <2>9. SenderChosen(q)' /\ SecretOfServer(q)'
      BY <1>b, <2>t, <2>0 DEF SenderChosen, SecretOfServer
  <2>10. SecretsToTheirServer'
      BY <1>0, <2>0 DEF SubmissionInv, SecretsToTheirServer
  <2>11. \A o \in SendRequest \ {q} : send'[o] = send[o]
      BY ONLY <2>t
  <2> QED
      BY <1>0, <2>2, <2>3, <2>4, <2>8, <2>9, <2>10, <2>11, OtherCalls DEF settingVars
<1>3. ASSUME shown' = shown PROVE SecretsToTheirServer'
    BY <1>0, <1>3 DEF SubmissionInv, SecretsToTheirServer
<1>4. CASE ServerRefuses(q)
  <2>1. Goes("failed", "refused") /\ "failed" \in SendPlace /\ s.pc \in {"submit", "taken"} /\ delivered' = delivered
        /\ SecretsToTheirServer' /\ ("refused" # "reply_lost" => s.pc = "submit")
      BY <1>4, <1>3, <1>d DEF ServerRefuses, SendPlace
  <2> QED
      BY <2>1, <1>f DEF Reason
<1>5. CASE ReplyArrives(q)
    BY <1>5, <1>3, <1>c, <1>f, <1>s DEF ReplyArrives, SendPlace
<1>6. CASE ReplyLost(q)
  <2>1. Goes("failed", "reply_lost") /\ "failed" \in SendPlace /\ s.pc \in {"submit", "taken"} /\ delivered' = delivered
        /\ SecretsToTheirServer' /\ ("reply_lost" # "reply_lost" => s.pc = "submit")
      BY <1>6, <1>3, <1>d DEF ReplyLost, SendPlace
  <2> QED
      BY <2>1, <1>f DEF Reason
<1>7. CASE Abandon(q)
    BY <1>7, <1>3, <1>c, <1>f, <1>s DEF Abandon, SendPlace
<1> QED
    BY <1>1, <1>2, <1>4, <1>5, <1>6, <1>7

\* An edit of an account marks the calls that are between its two reads.
LEMMA EditKeeps ==
    ASSUME SubmissionInv, NEW a \in SenderIds, RotateSecret(a) \/ SaveRow(a)
    PROVE  SubmissionInv'
<1>0. UNCHANGED <<present, send, delivered, shown>> /\ SubmissionTyped /\ crossedEdit \subseteq crossedEdit'
    BY DEF RotateSecret, SaveRow, SubmissionInv
<1>1. SubmissionTyped'
    BY <1>0 DEF SubmissionTyped, RotateSecret, SaveRow
<1>2. ASSUME NEW q \in SendRequest PROVE SenderChosen(q)' /\ SecretOfServer(q)' /\ LetterOut(q)'
  <2>1. SenderChosen(q) /\ SecretOfServer(q) /\ LetterOut(q)
      BY DEF SubmissionInv
  <2>2. SenderChosen(q)' /\ LetterOut(q)'
      BY <2>1, <1>0 DEF SenderChosen, LetterOut, Letters, Letter
  <2>3. send[q].pc = "secret" => send[q].from \in SenderIds
      BY <2>1 DEF SenderChosen
  <2>4. SecretOfServer(q)'
    <3>1. CASE RotateSecret(a)
        BY <2>1, <2>3, <3>1, <1>0 DEF SecretOfServer, RotateSecret, Holding, SubmissionTyped
    <3>2. CASE SaveRow(a)
        BY <2>1, <3>2, <1>0 DEF SecretOfServer, SaveRow
    <3> QED
        BY <3>1, <3>2
  <2> QED
      BY <2>2, <2>4
<1>3. SecretsToTheirServer'
    BY <1>0 DEF SubmissionInv, SecretsToTheirServer
<1> QED
    BY <1>1, <1>2, <1>3 DEF SubmissionInv

\* Every step keeps the invariant.
LEMMA SubmissionNextInv == SubmissionInv /\ [SubmissionNext]_submissionVars => SubmissionInv'
<1> SUFFICES ASSUME SubmissionInv, [SubmissionNext]_submissionVars PROVE SubmissionInv'
    OBVIOUS
<1>1. CASE UNCHANGED submissionVars
    BY <1>1 DEF submissionVars, SubmissionInv, SubmissionTyped, SenderChosen, SecretOfServer, LetterOut, Letters,
                Letter, SecretsToTheirServer
<1>2. CASE SubmissionNext
    BY <1>2, LookupKeeps, SessionKeeps, EditKeeps DEF SubmissionNext
<1> QED
    BY <1>1, <1>2

\* An attachment stands in the message as often as it was composed, and a
\* body, in front of them, once.
LEMMA PartsComposed ==
    ASSUME NEW c \in Compose
    PROVE  /\ \A x \in {"plain", "html"} : c[x] => Times(x, finish_message(c)) = 1
           /\ \A x \in Range(c.attachments) : Times(x, finish_message(c)) = Times(x, c.attachments)
<1> DEFINE att == c.attachments
           head == IF Bodies(c) = << >> THEN <<"empty">> ELSE Bodies(c)
           n == Len(head)
           parts == finish_message(c)
<1>0. /\ c.plain \in BOOLEAN /\ c.html \in BOOLEAN /\ att \in Seq(Range(att))
      /\ \A i \in DOMAIN att : att[i] \notin {"plain", "html", "empty"}
    BY SubmissionAssumption DEF Range
<1>1. head \in Seq({"plain", "html", "empty"}) /\ n \in 1 .. 2
  <2>1. CASE c.plain /\ c.html
      BY <2>1 DEF Bodies
  <2>2. CASE c.plain /\ ~c.html
      BY <2>2 DEF Bodies
  <2>3. CASE ~c.plain /\ c.html
      BY <2>3 DEF Bodies
  <2>4. CASE ~c.plain /\ ~c.html
      BY <2>4 DEF Bodies
  <2> QED
      BY <1>0, <2>1, <2>2, <2>3, <2>4
<1>2. parts = head \o att
    BY DEF finish_message
<1>3. /\ c.plain => head[1] = "plain" /\ \A i \in DOMAIN head : head[i] = "plain" => i = 1
      /\ c.html => head[n] = "html" /\ \A i \in DOMAIN head : head[i] = "html" => i = n
    BY <1>0 DEF Bodies
<1>4. /\ DOMAIN att = 1 .. Len(att) /\ Len(att) \in Nat
      /\ DOMAIN head = 1 .. n
      /\ DOMAIN parts = 1 .. n + Len(att)
      /\ \A i \in 1 .. n : parts[i] = head[i]
      /\ \A i \in 1 .. Len(att) : parts[n + i] = att[i]
  <2> HIDE DEF head
  <2> QED
      BY <1>0, <1>1, <1>2
<1>5. \A i \in n + 1 .. n + Len(att) : i - n \in DOMAIN att /\ parts[i] = att[i - n]
  <2> HIDE DEF head, parts
  <2>1. ASSUME NEW i \in n + 1 .. n + Len(att) PROVE i - n \in 1 .. Len(att) /\ n + (i - n) = i
      BY <1>1, <1>4
  <2> QED
      BY <2>1, <1>4
<1>6. \A x \in {"plain", "html"} : c[x] => \E k : {i \in DOMAIN parts : parts[i] = x} = {k}
  <2>1. \A i \in DOMAIN parts : i \in DOMAIN head \/ parts[i] \notin {"plain", "html"}
    <3> HIDE DEF head, parts, att
    <3>1. ASSUME NEW i \in DOMAIN parts, i \notin DOMAIN head PROVE parts[i] \notin {"plain", "html"}
      <4>1. i \in n + 1 .. n + Len(att)
          BY <1>1, <1>4, <3>1
      <4> QED
          BY <4>1, <1>0, <1>5
    <3> QED
        BY <3>1
  <2>2. 1 \in DOMAIN parts /\ n \in DOMAIN parts /\ 1 \in DOMAIN head /\ n \in DOMAIN head
    <3> HIDE DEF head, parts
    <3> QED
      BY <1>1, <1>4
  <2> HIDE DEF head, parts, n
  <2>3. c.plain => {i \in DOMAIN parts : parts[i] = "plain"} = {1}
      BY <2>1, <2>2, <1>3, <1>4
  <2>4. c.html => {i \in DOMAIN parts : parts[i] = "html"} = {n}
      BY <2>1, <2>2, <1>3, <1>4
  <2> QED
      BY <2>3, <2>4
<1>7. ASSUME NEW x \in Range(att) PROVE Times(x, parts) = Times(x, att)
  <2> DEFINE A == {i \in DOMAIN att : att[i] = x}
             B == {i \in DOMAIN parts : parts[i] = x}
             f == [i \in A |-> n + i]
  <2> HIDE DEF head, parts
  <2>1. x \notin {"plain", "html", "empty"}
      BY <1>0 DEF Range
  <2>2. \A i \in DOMAIN parts : parts[i] = x => i \in n + 1 .. n + Len(att)
      BY <1>1, <1>4, <2>1
  <2>3. \A i \in A : n + i \in B
      BY <1>1, <1>4
  <2>4. f \in [A -> B] /\ \A i, j \in A : f[i] = f[j] => i = j
      BY <1>1, <1>4, <2>3
  <2>5. \A k \in B : k - n \in A /\ f[k - n] = k
    <3>1. ASSUME NEW k \in B PROVE k - n \in A /\ n + (k - n) = k
        BY <1>1, <1>4, <1>5, <2>2
    <3> QED
        BY <3>1
  <2>6. ExistsBijection(A, B)
    <3>1. f \in Injection(A, B)
        BY <2>4 DEF Injection, IsInjective
    <3>2. f \in Surjection(A, B)
        BY <2>4, <2>5 DEF Surjection
    <3> QED
        BY <3>1, <3>2 DEF ExistsBijection, Bijection
  <2>7. IsFiniteSet(A)
    <3>1. IsFiniteSet(1 .. Len(att)) /\ A \in SUBSET (1 .. Len(att))
        BY <1>4, FS_Interval
    <3> QED
        BY <3>1, FS_Subset
  <2> QED
      BY <2>6, <2>7, FS_Bijection DEF Times
<1>8. \A x \in {"plain", "html"} : c[x] => Times(x, parts) = 1
  <2> HIDE DEF parts
  <2>1. ASSUME NEW x \in {"plain", "html"}, c[x] PROVE Times(x, parts) = 1
    <3>1. PICK k : {i \in DOMAIN parts : parts[i] = x} = {k}
        BY <2>1, <1>6
    <3>2. Cardinality({k}) = 1
        BY FS_Singleton
    <3> QED
        BY <3>1, <3>2 DEF Times
  <2> QED
      BY <2>1
<1> QED
    BY <1>7, <1>8

\* SendMessage: success means exactly one letter, as composed; failure none;
\* and a password goes to its own server only.
LEMMA SubmissionInvSound == SubmissionInv => SubmissionSound
<1> SUFFICES ASSUME SubmissionInv PROVE SubmissionSound
    OBVIOUS
<1>1. SentAsComposed
  <2> SUFFICES ASSUME NEW q \in SendRequest, send[q].pc = "sent"
               PROVE  \E i \in DOMAIN delivered :
                        /\ Letters(q) = {i}
                        /\ send[q].account # AnyAccount => delivered[i].from = send[q].account
                        /\ \A x \in {"plain", "html"} : send[q].compose[x] => Times(x, delivered[i].parts) = 1
                        /\ \A x \in Range(send[q].compose.attachments) :
                              Times(x, delivered[i].parts) = Times(x, send[q].compose.attachments)
      BY DEF SentAsComposed
  <2>1. PICK i \in DOMAIN delivered : Letters(q) = {i} /\ delivered[i] = Letter(q)
      BY DEF SubmissionInv, LetterOut
  <2>2. send[q].compose \in Compose /\ (send[q].account # AnyAccount => send[q].from = send[q].account)
      BY DEF SubmissionInv, SenderChosen
  <2>3. delivered[i].from = send[q].from /\ delivered[i].parts = finish_message(send[q].compose)
      BY <2>1 DEF Letter
  <2> QED
      BY <2>1, <2>2, <2>3, PartsComposed
<1>2. FailedSentNothing
  <2> SUFFICES ASSUME NEW q \in SendRequest
               PROVE  /\ Cardinality(Letters(q)) <= 1
                      /\ send[q].pc = "failed" /\ send[q].why # "reply_lost" => Letters(q) = {}
      BY DEF FailedSentNothing
  <2>1. LetterOut(q)
      BY DEF SubmissionInv
  <2>2. Letters(q) = {} \/ \E i : Letters(q) = {i}
      BY <2>1 DEF LetterOut
  <2>3. Cardinality(Letters(q)) = 0 \/ Cardinality(Letters(q)) = 1
      BY <2>2, FS_EmptySet, FS_Singleton
  <2> QED
      BY <2>1, <2>3 DEF LetterOut
<1> QED
    BY <1>1, <1>2 DEF SubmissionInv, SubmissionSound

\* SendMessage of grpc.rs, whatever fails and whoever edits the account.
THEOREM MailGoesOutOnce == SubmissionInit /\ [][SubmissionNext]_submissionVars => []SubmissionSound
<1> QED
    BY SubmissionInitInv, SubmissionNextInv, SubmissionInvSound, PTL

-----------------------------------------------------------------------------
(* The engine status                                                       *)

\* A status that says Syncing was turned by a sync that still runs, unless a
\* cancelled RPC left it behind; and while nothing is blurred there is one
\* sync at most, so that the one that ends is the one the status is about.
StatusInv ==
    /\ TypeOK
    /\ cancels = 0 /\ status = "Syncing" => \E r \in Runner : Syncing(r)
    /\ ~blurred => \A q, r \in Runner : Syncing(q) /\ Syncing(r) => q = r
    /\ StatusAccurate

\* The daemon starts with no command in any hand.
LEMMA InitType == Init => TypeOK
<1> SUFFICES ASSUME Init PROVE TypeOK
  OBVIOUS
<1>1. /\ pc \in [Runner -> {"idle", "setup", "syncing", "hung"}]
      /\ cmd \in [Runner -> Command \union {None}]
      /\ \A r \in Runner : pc[r] = "idle"
  BY DEF Init, NoRunner
<1>2. queue \in Seq(Command) /\ toSend \subseteq Command /\ owed \subseteq Account
  BY DEF Init
<1>3. blurred \in BOOLEAN
  BY DEF Init
<1> QED
  BY <1>1, <1>2, <1>3 DEF Init, TypeOK

\* A runner that takes up a command keeps the types of what it writes.
LEMMA StartType ==
    ASSUME TypeOK, NEW r \in Runner, NEW c \in Command, Start(r, c), queue' \in Seq(Command)
    PROVE  TypeOK'
<1>1. cmd' \in [Runner -> Command \union {None}] /\ cmd'[r] = c
      /\ \A q \in Runner \ {r} : cmd'[q] = cmd[q]
  BY DEF TypeOK, Start
<1>2. pc' \in [Runner -> {"idle", "setup", "syncing", "hung"}]
      /\ \A q \in Runner \ {r} : pc'[q] = pc[q]
  BY DEF TypeOK, Start, BeginSync
<1>3. status' \in {"Idle", "Syncing"}
  BY DEF TypeOK, Start, BeginSync
<1>4. blurred' \in BOOLEAN
  BY DEF TypeOK, Start, BeginSync
<1> QED
  BY <1>1, <1>2, <1>3, <1>4 DEF TypeOK, Start, budget

\* Every step of the boot, the command loop, the RPCs and a crash keeps the
\* types.
LEMMA NextType == TypeOK /\ [Next]_vars => TypeOK'
<1> SUFFICES ASSUME TypeOK, [Next]_vars PROVE TypeOK'
  OBVIOUS
<1> USE LifecycleAssumption
<1>1. CASE OpenSound
  BY <1>1 DEF TypeOK, OpenSound, budget
<1>2. ASSUME NEW listed \in BOOLEAN, OpenCorrupt(listed) PROVE TypeOK'
  BY <1>2 DEF TypeOK, OpenCorrupt, budget, Command
<1>3. ASSUME NEW c \in toSend, SendResync(c) PROVE TypeOK'
  <2>1. queue' \in Seq(Command)
    BY <1>3 DEF SendResync, TypeOK
  <2> QED
    BY <1>3, <2>1 DEF TypeOK, SendResync, budget
<1>4. CASE Announce
  BY <1>4 DEF TypeOK, Announce, budget
<1>5. CASE Spawn
  BY <1>5 DEF TypeOK, Spawn, budget
<1>6. CASE Serve
  BY <1>6 DEF TypeOK, Serve, budget
<1>7. CASE Recv
  <2>1. Head(queue) \in Command /\ queue' \in Seq(Command) /\ "loop" \in Runner
    BY <1>7 DEF Recv, TypeOK, Runner
  <2> QED
    BY <1>7, <2>1, StartType DEF Recv
<1>8. ASSUME NEW r \in Rpc, NEW c \in Command, SyncRpc(r, c) PROVE TypeOK'
  BY <1>8, StartType DEF SyncRpc, TypeOK, Runner
<1>9. ASSUME NEW r \in Runner, SetupOk(r) PROVE TypeOK'
  <2>1. blurred' \in BOOLEAN
    BY <1>9 DEF SetupOk, BeginSync
  <2> QED
    BY <1>9, <2>1 DEF TypeOK, SetupOk, BeginSync, budget
<1>10. ASSUME NEW r \in Runner, SetupFails(r) PROVE TypeOK'
  BY <1>10 DEF TypeOK, SetupFails, budget
<1>11. ASSUME NEW r \in Runner, CompleteSync(r) PROVE TypeOK'
  BY <1>11 DEF TypeOK, CompleteSync, budget
<1>12. ASSUME NEW r \in Rpc, CancelRpc(r) PROVE TypeOK'
  <2>1. blurred' \in BOOLEAN
    BY <1>12 DEF CancelRpc
  <2> QED
    BY <1>12, <2>1 DEF TypeOK, CancelRpc, Runner
<1>13. ASSUME NEW r \in Runner, FallSilent(r) PROVE TypeOK'
  BY <1>13 DEF TypeOK, FallSilent
<1>14. CASE Crash
  <2>1. /\ pc' \in [Runner -> {"idle", "setup", "syncing", "hung"}]
        /\ cmd' \in [Runner -> Command \union {None}]
        /\ \A r \in Runner : pc'[r] = "idle"
        /\ queue' \in Seq(Command) /\ toSend' \subseteq Command
    BY <1>14 DEF Crash
  <2>2. blurred' \in BOOLEAN
    BY <1>14 DEF Crash
  <2> QED
    BY <1>14, <2>1, <2>2 DEF TypeOK, Crash
<1>15. CASE UNCHANGED vars
  BY <1>15 DEF TypeOK, vars, budget
<1> QED
  BY <1>1, <1>2, <1>3, <1>4, <1>5, <1>6, <1>7, <1>8, <1>9, <1>10, <1>11, <1>12,
     <1>13, <1>14, <1>15 DEF Next, Boot, Run

\* Steps that leave status, runners and cancelled RPCs alone keep the
\* invariant.
LEMMA StatusUntouched ==
    ASSUME StatusInv, TypeOK', UNCHANGED <<status, pc, blurred, cancels>>
    PROVE  StatusInv'
BY DEF StatusInv, StatusAccurate, Syncing

\* A sync that begins turns the status, and is alone unless it blurs it.
LEMMA BeginStatus ==
    ASSUME StatusInv, TypeOK', NEW r \in Runner, BeginSync(r), cancels' = cancels
    PROVE  StatusInv'
<1>1. pc'[r] = "syncing" /\ \A q \in Runner \ {r} : pc'[q] = pc[q]
  BY DEF StatusInv, TypeOK, BeginSync
<1>2. Syncing(r)' /\ \A q \in Runner \ {r} : Syncing(q)' <=> Syncing(q)
  BY <1>1 DEF Syncing
<1>3. status' = "Syncing" /\ (~blurred' => \A q \in Runner : ~Syncing(q))
  BY DEF BeginSync
<1>4. ~blurred' => \A q, p \in Runner : Syncing(q)' /\ Syncing(p)' => q = p
  BY <1>2, <1>3
<1> QED
  BY <1>2, <1>3, <1>4 DEF StatusInv, StatusAccurate

\* A runner that looks up its account, or stops doing so, is not syncing
\* before or after.
LEMMA SetupStatus ==
    ASSUME StatusInv, TypeOK', NEW r \in Runner, NEW l \in {"idle", "setup"},
           pc[r] \in {"idle", "setup"}, pc' = [pc EXCEPT ![r] = l],
           UNCHANGED <<status, blurred, cancels>>
    PROVE  StatusInv'
<1>1. \A q \in Runner : Syncing(q)' <=> Syncing(q)
  BY DEF StatusInv, TypeOK, Syncing
<1> QED
  BY <1>1 DEF StatusInv, StatusAccurate

\* Every step keeps the status invariant.
LEMMA NextStatus == StatusInv /\ [Next]_vars => StatusInv'
<1> SUFFICES ASSUME StatusInv, [Next]_vars PROVE StatusInv'
  OBVIOUS
<1>0. TypeOK /\ TypeOK'
  BY NextType DEF StatusInv
<1> USE <1>0
<1>1. CASE Boot
  BY <1>1, StatusUntouched
     DEF Boot, OpenSound, OpenCorrupt, SendResync, Announce, Spawn, Serve, budget
<1>2. ASSUME NEW r \in Runner, NEW c \in Command, Start(r, c) PROVE StatusInv'
  <2>1. CASE BeginSync(r)
    BY <1>2, <2>1, BeginStatus DEF Start, budget
  <2>2. CASE pc' = [pc EXCEPT ![r] = "setup"] /\ UNCHANGED <<status, blurred>>
    BY <1>2, <2>2, SetupStatus DEF Start, budget
  <2> QED
    BY <1>2, <2>1, <2>2 DEF Start
<1>3. CASE Recv
  <2>1. Head(queue) \in Command /\ "loop" \in Runner
    BY <1>3 DEF Recv, TypeOK, Runner
  <2> QED
    BY <1>2, <1>3, <2>1 DEF Recv
<1>4. ASSUME NEW r \in Rpc, NEW c \in Command, SyncRpc(r, c) PROVE StatusInv'
  BY <1>2, <1>4 DEF SyncRpc, Runner
<1>5. ASSUME NEW r \in Runner, SetupOk(r) PROVE StatusInv'
  BY <1>5, BeginStatus DEF SetupOk, budget
<1>6. ASSUME NEW r \in Runner, SetupFails(r) PROVE StatusInv'
  BY <1>6, SetupStatus DEF SetupFails, budget
<1>7. ASSUME NEW r \in Runner, CompleteSync(r) PROVE StatusInv'
  <2>1. Syncing(r) /\ ~Syncing(r)' /\ \A q \in Runner \ {r} : Syncing(q)' <=> Syncing(q)
    BY <1>7 DEF CompleteSync, TypeOK, Syncing
  <2>2. ~blurred' => ~blurred /\ \A q \in Runner : ~Syncing(q)'
    BY <1>7, <2>1 DEF CompleteSync, StatusInv
  <2> QED
    BY <1>7, <2>1, <2>2 DEF CompleteSync, StatusInv, StatusAccurate, budget
<1>8. ASSUME NEW r \in Rpc, CancelRpc(r) PROVE StatusInv'
  <2>1. cancels' # 0 /\ r \in Runner
    BY <1>8 DEF CancelRpc, TypeOK, Runner
  <2>2. ~Syncing(r)' /\ \A q \in Runner \ {r} : Syncing(q)' <=> Syncing(q)
    BY <1>8, <2>1 DEF CancelRpc, TypeOK, Syncing
  <2>3. ~blurred' => ~blurred /\ ~Syncing(r)
    BY <1>8 DEF CancelRpc
  <2> QED
    BY <1>8, <2>1, <2>2, <2>3 DEF CancelRpc, StatusInv, StatusAccurate
<1>9. ASSUME NEW r \in Runner, FallSilent(r) PROVE StatusInv'
  <2>1. \A q \in Runner : Syncing(q)' <=> Syncing(q)
    BY <1>9 DEF FallSilent, TypeOK, Syncing
  <2> QED
    BY <1>9, <2>1 DEF FallSilent, StatusInv, StatusAccurate
<1>10. CASE Crash
  <2>1. \A q \in Runner : ~Syncing(q)'
    BY <1>10 DEF Crash, Syncing
  <2> QED
    BY <1>10, <2>1 DEF Crash, StatusInv, StatusAccurate
<1>11. CASE UNCHANGED vars
  BY <1>11, StatusUntouched DEF vars, budget
<1> QED
  BY <1>1, <1>3, <1>4, <1>5, <1>6, <1>7, <1>8, <1>9, <1>10, <1>11 DEF Next, Run

\* The engine says Syncing exactly while a sync that nothing disturbs runs,
\* and Idle once the last one has ended unless a Sync RPC was cancelled.
THEOREM StatusTruthful == Spec => []LifecycleInv
<1>1. Init => StatusInv
  <2> SUFFICES ASSUME Init PROVE StatusInv
    OBVIOUS
  <2>1. \A q \in Runner : ~Syncing(q)
    BY DEF Init, NoRunner, Syncing
  <2> QED
    BY <2>1, InitType DEF Init, StatusInv, StatusAccurate
<1>2. StatusInv => LifecycleInv
  BY DEF StatusInv, LifecycleInv, IdleWhenQuietUnlessCancelled, TypeOK
<1> QED
  BY <1>1, <1>2, NextStatus, PTL DEF Spec
=============================================================================
