---------------------------- MODULE LedgerProofs ----------------------------
(***************************************************************************)
(* Both ledgers for any number of exports, entries and failures: the audit *)
(* ledger verifies and implements the abstract append-only one, the        *)
(* execution log verifies where its appends do not overlap, and a record   *)
(* that was altered is the one the verification names.                     *)
(***************************************************************************)
EXTENDS Ledger, FiniteSetTheorems, TLAPS

\* What WormInv needs besides itself: sequences are positive integers, and
\* there are locals for every export.
WormShape ==
    /\ DOMAIN worm \subseteq Nat \ {0}
    /\ DOMAIN exporting = Exporter

WormIndInv == WormShape /\ WormInv

\* Every link and every seal of a ledger that WormInv describes is right, so
\* verify_worm_audit_chain_report finds nothing.
LEMMA ChainedVerifies == WormIndInv => WormChainVerifies
<1> SUFFICES ASSUME WormIndInv, altered = {}
             PROVE  Broken = {}
    BY DEF WormChainVerifies, verify_worm_audit_chain_report
<1>1. \A n \in DOMAIN worm : ~BrokenSeal(n)
    BY DEF WormIndInv, WormInv, ChainedRecord, BrokenSeal
<1>2. ASSUME NEW n \in DOMAIN worm
      PROVE  ~BrokenLink(n)
  <2>1. n \in Nat \ {0} /\ \A k \in DOMAIN worm : k \in Nat \ {0}
      BY DEF WormIndInv, WormShape
  <2>2. n = 1 \/ n - 1 \in Before(n)
      BY <2>1 DEF WormIndInv, WormInv, Before
  <2>3. Before(n) = {} => worm[n].prev = GENESIS
      BY <2>2 DEF WormIndInv, WormInv, ChainedRecord
  <2>4. ASSUME NEW k \in Before(n), \A j \in Before(n) : j <= k
        PROVE  worm[n].prev = worm[k].hmac
    <3>1. n # 1 /\ k = n - 1
        BY <2>1, <2>2, <2>4 DEF Before
    <3> QED
        BY <3>1 DEF WormIndInv, WormInv, ChainedRecord
  <2> QED
      BY <2>3, <2>4 DEF BrokenLink
<1> QED
    BY <1>1, <1>2 DEF Broken, Listed

LEMMA InitWorm == Init => WormIndInv
BY DEF Init, WormIndInv, WormShape, WormInv, ChainedRecord, PendingSeq, PendingLink, AtRest

\* A step that leaves the records alone keeps the invariant if it gives no
\* export a pending append that WormInv does not allow.
LEMMA LocalsChange ==
    ASSUME WormIndInv, UNCHANGED <<worm, altered>>,
           NEW e \in Exporter, NEW l, exporting' = [exporting EXCEPT ![e] = l],
           PendingSeq(l), altered = {} => PendingLink(l)
    PROVE  WormIndInv'
BY DEF WormIndInv, WormShape, WormInv, ChainedRecord, PendingSeq, PendingLink

\* The new record is linked to the last one, and what others are about to
\* append stays linked or has become a conflict.
LEMMA InsertKeepsWorm ==
    ASSUME WormIndInv, NEW e \in Exporter, InsertRecord(e)
    PROVE  WormIndInv'
<1>0. PICK n : n = exporting[e].seq
    OBVIOUS
<1>1. PICK x \in exporting[e].item :
          worm' = [k \in DOMAIN worm \union {n} |->
                     IF k = n THEN create_signed(n, x, exporting[e].prev) ELSE worm[k]]
    BY <1>0 DEF InsertRecord
<1>2. /\ exporting[e].pc = "insert" /\ n \notin DOMAIN worm
      /\ exporting' = [exporting EXCEPT ![e] = AtRest] /\ altered' = altered
    BY <1>0 DEF InsertRecord, Report
<1>3. n \in Nat \ {0} /\ (n = 1 \/ n - 1 \in DOMAIN worm)
    BY <1>0, <1>2 DEF WormIndInv, WormInv, PendingSeq
<1>4. DOMAIN worm' = DOMAIN worm \union {n} /\ \A k \in DOMAIN worm : worm'[k] = worm[k]
    BY <1>1, <1>2
<1>5. \A f \in Exporter : exporting'[f] = IF f = e THEN AtRest ELSE exporting[f]
    BY <1>2 DEF WormIndInv, WormShape
<1>6. WormShape'
    BY <1>2, <1>3, <1>4 DEF WormIndInv, WormShape
<1>7. \A k \in DOMAIN worm' : k = 1 \/ k - 1 \in DOMAIN worm'
    BY <1>3, <1>4 DEF WormIndInv, WormInv
<1>8. \A f \in Exporter : PendingSeq(exporting[f])'
    BY <1>4, <1>5 DEF WormIndInv, WormInv, PendingSeq, AtRest
<1>9. ASSUME altered = {}
      PROVE  /\ \A k \in DOMAIN worm' : ChainedRecord(k)'
             /\ \A f \in Exporter : PendingLink(exporting[f])'
  <2>1. exporting[e].prev = IF n = 1 THEN GENESIS ELSE worm[n - 1].hmac
      BY <1>0, <1>2, <1>9 DEF WormIndInv, WormInv, PendingLink
  <2>2. worm'[n] = create_signed(n, x, exporting[e].prev)
      BY <1>1
  <2>3. n # 1 => worm'[n - 1] = worm[n - 1]
      BY <1>3, <1>4
  <2>4. ChainedRecord(n)'
      BY <2>1, <2>2, <2>3 DEF ChainedRecord, create_signed
  <2>5. ASSUME NEW k \in DOMAIN worm
        PROVE  ChainedRecord(k)'
    <3>1. ChainedRecord(k) /\ (k = 1 \/ k - 1 \in DOMAIN worm)
        BY <1>9 DEF WormIndInv, WormInv
    <3>2. worm'[k] = worm[k] /\ (k # 1 => worm'[k - 1] = worm[k - 1])
        BY <1>4, <3>1
    <3> QED
        BY <3>1, <3>2 DEF ChainedRecord
  <2>6. ASSUME NEW f \in Exporter
        PROVE  PendingLink(exporting[f])'
    <3>1. PendingSeq(exporting[f]) /\ PendingLink(exporting[f])
        BY <1>9 DEF WormIndInv, WormInv
    <3> QED
        BY <1>4, <1>5, <3>1 DEF PendingSeq, PendingLink, AtRest
  <2> QED
      BY <1>4, <2>4, <2>5, <2>6
<1> QED
    BY <1>2, <1>6, <1>7, <1>8, <1>9 DEF WormIndInv, WormInv

LEMMA NextKeepsWorm == WormIndInv /\ [Next]_vars => WormIndInv'
<1> SUFFICES ASSUME WormIndInv, [Next]_vars
             PROVE  WormIndInv'
    OBVIOUS
<1>1. ASSUME NEW a \in Appender, NEW x \in Item, ReadLastHash(a, x)
      PROVE  WormIndInv'
    BY <1>1 DEF ReadLastHash, wormVars, WormIndInv, WormShape, WormInv, ChainedRecord, PendingSeq, PendingLink
<1>2. ASSUME NEW a \in Appender, InsertLog(a) \/ InsertLogFails(a)
      PROVE  WormIndInv'
    BY <1>2 DEF InsertLog, InsertLogFails, wormVars, WormIndInv, WormShape, WormInv,
                ChainedRecord, PendingSeq, PendingLink
<1>3. ASSUME NEW e \in Exporter, NEW x \in Item, ReadLastRecord(e, x)
      PROVE  WormIndInv'
  <2>1. UNCHANGED <<worm, altered>>
      BY <1>3 DEF ReadLastRecord
  <2>2. CASE exporting' = [exporting EXCEPT ![e] =
                  [pc |-> "insert", item |-> {x}, seq |-> 1, prev |-> GENESIS]]
    <3> DEFINE l == [pc |-> "insert", item |-> {x}, seq |-> 1, prev |-> GENESIS]
    <3>1. PendingSeq(l) /\ PendingLink(l)
        BY DEF PendingSeq, PendingLink
    <3> QED
        BY <2>1, <2>2, <3>1, LocalsChange
  <2>3. ASSUME NEW n \in DOMAIN worm,
               exporting' = [exporting EXCEPT ![e] =
                     [pc |-> "insert", item |-> {x}, seq |-> n + 1, prev |-> worm[n].hmac]]
        PROVE  WormIndInv'
    <3>1. n \in Nat \ {0}
        BY DEF WormIndInv, WormShape
    <3> DEFINE l == [pc |-> "insert", item |-> {x}, seq |-> n + 1, prev |-> worm[n].hmac]
    <3>2. PendingSeq(l) /\ PendingLink(l)
        BY <3>1 DEF PendingSeq, PendingLink
    <3> QED
        BY <2>1, <2>3, <3>2, LocalsChange
  <2> QED
      BY <1>3, <2>2, <2>3 DEF ReadLastRecord
<1>4. ASSUME NEW e \in Exporter, InsertRecord(e)
      PROVE  WormIndInv'
    BY <1>4, InsertKeepsWorm
<1>5. ASSUME NEW e \in Exporter, InsertConflicts(e) \/ AppendFails(e) \/ ExportDropped(e)
      PROVE  WormIndInv'
  <2>1. UNCHANGED <<worm, altered>> /\ exporting' = [exporting EXCEPT ![e] = AtRest]
      BY <1>5 DEF InsertConflicts, AppendFails, ExportDropped, Report
  <2>2. PendingSeq(AtRest) /\ PendingLink(AtRest)
      BY DEF PendingSeq, PendingLink, AtRest
  <2> QED
      BY <2>1, <2>2, LocalsChange
<1>6. ASSUME NEW n \in DOMAIN worm, NEW x \in Item, Alter(n, x)
      PROVE  WormIndInv'
  <2>1. altered' # {} /\ exporting' = exporting /\ DOMAIN worm' = DOMAIN worm
      BY <1>6 DEF Alter
  <2> QED
      BY <2>1 DEF WormIndInv, WormShape, WormInv, PendingSeq
<1>7. CASE UNCHANGED vars
    BY <1>7 DEF vars, wormVars, WormIndInv, WormShape, WormInv, ChainedRecord, PendingSeq, PendingLink
<1> QED
    BY <1>1, <1>2, <1>3, <1>4, <1>5, <1>6, <1>7 DEF Next

\* append_worm_audit_record: for any number of concurrent exports, failures
\* and dropped requests the audit ledger verifies as long as nobody else
\* changes it.
THEOREM AuditChainVerifies == Spec => []WormChainVerifies
<1> QED
    BY InitWorm, NextKeepsWorm, ChainedVerifies, PTL DEF Spec

-----------------------------------------------------------------------------
(* The audit ledger is append-only for its readers.                        *)

\* What a record or a pending append says is one of the items.
ItemsTyped ==
    /\ \A e \in Exporter : exporting[e].item \subseteq Item
    /\ \A n \in DOMAIN worm : "item" \in DOMAIN worm[n] /\ worm[n].item \in Item

RefInv == WormIndInv /\ ItemsTyped

LEMMA InitItems == Init => ItemsTyped
BY DEF Init, ItemsTyped, AtRest

\* Altering one column leaves a record that says what it said or what the
\* alteration wrote.
LEMMA AlteredItem ==
    ASSUME ItemsTyped, NEW n \in DOMAIN worm, NEW x, Alter(n, x)
    PROVE  \A k \in DOMAIN worm :
               "item" \in DOMAIN worm'[k] /\ worm'[k].item \in {x, worm[k].item}
<1>1. CASE worm' = [worm EXCEPT ![n].item = x]
    BY <1>1 DEF ItemsTyped
<1>2. CASE worm' = [worm EXCEPT ![n].prev = GENESIS]
    BY <1>2 DEF ItemsTyped
<1>3. CASE worm' = [worm EXCEPT ![n].hmac = GENESIS]
    BY <1>3 DEF ItemsTyped
<1> QED
    BY <1>1, <1>2, <1>3 DEF Alter

LEMMA NextKeepsItems == RefInv /\ [Next]_vars => ItemsTyped'
<1> SUFFICES ASSUME RefInv, [Next]_vars
             PROVE  ItemsTyped'
    OBVIOUS
<1>0. DOMAIN exporting = Exporter
    BY DEF RefInv, WormIndInv, WormShape
<1>1. ASSUME NEW a \in Appender,
             (\E x \in Item : ReadLastHash(a, x)) \/ InsertLog(a) \/ InsertLogFails(a)
      PROVE  ItemsTyped'
    BY <1>1 DEF ReadLastHash, InsertLog, InsertLogFails, wormVars, RefInv, ItemsTyped
<1>2. ASSUME NEW e \in Exporter, NEW x \in Item, ReadLastRecord(e, x)
      PROVE  ItemsTyped'
  <2>1. worm' = worm
      BY <1>2 DEF ReadLastRecord
  <2>2. PICK l : l.item = {x} /\ exporting' = [exporting EXCEPT ![e] = l]
      BY <1>2 DEF ReadLastRecord
  <2> QED
      BY <1>0, <2>1, <2>2 DEF RefInv, ItemsTyped
<1>3. ASSUME NEW e \in Exporter,
             InsertConflicts(e) \/ AppendFails(e) \/ ExportDropped(e)
      PROVE  ItemsTyped'
  <2>1. worm' = worm /\ exporting' = [exporting EXCEPT ![e] = AtRest]
      BY <1>3 DEF InsertConflicts, AppendFails, ExportDropped, Report
  <2> QED
      BY <1>0, <2>1 DEF RefInv, ItemsTyped, AtRest
<1>4. ASSUME NEW e \in Exporter, InsertRecord(e)
      PROVE  ItemsTyped'
  <2>0. PICK n : n = exporting[e].seq
      OBVIOUS
  <2>1. PICK x \in exporting[e].item :
            worm' = [k \in DOMAIN worm \union {n} |->
                       IF k = n THEN create_signed(n, x, exporting[e].prev) ELSE worm[k]]
      BY <1>4, <2>0 DEF InsertRecord
  <2>2. exporting' = [exporting EXCEPT ![e] = AtRest]
      BY <1>4 DEF InsertRecord, Report
  <2>3. /\ x \in Item /\ create_signed(n, x, exporting[e].prev).item = x
        /\ "item" \in DOMAIN create_signed(n, x, exporting[e].prev)
      BY DEF RefInv, ItemsTyped, create_signed
  <2>4. \A k \in DOMAIN worm' : "item" \in DOMAIN worm'[k] /\ worm'[k].item \in Item
      BY <2>1, <2>3 DEF RefInv, ItemsTyped
  <2> QED
      BY <1>0, <2>2, <2>4 DEF RefInv, ItemsTyped, AtRest
<1>5. ASSUME NEW n \in DOMAIN worm, NEW x \in Item, Alter(n, x)
      PROVE  ItemsTyped'
  <2>1. exporting' = exporting /\ DOMAIN worm' = DOMAIN worm
      BY <1>5 DEF Alter
  <2>2. \A k \in DOMAIN worm :
            "item" \in DOMAIN worm'[k] /\ worm'[k].item \in {x, worm[k].item}
      BY <1>5, AlteredItem DEF RefInv
  <2> QED
      BY <2>1, <2>2 DEF RefInv, ItemsTyped
<1>6. CASE UNCHANGED vars
    BY <1>6 DEF vars, wormVars, RefInv, ItemsTyped
<1> QED
    BY <1>1, <1>2, <1>3, <1>4, <1>5, <1>6 DEF Next

\* A step that keeps the records and the marks is a stutter of the abstract
\* ledger.
LEMMA Stutters ==
    UNCHANGED <<worm, altered>> =>
        UNCHANGED <<[n \in DOMAIN worm |-> worm[n].item], altered>>
OBVIOUS

LEMMA InsertAdds ==
    ASSUME RefInv, NEW e \in Exporter, InsertRecord(e)
    PROVE  Worm!Add
<1>0. PICK n : n = exporting[e].seq
    OBVIOUS
<1>1. PICK x \in exporting[e].item :
          worm' = [k \in DOMAIN worm \union {n} |->
                     IF k = n THEN create_signed(n, x, exporting[e].prev) ELSE worm[k]]
    BY <1>0 DEF InsertRecord
<1>2. n \notin DOMAIN worm /\ altered' = altered /\ exporting[e].pc = "insert"
    BY <1>0 DEF InsertRecord
<1>3. n = 1 \/ n - 1 \in DOMAIN worm
    BY <1>0, <1>2 DEF RefInv, WormIndInv, WormInv, PendingSeq
<1>4. x \in Item /\ create_signed(n, x, exporting[e].prev).item = x
    BY DEF RefInv, ItemsTyped, create_signed
<1>5. DOMAIN worm' = DOMAIN worm \union {n} /\ worm'[n].item = x
      /\ \A k \in DOMAIN worm : worm'[k] = worm[k]
    BY <1>1, <1>2, <1>4
<1> QED
    BY <1>2, <1>3, <1>4, <1>5 DEF Worm!Add

LEMMA AlterTampers ==
    ASSUME RefInv, NEW n \in DOMAIN worm, NEW x \in Item, Alter(n, x)
    PROVE  Worm!Tamper
<1>1. altered' = altered \union {n} /\ DOMAIN worm' = DOMAIN worm
    BY DEF Alter
<1>2. \A k \in DOMAIN worm \ {n} : worm'[k] = worm[k]
    BY DEF Alter
<1>3. worm'[n].item \in Item
    BY AlteredItem DEF RefInv, ItemsTyped
<1> QED
    BY <1>1, <1>2, <1>3 DEF Worm!Tamper

LEMMA NextImplements == RefInv /\ [Next]_vars =>
                            [Worm!Next]_<<[n \in DOMAIN worm |-> worm[n].item], altered>>
<1> SUFFICES ASSUME RefInv, [Next]_vars, ~UNCHANGED <<worm, altered>>
             PROVE  Worm!Next
    BY Stutters
<1>1. \/ \E e \in Exporter : InsertRecord(e)
      \/ \E n \in DOMAIN worm, x \in Item : Alter(n, x)
    BY DEF Next, ReadLastHash, InsertLog, InsertLogFails, ReadLastRecord,
           InsertConflicts, AppendFails, ExportDropped, vars, wormVars
<1> QED
    BY <1>1, InsertAdds, AlterTampers DEF Worm!Next

\* append_worm_audit_record: for any number of concurrent exports the audit
\* ledger is an append-only one to its readers.
THEOREM AuditLedgerAppends == Spec => ImplementsAppendOnly
<1>1. Init => Worm!Init
    BY DEF Init, Worm!Init
<1> QED
    BY <1>1, InitWorm, NextKeepsWorm, InitItems, NextKeepsItems, NextImplements, PTL
    DEF Spec, RefInv, ImplementsAppendOnly, Worm!Spec
-----------------------------------------------------------------------------
(* The execution log verifies while one sync run appends to it, and every  *)
(* variable has its type.                                                  *)

\* The log is a sequence, each row is linked to the one before and sealed,
\* and what the one appender has read is still the last row.
LogInv ==
    /\ \E S : log \in Seq(S)
    /\ \A i \in 1..Len(log) : log[i].item \in Item
    /\ DOMAIN appending = Appender
    /\ \A a \in Appender :
          /\ appending[a].pc \in {"idle", "insert"}
          /\ appending[a].item \subseteq Item
          /\ appending[a].seq = 0
          /\ appending[a].pc = "insert" => appending[a].prev = LastHash
    /\ LogChainVerifies

LEMMA InitLog == Init => LogInv
<1> SUFFICES ASSUME Init PROVE LogInv
    OBVIOUS
<1>1. log = << >> /\ log \in Seq({}) /\ Len(log) = 0
    BY DEF Init
<1>2. \A a \in Appender : appending[a] = AtRest
    BY DEF Init
<1> QED
    BY <1>1, <1>2 DEF Init, LogInv, AtRest, LogChainVerifies, verify_execution_log_chain

\* A row linked to the last one and sealed extends a log that verifies.
LEMMA InsertExtends ==
    ASSUME NEW S, log \in Seq(S), LogChainVerifies, NEW x \in Item,
           \A i \in 1..Len(log) : log[i].item \in Item,
           log' = Append(log, [item |-> x, prev |-> LastHash, hash |-> compute_log_hash(LastHash, x)])
    PROVE  /\ \E T : log' \in Seq(T)
           /\ \A i \in 1..Len(log') : log'[i].item \in Item
           /\ LogChainVerifies'
<1> DEFINE e == [item |-> x, prev |-> LastHash, hash |-> compute_log_hash(LastHash, x)]
<1>1. e.item = x /\ e.prev = LastHash /\ e.hash = compute_log_hash(LastHash, x)
    OBVIOUS
<1> HIDE DEF e
<1>2. log \in Seq(S \union {e}) /\ log' = Append(log, e)
    BY DEF e
<1>3. /\ log' \in Seq(S \union {e}) /\ Len(log') = Len(log) + 1 /\ Len(log) \in Nat
      /\ \A i \in 1..Len(log) : log'[i] = log[i]
      /\ log'[Len(log) + 1] = e
    BY <1>2
<1>4. \A i \in 1..Len(log') : log'[i].item \in Item
    BY <1>1, <1>3
<1>5. ASSUME NEW i \in 1..Len(log')
      PROVE  /\ log'[i].prev = IF i = 1 THEN GENESIS ELSE log'[i - 1].hash
             /\ log'[i].hash = compute_log_hash(log'[i].prev, log'[i].item)
  <2>1. CASE i \in 1..Len(log)
    <3>1. log'[i] = log[i] /\ (i # 1 => log'[i - 1] = log[i - 1])
        BY <1>3, <2>1
    <3> QED
        BY <2>1, <3>1 DEF LogChainVerifies, verify_execution_log_chain
  <2>2. CASE i = Len(log) + 1
    <3>1. log'[i] = e /\ (i # 1 => log'[i - 1] = log[Len(log)] /\ log # << >>)
        BY <1>3, <2>2
    <3>2. i = 1 => log = << >>
        BY <1>2, <1>3, <2>2
    <3> QED
        BY <1>1, <3>1, <3>2 DEF LastHash
  <2> QED
      BY <1>3, <2>1, <2>2
<1> QED
    BY <1>3, <1>4, <1>5 DEF LogChainVerifies, verify_execution_log_chain

\* With one sync run at a time nothing comes between the read of the last row
\* and the insert behind it.
LEMMA NextKeepsLog ==
    ASSUME \A a, b \in Appender : a = b, LogInv, [Next]_vars
    PROVE  LogInv'
<1>0. PICK S : log \in Seq(S)
    BY DEF LogInv
<1>1. CASE UNCHANGED logVars
    BY <1>1 DEF logVars, LogInv, LastHash, LogChainVerifies, verify_execution_log_chain
<1>2. ASSUME NEW a \in Appender, NEW x \in Item, ReadLastHash(a, x)
      PROVE  LogInv'
  <2>1. log' = log /\ DOMAIN appending' = Appender /\ LastHash' = LastHash
      BY <1>2 DEF ReadLastHash, LogInv, LastHash
  <2>2. appending'[a] = [pc |-> "insert", item |-> {x}, seq |-> 0, prev |-> LastHash]
      BY <1>2 DEF ReadLastHash, LogInv
  <2>3. \A b \in Appender :
            /\ appending'[b].pc = "insert" /\ appending'[b].item = {x}
            /\ appending'[b].seq = 0 /\ appending'[b].prev = LastHash
      BY <2>2
  <2> QED
      BY <2>1, <2>3 DEF LogInv, LogChainVerifies, verify_execution_log_chain
<1>3. ASSUME NEW a \in Appender, InsertLog(a) \/ InsertLogFails(a)
      PROVE  LogInv'
  <2>1. appending' = [appending EXCEPT ![a] = AtRest]
      BY <1>3 DEF InsertLog, InsertLogFails
  <2>2. DOMAIN appending' = Appender /\ \A b \in Appender : appending'[b] = AtRest
      BY <2>1 DEF LogInv
  <2>3. CASE InsertLogFails(a)
    <3>1. log' = log
        BY <2>3 DEF InsertLogFails
    <3> QED
        BY <2>2, <3>1 DEF LogInv, AtRest, LogChainVerifies, verify_execution_log_chain
  <2>4. CASE InsertLog(a)
    <3>1. appending[a].prev = LastHash /\ appending[a].item \subseteq Item
        BY <2>4 DEF InsertLog, LogInv
    <3>2. PICK x \in Item :
              log' = Append(log, [item |-> x, prev |-> LastHash, hash |-> compute_log_hash(LastHash, x)])
        BY <2>4, <3>1 DEF InsertLog
    <3>3. /\ \E T : log' \in Seq(T)
          /\ \A i \in 1..Len(log') : log'[i].item \in Item
          /\ LogChainVerifies'
        BY <1>0, <3>2, InsertExtends DEF LogInv
    <3> QED
        BY <2>2, <3>3 DEF LogInv, AtRest
  <2> QED
      BY <1>3, <2>3, <2>4
<1>4. ASSUME NEW e \in Exporter,
             \/ \E x \in Item : ReadLastRecord(e, x)
             \/ InsertRecord(e) \/ InsertConflicts(e) \/ AppendFails(e) \/ ExportDropped(e)
      PROVE  UNCHANGED logVars
    BY <1>4 DEF ReadLastRecord, InsertRecord, InsertConflicts, AppendFails, ExportDropped
<1>5. ASSUME NEW n \in DOMAIN worm, NEW x \in Item, Alter(n, x)
      PROVE  UNCHANGED logVars
    BY <1>5 DEF Alter
<1>6. CASE UNCHANGED vars
    BY <1>1, <1>6 DEF vars
<1> QED
    BY <1>1, <1>2, <1>3, <1>4, <1>5, <1>6 DEF Next

\* What TypeOK says besides the items and the log.
RestTyped ==
    /\ \A e \in Exporter : exporting[e].pc \in {"idle", "insert"} /\ exporting[e].seq \in Nat
    /\ exports \subseteq Item
    /\ altered \subseteq DOMAIN worm
    /\ faults \in Nat

LEMMA InitRest == Init => RestTyped
BY DEF Init, RestTyped, AtRest

LEMMA NextKeepsRest == RefInv /\ RestTyped /\ [Next]_vars => RestTyped'
<1> SUFFICES ASSUME RefInv, RestTyped, [Next]_vars
             PROVE  RestTyped'
    OBVIOUS
<1>0. DOMAIN exporting = Exporter /\ DOMAIN worm \subseteq Nat \ {0}
    BY DEF RefInv, WormIndInv, WormShape
<1>1. ASSUME NEW a \in Appender,
             (\E x \in Item : ReadLastHash(a, x)) \/ InsertLog(a) \/ InsertLogFails(a)
      PROVE  RestTyped'
    BY <1>1 DEF ReadLastHash, InsertLog, InsertLogFails, wormVars, RestTyped, Fault
<1>2. ASSUME NEW e \in Exporter, NEW x \in Item, ReadLastRecord(e, x)
      PROVE  RestTyped'
  <2>1. UNCHANGED <<worm, exports, altered, faults>>
      BY <1>2 DEF ReadLastRecord
  <2>2. PICK l : l.pc = "insert" /\ l.seq \in Nat /\ exporting' = [exporting EXCEPT ![e] = l]
    <3>1. CASE exporting' = [exporting EXCEPT ![e] =
                  [pc |-> "insert", item |-> {x}, seq |-> 1, prev |-> GENESIS]]
        BY <3>1
    <3>2. ASSUME NEW n \in DOMAIN worm,
                 exporting' = [exporting EXCEPT ![e] =
                     [pc |-> "insert", item |-> {x}, seq |-> n + 1, prev |-> worm[n].hmac]]
          PROVE  \E l : l.pc = "insert" /\ l.seq \in Nat /\ exporting' = [exporting EXCEPT ![e] = l]
      <4> DEFINE l == [pc |-> "insert", item |-> {x}, seq |-> n + 1, prev |-> worm[n].hmac]
      <4>1. l.pc = "insert" /\ l.seq = n + 1 /\ n + 1 \in Nat
          BY <1>0
      <4> HIDE DEF l
      <4>2. exporting' = [exporting EXCEPT ![e] = l]
          BY <3>2 DEF l
      <4> QED
          BY <4>1, <4>2
    <3> QED
        BY <1>2, <3>1, <3>2 DEF ReadLastRecord
  <2> QED
      BY <1>0, <2>1, <2>2 DEF RestTyped
<1>3. ASSUME NEW e \in Exporter,
             InsertRecord(e) \/ InsertConflicts(e) \/ AppendFails(e) \/ ExportDropped(e)
      PROVE  RestTyped'
  <2>1. /\ exporting' = [exporting EXCEPT ![e] = AtRest]
        /\ exports' \in {exports, exports \union exporting[e].item}
        /\ altered' = altered /\ faults' \in {faults, faults + 1}
      BY <1>3 DEF InsertRecord, InsertConflicts, AppendFails, ExportDropped, Report, Fault
  <2>2. exporting[e].item \subseteq Item
      BY DEF RefInv, ItemsTyped
  <2>3. DOMAIN worm \subseteq DOMAIN worm'
    <3>1. CASE InsertRecord(e)
        BY <3>1 DEF InsertRecord
    <3>2. CASE worm' = worm
        BY <3>2
    <3> QED
        BY <1>3, <3>1, <3>2 DEF InsertConflicts, AppendFails, ExportDropped
  <2> QED
      BY <1>0, <2>1, <2>2, <2>3 DEF RestTyped, AtRest
<1>4. ASSUME NEW n \in DOMAIN worm, NEW x \in Item, Alter(n, x)
      PROVE  RestTyped'
  <2>1. /\ UNCHANGED <<exporting, exports, faults>> /\ DOMAIN worm' = DOMAIN worm
        /\ altered' = altered \union {n}
      BY <1>4 DEF Alter
  <2> QED
      BY <2>1 DEF RestTyped
<1>5. CASE UNCHANGED vars
    BY <1>5 DEF vars, wormVars, RestTyped
<1> QED
    BY <1>1, <1>2, <1>3, <1>4, <1>5 DEF Next

\* The parts add up to LedgerInv.
LEMMA LedgerParts == RefInv /\ RestTyped /\ LogInv => LedgerInv
<1> SUFFICES ASSUME RefInv, RestTyped, LogInv
             PROVE  TypeOK /\ WormInv /\ LogChainVerifies
    BY DEF LedgerInv
<1>1. ASSUME NEW l, l.pc \in {"idle", "insert"}, l.item \subseteq Item, l.seq \in Nat
      PROVE  Restrict(l, {"pc", "item", "seq"}) \in Locals
    BY <1>1 DEF Restrict, Locals
<1>2. \A a \in Appender : Restrict(appending[a], {"pc", "item", "seq"}) \in Locals
    BY <1>1 DEF LogInv
<1>3. \A e \in Exporter : Restrict(exporting[e], {"pc", "item", "seq"}) \in Locals
    BY <1>1 DEF RefInv, ItemsTyped, RestTyped
<1> QED
    BY <1>2, <1>3 DEF RefInv, WormIndInv, WormShape, ItemsTyped, RestTyped, LogInv, TypeOK

\* save_filter_execution_log and append_worm_audit_record: with one sync run
\* at a time, and any number of exports, failures and alterations, both
\* ledgers stay chained and the execution log verifies.
THEOREM LedgersStayChained == (\A a, b \in Appender : a = b) /\ Spec => []LedgerInv
<1> SUFFICES ASSUME \A a, b \in Appender : a = b
             PROVE  Spec => []LedgerInv
    OBVIOUS
<1> DEFINE I == RefInv /\ RestTyped /\ LogInv
<1>1. Init => I
    BY InitWorm, InitItems, InitRest, InitLog DEF RefInv
<1>2. I /\ [Next]_vars => I'
    BY NextKeepsWorm, NextKeepsItems, NextKeepsRest, NextKeepsLog DEF RefInv
<1>3. I => LedgerInv
    BY LedgerParts
<1> QED
    BY <1>1, <1>2, <1>3, PTL DEF Spec

-----------------------------------------------------------------------------
(* An alteration is reported where it was made.                            *)

\* The sequences are those of a prefix of the naturals, each record has its
\* three columns, and if one was altered, its link or its seal is wrong and
\* every record before it is as it was written.
Dense == \E k \in Nat : k <= MaxEntries /\ DOMAIN worm = 1..k

Columns == \A n \in DOMAIN worm : {"item", "prev", "hmac"} \subseteq DOMAIN worm[n]

FirstAltered(n) ==
    /\ n \in DOMAIN worm
    /\ altered = {n}
    /\ \A k \in DOMAIN worm : k < n => ChainedRecord(k)
    /\ ~ChainedRecord(n)

AlterInv == Dense /\ Columns /\ (altered = {} \/ \E n \in DOMAIN worm : FirstAltered(n))

LEMMA InitAlter == Init => AlterInv
<1> SUFFICES ASSUME Init PROVE AlterInv
    OBVIOUS
<1>1. DOMAIN worm = 1..0 /\ DOMAIN worm = {} /\ altered = {}
    BY DEF Init
<1>2. 0 <= MaxEntries
    BY LedgerAssumption
<1> QED
    BY <1>1, <1>2 DEF AlterInv, Dense, Columns

LEMMA InsertKeepsAlter ==
    ASSUME RefInv, AlterInv, NEW e \in Exporter, InsertRecord(e)
    PROVE  AlterInv'
<1>0. PICK n : n = exporting[e].seq
    OBVIOUS
<1>1. PICK x \in exporting[e].item :
          worm' = [k \in DOMAIN worm \union {n} |->
                     IF k = n THEN create_signed(n, x, exporting[e].prev) ELSE worm[k]]
    BY <1>0 DEF InsertRecord
<1>2. n \notin DOMAIN worm /\ n <= MaxEntries /\ altered' = altered /\ exporting[e].pc = "insert"
    BY <1>0 DEF InsertRecord
<1>3. n \in Nat \ {0} /\ (n = 1 \/ n - 1 \in DOMAIN worm)
    BY <1>0, <1>2 DEF RefInv, WormIndInv, WormInv, PendingSeq
<1>4. PICK k \in Nat : k <= MaxEntries /\ DOMAIN worm = 1..k
    BY DEF AlterInv, Dense
<1>5. n = k + 1
    BY <1>2, <1>3, <1>4
<1>6. DOMAIN worm' = 1..n /\ \A j \in DOMAIN worm : worm'[j] = worm[j]
    BY <1>1, <1>2, <1>4, <1>5
<1>7. Dense'
    BY <1>2, <1>3, <1>6 DEF Dense
<1>8. Columns'
  <2>1. {"item", "prev", "hmac"} \subseteq DOMAIN create_signed(n, x, exporting[e].prev)
      BY DEF create_signed
  <2> QED
      BY <1>1, <2>1 DEF AlterInv, Columns
<1>9. ASSUME NEW m \in DOMAIN worm, FirstAltered(m)
      PROVE  m \in DOMAIN worm' /\ FirstAltered(m)'
  <2>1. ASSUME NEW j \in DOMAIN worm
        PROVE  ChainedRecord(j)' <=> ChainedRecord(j)
    <3>1. worm'[j] = worm[j] /\ (j # 1 => worm'[j - 1] = worm[j - 1])
        BY <1>4, <1>6
    <3> QED
        BY <3>1 DEF ChainedRecord
  <2>2. m \in DOMAIN worm' /\ \A j \in DOMAIN worm' : j < m => j \in DOMAIN worm
      BY <1>4, <1>5, <1>6
  <2> QED
      BY <1>2, <1>9, <2>1, <2>2 DEF FirstAltered
<1> QED
    BY <1>2, <1>7, <1>8, <1>9 DEF AlterInv

\* Whichever column of a chained record is changed, its link or its seal is
\* wrong afterwards.
LEMMA AlterBreaks ==
    ASSUME Columns, NEW n \in DOMAIN worm, n \in Nat \ {0}, NEW x, Alter(n, x), ChainedRecord(n),
           n # 1 => n - 1 \in DOMAIN worm
    PROVE  /\ DOMAIN worm' = DOMAIN worm
           /\ \A k \in DOMAIN worm \ {n} : worm'[k] = worm[k]
           /\ Columns' /\ ~ChainedRecord(n)'
<1>0. PICK i, p, h : i = worm[n].item /\ p = worm[n].prev /\ h = worm[n].hmac
    OBVIOUS
<1>1. PICK q : q = IF n = 1 THEN GENESIS ELSE worm[n - 1].hmac
    OBVIOUS
<1>2. p = q /\ h = <<n, i, p>>
    BY <1>0, <1>1 DEF ChainedRecord, compute_hmac
<1>3. \E w : /\ worm' = [worm EXCEPT ![n] = w] /\ {"item", "prev", "hmac"} \subseteq DOMAIN w
             /\ \/ w.item # i /\ w.prev = p /\ w.hmac = h
                \/ w.item = i /\ w.prev = GENESIS /\ p # GENESIS /\ w.hmac = h
                \/ w.item = i /\ w.prev = p /\ w.hmac = GENESIS
  <2>1. CASE x # worm[n].item /\ worm' = [worm EXCEPT ![n].item = x]
    <3> DEFINE w == [worm[n] EXCEPT !.item = x]
    <3>1. w.item = x /\ w.prev = p /\ w.hmac = h /\ {"item", "prev", "hmac"} \subseteq DOMAIN w
        BY <1>0 DEF Columns
    <3>2. worm' = [worm EXCEPT ![n] = w]
        BY <2>1
    <3> HIDE DEF w
    <3> QED
        BY <1>0, <2>1, <3>1, <3>2
  <2>2. CASE worm[n].prev # GENESIS /\ worm' = [worm EXCEPT ![n].prev = GENESIS]
    <3> DEFINE w == [worm[n] EXCEPT !.prev = GENESIS]
    <3>1. w.item = i /\ w.prev = GENESIS /\ w.hmac = h /\ {"item", "prev", "hmac"} \subseteq DOMAIN w
        BY <1>0 DEF Columns
    <3>2. worm' = [worm EXCEPT ![n] = w]
        BY <2>2
    <3> HIDE DEF w
    <3> QED
        BY <1>0, <2>2, <3>1, <3>2
  <2>3. CASE worm' = [worm EXCEPT ![n].hmac = GENESIS]
    <3> DEFINE w == [worm[n] EXCEPT !.hmac = GENESIS]
    <3>1. w.item = i /\ w.prev = p /\ w.hmac = GENESIS /\ {"item", "prev", "hmac"} \subseteq DOMAIN w
        BY <1>0 DEF Columns
    <3>2. worm' = [worm EXCEPT ![n] = w]
        BY <2>3
    <3> HIDE DEF w
    <3> QED
        BY <1>0, <2>3, <3>1, <3>2
  <2> QED
      BY <2>1, <2>2, <2>3 DEF Alter
<1>4. PICK w : /\ worm' = [worm EXCEPT ![n] = w] /\ {"item", "prev", "hmac"} \subseteq DOMAIN w
               /\ \/ w.item # i /\ w.prev = p /\ w.hmac = h
                  \/ w.item = i /\ w.prev = GENESIS /\ p # GENESIS /\ w.hmac = h
                  \/ w.item = i /\ w.prev = p /\ w.hmac = GENESIS
    BY <1>3
<1>5. /\ DOMAIN worm' = DOMAIN worm /\ worm'[n] = w
      /\ \A k \in DOMAIN worm \ {n} : worm'[k] = worm[k]
    BY <1>4
<1>6. Columns'
    BY <1>4, <1>5 DEF Columns
<1>7. q = IF n = 1 THEN GENESIS ELSE worm'[n - 1].hmac
    BY <1>1, <1>5
<1>8. ~(w.prev = q /\ w.hmac = <<n, w.item, w.prev>>)
  <2>1. \A a, b, c, d : <<n, a, b>> = <<n, c, d>> => a = c /\ b = d
      OBVIOUS
  <2>2. \A a, b : <<n, a, b>> # GENESIS
    <3> SUFFICES ASSUME NEW a, NEW b PROVE <<n, a, b>> # << >>
        BY DEF GENESIS
    <3>1. 1 \in DOMAIN <<n, a, b>> /\ DOMAIN << >> = {}
        OBVIOUS
    <3> QED
        BY <3>1
  <2> QED
      BY <1>2, <1>4, <2>1, <2>2
<1>9. ~ChainedRecord(n)'
    BY <1>5, <1>7, <1>8 DEF ChainedRecord, compute_hmac
<1> QED
    BY <1>5, <1>6, <1>9

LEMMA NextKeepsAlter ==
    ASSUME MaxAlterations <= 1, RefInv, AlterInv, [Next]_vars
    PROVE  AlterInv'
<1>1. CASE UNCHANGED <<worm, altered>>
    BY <1>1 DEF AlterInv, Dense, Columns, FirstAltered, ChainedRecord
<1>2. ASSUME NEW e \in Exporter, InsertRecord(e)
      PROVE  AlterInv'
    BY <1>2, InsertKeepsAlter
<1>3. ASSUME NEW n \in DOMAIN worm, NEW x \in Item, Alter(n, x)
      PROVE  AlterInv'
  <2>1. \A k : Cardinality({k}) = 1
      BY FS_Singleton
  <2>2. altered = {}
    <3> SUFFICES ASSUME altered # {} PROVE FALSE
        OBVIOUS
    <3>1. PICK k \in DOMAIN worm : altered = {k}
        BY DEF AlterInv, FirstAltered
    <3>2. Cardinality(altered) = 1
        BY <2>1, <3>1
    <3>3. Cardinality(altered) < MaxAlterations
        BY <1>3 DEF Alter
    <3> QED
        BY <3>2, <3>3, LedgerAssumption
  <2>3. /\ \A k \in DOMAIN worm : ChainedRecord(k)
        /\ n \in Nat \ {0} /\ (n # 1 => n - 1 \in DOMAIN worm) /\ DOMAIN worm \subseteq Nat \ {0}
      BY <2>2 DEF RefInv, WormIndInv, WormInv, WormShape
  <2>4. /\ DOMAIN worm' = DOMAIN worm
        /\ \A k \in DOMAIN worm \ {n} : worm'[k] = worm[k]
        /\ Columns' /\ ~ChainedRecord(n)'
      BY <1>3, <2>3, AlterBreaks DEF AlterInv
  <2>5. altered' = {n}
      BY <1>3, <2>2 DEF Alter
  <2>6. ASSUME NEW k \in DOMAIN worm, k < n
        PROVE  ChainedRecord(k)'
    <3>1. ChainedRecord(k) /\ (k = 1 \/ k - 1 \in DOMAIN worm) /\ k \in Nat
        BY <2>3 DEF RefInv, WormIndInv, WormInv
    <3>2. worm'[k] = worm[k] /\ (k # 1 => worm'[k - 1] = worm[k - 1])
        BY <2>3, <2>4, <2>6, <3>1
    <3> QED
        BY <3>1, <3>2 DEF ChainedRecord
  <2>7. FirstAltered(n)'
      BY <2>4, <2>5, <2>6 DEF FirstAltered
  <2> QED
      BY <2>4, <2>7 DEF AlterInv, Dense
<1>4. \/ UNCHANGED <<worm, altered>>
      \/ \E e \in Exporter : InsertRecord(e)
      \/ \E n \in DOMAIN worm, x \in Item : Alter(n, x)
    BY DEF Next, ReadLastHash, InsertLog, InsertLogFails, ReadLastRecord,
           InsertConflicts, AppendFails, ExportDropped, vars, wormVars
<1> QED
    BY <1>1, <1>2, <1>3, <1>4

\* In a ledger the report reads as a whole, the altered record is the first
\* one it stops at.
LEMMA AlteredIsFirst ==
    ASSUME MaxEntries <= VERIFY_LIMIT, RefInv, AlterInv
    PROVE  AlterationPinpointed
<1> SUFFICES ASSUME NEW n \in altered
             PROVE  verify_worm_audit_chain_report.first_broken_seq = {n}
    BY DEF AlterationPinpointed
<1>1. FirstAltered(n)
    BY DEF AlterInv, FirstAltered
<1>2. PICK k \in Nat : k <= MaxEntries /\ DOMAIN worm = 1..k
    BY DEF AlterInv, Dense
<1>3. n \in 1..k /\ Before(n) = 1..(n - 1)
    BY <1>1, <1>2 DEF FirstAltered, Before
<1>4. Cardinality(Before(n)) = n - 1
  <2>1. Cardinality(1..(n - 1)) = IF 1 > n - 1 THEN 0 ELSE n - 1 - 1 + 1
      BY <1>3, FS_Interval
  <2> QED
      BY <1>3, <2>1
<1>5. n \in Listed
    BY <1>2, <1>3, <1>4, LedgerAssumption DEF Listed
<1>6. \A j \in 1..k : Before(j) = {} <=> j = 1
    BY <1>2 DEF Before
<1>7. \A j \in 1..k : \A i \in Before(j) : (\A h \in Before(j) : h <= i) <=> i = j - 1
    BY <1>2 DEF Before
<1>8. \A j \in 1..k : j # 1 => j - 1 \in Before(j)
    BY <1>2 DEF Before
<1>9. ASSUME NEW j \in 1..k
      PROVE  (BrokenLink(j) \/ BrokenSeal(j)) <=> ~ChainedRecord(j)
  <2>1. BrokenLink(j) <=> worm[j].prev # IF j = 1 THEN GENESIS ELSE worm[j - 1].hmac
      BY <1>6, <1>7, <1>8 DEF BrokenLink
  <2> QED
      BY <2>1 DEF BrokenSeal, ChainedRecord
<1>10. n \in Broken
    BY <1>1, <1>3, <1>5, <1>9 DEF Broken, FirstAltered
<1>11. \A j \in Broken : n <= j
  <2> SUFFICES ASSUME NEW j \in Broken, j < n PROVE FALSE
      BY <1>2, <1>3 DEF Broken, Listed
  <2>1. j \in 1..k /\ ~ChainedRecord(j)
      BY <1>2, <1>9 DEF Broken, Listed
  <2> QED
      BY <1>1, <1>2, <2>1 DEF FirstAltered
<1>12. {m \in Broken : \A j \in Broken : m <= j} = {n}
  <2> SUFFICES ASSUME NEW m \in Broken, m <= n PROVE m = n
      BY <1>10, <1>11
  <2> QED
      BY <1>2, <1>3, <1>11 DEF Broken, Listed
<1> QED
    BY <1>12 DEF verify_worm_audit_chain_report

\* verify_worm_audit_chain_report: however exports interleave, a record that
\* was changed behind the daemon's back is reported, and as the first broken
\* one, if it is the only one and the report reads the whole ledger.
THEOREM AlterationReported ==
    MaxAlterations <= 1 /\ MaxEntries <= VERIFY_LIMIT /\ Spec => []AlterationPinpointed
<1> SUFFICES ASSUME MaxAlterations <= 1, MaxEntries <= VERIFY_LIMIT
             PROVE  Spec => []AlterationPinpointed
    OBVIOUS
<1> DEFINE I == RefInv /\ AlterInv
<1>1. Init => I
    BY InitWorm, InitItems, InitAlter DEF RefInv
<1>2. I /\ [Next]_vars => I'
    BY NextKeepsWorm, NextKeepsItems, NextKeepsAlter DEF RefInv
<1>3. I => AlterationPinpointed
    BY AlteredIsFirst
<1> QED
    BY <1>1, <1>2, <1>3, PTL DEF Spec
=============================================================================
