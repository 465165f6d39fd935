--------------------------- MODULE MailSyncProofs ---------------------------
(***************************************************************************)
(* Proofs about MailSync for every number of accounts, folders, mails and  *)
(* overlapping sync runs, and every bound.                                 *)
(***************************************************************************)
EXTENDS MailSync, FiniteSetTheorems, TLAPS

-----------------------------------------------------------------------------
(* Typing                                                                  *)

\* The locals between folders are well typed.
LEMMA NoJobType == NoJob \in Job
  BY SyncAssumption DEF NoJob, Job, Absent, Checkpoint, NotSelected, Selected

\* The checkpoint a fetch returns is well typed.
LEMMA NewCheckpointType ==
  ASSUME NEW state \in Checkpoint, NEW r \in Selected, NEW es \in SUBSET Email,
         NEW c \in NewCheckpoint(state, r, es)
  PROVE  c \in Checkpoint
  BY DEF NewCheckpoint, PastMaxUidSeen, UidCheckpoint, Unparseable, Checkpoint,
         Selected, Email

\* The next place of a run that has finished a folder is one of three.
LEMMA ResumePlace ==
  ASSUME NEW fs, NEW as
  PROVE  Resume(fs, as) \in {"folder", "account", "idle"}
  BY DEF Resume

\* Steps of the servers keep the types.
LEMMA ServerType == TypeOK /\ Server => TypeOK'
<1> SUFFICES ASSUME TypeOK, Server PROVE TypeOK'
  OBVIOUS
<1>1. ASSUME NEW m \in Mailbox, NEW x \in Mail, Deliver(m, x) PROVE TypeOK'
  BY <1>1 DEF Deliver, TypeOK, Message, effects, budget
<1>2. ASSUME NEW m \in Mailbox, NEW x \in mbox[m], Expunge(m, x) PROVE TypeOK'
  BY <1>2 DEF Expunge, TypeOK, effects, budget
<1>3. ASSUME NEW m \in Mailbox, NEW n \in 0..MaxUid, NEW renum \in [mbox[m] -> 1..n],
             Renumber(m, n, renum)
      PROVE  TypeOK'
  <2>1. {[uid |-> renum[x], mail |-> x.mail] : x \in mbox[m]} \in SUBSET Message
    BY SyncAssumption DEF TypeOK, Message
  <2>2. n + 1 \in Nat
    OBVIOUS
  <2> QED
    BY <1>3, <2>1, <2>2 DEF Renumber, TypeOK, effects, budget
<1>4. ASSUME NEW x \in OtherReads, MarkSeen(x) PROVE TypeOK'
  BY <1>4, SyncAssumption DEF MarkSeen, TypeOK, effects, budget
<1> QED
  BY <1>1, <1>2, <1>3, <1>4 DEF Server

\* set_message_read leaves table messages well typed.
LEMMA SetReadType ==
  ASSUME TypeOK, NEW id, NEW b \in BOOLEAN, SetRead(id, b)
  PROVE  store' \in SUBSET Row
  BY ZenonT(40) DEF SetRead, TypeOK, Row

\* Counting one more keeps a counter a counter.
LEMMA CountType ==
  ASSUME NEW D, NEW f \in [D -> Nat], NEW p
  PROVE  [f EXCEPT ![p] = @ + 1] \in [D -> Nat]
<1>1. CASE p \in D
  <2>1. f[p] + 1 \in Nat
    BY <1>1
  <2> QED
    BY <2>1
<1>2. CASE p \notin D
  BY <1>2
<1> QED
  BY <1>1, <1>2

\* The part of TypeOK about runs alone.
RunsTyped ==
    /\ job \in [Sync -> Job] /\ pc \in [Sync -> Pc]
    /\ \A t \in Sync :
          /\ pc[t] \in {"select", "fetch"} \union PersistPc => job[t].mb \in Mailbox
          /\ pc[t] \in PersistPc \ {"persist"} => job[t].cur \in Email
          /\ pc[t] \in {"filter", "log"} => Len(job[t].acts) \in 1..Len(MatchedActions)

\* Going on with a filter pass keeps the runs well typed.
LEMMA ContinueType ==
  ASSUME RunsTyped, NEW s \in Sync, pc[s] \in PersistPc \ {"persist"},
         NEW es \in SUBSET Email,
         NEW rest \in Seq(ImmediateAction \union RemoteAction),
         Len(rest) <= Len(MatchedActions),
         Continue(s, es, rest)
  PROVE  RunsTyped'
<1> DEFINE c == IF rest = << >> THEN None ELSE job[s].cur
           j == [job[s] EXCEPT !.emails = es, !.acts = rest, !.cur = c]
<1>1. job' = [job EXCEPT ![s] = j]
  BY DEF Continue, RunsTyped, Job
<1>2. j \in Job /\ j.mb \in Mailbox /\ j.acts = rest /\ j.cur = c
  BY DEF RunsTyped, Job
<1>3. rest # << >> => Len(rest) \in 1..Len(MatchedActions) /\ c \in Email
  BY SyncAssumption DEF RunsTyped
<1> QED
  BY <1>1, <1>2, <1>3 DEF Continue, RunsTyped, Pc, PersistPc

\* Dropping the action at hand keeps the runs well typed.
LEMMA AdvanceType ==
  ASSUME RunsTyped, NEW s \in Sync, pc[s] \in {"filter", "log"},
         Continue(s, job[s].emails, Tail(job[s].acts))
  PROVE  RunsTyped'
<1>1. job[s].acts \in Seq(ImmediateAction \union RemoteAction) /\ job[s].acts # << >>
  BY DEF RunsTyped, Job
<1>2. /\ Tail(job[s].acts) \in Seq(ImmediateAction \union RemoteAction)
      /\ Len(Tail(job[s].acts)) = Len(job[s].acts) - 1
  BY <1>1
<1>3. job[s].emails \in SUBSET Email
  BY DEF RunsTyped, Job
<1>4. Len(Tail(job[s].acts)) <= Len(MatchedActions)
  BY <1>1, <1>2, SyncAssumption DEF RunsTyped
<1> QED
  BY <1>2, <1>3, <1>4, ContinueType DEF PersistPc

\* A step of a sync run keeps the types.
LEMMA StepType ==
  ASSUME TypeOK, NEW s \in Sync, Step(s)
  PROVE  TypeOK'
<1> USE NoJobType, ResumePlace
<1>1. ASSUME NEW a \in Account, ListFolders(s, a) PROVE TypeOK'
  <2>1. {a} \X Folder \in SUBSET Mailbox
    BY DEF Mailbox
  <2> QED
    BY <1>1, <2>1 DEF ListFolders, TypeOK, server, effects, budget, Pc, PersistPc
<1>2. ASSUME NEW m \in Mailbox, OpenFolder(s, m) PROVE TypeOK'
  BY <1>2 DEF OpenFolder, TypeOK, server, effects, budget, Pc, PersistPc, Job
<1>3. ASSUME Select(s) PROVE TypeOK'
  <2>1. PICK v \in {0, validity[job[s].mb]}, n \in {0, uidnext[job[s].mb]} :
            job' = [job EXCEPT ![s].sel =
                       [epoch |-> validity[job[s].mb], validity |-> v, uidnext |-> n]]
    BY <1>3 DEF Select
  <2>2. job[s].mb \in Mailbox
    BY <1>3 DEF Select, TypeOK
  <2>3. [epoch |-> validity[job[s].mb], validity |-> v, uidnext |-> n] \in Selected
    BY <2>2 DEF TypeOK, Selected
  <2>4. job' \in [Sync -> Job]
    BY <2>1, <2>3 DEF TypeOK, Job
  <2>5. \A t \in Sync : job'[t].mb = job[t].mb /\ job'[t].cur = job[t].cur
                        /\ job'[t].acts = job[t].acts
    BY <2>1 DEF TypeOK, Job
  <2> QED
    BY <1>3, <2>2, <2>4, <2>5 DEF Select, TypeOK, server, effects, budget, Pc, PersistPc
<1>4. ASSUME Fetch(s) PROVE TypeOK'
  <2> DEFINE es == Fetched(job[s])
  <2>1. job[s].mb \in Mailbox
    BY <1>4 DEF Fetch, TypeOK
  <2>2. es \in SUBSET Email
    <3> DEFINE isSeen(x) == x \in seen
    <3>1. \A x : isSeen(x) \in BOOLEAN
      OBVIOUS
    <3>2. UidFetch(job[s].mb, resolve_fetch_range(job[s].since, job[s].sel.validity))
             \in SUBSET Message
      BY <2>1 DEF UidFetch, TypeOK
    <3>3. es = {[mb |-> job[s].mb, uid |-> x.uid, mail |-> x.mail, read |-> isSeen(x.mail)] :
                  x \in UidFetch(job[s].mb, resolve_fetch_range(job[s].since, job[s].sel.validity))}
      BY DEF Fetched
    <3> HIDE DEF isSeen, es
    <3> QED
      BY <2>1, <3>1, <3>2, <3>3 DEF Message, Email
  <2>3. PICK next \in NewCheckpoint(job[s].since, job[s].sel, es) :
            job' = [job EXCEPT ![s] = [NoJob EXCEPT !.mb = job[s].mb, !.emails = es,
                                                    !.newState = next]]
    BY <1>4 DEF Fetch
  <2>4. next \in Checkpoint
    BY <2>2, <2>3, NewCheckpointType DEF TypeOK, Job
  <2>5. [NoJob EXCEPT !.mb = job[s].mb, !.emails = es, !.newState = next] \in Job
    BY <2>1, <2>2, <2>4 DEF Job
  <2>6. [NoJob EXCEPT !.mb = job[s].mb, !.emails = es, !.newState = next].mb \in Mailbox
    BY <2>1 DEF NoJob
  <2> QED
    BY <1>4, <2>3, <2>5, <2>6 DEF Fetch, TypeOK, server, effects, budget, Pc, PersistPc
<1>5. ASSUME FetchRefused(s) PROVE TypeOK'
  BY <1>5 DEF FetchRefused, AbandonAccount, TypeOK, server, effects, budget, Pc, PersistPc
<1>6. ASSUME NEW e \in job[s].emails, CheckNew(s, e) PROVE TypeOK'
  <2>1. e \in Email
    BY DEF TypeOK, Job
  <2> QED
    BY <1>6, <2>1 DEF CheckNew, TypeOK, server, effects, budget, Pc, PersistPc, Job
<1>7. ASSUME SaveEmail(s) PROVE TypeOK'
  <2>1. job[s].cur \in Email
    BY <1>7 DEF SaveEmail, TypeOK, PersistPc
  <2>2. Upsert(job[s].cur) \in SUBSET Row
    BY <2>1 DEF Upsert, message_id, TypeOK, Row, Email
  <2>3. job[s].emails \ {job[s].cur} \in SUBSET Email
    BY DEF TypeOK, Job
  <2>4. Continue(s, job[s].emails \ {job[s].cur},
                 IF pc[s] = "save_new" THEN MatchedActions ELSE << >>)
    BY <1>7 DEF SaveEmail
  <2> DEFINE rest == IF pc[s] = "save_new" THEN MatchedActions ELSE << >>
  <2>5. rest \in Seq(ImmediateAction \union RemoteAction) /\ Len(rest) <= Len(MatchedActions)
    BY SyncAssumption
  <2>6. RunsTyped /\ pc[s] \in PersistPc \ {"persist"}
    BY <1>7 DEF SaveEmail, TypeOK, RunsTyped, PersistPc
  <2>7. RunsTyped'
    <3> HIDE DEF rest
    <3> QED BY <2>3, <2>4, <2>5, <2>6, ContinueType DEF rest
  <2> QED
    BY <1>7, <2>2, <2>7 DEF SaveEmail, TypeOK, RunsTyped, server, effects, budget
<1>8. ASSUME ApplyAction(s) PROVE TypeOK'
  <2>2. store' \in SUBSET Row
    BY <1>8, SetReadType DEF ApplyAction, TypeOK
  <2>3. fired' \in [Mail \X (1..Len(MatchedActions)) -> Nat]
    BY <1>8, CountType DEF ApplyAction, TypeOK
  <2> QED
    BY <1>8, <2>2, <2>3 DEF ApplyAction, TypeOK, server, effects, budget, Pc, PersistPc
<1>9. ASSUME LogAction(s) PROVE TypeOK'
  <2>1. Continue(s, job[s].emails, Tail(job[s].acts)) /\ pc[s] \in {"filter", "log"}
    BY <1>9 DEF LogAction
  <2>2. RunsTyped'
    BY <2>1, AdvanceType DEF TypeOK, RunsTyped
  <2>3. logged' \in [Mail \X (1..Len(MatchedActions)) -> Nat]
    BY <1>9, CountType DEF LogAction, TypeOK
  <2> QED
    BY <1>9, <2>2, <2>3 DEF LogAction, TypeOK, RunsTyped, server, effects, budget
<1>10. ASSUME SaveCheckpoint(s) PROVE TypeOK'
  BY <1>10 DEF SaveCheckpoint, TypeOK, server, effects, budget, Pc, PersistPc, Job
<1> QED
  BY <1>1, <1>2, <1>3, <1>4, <1>5, <1>6, <1>7, <1>8, <1>9, <1>10 DEF Step

\* A failing call, a cancellation, a crash or a recovery keeps the types.
LEMMA FailureType ==
  ASSUME TypeOK, Crash \/ Recover \/ \E s \in Sync : Failures(s)
  PROVE  TypeOK'
<1> USE NoJobType, ResumePlace
<1>1. ASSUME NEW s \in Sync, NEW a \in Account, AccountFails(s, a) PROVE TypeOK'
  <2>1. RunsTyped'
    BY <1>1 DEF AccountFails, RunsTyped, TypeOK, Pc, PersistPc
  <2>2. accts' \in [Sync -> SUBSET Account] /\ faults' \in Nat /\ recoveries' \in Nat
    BY <1>1 DEF AccountFails, Fault, TypeOK
  <2> QED
    BY <1>1, <2>1, <2>2 DEF AccountFails, RunsTyped, TypeOK, server, effects
<1>2. ASSUME NEW s \in Sync, CallFails(s) PROVE TypeOK'
  BY <1>2 DEF CallFails, Fault, AbandonAccount, TypeOK, server, effects, Pc, PersistPc
<1>3. ASSUME NEW s \in Sync, NEW e \in job[s].emails, LookupFails(s, e) PROVE TypeOK'
  <2>1. e \in Email
    BY DEF TypeOK, Job
  <2> QED
    <3>1. RunsTyped'
      BY <1>3, <2>1 DEF LookupFails, RunsTyped, TypeOK, Pc, PersistPc, Job
    <3>2. faults' \in Nat /\ recoveries' \in Nat
      BY <1>3 DEF LookupFails, Fault, TypeOK
    <3> QED
      BY <1>3, <3>1, <3>2 DEF LookupFails, RunsTyped, TypeOK, server, effects
<1>4. ASSUME NEW s \in Sync, ActionFails(s) PROVE TypeOK'
  <2>1. RunsTyped'
    BY <1>4, AdvanceType DEF ActionFails, TypeOK, RunsTyped
  <2> QED
    BY <1>4, <2>1 DEF ActionFails, Fault, TypeOK, RunsTyped, server, effects
<1>5. ASSUME NEW s \in Sync, Cancel(s) PROVE TypeOK'
  BY <1>5 DEF Cancel, Fault, TypeOK, server, effects, Pc, PersistPc
<1>6. ASSUME Crash PROVE TypeOK'
  BY <1>6 DEF Crash, Fault, Restart, TypeOK, server, effects, Pc, PersistPc
<1>7. ASSUME Recover PROVE TypeOK'
  <2>1. Absent \in Checkpoint
    BY DEF Absent, Checkpoint
  <2> QED
    BY <1>7, <2>1 DEF Recover, Restart, TypeOK, server, effects, Pc, PersistPc
<1> QED
  BY <1>1, <1>2, <1>3, <1>4, <1>5, <1>6, <1>7 DEF Failures

\* Requests of clients keep the types.
LEMMA RequestType ==
  ASSUME TypeOK
  PROVE  /\ \A s \in Sync : Requests(s) => TypeOK'
         /\ \A r \in store, read \in ReadRequests : MarkReadRpc(r.id, read) => TypeOK'
<1>1. ASSUME NEW s \in Sync, NEW batch \in SUBSET Account, Begin(s, batch) PROVE TypeOK'
  BY <1>1, ResumePlace DEF Begin, TypeOK, server, effects, budget, Pc, PersistPc
<1>2. ASSUME NEW r \in store, NEW read \in ReadRequests, MarkReadRpc(r.id, read)
      PROVE  TypeOK'
  <2>1. read \in BOOLEAN
    BY SyncAssumption
  <2>2. store' \in SUBSET Row
    BY <1>2, <2>1, SetReadType DEF MarkReadRpc
  <2> QED
    BY <1>2, <2>2 DEF MarkReadRpc, TypeOK, server, effects, budget
<1> QED
  BY <1>1, <1>2 DEF Requests

\* MailSync is well typed: every state the syncs, the servers, the clients and
\* the failures can reach has the types of the code's variables, and a run has
\* the folder and the message its place in fetch_and_persist needs.
THEOREM TypeCorrect == Spec => []TypeOK
<1>1. Init => TypeOK
  <2> SUFFICES ASSUME Init PROVE TypeOK
    OBVIOUS
  <2>1. Absent \in Checkpoint /\ Unparseable \in Checkpoint
    BY DEF Absent, Unparseable, Checkpoint
  <2> QED
    <3>1. RunsTyped
      BY NoJobType DEF Init, RunsTyped, Pc, PersistPc
    <3> QED
      BY <2>1, <3>1 DEF Init, RunsTyped, TypeOK
<1>2. TypeOK /\ [Next]_vars => TypeOK'
  <2> SUFFICES ASSUME TypeOK, [Next]_vars PROVE TypeOK'
    OBVIOUS
  <2>1. CASE UNCHANGED vars
    BY <2>1 DEF vars, server, effects, budget, TypeOK
  <2>2. CASE Next
    BY <2>2, ServerType, StepType, FailureType, RequestType DEF Next
  <2> QED
    BY <2>1, <2>2
<1> QED
  BY <1>1, <1>2, PTL DEF Spec

-----------------------------------------------------------------------------
(* Checkpoint soundness                                                    *)

\* What a step may do to mailbox m: keep its numbering, handing out UIDs from
\* UIDNEXT up, or renumber it under a higher UIDVALIDITY.
MailboxMoves(m) ==
    \/ /\ validity'[m] = validity[m]
       /\ uidnext'[m] >= uidnext[m]
       /\ \A x \in mbox'[m] : x \in mbox[m] \/ x.uid >= uidnext[m]
    \/ validity'[m] > validity[m]

\* What a step may do to table messages, unless it is a recovery.
RowsKept == \A r \in store : \E q \in store' : q.id = r.id

\* Such a step leaves a covered checkpoint covered, whoever holds it.
LEMMA CoversKept ==
  ASSUME TypeOK, TypeOK', NEW m \in Mailbox, NEW c \in Checkpoint, NEW es,
         MailboxMoves(m), RowsKept, Covers(c, m, es)
  PROVE  Covers(c, m, es)'
<1>1. c.kind = "uid" => c.validity <= validity[m]
  BY DEF Covers
<1>2. c.validity \in Nat /\ c.uid \in Nat /\ validity[m] \in Nat /\ uidnext[m] \in Nat
      /\ validity'[m] \in Nat /\ uidnext'[m] \in Nat
  BY DEF TypeOK, Checkpoint
<1>3. \A x \in mbox'[m] : x.uid \in Nat
  BY DEF TypeOK, Message
<1>4. \A id : Stored(id) => Stored(id)'
  BY DEF Stored, RowsKept
<1>5. CASE validity'[m] > validity[m]
  BY <1>1, <1>2, <1>5 DEF Covers
<1>6. CASE /\ validity'[m] = validity[m]
           /\ uidnext'[m] >= uidnext[m]
           /\ \A x \in mbox'[m] : x \in mbox[m] \/ x.uid >= uidnext[m]
  BY <1>2, <1>3, <1>4, <1>6 DEF Covers, message_id
<1> QED
  BY <1>5, <1>6 DEF MailboxMoves

\* A run that the step does not touch stays sound.
LEMMA BystanderSound ==
  ASSUME TypeOK, TypeOK', \A m \in Mailbox : MailboxMoves(m), RowsKept,
         NEW t \in Sync, pc'[t] = pc[t], job'[t] = job[t], RunSound(t)
  PROVE  RunSound(t)'
<1>1. job[t] \in Job
  BY DEF TypeOK
<1>2. \A c \in Checkpoint, m \in Mailbox, es \in SUBSET Email :
         Covers(c, m, es) => Covers(c, m, es)'
  BY CoversKept
<1>3. job[t].since \in Checkpoint /\ job[t].newState \in Checkpoint
      /\ job[t].emails \in SUBSET Email /\ job[t].sel \in Selected
  BY <1>1 DEF Job
<1>4. pc[t] \in {"select", "fetch"} \union PersistPc => job[t].mb \in Mailbox
  BY DEF TypeOK
<1>5. pc[t] \in {"select", "fetch"} => Covers(job[t].since, job[t].mb, {})'
  BY <1>2, <1>3, <1>4 DEF RunSound
<1>6. pc[t] = "fetch" => SelectSound(job[t])'
  <2> SUFFICES ASSUME pc[t] = "fetch" PROVE SelectSound(job[t])'
    OBVIOUS
  <2>1. job[t].mb \in Mailbox /\ SelectSound(job[t])
    BY <1>4 DEF RunSound
  <2>2. MailboxMoves(job[t].mb)
    BY <2>1
  <2>3. validity[job[t].mb] \in Nat /\ validity'[job[t].mb] \in Nat
        /\ uidnext[job[t].mb] \in Nat /\ uidnext'[job[t].mb] \in Nat
    BY <2>1 DEF TypeOK
  <2> QED
    BY <1>3, <2>1, <2>2, <2>3 DEF SelectSound, MailboxMoves, Selected
<1>7. pc[t] \in PersistPc => Covers(job[t].newState, job[t].mb, job[t].emails)'
  BY <1>2, <1>3, <1>4 DEF RunSound
<1> QED
  BY <1>5, <1>6, <1>7 DEF RunSound

\* A run between folders has nothing to be sound about.
LEMMA RestingSound ==
  ASSUME NEW s \in Sync, pc[s] \in {"idle", "account", "folder"}
  PROVE  RunSound(s)
  BY DEF RunSound, PersistPc

\* Steps that leave the servers alone move no mailbox.
LEMMA StillMailboxes ==
  ASSUME TypeOK, UNCHANGED server
  PROVE  \A m \in Mailbox : MailboxMoves(m)
  BY DEF TypeOK, server, MailboxMoves

\* CheckpointInv follows from what a step does to one run and to the tables.
LEMMA RunStepInv ==
  ASSUME TypeOK, TypeOK', CheckpointInv, UNCHANGED server, RowsKept,
         \A m \in Mailbox : Covers(checkpoint[m], m, {})',
         NEW s \in Sync, RunSound(s)',
         \A t \in Sync \ {s} : pc'[t] = pc[t] /\ job'[t] = job[t]
  PROVE  CheckpointInv'
<1>1. WellNumbered'
  BY DEF CheckpointInv, WellNumbered, server
<1>2. \A t \in Sync \ {s} : RunSound(t)'
  BY StillMailboxes, BystanderSound DEF CheckpointInv
<1> QED
  BY <1>1, <1>2 DEF CheckpointInv

\* As long as no checkpoint is written, the stored ones stay covered.
LEMMA StoredCheckpoints ==
  ASSUME TypeOK, TypeOK', CheckpointInv, UNCHANGED checkpoint, RowsKept,
         \A m \in Mailbox : MailboxMoves(m)
  PROVE  \A m \in Mailbox : Covers(checkpoint[m], m, {})'
<1>1. \A c \in Checkpoint, m \in Mailbox : Covers(c, m, {}) => Covers(c, m, {})'
  BY CoversKept
<1>2. \A m \in Mailbox : checkpoint[m] \in Checkpoint
  BY DEF TypeOK
<1> QED
  BY <1>1, <1>2 DEF CheckpointInv

\* The servers: deliveries, expunges and renumberings.
LEMMA ServerInv ==
  ASSUME TypeOK, TypeOK', CheckpointInv, Server
  PROVE  CheckpointInv'
<1>1. UNCHANGED <<store, checkpoint, pc, job>>
  BY DEF Server, Deliver, Expunge, Renumber, MarkSeen
<1>2. (\A m \in Mailbox : MailboxMoves(m)) /\ WellNumbered'
  <2>1. ASSUME NEW m \in Mailbox, NEW x \in Mail, Deliver(m, x)
        PROVE  (\A k \in Mailbox : MailboxMoves(k)) /\ WellNumbered'
    BY <2>1 DEF Deliver, TypeOK, Message, CheckpointInv, WellNumbered, MailboxMoves
  <2>2. ASSUME NEW m \in Mailbox, NEW x \in mbox[m], Expunge(m, x)
        PROVE  (\A k \in Mailbox : MailboxMoves(k)) /\ WellNumbered'
    BY <2>2 DEF Expunge, TypeOK, Message, CheckpointInv, WellNumbered, MailboxMoves
  <2>3. ASSUME NEW m \in Mailbox, NEW n \in 0..MaxUid, NEW renum \in [mbox[m] -> 1..n],
               Renumber(m, n, renum)
        PROVE  (\A k \in Mailbox : MailboxMoves(k)) /\ WellNumbered'
    <3>1. \A x \in mbox'[m] : 1 <= x.uid /\ x.uid < n + 1
      BY <2>3, SyncAssumption DEF Renumber, TypeOK
    <3>2. uidnext'[m] = n + 1 /\ n \in Nat /\ validity'[m] = validity[m] + 1
      BY <2>3, SyncAssumption DEF Renumber, TypeOK
    <3>3. \A k \in Mailbox \ {m} : /\ mbox'[k] = mbox[k] /\ uidnext'[k] = uidnext[k]
                                   /\ validity'[k] = validity[k]
      BY <2>3 DEF Renumber, TypeOK
    <3>4. \A k \in Mailbox : validity[k] \in Nat /\ uidnext[k] \in Nat
      BY DEF TypeOK
    <3> QED
      BY <3>1, <3>2, <3>3, <3>4 DEF CheckpointInv, WellNumbered, MailboxMoves
  <2>4. ASSUME NEW x \in OtherReads, MarkSeen(x)
        PROVE  (\A k \in Mailbox : MailboxMoves(k)) /\ WellNumbered'
    BY <2>4 DEF MarkSeen, TypeOK, CheckpointInv, WellNumbered, MailboxMoves
  <2> QED
    BY <2>1, <2>2, <2>3, <2>4 DEF Server
<1>3. RowsKept
  BY <1>1 DEF RowsKept
<1>4. \A m \in Mailbox : Covers(checkpoint[m], m, {})'
  BY <1>1, <1>2, <1>3, StoredCheckpoints
<1>5. \A t \in Sync : RunSound(t)'
  BY <1>1, <1>2, <1>3, BystanderSound DEF CheckpointInv
<1> QED
  BY <1>2, <1>4, <1>5 DEF CheckpointInv

\* The heart of the argument: the checkpoint a fetch returns is covered by the
\* store, for what lies below the resolved range, and by the fetch, for what
\* lies in it.
LEMMA FetchCovers ==
  ASSUME TypeOK, CheckpointInv, NEW s \in Sync, pc[s] = "fetch",
         job[s].sel.epoch = validity[job[s].mb],
         NEW c \in NewCheckpoint(job[s].since, job[s].sel, Fetched(job[s]))
  PROVE  Covers(c, job[s].mb, Fetched(job[s]))
<1> DEFINE m == job[s].mb
           r == job[s].sel
           es == Fetched(job[s])
           n == resolve_fetch_range(job[s].since, r.validity)
<1>1. m \in Mailbox /\ r \in Selected /\ job[s].since \in Checkpoint
  BY DEF TypeOK, Job
<1>2. Covers(job[s].since, m, {}) /\ SelectSound(job[s])
  BY DEF CheckpointInv, RunSound
<1>3. \A x \in mbox[m] : x.uid \in Nat /\ 1 <= x.uid /\ x.uid < uidnext[m]
  BY <1>1 DEF CheckpointInv, WellNumbered, TypeOK, Message
<1>4. validity[m] \in Nat /\ uidnext[m] \in Nat
  BY <1>1 DEF TypeOK
<1>5. \A e \in es : e.uid \in Nat /\ e.uid + 1 <= uidnext[m]
  <2>1. \A e \in es : \E x \in mbox[m] : e.uid = x.uid
    BY DEF Fetched, UidFetch
  <2> QED
    BY <2>1, <1>3, <1>4
<1>6. \A x \in mbox[m] : x.uid >= n => \E e \in es : e.uid = x.uid
  <2> SUFFICES ASSUME NEW x \in mbox[m], x.uid >= n PROVE \E e \in es : e.uid = x.uid
    OBVIOUS
  <2> DEFINE e == [mb |-> m, uid |-> x.uid, mail |-> x.mail, read |-> x.mail \in seen]
  <2>1. x \in UidFetch(m, n)
    BY DEF UidFetch
  <2>2. e \in es
    BY <2>1, Zenon DEF Fetched
  <2>3. e.uid = x.uid
    OBVIOUS
  <2> QED
    BY <2>2, <2>3
<1>7. \A x \in mbox[m] : x.uid < n => Stored(message_id(m, x.uid))
  <2>1. CASE n = 1
    BY <1>3, <2>1
  <2>2. CASE /\ job[s].since.kind = "uid"
             /\ r.validity # 0
             /\ r.validity = job[s].since.validity
             /\ n = job[s].since.uid
    <3>1. job[s].since.validity = validity[m]
      BY <1>2, <2>2 DEF SelectSound
    <3> QED
      BY <1>2, <2>2, <3>1 DEF Covers
  <2> QED
    BY <2>1, <2>2 DEF resolve_fetch_range
<1>8. n \in Nat
  BY <1>1 DEF resolve_fetch_range, Checkpoint
<1>9. \A x \in mbox[m] : Stored(message_id(m, x.uid)) \/ \E e \in es : e.uid = x.uid
  BY <1>3, <1>6, <1>7, <1>8
<1>10. CASE c = IF job[s].since.kind = "absent" THEN Unparseable ELSE job[s].since
  BY <1>2, <1>10 DEF Covers, Unparseable
<1>11. CASE r.validity # 0 /\ r.uidnext # 0 /\ c = UidCheckpoint(r.validity, r.uidnext)
  <2>1. c.validity = validity[m] /\ c.uid <= uidnext[m]
    BY <1>2, <1>11 DEF SelectSound, UidCheckpoint
  <2> QED
    BY <1>4, <1>9, <2>1 DEF Covers
<1>12. CASE r.validity # 0 /\ \E e \in es : c = UidCheckpoint(r.validity, e.uid + 1)
  <2>1. c.validity = validity[m] /\ c.uid <= uidnext[m]
    BY <1>2, <1>5, <1>12 DEF SelectSound, UidCheckpoint
  <2> QED
    BY <1>4, <1>9, <2>1 DEF Covers
<1> HIDE DEF m, es, n
<1> QED
  BY <1>10, <1>11, <1>12 DEF NewCheckpoint, PastMaxUidSeen, m, es

\* Going on with a filter pass touches the one run, and neither its folder nor
\* the checkpoint it will write.
LEMMA ContinueFrame ==
  ASSUME TypeOK, NEW s \in Sync, NEW es, NEW rest, Continue(s, es, rest)
  PROVE  /\ pc'[s] \in {"persist", "filter"} /\ job'[s].emails = es
         /\ job'[s].mb = job[s].mb /\ job'[s].newState = job[s].newState
         /\ \A t \in Sync \ {s} : pc'[t] = pc[t] /\ job'[t] = job[t]
  BY DEF Continue, TypeOK, Job

\* set_message_read deletes no row.
LEMMA SetReadRows ==
  ASSUME NEW id, NEW b, SetRead(id, b)
  PROVE  RowsKept
<1> SUFFICES ASSUME NEW r \in store PROVE \E q \in store' : q.id = r.id
  BY DEF RowsKept
<1>1. (IF r.id = id THEN [r EXCEPT !.read = b] ELSE r) \in store'
  BY DEF SetRead
<1>2. [r EXCEPT !.read = b].id = r.id
  OBVIOUS
<1> QED
  BY <1>1, <1>2

\* save_email deletes no row and leaves one under the message's id.
LEMMA UpsertRows ==
  ASSUME NEW e, store' = Upsert(e)
  PROVE  RowsKept /\ \E q \in store' : q.id = message_id(e.mb, e.uid)
<1> DEFINE id == message_id(e.mb, e.uid)
           row == [id |-> id, mb |-> e.mb, mail |-> e.mail, read |-> e.read]
<1>1. row \in store' /\ row.id = id /\ \A r \in store : r.id # id => r \in store'
  BY DEF Upsert
<1> HIDE DEF row
<1> QED
  BY <1>1 DEF RowsKept

\* What a run is about to write stays covered while rows are only added.
LEMMA PersistKept ==
  ASSUME TypeOK, TypeOK', UNCHANGED server, RowsKept, NEW s \in Sync,
         UNCHANGED job, pc[s] \in PersistPc,
         Covers(job[s].newState, job[s].mb, job[s].emails)
  PROVE  Covers(job[s].newState, job[s].mb, job[s].emails)'
<1>1. job[s].mb \in Mailbox /\ job[s].newState \in Checkpoint /\ job[s].emails \in SUBSET Email
  BY DEF TypeOK, Job
<1>2. \A c \in Checkpoint, m \in Mailbox, es \in SUBSET Email :
         Covers(c, m, es) => Covers(c, m, es)'
  BY StillMailboxes, CoversKept
<1> QED
  BY <1>1, <1>2

\* One step of a sync run.
LEMMA StepInv ==
  ASSUME TypeOK, TypeOK', CheckpointInv, NEW s \in Sync, Step(s)
  PROVE  CheckpointInv'
<1>1. RunSound(s) /\ job[s] \in Job
  BY DEF CheckpointInv, TypeOK
<1>2. ASSUME UNCHANGED <<server, store, checkpoint>>, RunSound(s)',
             \A t \in Sync \ {s} : pc'[t] = pc[t] /\ job'[t] = job[t]
      PROVE  CheckpointInv'
  <2>1. RowsKept
    BY <1>2 DEF RowsKept
  <2>2. \A m \in Mailbox : Covers(checkpoint[m], m, {})'
    BY <1>2, <2>1, StillMailboxes, StoredCheckpoints
  <2> QED
    BY <1>2, <2>1, <2>2, RunStepInv
<1>3. ASSUME NEW a \in Account, ListFolders(s, a) PROVE CheckpointInv'
  <2>1. pc'[s] \in {"folder", "account", "idle"}
    BY <1>3, ResumePlace DEF ListFolders, TypeOK
  <2>2. RunSound(s)'
    BY <2>1 DEF RunSound, PersistPc
  <2> QED
    BY <1>2, <1>3, <2>2 DEF ListFolders, TypeOK
<1>4. ASSUME NEW m \in Mailbox, OpenFolder(s, m) PROVE CheckpointInv'
  <2>1. pc'[s] = "select" /\ job'[s].mb = m /\ job'[s].since = checkpoint[m]
    BY <1>1, <1>4 DEF OpenFolder, TypeOK, Job
  <2>2. Covers(checkpoint[m], m, {})
    BY DEF CheckpointInv
  <2>3. Covers(job[s].since, job[s].mb, {})'
    BY <1>4, <2>1, <2>2 DEF OpenFolder, Covers, Stored, server
  <2>4. RunSound(s)'
    BY <2>1, <2>3 DEF RunSound, PersistPc
  <2> QED
    BY <1>2, <1>4, <2>4 DEF OpenFolder, TypeOK
<1>5. ASSUME Select(s) PROVE CheckpointInv'
  <2>1. PICK v \in {0, validity[job[s].mb]}, n \in {0, uidnext[job[s].mb]} :
            job' = [job EXCEPT ![s].sel =
                       [epoch |-> validity[job[s].mb], validity |-> v, uidnext |-> n]]
    BY <1>5 DEF Select
  <2>2. /\ pc'[s] = "fetch" /\ job'[s].mb = job[s].mb /\ job'[s].since = job[s].since
        /\ job'[s].sel = [epoch |-> validity[job[s].mb], validity |-> v, uidnext |-> n]
    BY <1>1, <1>5, <2>1 DEF Select, TypeOK, Job
  <2>3. job[s].mb \in Mailbox /\ Covers(job[s].since, job[s].mb, {})
    BY <1>1, <1>5 DEF Select, RunSound, TypeOK
  <2>4. Covers(job[s].since, job[s].mb, {})'
    BY <1>5, <2>2, <2>3 DEF Select, Covers, Stored, server
  <2>5. SelectSound(job[s])'
    BY <1>5, <2>2, <2>3 DEF Select, SelectSound, TypeOK, server
  <2>6. RunSound(s)'
    BY <2>2, <2>4, <2>5 DEF RunSound, PersistPc
  <2> QED
    BY <1>2, <1>5, <2>6, <2>1 DEF Select, TypeOK
<1>6. ASSUME Fetch(s) PROVE CheckpointInv'
  <2> DEFINE es == Fetched(job[s])
  <2>1. PICK c \in NewCheckpoint(job[s].since, job[s].sel, es) :
            job' = [job EXCEPT ![s] = [NoJob EXCEPT !.mb = job[s].mb, !.emails = es,
                                                    !.newState = c]]
    BY <1>6 DEF Fetch
  <2>2. Covers(c, job[s].mb, es)
    BY <1>6, <2>1, FetchCovers DEF Fetch
  <2>3. \A e \in es : e.mb = job[s].mb
    BY DEF Fetched
  <2>4. /\ pc'[s] = "persist" /\ job'[s].mb = job[s].mb
        /\ job'[s].emails = es /\ job'[s].newState = c
    <3> HIDE DEF es
    <3> QED BY <1>6, <2>1 DEF Fetch, TypeOK, NoJob
  <2> HIDE DEF es
  <2>5. Covers(job[s].newState, job[s].mb, job[s].emails)'
    BY <1>6, <2>2, <2>4 DEF Fetch, Covers, Stored, server
  <2>6. RunSound(s)'
    BY <2>3, <2>4, <2>5 DEF RunSound, PersistPc
  <2> QED
    BY <1>2, <1>6, <2>1, <2>6 DEF Fetch, TypeOK
<1>7. ASSUME FetchRefused(s) PROVE CheckpointInv'
  <2>1. RunSound(s)'
    BY <1>7, ResumePlace DEF FetchRefused, AbandonAccount, RunSound, PersistPc, TypeOK
  <2> QED
    BY <1>2, <1>7, <2>1 DEF FetchRefused, AbandonAccount, TypeOK
<1>8. ASSUME NEW e \in job[s].emails, CheckNew(s, e) PROVE CheckpointInv'
  <2>1. /\ pc'[s] \in {"save_new", "save_seen"} /\ job'[s].cur = e
        /\ job'[s].mb = job[s].mb /\ job'[s].emails = job[s].emails
        /\ job'[s].newState = job[s].newState
    BY <1>1, <1>8 DEF CheckNew, TypeOK, Job
  <2>2. Covers(job[s].newState, job[s].mb, job[s].emails)'
    BY <1>1, <1>8, <2>1 DEF CheckNew, RunSound, Covers, Stored, server, PersistPc
  <2>3. RunSound(s)'
    BY <1>1, <1>8, <2>1, <2>2 DEF CheckNew, RunSound, PersistPc
  <2> QED
    BY <1>2, <1>8, <2>3 DEF CheckNew, TypeOK
<1>9. ASSUME SaveEmail(s) PROVE CheckpointInv'
  <2> DEFINE rest == IF pc[s] = "save_new" THEN MatchedActions ELSE << >>
  <2>0. PICK m \in Mailbox, e \in Email : m = job[s].mb /\ e = job[s].cur
    BY <1>9 DEF SaveEmail, TypeOK, PersistPc
  <2>1. e \in job[s].emails /\ e.mb = m
    BY <1>1, <1>9, <2>0 DEF SaveEmail, RunSound, PersistPc
  <2>2. RowsKept /\ \E q \in store' : q.id = message_id(m, e.uid)
    BY <1>9, <2>0, <2>1, UpsertRows DEF SaveEmail
  <2>3. Continue(s, job[s].emails \ {e}, rest)
    BY <1>9, <2>0 DEF SaveEmail
  <2>4. /\ pc'[s] \in {"persist", "filter"} /\ job'[s].emails = job[s].emails \ {e}
        /\ job'[s].mb = job[s].mb /\ job'[s].newState = job[s].newState
        /\ \A t \in Sync \ {s} : pc'[t] = pc[t] /\ job'[t] = job[t]
    BY <1>1, <2>3, ContinueFrame DEF TypeOK
  <2>5. Covers(job[s].newState, job[s].mb, job[s].emails)
    BY <1>1, <1>9 DEF SaveEmail, RunSound, PersistPc
  <2>6. Covers(job[s].newState, job[s].mb, job[s].emails)'
    <3>1. \A id : Stored(id) => Stored(id)'
      BY <2>2 DEF RowsKept, Stored
    <3>2. Stored(message_id(m, e.uid))'
      BY <2>2 DEF Stored
    <3>3. UNCHANGED <<validity, uidnext, mbox>>
      BY <1>9 DEF SaveEmail, server
    <3> QED
      BY <2>0, <2>1, <2>4, <2>5, <3>1, <3>2, <3>3 DEF Covers, message_id
  <2>7. RunSound(s)'
    BY <1>1, <1>9, <2>4, <2>6 DEF SaveEmail, RunSound, PersistPc
  <2>8. UNCHANGED <<server, checkpoint>>
    BY <1>9 DEF SaveEmail
  <2>9. \A n \in Mailbox : Covers(checkpoint[n], n, {})'
    BY <2>2, <2>8, StillMailboxes, StoredCheckpoints
  <2> QED
    BY <2>2, <2>4, <2>7, <2>8, <2>9, RunStepInv
<1>10. ASSUME ApplyAction(s) PROVE CheckpointInv'
  <2>1. RowsKept
    BY <1>10, SetReadRows DEF ApplyAction, RowsKept
  <2>2. UNCHANGED <<server, checkpoint, job>> /\ pc[s] = "filter" /\ pc'[s] = "log"
        /\ \A t \in Sync \ {s} : pc'[t] = pc[t]
    BY <1>10 DEF ApplyAction, TypeOK
  <2>3. RunSound(s)'
    BY <1>1, <2>1, <2>2, PersistKept DEF RunSound, PersistPc
  <2>4. \A m \in Mailbox : Covers(checkpoint[m], m, {})'
    BY <2>1, <2>2, StillMailboxes, StoredCheckpoints
  <2> QED
    BY <2>1, <2>2, <2>3, <2>4, RunStepInv
<1>11. ASSUME LogAction(s) PROVE CheckpointInv'
  <2>1. /\ pc'[s] \in {"persist", "filter"} /\ job'[s].emails = job[s].emails
        /\ job'[s].mb = job[s].mb /\ job'[s].newState = job[s].newState
        /\ \A t \in Sync \ {s} : pc'[t] = pc[t] /\ job'[t] = job[t]
    BY <1>1, <1>11, ContinueFrame DEF LogAction, TypeOK
  <2>2. RunSound(s)'
    BY <1>1, <1>11, <2>1 DEF LogAction, RunSound, PersistPc, Covers, Stored, server
  <2> QED
    BY <1>2, <1>11, <2>1, <2>2 DEF LogAction
<1>12. ASSUME SaveCheckpoint(s) PROVE CheckpointInv'
  <2>1. job[s].mb \in Mailbox /\ Covers(job[s].newState, job[s].mb, {})
    BY <1>1, <1>12 DEF SaveCheckpoint, RunSound, PersistPc, TypeOK
  <2>2. \A m \in Mailbox : Covers(checkpoint[m], m, {})'
    BY <1>12, <2>1 DEF SaveCheckpoint, CheckpointInv, Covers, Stored, TypeOK, server
  <2>3. RunSound(s)'
    BY <1>12, ResumePlace DEF SaveCheckpoint, RunSound, PersistPc, TypeOK
  <2>4. RowsKept
    BY <1>12 DEF SaveCheckpoint, RowsKept
  <2> QED
    BY <1>12, <2>2, <2>3, <2>4, RunStepInv DEF SaveCheckpoint, TypeOK
<1> QED
  BY <1>3, <1>4, <1>5, <1>6, <1>7, <1>8, <1>9, <1>10, <1>11, <1>12 DEF Step

\* Failures abandon, cancel or restart runs; a recovery empties the tables
\* together, so nothing is left for a checkpoint to be ahead of.
LEMMA FailureInv ==
  ASSUME TypeOK, TypeOK', CheckpointInv, Crash \/ Recover \/ \E s \in Sync : Failures(s)
  PROVE  CheckpointInv'
<1>1. ASSUME NEW s \in Sync, UNCHANGED <<server, store, checkpoint>>, RunSound(s)',
             \A t \in Sync \ {s} : pc'[t] = pc[t] /\ job'[t] = job[t]
      PROVE  CheckpointInv'
  <2>1. RowsKept
    BY <1>1 DEF RowsKept
  <2>2. \A m \in Mailbox : Covers(checkpoint[m], m, {})'
    BY <1>1, <2>1, StillMailboxes, StoredCheckpoints
  <2> QED
    BY <1>1, <2>1, <2>2, RunStepInv
<1>2. ASSUME NEW s \in Sync, NEW a \in Account, AccountFails(s, a) PROVE CheckpointInv'
  <2>1. RunSound(s)'
    BY <1>2, ResumePlace DEF AccountFails, RunSound, PersistPc, TypeOK
  <2> QED
    BY <1>1, <1>2, <2>1 DEF AccountFails, TypeOK
<1>3. ASSUME NEW s \in Sync, CallFails(s) PROVE CheckpointInv'
  <2>1. RunSound(s)'
    BY <1>3, ResumePlace DEF CallFails, AbandonAccount, RunSound, PersistPc, TypeOK
  <2> QED
    BY <1>1, <1>3, <2>1 DEF CallFails, AbandonAccount, TypeOK
<1>4. ASSUME NEW s \in Sync, NEW e \in job[s].emails, LookupFails(s, e) PROVE CheckpointInv'
  <2>1. /\ pc[s] = "persist" /\ pc'[s] = "save_seen" /\ job'[s].cur = e
        /\ job'[s].mb = job[s].mb /\ job'[s].emails = job[s].emails
        /\ job'[s].newState = job[s].newState
    BY <1>4 DEF LookupFails, TypeOK, Job
  <2>2. RunSound(s)
    BY DEF CheckpointInv
  <2>3. Covers(job[s].newState, job[s].mb, job[s].emails)'
    BY <1>4, <2>1, <2>2 DEF LookupFails, RunSound, Covers, Stored, server, PersistPc
  <2>4. RunSound(s)'
    BY <2>1, <2>2, <2>3 DEF RunSound, PersistPc
  <2> QED
    BY <1>1, <1>4, <2>4 DEF LookupFails, TypeOK
<1>5. ASSUME NEW s \in Sync, ActionFails(s) PROVE CheckpointInv'
  <2>1. /\ pc'[s] \in {"persist", "filter"} /\ job'[s].emails = job[s].emails
        /\ job'[s].mb = job[s].mb /\ job'[s].newState = job[s].newState
        /\ \A t \in Sync \ {s} : pc'[t] = pc[t] /\ job'[t] = job[t]
    BY <1>5, ContinueFrame DEF ActionFails
  <2>2. RunSound(s)
    BY DEF CheckpointInv
  <2>3. RunSound(s)'
    BY <1>5, <2>1, <2>2 DEF ActionFails, RunSound, PersistPc, Covers, Stored, server
  <2> QED
    BY <1>1, <1>5, <2>1, <2>3 DEF ActionFails
<1>6. ASSUME NEW s \in Sync, Cancel(s) PROVE CheckpointInv'
  <2>1. RunSound(s)'
    BY <1>6 DEF Cancel, RunSound, PersistPc, TypeOK
  <2> QED
    BY <1>1, <1>6, <2>1 DEF Cancel, TypeOK
<1>7. ASSUME Restart, UNCHANGED server, \A m \in Mailbox : Covers(checkpoint[m], m, {})'
      PROVE  CheckpointInv'
  <2>1. \A s \in Sync : RunSound(s)'
    BY <1>7 DEF Restart, RunSound, PersistPc
  <2> QED
    BY <1>7, <2>1 DEF CheckpointInv, WellNumbered, server
<1>8. ASSUME Crash PROVE CheckpointInv'
  <2>1. \A m \in Mailbox : Covers(checkpoint[m], m, {})'
    BY <1>8 DEF Crash, CheckpointInv, Covers, Stored, server
  <2> QED
    BY <1>7, <1>8, <2>1 DEF Crash
<1>9. ASSUME Recover PROVE CheckpointInv'
  <2>1. \A m \in Mailbox : Covers(checkpoint[m], m, {})'
    BY <1>9 DEF Recover, Absent, Covers
  <2> QED
    BY <1>7, <1>9, <2>1 DEF Recover
<1> QED
  BY <1>2, <1>3, <1>4, <1>5, <1>6, <1>8, <1>9 DEF Failures

\* Client requests.
LEMMA RequestInv ==
  ASSUME TypeOK, TypeOK', CheckpointInv
  PROVE  /\ \A s \in Sync : Requests(s) => CheckpointInv'
         /\ \A r \in store, read \in ReadRequests : MarkReadRpc(r.id, read) => CheckpointInv'
<1>1. ASSUME NEW s \in Sync, NEW batch \in SUBSET Account, Begin(s, batch) PROVE CheckpointInv'
  <2>1. RunSound(s)'
    BY <1>1, ResumePlace DEF Begin, RunSound, PersistPc, TypeOK
  <2>2. RowsKept
    BY <1>1 DEF Begin, RowsKept
  <2>3. \A m \in Mailbox : Covers(checkpoint[m], m, {})'
    BY <1>1, <2>2, StillMailboxes, StoredCheckpoints DEF Begin
  <2> QED
    BY <1>1, <2>1, <2>2, <2>3, RunStepInv DEF Begin, TypeOK
<1>2. ASSUME NEW r \in store, NEW read \in ReadRequests, MarkReadRpc(r.id, read)
      PROVE  CheckpointInv'
  <2>1. RowsKept /\ UNCHANGED <<server, checkpoint, pc, job>>
    BY <1>2, SetReadRows DEF MarkReadRpc
  <2>2. \A m \in Mailbox : Covers(checkpoint[m], m, {})'
    BY <2>1, StillMailboxes, StoredCheckpoints
  <2>3. \A t \in Sync : RunSound(t)'
    BY <2>1, StillMailboxes, BystanderSound DEF CheckpointInv
  <2> QED
    BY <2>1, <2>2, <2>3 DEF CheckpointInv, WellNumbered, server
<1> QED
  BY <1>1, <1>2 DEF Requests

\* CheckpointInv is inductive.
LEMMA InitCheckpointInv == Init => CheckpointInv
<1> SUFFICES ASSUME Init PROVE CheckpointInv
  OBVIOUS
<1>1. WellNumbered
  BY DEF Init, WellNumbered
<1>2. \A m \in Mailbox : Covers(checkpoint[m], m, {})
  BY DEF Init, Covers, Absent, Unparseable
<1>3. \A s \in Sync : RunSound(s)
  BY RestingSound DEF Init
<1> QED
  BY <1>1, <1>2, <1>3 DEF CheckpointInv

LEMMA NextCheckpointInv == TypeOK /\ TypeOK' /\ CheckpointInv /\ [Next]_vars => CheckpointInv'
<1> SUFFICES ASSUME TypeOK, TypeOK', CheckpointInv, [Next]_vars PROVE CheckpointInv'
  OBVIOUS
<1>1. CASE UNCHANGED vars
  BY <1>1 DEF vars, server, CheckpointInv, WellNumbered, Covers, Stored, RunSound, SelectSound
<1>2. CASE Next
  BY <1>2, ServerInv, StepInv, FailureInv, RequestInv DEF Next
<1> QED
  BY <1>1, <1>2

\* The stored high-water mark of a folder never advances past work that
\* reached the store: fetch_and_persist may overlap with itself, fail at any
\* call, be cancelled, crash, and meet servers that renumber their mailboxes or
\* omit UIDVALIDITY and UIDNEXT.
THEOREM CheckpointsAreSound == Spec => []CheckpointSound
<1>1. CheckpointInv => CheckpointSound
  BY DEF CheckpointInv, Covers, CheckpointSound
<1> QED
  BY <1>1, InitCheckpointInv, NextCheckpointInv, TypeCorrect, PTL DEF Spec

-----------------------------------------------------------------------------
(* Which mail a UID stands for                                             *)

\* Somebody holds mail x under UID u: a mailbox, the store, or a run that has
\* fetched it.
Holds(u, x) ==
    \/ \E m \in Mailbox : \E y \in mbox[m] : y.uid = u /\ y.mail = x
    \/ \E r \in store : r.id = u /\ r.mail = x
    \/ \E s \in Sync : \E e \in job[s].emails : e.uid = u /\ e.mail = x
    \/ \E s \in Sync : job[s].cur # None /\ job[s].cur.uid = u /\ job[s].cur.mail = x

\* With one mailbox that is never renumbered a UID stands for one mail,
\* whoever holds it, and a mail has one UID: the next delivery is of another
\* mail under a UID nobody has seen.
OneToOne == \A u, v, x, y : Holds(u, x) /\ Holds(v, y) => (u = v <=> x = y)

Used == \A u, x : Holds(u, x) =>
            /\ u \in Nat /\ x \in Mail /\ x \notin undelivered
            /\ \A m \in Mailbox : u < uidnext[m]

IdInv == OneToOne /\ Used

\* A step after which everything that is held was held before.
NothingNew == \A u, x : Holds(u, x)' => Holds(u, x)

LEMMA IdKept ==
  ASSUME IdInv, NothingNew, UNCHANGED <<uidnext, undelivered>>
  PROVE  IdInv'
  BY DEF IdInv, OneToOne, Used, NothingNew

\* What a run may do to the rows: keep them, or write the one at hand.
RowsFrom(s) ==
    \A q \in store' : \/ \E r \in store : r.id = q.id /\ r.mail = q.mail
                      \/ job[s].cur # None /\ job[s].cur.uid = q.id /\ job[s].cur.mail = q.mail

\* What a run may have fetched after a step.
EmailsFrom(s) ==
    \A e \in job'[s].emails :
        \/ e \in job[s].emails
        \/ \E m \in Mailbox : \E y \in mbox[m] : y.uid = e.uid /\ y.mail = e.mail

\* A run that handles what it has or what the mailbox has brings up nothing
\* new.
LEMMA RunBringsNothingNew ==
  ASSUME NEW s \in Sync, UNCHANGED mbox, RowsFrom(s), EmailsFrom(s),
         job'[s].cur \in {None, job[s].cur} \union job[s].emails,
         \A t \in Sync \ {s} : job'[t] = job[t]
  PROVE  NothingNew
<1> SUFFICES ASSUME NEW u, NEW x, Holds(u, x)' PROVE Holds(u, x)
  BY DEF NothingNew
<1>1. CASE \E m \in Mailbox : \E y \in mbox'[m] : y.uid = u /\ y.mail = x
  BY <1>1 DEF Holds
<1>2. CASE \E q \in store' : q.id = u /\ q.mail = x
  BY <1>2 DEF RowsFrom, Holds
<1>3. CASE \E t \in Sync : \E e \in job'[t].emails : e.uid = u /\ e.mail = x
  BY <1>3 DEF EmailsFrom, Holds
<1>4. CASE \E t \in Sync : job'[t].cur # None /\ job'[t].cur.uid = u /\ job'[t].cur.mail = x
  BY <1>4 DEF Holds
<1> QED
  BY <1>1, <1>2, <1>3, <1>4 DEF Holds

\* save_email writes the message at hand, set_message_read only a flag.
LEMMA UpsertFrom ==
  ASSUME TypeOK, NEW s \in Sync, job[s].cur \in Email, store' = Upsert(job[s].cur)
  PROVE  RowsFrom(s)
<1>0. PICK e \in Email : e = job[s].cur
  OBVIOUS
<1> DEFINE row == [id |-> message_id(e.mb, e.uid), mb |-> e.mb, mail |-> e.mail, read |-> e.read]
<1>1. row.id = e.uid /\ row.mail = e.mail
  BY DEF message_id
<1>2. \A q \in store' : q \in store \/ q = row
  BY <1>0 DEF Upsert
<1> HIDE DEF row
<1>3. e # None
  BY SyncAssumption
<1> QED
  BY <1>0, <1>1, <1>2, <1>3 DEF RowsFrom

LEMMA SetReadFrom ==
  ASSUME TypeOK, NEW id, NEW b, SetRead(id, b)
  PROVE  \A q \in store' : \E r \in store : r.id = q.id /\ r.mail = q.mail /\ r.mb = q.mb
<1> SUFFICES ASSUME NEW q \in store'
             PROVE  \E r \in store : r.id = q.id /\ r.mail = q.mail /\ r.mb = q.mb
  OBVIOUS
<1>1. PICK r \in store : q = IF r.id = id THEN [r EXCEPT !.read = b] ELSE r
  BY DEF SetRead
<1>2. r \in Row
  BY DEF TypeOK
<1>3. [r EXCEPT !.read = b].id = r.id /\ [r EXCEPT !.read = b].mail = r.mail /\ [r EXCEPT !.read = b].mb = r.mb
  BY <1>2 DEF Row
<1> QED
  BY <1>1, <1>3

\* What the steps of a run do to its messages.
LEMMA ContinueMessages ==
  ASSUME TypeOK, NEW s \in Sync, NEW es, NEW rest, Continue(s, es, rest)
  PROVE  /\ job'[s].emails = es /\ job'[s].acts = rest
         /\ job'[s].cur = IF rest = << >> THEN None ELSE job[s].cur
         /\ pc'[s] = IF rest = << >> THEN "persist" ELSE "filter"
         /\ \A t \in Sync \ {s} : pc'[t] = pc[t] /\ job'[t] = job[t]
<1> DEFINE c == IF rest = << >> THEN None ELSE job[s].cur
           j == [job[s] EXCEPT !.emails = es, !.acts = rest, !.cur = c]
<1>1. job' = [job EXCEPT ![s] = j]
  BY DEF Continue, TypeOK, Job
<1>2. j.emails = es /\ j.acts = rest /\ j.cur = c
  BY DEF TypeOK, Job
<1> QED
  BY <1>1, <1>2 DEF Continue, TypeOK

LEMMA StepNothingNew ==
  ASSUME TypeOK, CheckpointInv, NEW s \in Sync, Step(s)
  PROVE  NothingNew /\ UNCHANGED <<uidnext, undelivered>>
<1>0. UNCHANGED server
  BY DEF Step, ListFolders, OpenFolder, Select, Fetch, FetchRefused, AbandonAccount, CheckNew,
         SaveEmail, ApplyAction, LogAction, SaveCheckpoint
<1>1. job[s] \in Job
  BY DEF TypeOK
<1>2. ASSUME UNCHANGED store, job'[s].emails \subseteq job[s].emails,
             job'[s].cur \in {None, job[s].cur} \union job[s].emails,
             \A t \in Sync \ {s} : job'[t] = job[t]
      PROVE  NothingNew
  BY <1>0, <1>2, RunBringsNothingNew DEF RowsFrom, EmailsFrom, server
<1>3. ASSUME NEW a \in Account, ListFolders(s, a) PROVE NothingNew
  BY <1>2, <1>3 DEF ListFolders
<1>4. ASSUME NEW m \in Mailbox, OpenFolder(s, m) PROVE NothingNew
  <2>1. /\ job'[s].emails = job[s].emails /\ job'[s].cur = job[s].cur
        /\ \A t \in Sync \ {s} : job'[t] = job[t]
    BY <1>1, <1>4 DEF OpenFolder, TypeOK, Job
  <2> QED
    BY <1>2, <1>4, <2>1 DEF OpenFolder
<1>5. ASSUME Select(s) PROVE NothingNew
  <2>1. /\ job'[s].emails = job[s].emails /\ job'[s].cur = job[s].cur
        /\ \A t \in Sync \ {s} : job'[t] = job[t]
    BY <1>1, <1>5 DEF Select, TypeOK, Job
  <2> QED
    BY <1>2, <1>5, <2>1 DEF Select
<1>6. ASSUME Fetch(s) PROVE NothingNew
  <2> DEFINE es == Fetched(job[s])
  <2>1. PICK c \in NewCheckpoint(job[s].since, job[s].sel, es) :
            job' = [job EXCEPT ![s] = [NoJob EXCEPT !.mb = job[s].mb, !.emails = es,
                                                    !.newState = c]]
    BY <1>6 DEF Fetch
  <2>2. job[s].mb \in Mailbox
    BY <1>6 DEF Fetch, TypeOK
  <2>3. \A e \in es : \E y \in mbox[job[s].mb] : y.uid = e.uid /\ y.mail = e.mail
    BY DEF Fetched, UidFetch
  <2> HIDE DEF es
  <2>4. job'[s].emails = es /\ job'[s].cur = None /\ \A t \in Sync \ {s} : job'[t] = job[t]
    BY <2>1 DEF TypeOK, NoJob
  <2>5. EmailsFrom(s) /\ RowsFrom(s)
    BY <1>6, <2>2, <2>3, <2>4 DEF EmailsFrom, RowsFrom, Fetch
  <2> QED
    BY <1>0, <2>4, <2>5, RunBringsNothingNew DEF server
<1>7. ASSUME FetchRefused(s) \/ SaveCheckpoint(s) PROVE NothingNew
  <2>1. job' = [job EXCEPT ![s] = NoJob] /\ store' = store
    BY <1>7 DEF FetchRefused, AbandonAccount, SaveCheckpoint
  <2>2. job'[s].emails = {} /\ job'[s].cur = None /\ \A t \in Sync \ {s} : job'[t] = job[t]
    BY <2>1 DEF TypeOK, NoJob
  <2> QED
    BY <1>2, <2>1, <2>2
<1>8. ASSUME NEW e \in job[s].emails, CheckNew(s, e) PROVE NothingNew
  <2>1. /\ job'[s].emails = job[s].emails /\ job'[s].cur = e
        /\ \A t \in Sync \ {s} : job'[t] = job[t]
    BY <1>1, <1>8 DEF CheckNew, TypeOK, Job
  <2> QED
    BY <1>2, <1>8, <2>1 DEF CheckNew
<1>9. ASSUME SaveEmail(s) PROVE NothingNew
  <2>1. PICK es, rest : es \subseteq job[s].emails /\ Continue(s, es, rest)
    BY <1>9 DEF SaveEmail
  <2>2. job[s].cur \in Email /\ store' = Upsert(job[s].cur)
    BY <1>9 DEF SaveEmail, TypeOK, PersistPc
  <2>3. RowsFrom(s)
    BY <2>2, UpsertFrom
  <2>4. /\ job'[s].emails = es /\ job'[s].cur \in {None, job[s].cur}
        /\ \A t \in Sync \ {s} : job'[t] = job[t]
    BY <2>1, ContinueMessages
  <2> QED
    BY <1>0, <2>1, <2>3, <2>4, RunBringsNothingNew DEF EmailsFrom, server
<1>10. ASSUME ApplyAction(s) PROVE NothingNew
  <2>1. job' = job
    BY <1>10 DEF ApplyAction
  <2>2. RowsFrom(s)
    BY <1>10, SetReadFrom DEF ApplyAction, RowsFrom
  <2> QED
    BY <1>0, <2>1, <2>2, RunBringsNothingNew DEF EmailsFrom, server
<1>11. ASSUME LogAction(s) PROVE NothingNew
  <2>1. /\ job'[s].emails = job[s].emails /\ job'[s].cur \in {None, job[s].cur}
        /\ \A t \in Sync \ {s} : job'[t] = job[t]
    BY <1>11, ContinueMessages DEF LogAction
  <2> QED
    BY <1>2, <1>11, <2>1 DEF LogAction
<1>12. NothingNew
  BY <1>3, <1>4, <1>5, <1>6, <1>7, <1>8, <1>9, <1>10, <1>11 DEF Step
<1> QED
  BY <1>0, <1>12 DEF server

\* Failures only drop what a run held; a recovery drops the rows as well.
LEMMA FailureNothingNew ==
  ASSUME TypeOK, Crash \/ Recover \/ \E s \in Sync : Failures(s)
  PROVE  NothingNew /\ UNCHANGED <<uidnext, undelivered>>
<1>0. UNCHANGED server
  BY DEF Failures, AccountFails, CallFails, AbandonAccount, LookupFails, ActionFails, Cancel, Crash, Recover
<1>1. ASSUME NEW s \in Sync, UNCHANGED store, job'[s].emails \subseteq job[s].emails,
             job'[s].cur \in {None, job[s].cur} \union job[s].emails,
             \A t \in Sync \ {s} : job'[t] = job[t]
      PROVE  NothingNew
  BY <1>0, <1>1, RunBringsNothingNew DEF RowsFrom, EmailsFrom, server
<1>2. ASSUME NEW s \in Sync, NEW a \in Account, AccountFails(s, a) PROVE NothingNew
  BY <1>1, <1>2 DEF AccountFails
<1>3. ASSUME NEW s \in Sync, CallFails(s) \/ Cancel(s) PROVE NothingNew
  <2>1. job' = [job EXCEPT ![s] = NoJob] /\ store' = store
    BY <1>3 DEF CallFails, AbandonAccount, Cancel
  <2>2. job'[s].emails = {} /\ job'[s].cur = None /\ \A t \in Sync \ {s} : job'[t] = job[t]
    BY <2>1 DEF TypeOK, NoJob
  <2> QED
    BY <1>1, <2>1, <2>2
<1>4. ASSUME NEW s \in Sync, NEW e \in job[s].emails, LookupFails(s, e) PROVE NothingNew
  <2>1. /\ job'[s].emails = job[s].emails /\ job'[s].cur = e
        /\ \A t \in Sync \ {s} : job'[t] = job[t]
    BY <1>4 DEF LookupFails, TypeOK, Job
  <2> QED
    BY <1>1, <1>4, <2>1 DEF LookupFails
<1>5. ASSUME NEW s \in Sync, ActionFails(s) PROVE NothingNew
  <2>1. /\ job'[s].emails = job[s].emails /\ job'[s].cur \in {None, job[s].cur}
        /\ \A t \in Sync \ {s} : job'[t] = job[t]
    BY <1>5, ContinueMessages DEF ActionFails
  <2> QED
    BY <1>1, <1>5, <2>1 DEF ActionFails
<1>6. ASSUME Crash \/ Recover PROVE NothingNew
  <2>1. /\ \A s \in Sync : job'[s].emails = {} /\ job'[s].cur = None
        /\ store' \subseteq store
    BY <1>6 DEF Crash, Recover, Restart, NoJob
  <2> QED
    BY <1>0, <2>1 DEF NothingNew, Holds, server
<1>7. NothingNew
  BY <1>2, <1>3, <1>4, <1>5, <1>6 DEF Failures
<1> QED
  BY <1>0, <1>7 DEF server

LEMMA RequestNothingNew ==
  ASSUME TypeOK,
         \/ \E s \in Sync : Requests(s)
         \/ \E r \in store, read \in ReadRequests : MarkReadRpc(r.id, read)
  PROVE  NothingNew /\ UNCHANGED <<uidnext, undelivered>>
<1>1. UNCHANGED <<server, job>>
  BY DEF Requests, Begin, MarkReadRpc
<1>2. \A q \in store' : \E r \in store : r.id = q.id /\ r.mail = q.mail
  <2>1. CASE store' = store
    BY <2>1
  <2>2. ASSUME NEW r \in store, NEW read \in ReadRequests, MarkReadRpc(r.id, read)
        PROVE  \A q \in store' : \E o \in store : o.id = q.id /\ o.mail = q.mail
    BY <2>2, SetReadFrom DEF MarkReadRpc
  <2> QED
    BY <2>1, <2>2 DEF Requests, Begin
<1> QED
  BY <1>1, <1>2 DEF NothingNew, Holds, server

\* A delivery is of a mail that had not arrived, under a UID not yet used.
LEMMA ServerId ==
  ASSUME \A m, n \in Mailbox : m = n, MaxValidity <= 1,
         TypeOK, CheckpointInv, IdInv, Server
  PROVE  IdInv'
<1>0. UNCHANGED <<store, job>>
  BY DEF Server, Deliver, Expunge, Renumber, MarkSeen
<1>1. ASSUME NEW m \in Mailbox, NEW x \in Mail, Deliver(m, x) PROVE IdInv'
  <2>1. x \in undelivered /\ undelivered' = undelivered \ {x}
    BY <1>1 DEF Deliver
  <2>2. PICK n \in Nat : n = uidnext[m]
    BY DEF TypeOK
  <2>3. uidnext'[m] = n + 1 /\ mbox'[m] = mbox[m] \union {[uid |-> n, mail |-> x]}
    BY <1>1, <2>2 DEF Deliver, TypeOK
  <2>4. \A u, z : Holds(u, z)' => Holds(u, z) \/ (u = n /\ z = x)
    <3> SUFFICES ASSUME NEW u, NEW z, Holds(u, z)', ~Holds(u, z) PROVE u = n /\ z = x
      OBVIOUS
    <3>1. \E k \in Mailbox : \E y \in mbox'[k] : y.uid = u /\ y.mail = z
      BY <1>0 DEF Holds
    <3>2. PICK y \in mbox'[m] : y.uid = u /\ y.mail = z
      BY <3>1
    <3>3. y \notin mbox[m]
      BY <3>2 DEF Holds
    <3> QED
      BY <2>3, <3>2, <3>3
  <2>5. \A u, z : Holds(u, z) => u \in Nat /\ u < n /\ z \in Mail /\ z \notin undelivered
    BY <2>2 DEF IdInv, Used
  <2>6. OneToOne'
    <3> SUFFICES ASSUME NEW u, NEW v, NEW y, NEW z, Holds(u, y)', Holds(v, z)'
                 PROVE  u = v <=> y = z
      BY DEF OneToOne
    <3>1. Holds(u, y) /\ Holds(v, z) => (u = v <=> y = z)
      BY DEF IdInv, OneToOne
    <3> QED
      BY <2>1, <2>2, <2>4, <2>5, <3>1
  <2>7. Used'
    <3> SUFFICES ASSUME NEW u, NEW z, Holds(u, z)'
                 PROVE  u \in Nat /\ z \in Mail /\ z \notin undelivered' /\ u < uidnext'[m]
      BY DEF Used
    <3> QED
      BY <2>1, <2>2, <2>3, <2>4, <2>5
  <2> QED
    BY <2>6, <2>7 DEF IdInv
<1>2. ASSUME NEW m \in Mailbox, NEW x \in mbox[m], Expunge(m, x) PROVE IdInv'
  <2>1. UNCHANGED <<uidnext, undelivered>> /\ \A n \in Mailbox : mbox'[n] \subseteq mbox[n]
    BY <1>2 DEF Expunge, TypeOK
  <2>2. NothingNew
    BY <1>0, <2>1 DEF NothingNew, Holds
  <2> QED
    BY <2>1, <2>2, IdKept
<1>3. ASSUME NEW m \in Mailbox, NEW n, NEW renum, Renumber(m, n, renum) PROVE FALSE
  BY <1>3, SyncAssumption DEF Renumber, CheckpointInv, WellNumbered, TypeOK
<1>4. ASSUME NEW x, MarkSeen(x) PROVE IdInv'
  <2>1. UNCHANGED <<uidnext, undelivered, mbox>>
    BY <1>4 DEF MarkSeen
  <2>2. NothingNew
    BY <1>0, <2>1 DEF NothingNew, Holds
  <2> QED
    BY <2>1, <2>2, IdKept
<1> QED
  BY <1>1, <1>2, <1>3, <1>4 DEF Server

LEMMA InitId == Init => IdInv
<1> SUFFICES ASSUME Init PROVE IdInv
  OBVIOUS
<1>1. \A s \in Sync : job[s].emails = {} /\ job[s].cur = None
  BY DEF Init, NoJob
<1>2. \A u, x : ~Holds(u, x)
  BY <1>1 DEF Init, Holds
<1> QED
  BY <1>2 DEF IdInv, OneToOne, Used

LEMMA NextId ==
  ASSUME \A m, n \in Mailbox : m = n, MaxValidity <= 1,
         TypeOK, CheckpointInv, IdInv, [Next]_vars
  PROVE  IdInv'
<1>1. CASE UNCHANGED vars
  BY <1>1, IdKept DEF vars, server, NothingNew, Holds
<1>2. CASE Next
  BY <1>2, ServerId, StepNothingNew, FailureNothingNew, RequestNothingNew, IdKept DEF Next
<1> QED
  BY <1>1, <1>2

LEMMA IdsStandForMails ==
  (\A m, n \in Mailbox : m = n) /\ MaxValidity <= 1 /\ Spec => [](TypeOK /\ CheckpointInv /\ IdInv)
<1> SUFFICES ASSUME \A m, n \in Mailbox : m = n, MaxValidity <= 1
             PROVE  Spec => [](TypeOK /\ CheckpointInv /\ IdInv)
  OBVIOUS
<1> DEFINE I == CheckpointInv /\ IdInv
<1>1. Init => I
  BY InitCheckpointInv, InitId
<1>2. TypeOK /\ TypeOK' /\ I /\ [Next]_vars => I'
  BY NextCheckpointInv, NextId
<1> QED
  BY <1>1, <1>2, TypeCorrect, PTL DEF Spec

\* fetch_and_persist: with one mailbox that the server does not renumber, and
\* any number of overlapping sync runs, failures and crashes, every message
\* below a stored checkpoint is in the store itself, so no incremental sync
\* can skip a mail.
THEOREM NoMailIsLost ==
  (\A m, n \in Mailbox : m = n) /\ MaxValidity <= 1 /\ Spec => []NoMailLoss
<1> SUFFICES ASSUME \A m, n \in Mailbox : m = n, MaxValidity <= 1
             PROVE  Spec => []NoMailLoss
  OBVIOUS
<1>1. TypeOK /\ CheckpointInv /\ IdInv => NoMailLoss
  <2> SUFFICES ASSUME TypeOK, CheckpointInv, IdInv, NEW m \in Mailbox,
                      checkpoint[m].kind = "uid", checkpoint[m].validity = validity[m],
                      NEW x \in mbox[m], x.uid < checkpoint[m].uid
               PROVE  \E r \in store : r.mb = m /\ r.mail = x.mail
    BY DEF NoMailLoss
  <2>1. PICK r \in store : r.id = x.uid
    BY DEF CheckpointInv, Covers, Stored, message_id
  <2>2. Holds(x.uid, x.mail) /\ Holds(r.id, r.mail)
    BY DEF Holds
  <2>3. r.mail = x.mail
    BY <2>1, <2>2 DEF IdInv, OneToOne
  <2>4. r.mb \in Mailbox
    BY DEF TypeOK, Row
  <2> QED
    BY <2>3, <2>4
<1> QED
  BY <1>1, IdsStandForMails, PTL

-----------------------------------------------------------------------------
(* The execution log                                                       *)

Places == Mail \X (1..Len(MatchedActions))

\* The runs that have applied the action at a place and not logged it yet.
Owing(p) == {s \in Sync : pc[s] = "log" /\ Place(s) = p}

\* Every entry of the log has a firing of its own, and so has every run that
\* is about to write one.
LogInv ==
    \A p \in Places : IsFiniteSet(Owing(p)) /\ logged[p] + Cardinality(Owing(p)) <= fired[p]

\* A run in a filter pass is at one of the places.
LEMMA PlaceType ==
  ASSUME TypeOK, NEW s \in Sync, pc[s] \in {"filter", "log"}
  PROVE  Place(s) \in Places
<1>1. job[s].cur \in Email /\ Len(job[s].acts) \in 1..Len(MatchedActions)
  BY DEF TypeOK, PersistPc
<1>2. Len(MatchedActions) \in Nat
  BY SyncAssumption
<1>3. job[s].cur.mail \in Mail /\ Len(MatchedActions) - Len(job[s].acts) + 1 \in 1..Len(MatchedActions)
  BY <1>1, <1>2 DEF Email
<1> QED
  BY <1>3 DEF Place, Places

\* Counting changes the one place.
LEMMA Counted ==
  ASSUME NEW f \in [Places -> Nat], NEW p \in Places
  PROVE  \A q \in Places : [f EXCEPT ![p] = @ + 1][q] = IF q = p THEN f[q] + 1 ELSE f[q]
  OBVIOUS

\* No other step applies or logs an action, and whoever owes an entry
\* afterwards did so before.
LEMMA OthersOwe ==
  ASSUME TypeOK, [Next]_vars, \A s \in Sync : ~ApplyAction(s) /\ ~LogAction(s)
  PROVE  /\ UNCHANGED effects
         /\ \A t \in Sync : pc'[t] = "log" => pc[t] = "log" /\ job'[t] = job[t]
<1> DEFINE Others == /\ UNCHANGED effects
                     /\ \A t \in Sync : pc'[t] = "log" => pc[t] = "log" /\ job'[t] = job[t]
<1>1. ASSUME UNCHANGED <<effects, pc, job>> PROVE Others
  BY <1>1
<1>2. ASSUME NEW s \in Sync, UNCHANGED effects, pc'[s] # "log",
             \A t \in Sync \ {s} : pc'[t] = pc[t] /\ job'[t] = job[t]
      PROVE  Others
  BY <1>2
<1>3. ASSUME Server \/ UNCHANGED vars \/ \E r \in store, read \in ReadRequests : MarkReadRpc(r.id, read)
      PROVE  Others
  BY <1>1, <1>3 DEF Server, Deliver, Expunge, Renumber, MarkSeen, MarkReadRpc, vars
<1>4. ASSUME Crash \/ Recover PROVE Others
  BY <1>4 DEF Crash, Recover, Restart
<1>5. ASSUME NEW s \in Sync, Requests(s) PROVE Others
  <2>1. PICK batch : Begin(s, batch)
    BY <1>5 DEF Requests
  <2> QED
    BY <1>2, <2>1, ResumePlace DEF Begin, TypeOK
<1>6. ASSUME NEW s \in Sync, Step(s) PROVE Others
  <2>1. CASE \E a \in Account : ListFolders(s, a)
    <3>1. PICK a \in Account : ListFolders(s, a)
      BY <2>1
    <3>2. pc'[s] # "log" /\ UNCHANGED <<effects, job>>
      BY <3>1, ResumePlace DEF ListFolders, TypeOK
    <3>3. \A t \in Sync \ {s} : pc'[t] = pc[t]
      BY <3>1 DEF ListFolders, TypeOK
    <3> QED
      BY <1>2, <3>2, <3>3
  <2>2. CASE \E m \in Mailbox : OpenFolder(s, m)
    <3>1. PICK m \in Mailbox : OpenFolder(s, m)
      BY <2>2
    <3>2. pc'[s] # "log" /\ UNCHANGED effects
      BY <3>1 DEF OpenFolder, TypeOK
    <3>3. \A t \in Sync \ {s} : pc'[t] = pc[t] /\ job'[t] = job[t]
      BY <3>1 DEF OpenFolder, TypeOK
    <3> QED
      BY <1>2, <3>2, <3>3
  <2>3. CASE Select(s)
    BY <1>2, <2>3 DEF Select, TypeOK
  <2>4. CASE Fetch(s)
    BY <1>2, <2>4 DEF Fetch, TypeOK
  <2>5. CASE FetchRefused(s)
    BY <1>2, <2>5, ResumePlace DEF FetchRefused, AbandonAccount, TypeOK
  <2>6. CASE \E e \in job[s].emails : CheckNew(s, e)
    BY <1>2, <2>6 DEF CheckNew, TypeOK
  <2>7. CASE SaveEmail(s)
    <3>1. PICK es, rest : Continue(s, es, rest)
      BY <2>7 DEF SaveEmail
    <3> QED
      BY <1>2, <2>7, <3>1, ContinueMessages DEF SaveEmail
  <2>8. CASE SaveCheckpoint(s)
    BY <1>2, <2>8, ResumePlace DEF SaveCheckpoint, TypeOK
  <2> QED
    BY <1>6, <2>1, <2>2, <2>3, <2>4, <2>5, <2>6, <2>7, <2>8 DEF Step
<1>7. ASSUME NEW s \in Sync, Failures(s) PROVE Others
  <2>1. CASE \E a \in Account : AccountFails(s, a)
    <3>1. PICK a \in Account : AccountFails(s, a)
      BY <2>1
    <3>2. pc'[s] # "log" /\ UNCHANGED <<effects, job>>
      BY <3>1, ResumePlace DEF AccountFails, TypeOK
    <3>3. \A t \in Sync \ {s} : pc'[t] = pc[t]
      BY <3>1 DEF AccountFails, TypeOK
    <3> QED
      BY <1>2, <3>2, <3>3
  <2>2. CASE CallFails(s)
    BY <1>2, <2>2, ResumePlace DEF CallFails, AbandonAccount, TypeOK
  <2>3. CASE \E e \in job[s].emails : LookupFails(s, e)
    BY <1>2, <2>3 DEF LookupFails, TypeOK
  <2>4. CASE ActionFails(s)
    BY <1>2, <2>4, ContinueMessages DEF ActionFails
  <2>5. CASE Cancel(s)
    BY <1>2, <2>5 DEF Cancel, TypeOK
  <2> QED
    BY <1>7, <2>1, <2>2, <2>3, <2>4, <2>5 DEF Failures
<1> QED
  BY <1>3, <1>4, <1>5, <1>6, <1>7 DEF Next

LEMMA NextLog ==
  ASSUME TypeOK, TypeOK', LogInv, [Next]_vars
  PROVE  LogInv'
<1>0. /\ fired \in [Places -> Nat] /\ logged \in [Places -> Nat]
      /\ fired' \in [Places -> Nat] /\ logged' \in [Places -> Nat]
  BY DEF TypeOK, Places
<1>1. ASSUME NEW s \in Sync, ApplyAction(s) PROVE LogInv'
  <2>0. PICK p \in Places : p = Place(s)
    BY <1>1, PlaceType DEF ApplyAction
  <2>1. /\ pc[s] = "filter" /\ pc'[s] = "log" /\ job' = job /\ logged' = logged
        /\ fired' = [fired EXCEPT ![p] = @ + 1] /\ \A t \in Sync \ {s} : pc'[t] = pc[t]
    BY <1>1, <2>0 DEF ApplyAction, TypeOK
  <2>2. \A q \in Places : fired'[q] = IF q = p THEN fired[q] + 1 ELSE fired[q]
    BY <1>0, <2>1, Counted
  <2>3. \A t \in Sync : Place(t)' = Place(t)
    BY <2>1 DEF Place
  <2>4. \A q \in Places : Owing(q)' = IF q = p THEN Owing(q) \union {s} ELSE Owing(q)
    BY <2>0, <2>1, <2>3 DEF Owing
  <2>5. s \notin Owing(p)
    BY <2>1 DEF Owing
  <2> SUFFICES ASSUME NEW q \in Places
               PROVE  IsFiniteSet(Owing(q))' /\ logged'[q] + Cardinality(Owing(q)') <= fired'[q]
    BY DEF LogInv
  <2>6. PICK W : W = Owing(q)
    OBVIOUS
  <2>7. IsFiniteSet(W) /\ logged[q] + Cardinality(W) <= fired[q]
    BY <2>6 DEF LogInv
  <2>8. CASE q # p
    <3>1. Owing(q)' = W
      BY <2>4, <2>6, <2>8
    <3>2. fired'[q] = fired[q] /\ logged'[q] = logged[q]
      BY <2>1, <2>2, <2>8
    <3> QED
      BY <2>7, <3>1, <3>2
  <2>9. CASE q = p
    <3>1. IsFiniteSet(W \union {s}) /\ Cardinality(W \union {s}) = Cardinality(W) + 1
      BY <2>5, <2>6, <2>7, <2>9, FS_AddElement
    <3>2. Cardinality(W) \in Nat /\ logged[q] \in Nat /\ fired[q] \in Nat
      BY <1>0, <2>7, FS_CardinalityType
    <3>3. Owing(q)' = W \union {s}
      BY <2>4, <2>6, <2>9
    <3>4. fired'[q] = fired[q] + 1 /\ logged'[q] = logged[q]
      BY <2>1, <2>2, <2>9
    <3> QED
      BY <2>7, <3>1, <3>2, <3>3, <3>4
  <2> QED
    BY <2>8, <2>9
<1>2. ASSUME NEW s \in Sync, LogAction(s) PROVE LogInv'
  <2>0. PICK p \in Places : p = Place(s)
    BY <1>2, PlaceType DEF LogAction
  <2>1. /\ pc[s] = "log" /\ fired' = fired /\ logged' = [logged EXCEPT ![p] = @ + 1]
    BY <1>2, <2>0 DEF LogAction
  <2>2. pc'[s] # "log" /\ \A t \in Sync \ {s} : pc'[t] = pc[t] /\ job'[t] = job[t]
    BY <1>2, ContinueMessages DEF LogAction
  <2>3. \A q \in Places : logged'[q] = IF q = p THEN logged[q] + 1 ELSE logged[q]
    BY <1>0, <2>1, Counted
  <2>4. \A t \in Sync \ {s} : Place(t)' = Place(t)
    BY <2>2 DEF Place
  <2>5. \A q \in Places : Owing(q)' = Owing(q) \ {s}
    BY <2>2, <2>4 DEF Owing
  <2>6. s \in Owing(p) /\ \A q \in Places : q # p => s \notin Owing(q)
    BY <2>0, <2>1 DEF Owing
  <2> SUFFICES ASSUME NEW q \in Places
               PROVE  IsFiniteSet(Owing(q))' /\ logged'[q] + Cardinality(Owing(q)') <= fired'[q]
    BY DEF LogInv
  <2>7. PICK W : W = Owing(q)
    OBVIOUS
  <2>8. IsFiniteSet(W) /\ logged[q] + Cardinality(W) <= fired[q]
    BY <2>7 DEF LogInv
  <2>9. CASE q # p
    <3>1. Owing(q)' = W
      BY <2>5, <2>6, <2>7, <2>9
    <3>2. logged'[q] = logged[q] /\ fired'[q] = fired[q]
      BY <2>1, <2>3, <2>9
    <3> QED
      BY <2>8, <3>1, <3>2
  <2>10. CASE q = p
    <3>1. IsFiniteSet(W \ {s}) /\ Cardinality(W \ {s}) = Cardinality(W) - 1
      BY <2>6, <2>7, <2>8, <2>10, FS_RemoveElement
    <3>2. Cardinality(W) \in Nat /\ logged[q] \in Nat /\ fired[q] \in Nat
      BY <1>0, <2>8, FS_CardinalityType
    <3>3. Owing(q)' = W \ {s}
      BY <2>5, <2>7
    <3>4. logged'[q] = logged[q] + 1 /\ fired'[q] = fired[q]
      BY <2>1, <2>3, <2>10
    <3> QED
      BY <2>8, <3>1, <3>2, <3>3, <3>4
  <2> QED
    BY <2>9, <2>10
<1>3. ASSUME \A s \in Sync : ~ApplyAction(s) /\ ~LogAction(s) PROVE LogInv'
  <2>1. /\ fired' = fired /\ logged' = logged
        /\ \A t \in Sync : pc'[t] = "log" => pc[t] = "log" /\ job'[t] = job[t]
    BY <1>3, OthersOwe DEF effects
  <2>2. \A q \in Places : Owing(q)' \subseteq Owing(q)
    BY <2>1 DEF Owing, Place
  <2> SUFFICES ASSUME NEW q \in Places
               PROVE  IsFiniteSet(Owing(q))' /\ logged'[q] + Cardinality(Owing(q)') <= fired'[q]
    BY DEF LogInv
  <2>3. PICK V, W : V = Owing(q) /\ W = Owing(q)'
    OBVIOUS
  <2>4. IsFiniteSet(V) /\ logged[q] + Cardinality(V) <= fired[q] /\ W \in SUBSET V
    BY <2>2, <2>3 DEF LogInv
  <2>5. IsFiniteSet(W) /\ Cardinality(W) <= Cardinality(V)
    BY <2>4, FS_Subset
  <2>6. /\ Cardinality(V) \in Nat /\ Cardinality(W) \in Nat
        /\ logged[q] \in Nat /\ fired[q] \in Nat
    BY <1>0, <2>4, <2>5, FS_CardinalityType
  <2> QED
    BY <2>1, <2>3, <2>4, <2>5, <2>6
<1> QED
  BY <1>1, <1>2, <1>3

\* save_filter_execution_log: for any number of overlapping sync runs and
\* failures at any call, the execution log never has more entries for an
\* action than the action took effect.
THEOREM LogIsTruthful == Spec => []LogTruthful
<1>1. Init => LogInv
  <2> SUFFICES ASSUME Init, NEW p \in Places
               PROVE  IsFiniteSet(Owing(p)) /\ logged[p] + Cardinality(Owing(p)) <= fired[p]
    BY DEF LogInv
  <2>1. Owing(p) = {} /\ logged[p] = 0 /\ fired[p] = 0
    BY DEF Init, Owing, Places
  <2> QED
    BY <2>1, FS_EmptySet
<1>2. TypeOK /\ TypeOK' /\ LogInv /\ [Next]_vars => LogInv'
  BY NextLog
<1>3. TypeOK /\ LogInv => LogTruthful
  <2> SUFFICES ASSUME TypeOK, LogInv, NEW p \in Places PROVE logged[p] <= fired[p]
    BY DEF LogTruthful, TypeOK, Places
  <2>1. IsFiniteSet(Owing(p)) /\ logged[p] + Cardinality(Owing(p)) <= fired[p]
    BY DEF LogInv
  <2>2. Cardinality(Owing(p)) \in Nat /\ logged[p] \in Nat /\ fired[p] \in Nat
    BY <2>1, FS_CardinalityType DEF TypeOK, Places
  <2> QED
    BY <2>1, <2>2
<1> QED
  BY <1>1, <1>2, <1>3, TypeCorrect, PTL DEF Spec

-----------------------------------------------------------------------------
(* Filter actions fire once                                                *)

InStore(x) == \E r \in store : r.mail = x

\* How many actions of the pass over its message a run has behind it.
Behind(s) == Len(MatchedActions) - Len(job[s].acts)

InPass(s) == pc[s] \in {"filter", "log"}

\* The actions that have fired in this pass.
Applied(s) == 1 .. (IF pc[s] = "log" THEN Behind(s) + 1 ELSE Behind(s))

\* No action has fired for a mail that is not stored, or is about to be
\* stored as a new one; in a pass none that is still ahead has.
NotYetFired ==
    /\ \A x \in Mail : ~InStore(x) => \A i \in 1..Len(MatchedActions) : fired[<<x, i>>] = 0
    /\ \A s \in Sync : pc[s] = "save_new" => ~InStore(job[s].cur.mail)
    /\ \A s \in Sync : InPass(s) =>
          /\ InStore(job[s].cur.mail)
          /\ \A i \in (1..Len(MatchedActions)) \ Applied(s) : fired[<<job[s].cur.mail, i>>] = 0

\* As long as nothing failed, a message that is taken for known is stored, the
\* actions a pass has behind it have fired, and all have for every stored mail
\* that no pass is at.
FiredUnlessFault ==
    faults = 0 =>
        /\ \A s \in Sync : pc[s] = "save_seen" => InStore(job[s].cur.mail)
        /\ \A s \in Sync : InPass(s) => \A i \in Applied(s) : fired[<<job[s].cur.mail, i>>] >= 1
        /\ \A x \in Mail : InStore(x) =>
              Filtered(x) \/ \E s \in Sync : InPass(s) /\ job[s].cur.mail = x

FilterInv == AtMostOnce /\ NotYetFired /\ FiredUnlessFault

\* A step that changes neither the mails stored nor what has fired keeps the
\* invariant if every run stays where it is in its pass or has left it.
LEMMA FilterFrame ==
  ASSUME TypeOK, FilterInv, UNCHANGED fired, faults' = 0 => faults = 0,
         \A x \in Mail : InStore(x)' <=> InStore(x),
         \A s \in Sync :
             \/ pc'[s] = pc[s] /\ job'[s].cur = job[s].cur /\ job'[s].acts = job[s].acts
             \/ pc'[s] \notin {"save_new", "save_seen", "filter", "log"} /\ (faults' = 0 => ~InPass(s))
  PROVE  FilterInv'
<1>1. AtMostOnce'
  BY DEF FilterInv, AtMostOnce
<1>2. \A s \in Sync : pc[s] \in {"save_new", "save_seen", "filter", "log"} => job[s].cur.mail \in Mail
  BY DEF TypeOK, PersistPc, Email
<1>3. \A s \in Sync : pc'[s] \in {"save_new", "save_seen", "filter", "log"} =>
          /\ pc'[s] = pc[s] /\ job'[s].cur = job[s].cur
          /\ Applied(s)' = Applied(s)
  BY DEF Applied, Behind
<1>4. NotYetFired'
  BY <1>2, <1>3 DEF FilterInv, NotYetFired, InPass
<1>5. ASSUME faults' = 0
      PROVE  /\ \A s \in Sync : pc'[s] = "save_seen" => InStore(job[s].cur.mail)'
             /\ \A s \in Sync : InPass(s)' => \A i \in Applied(s)' : fired'[<<job'[s].cur.mail, i>>] >= 1
             /\ \A x \in Mail : InStore(x)' =>
                    Filtered(x)' \/ \E s \in Sync : InPass(s)' /\ job'[s].cur.mail = x
  <2>1. \A s \in Sync : pc'[s] = "save_seen" => InStore(job[s].cur.mail)'
    BY <1>2, <1>3, <1>5 DEF FilterInv, FiredUnlessFault
  <2>2. \A s \in Sync : InPass(s)' => \A i \in Applied(s)' : fired'[<<job'[s].cur.mail, i>>] >= 1
    BY <1>3, <1>5 DEF FilterInv, FiredUnlessFault, InPass
  <2>3. \A x \in Mail : Filtered(x)' <=> Filtered(x)
    BY DEF Filtered
  <2>4. \A s \in Sync : InPass(s) => InPass(s)' /\ job'[s].cur.mail = job[s].cur.mail
    BY <1>5 DEF InPass
  <2> QED
    BY <1>5, <2>1, <2>2, <2>3, <2>4 DEF FilterInv, FiredUnlessFault
<1> QED
  BY <1>1, <1>4, <1>5 DEF FilterInv, FiredUnlessFault

\* The stored mails are those of the rows, whatever their flags.
LEMMA SetReadMails ==
  ASSUME TypeOK, NEW id, NEW b, SetRead(id, b)
  PROVE  \A x \in Mail : InStore(x)' <=> InStore(x)
<1>1. \A q \in store' : \E r \in store : r.mail = q.mail
  BY SetReadFrom
<1>2. ASSUME NEW r \in store PROVE \E q \in store' : q.mail = r.mail
  <2>1. (IF r.id = id THEN [r EXCEPT !.read = b] ELSE r) \in store'
    BY DEF SetRead
  <2>2. [r EXCEPT !.read = b].mail = r.mail
    BY DEF TypeOK, Row
  <2> QED
    BY <2>1, <2>2
<1> QED
  BY <1>1, <1>2 DEF InStore

\* Where UIDs stand for mails, saving a message adds its mail and drops none.
LEMMA UpsertMails ==
  ASSUME TypeOK, IdInv, NEW s \in Sync, NEW e \in Email, e = job[s].cur, store' = Upsert(e)
  PROVE  \A x \in Mail : InStore(x)' <=> InStore(x) \/ x = e.mail
<1> DEFINE row == [id |-> message_id(e.mb, e.uid), mb |-> e.mb, mail |-> e.mail, read |-> e.read]
<1>1. row.id = e.uid /\ row.mail = e.mail
  BY DEF message_id
<1>2. store' = {r \in store : r.id # e.uid} \union {row}
  BY DEF Upsert, message_id
<1> HIDE DEF row
<1>3. Holds(e.uid, e.mail)
  BY SyncAssumption DEF Holds
<1>4. \A r \in store : r.id = e.uid => r.mail = e.mail
  <2> SUFFICES ASSUME NEW r \in store, r.id = e.uid PROVE r.mail = e.mail
    OBVIOUS
  <2>1. Holds(r.id, r.mail)
    BY DEF Holds
  <2> QED
    BY <1>3, <2>1 DEF IdInv, OneToOne
<1> QED
  BY <1>1, <1>2, <1>4 DEF InStore

\* Looking a message up tells whether its mail is stored.
LEMMA LookupMail ==
  ASSUME TypeOK, IdInv, NEW s \in Sync, NEW e \in job[s].emails
  PROVE  Stored(message_id(e.mb, e.uid)) <=> InStore(e.mail)
<1>1. Holds(e.uid, e.mail)
  BY DEF Holds
<1>2. \A r \in store : Holds(r.id, r.mail)
  BY DEF Holds
<1> QED
  BY <1>1, <1>2 DEF IdInv, OneToOne, Stored, InStore, message_id

\* The message a run takes up is new if its mail is not stored.
LEMMA TakeUp ==
  ASSUME \A s, t \in Sync : s = t, TypeOK, IdInv, FilterInv, NEW s \in Sync,
         NEW e \in job[s].emails, CheckNew(s, e) \/ LookupFails(s, e)
  PROVE  FilterInv'
<1>1. /\ UNCHANGED <<store, fired>> /\ pc[s] = "persist" /\ job'[s].cur = e
      /\ \A t \in Sync : t = s
  BY DEF CheckNew, LookupFails, TypeOK, Job, effects
<1>2. \/ pc'[s] = "save_new" /\ ~InStore(e.mail) /\ faults' = faults
      \/ pc'[s] = "save_seen" /\ (faults' = 0 => InStore(e.mail) /\ faults = 0)
  BY LookupMail DEF CheckNew, LookupFails, Fault, TypeOK, budget
<1>3. \A x \in Mail : (InStore(x)' <=> InStore(x)) /\ (Filtered(x)' <=> Filtered(x))
  BY <1>1 DEF InStore, Filtered
<1>4. InStore(e.mail)' <=> InStore(e.mail)
  BY <1>1 DEF InStore
<1>5. AtMostOnce'
  BY <1>1 DEF FilterInv, AtMostOnce
<1>6. NotYetFired'
  BY <1>1, <1>2, <1>3, <1>4 DEF FilterInv, NotYetFired, InPass
<1>7. FiredUnlessFault'
  BY <1>1, <1>2, <1>3, <1>4 DEF FilterInv, FiredUnlessFault, InPass
<1> QED
  BY <1>5, <1>6, <1>7 DEF FilterInv

\* A message saved as new has all its actions ahead of it; one saved as known
\* has its mail in the store already.
LEMMA SaveFilters ==
  ASSUME \A s, t \in Sync : s = t, TypeOK, IdInv, FilterInv, NEW s \in Sync, SaveEmail(s)
  PROVE  FilterInv'
<1>0. PICK e \in Email : e = job[s].cur
  BY DEF SaveEmail, TypeOK, PersistPc
<1> DEFINE K == Len(MatchedActions)
           rest == IF pc[s] = "save_new" THEN MatchedActions ELSE << >>
<1>1. /\ store' = Upsert(e) /\ UNCHANGED <<fired, faults>> /\ pc[s] \in {"save_new", "save_seen"}
      /\ Continue(s, job[s].emails \ {job[s].cur}, rest) /\ \A t \in Sync : t = s
  BY <1>0 DEF SaveEmail, effects, budget
<1>2. /\ job'[s].acts = rest /\ job'[s].cur = IF rest = << >> THEN None ELSE e
      /\ pc'[s] = IF rest = << >> THEN "persist" ELSE "filter"
  BY <1>0, <1>1, ContinueMessages
<1>3. K \in Nat /\ (MatchedActions = << >> => K = 0) /\ e.mail \in Mail
  BY SyncAssumption DEF Email
<1>4. \A x \in Mail : InStore(x)' <=> InStore(x) \/ x = e.mail
  BY <1>0, <1>1, UpsertMails
<1>5. AtMostOnce'
  BY <1>1 DEF FilterInv, AtMostOnce
<1>6. pc'[s] = "filter" => /\ pc[s] = "save_new" /\ job'[s].cur = e /\ Applied(s)' = {} /\ ~InStore(e.mail)
  <2> SUFFICES ASSUME pc'[s] = "filter"
               PROVE  /\ pc[s] = "save_new" /\ job'[s].cur = e /\ Applied(s)' = {} /\ ~InStore(e.mail)
    OBVIOUS
  <2>1. pc[s] = "save_new" /\ job'[s].cur = e /\ job'[s].acts = MatchedActions
    BY <1>2
  <2>2. Behind(s)' = 0
    BY <1>3, <2>1 DEF Behind
  <2> QED
    BY <1>0, <2>1, <2>2 DEF Applied, FilterInv, NotYetFired
<1>7. pc'[s] \in {"persist", "filter"}
  BY <1>2
<1>8. NotYetFired'
  <2>1. \A x \in Mail : ~InStore(x)' => \A i \in 1..K : fired'[<<x, i>>] = 0
    BY <1>1, <1>4 DEF FilterInv, NotYetFired
  <2>2. ASSUME InPass(s)'
        PROVE  /\ InStore(job[s].cur.mail)'
               /\ \A i \in (1..K) \ Applied(s)' : fired'[<<job'[s].cur.mail, i>>] = 0
    <3>1. pc'[s] = "filter"
      BY <1>7, <2>2 DEF InPass
    <3>2. job'[s].cur = e /\ ~InStore(e.mail)
      BY <1>6, <3>1
    <3> QED
      BY <1>1, <1>3, <1>4, <3>2 DEF FilterInv, NotYetFired
  <2> QED
    BY <1>1, <1>7, <2>1, <2>2 DEF NotYetFired
<1>9. ASSUME faults' = 0
      PROVE  /\ \A t \in Sync : pc'[t] = "save_seen" => InStore(job[t].cur.mail)'
             /\ \A t \in Sync : InPass(t)' => \A i \in Applied(t)' : fired'[<<job'[t].cur.mail, i>>] >= 1
             /\ \A x \in Mail : InStore(x)' =>
                    Filtered(x)' \/ \E t \in Sync : InPass(t)' /\ job'[t].cur.mail = x
  <2>1. \A x \in Mail : Filtered(x)' <=> Filtered(x)
    BY <1>1 DEF Filtered
  <2>2. \A x \in Mail : InStore(x) => Filtered(x)
    BY <1>1, <1>9 DEF FilterInv, FiredUnlessFault, InPass
  <2>3. Filtered(e.mail)' \/ (InPass(s)' /\ job'[s].cur.mail = e.mail)
    <3>1. CASE pc[s] = "save_seen"
      BY <1>0, <1>1, <1>3, <1>9, <2>1, <2>2, <3>1 DEF FilterInv, FiredUnlessFault
    <3>2. CASE pc[s] = "save_new" /\ MatchedActions = << >>
      BY <1>3, <3>2 DEF Filtered
    <3>3. CASE pc[s] = "save_new" /\ MatchedActions # << >>
      BY <1>2, <3>3 DEF InPass
    <3> QED
      BY <1>1, <3>1, <3>2, <3>3
  <2> QED
    BY <1>1, <1>4, <1>6, <1>7, <2>1, <2>2, <2>3 DEF InPass
<1> QED
  BY <1>5, <1>8, <1>9 DEF FilterInv, FiredUnlessFault

LEMMA EmptyIsShort ==
  ASSUME NEW S, NEW q \in Seq(S)
  PROVE  q = << >> <=> Len(q) = 0
  OBVIOUS

\* Where a pass is, and what comes behind it.
LEMMA PassPlace ==
  ASSUME TypeOK, NEW s \in Sync, InPass(s)
  PROVE  /\ job[s].cur \in Email /\ job[s].cur.mail \in Mail
         /\ Behind(s) \in 0..(Len(MatchedActions) - 1) /\ Len(MatchedActions) \in Nat
         /\ Place(s) = <<job[s].cur.mail, Behind(s) + 1>>
         /\ Len(Tail(job[s].acts)) = Len(job[s].acts) - 1
         /\ (Tail(job[s].acts) = << >>) <=> (Behind(s) + 1 = Len(MatchedActions))
<1>1. job[s].cur \in Email /\ Len(job[s].acts) \in 1..Len(MatchedActions)
  BY DEF TypeOK, PersistPc, InPass
<1>2. Len(MatchedActions) \in Nat /\ job[s].acts \in Seq(ImmediateAction \union RemoteAction)
  BY SyncAssumption DEF TypeOK, Job
<1>3. Len(Tail(job[s].acts)) = Len(job[s].acts) - 1 /\ Tail(job[s].acts) \in Seq(ImmediateAction \union RemoteAction)
  BY <1>1, <1>2
<1>4. Tail(job[s].acts) = << >> <=> Len(Tail(job[s].acts)) = 0
  BY <1>3, EmptyIsShort
<1>5. PICK n \in Nat, l \in Nat : n = Len(MatchedActions) /\ l = Len(job[s].acts)
  BY <1>1, <1>2
<1>6. l >= 1 /\ l <= n
  BY <1>1, <1>5
<1>7. n - l \in 0..(n - 1)
  BY <1>5, <1>6
<1>8. (l - 1 = 0) <=> (n - l + 1 = n)
  <2>1. l - 1 = 0 => n - l + 1 = n
    OBVIOUS
  <2>2. n - l + 1 = n => l - 1 = 0
    OBVIOUS
  <2> QED
    BY <2>1, <2>2
<1> QED
  BY <1>1, <1>2, <1>3, <1>4, <1>5, <1>7, <1>8 DEF Behind, Place, Email

LEMMA ApplyFilters ==
  ASSUME \A s, t \in Sync : s = t, TypeOK, FilterInv, NEW s \in Sync, ApplyAction(s)
  PROVE  FilterInv'
<1>0. PICK x \in Mail, k \in Nat : x = job[s].cur.mail /\ k = Behind(s)
  BY PassPlace DEF ApplyAction, InPass
<1> DEFINE K == Len(MatchedActions)
<1>1. k + 1 \in 1..K /\ K \in Nat /\ Place(s) = <<x, k + 1>> /\ <<x, k + 1>> \in Places
  BY <1>0, PassPlace DEF ApplyAction, InPass, Places
<1>2. /\ pc[s] = "filter" /\ pc'[s] = "log" /\ job' = job /\ faults' = faults
      /\ fired' = [fired EXCEPT ![<<x, k + 1>>] = @ + 1] /\ \A t \in Sync : t = s
  BY <1>1 DEF ApplyAction, TypeOK, budget
<1>3. fired \in [Places -> Nat]
  BY DEF TypeOK, Places
<1>4. \A q \in Places : fired'[q] = IF q = <<x, k + 1>> THEN fired[q] + 1 ELSE fired[q]
  BY <1>1, <1>2, <1>3, Counted
<1>5. \A y \in Mail, i \in 1..K :
          fired'[<<y, i>>] = IF y = x /\ i = k + 1 THEN fired[<<y, i>>] + 1 ELSE fired[<<y, i>>]
  BY <1>4 DEF Places
<1>6. \A y \in Mail : InStore(y)' <=> InStore(y)
  BY SetReadMails DEF ApplyAction, InStore
<1>7. Applied(s) = 1..k /\ Applied(s)' = 1..(k + 1) /\ job'[s].cur.mail = x
  BY <1>0, <1>2 DEF Applied, Behind
<1>8. InStore(x) /\ \A i \in (1..K) \ (1..k) : fired[<<x, i>>] = 0
  BY <1>0, <1>2, <1>7 DEF FilterInv, NotYetFired, InPass
<1>9. AtMostOnce'
  <2>1. \A q \in Places : fired[q] <= 1
    BY <1>3 DEF FilterInv, AtMostOnce
  <2>2. fired[<<x, k + 1>>] = 0
    BY <1>1, <1>8
  <2> QED
    BY <1>2, <1>3, <1>4, <2>1, <2>2 DEF AtMostOnce
<1>10. NotYetFired'
  <2>1. \A y \in Mail : ~InStore(y)' => \A i \in 1..K : fired'[<<y, i>>] = 0
    BY <1>5, <1>6, <1>8 DEF FilterInv, NotYetFired
  <2>2. InStore(job[s].cur.mail)'
    BY <1>0, <1>6, <1>7, <1>8
  <2>3. \A i \in (1..K) \ Applied(s)' : fired'[<<job'[s].cur.mail, i>>] = 0
    BY <1>5, <1>7, <1>8
  <2> QED
    BY <1>2, <2>1, <2>2, <2>3 DEF NotYetFired
<1>11. ASSUME faults' = 0
       PROVE  /\ \A i \in Applied(s)' : fired'[<<x, i>>] >= 1
              /\ \A y \in Mail : InStore(y)' =>
                     Filtered(y)' \/ \E t \in Sync : InPass(t)' /\ job'[t].cur.mail = y
  <2>1. \A i \in 1..k : fired[<<x, i>>] >= 1
    BY <1>0, <1>2, <1>7, <1>11 DEF FilterInv, FiredUnlessFault, InPass
  <2>2. \A i \in 1..K : fired[<<x, i>>] \in Nat
    BY <1>3 DEF Places
  <2>3. \A i \in 1..(k + 1) : fired'[<<x, i>>] >= 1
    BY <1>1, <1>5, <2>1, <2>2
  <2>4. \A y \in Mail : InStore(y) => Filtered(y) \/ y = x
    BY <1>0, <1>2, <1>11 DEF FilterInv, FiredUnlessFault, InPass
  <2>5. \A y \in Mail : y # x => (Filtered(y)' <=> Filtered(y))
    BY <1>5 DEF Filtered
  <2> QED
    BY <1>2, <1>6, <1>7, <2>3, <2>4, <2>5 DEF InPass
<1> QED
  BY <1>2, <1>7, <1>9, <1>10, <1>11 DEF FilterInv, FiredUnlessFault

\* The pass goes on to the next action, whether the last one was logged,
\* could not be logged, or could not be applied.
LEMMA AdvanceFilters ==
  ASSUME \A s, t \in Sync : s = t, TypeOK, FilterInv, NEW s \in Sync, LogAction(s) \/ ActionFails(s)
  PROVE  FilterInv'
<1>0. PICK x \in Mail, k \in Nat : x = job[s].cur.mail /\ k = Behind(s)
  BY PassPlace DEF LogAction, ActionFails, InPass
<1> DEFINE K == Len(MatchedActions)
<1>a. PICK rest, l : rest = Tail(job[s].acts) /\ l = Len(job[s].acts)
  OBVIOUS
<1>1. /\ InPass(s) /\ UNCHANGED <<store, fired>> /\ Continue(s, job[s].emails, rest)
      /\ \A t \in Sync : t = s
  BY <1>a DEF LogAction, ActionFails, InPass, effects
<1>2. k + 1 \in 1..K /\ K \in Nat /\ (rest = << >> <=> k + 1 = K)
      /\ Len(rest) = l - 1 /\ l \in Nat /\ k = K - l
  <2>1. l \in Nat /\ k = K - l
    BY <1>0, <1>a DEF TypeOK, Job, Behind
  <2>2. Len(rest) = l - 1 /\ (rest = << >> <=> k + 1 = K)
    BY <1>0, <1>a, <1>1, PassPlace
  <2>3. k \in 0..(K - 1) /\ K \in Nat
    BY <1>0, <1>1, PassPlace
  <2> QED
    BY <2>1, <2>2, <2>3
<1>3. faults' = 0 => pc[s] = "log" /\ faults = 0
  BY DEF LogAction, ActionFails, Fault, TypeOK, budget
<1>4. /\ job'[s].acts = rest /\ job'[s].cur = IF rest = << >> THEN None ELSE job[s].cur
      /\ pc'[s] = IF rest = << >> THEN "persist" ELSE "filter"
  BY <1>1, ContinueMessages
<1>5. \A y \in Mail : (InStore(y)' <=> InStore(y)) /\ (Filtered(y)' <=> Filtered(y))
  BY <1>1 DEF InStore, Filtered
<1>6. AtMostOnce'
  BY <1>1 DEF FilterInv, AtMostOnce
<1>7. InPass(s)' => job'[s].cur.mail = x /\ Applied(s)' = 1..(k + 1)
  <2> SUFFICES ASSUME InPass(s)' PROVE job'[s].cur.mail = x /\ Applied(s)' = 1..(k + 1)
    OBVIOUS
  <2>1. pc'[s] = "filter" /\ job'[s].cur = job[s].cur
    BY <1>4 DEF InPass
  <2>2. Behind(s)' = k + 1
    BY <1>0, <1>2, <1>4 DEF Behind
  <2> QED
    BY <1>0, <2>1, <2>2 DEF Applied
<1>8. Applied(s) \in {1..k, 1..(k + 1)} /\ (pc[s] = "log" => Applied(s) = 1..(k + 1))
  BY <1>0 DEF Applied
<1>9. InStore(x) /\ \A i \in (1..K) \ (1..(k + 1)) : fired[<<x, i>>] = 0
  BY <1>0, <1>1, <1>8 DEF FilterInv, NotYetFired
<1>10. pc'[s] \notin {"save_new", "save_seen"}
  BY <1>4
<1>11. NotYetFired'
  <2>1. \A y \in Mail : ~InStore(y)' => \A i \in 1..K : fired'[<<y, i>>] = 0
    BY <1>1, <1>5 DEF FilterInv, NotYetFired
  <2>2. InPass(s)' => InStore(job[s].cur.mail)'
    BY <1>5, <1>7, <1>9
  <2>3. InPass(s)' => \A i \in (1..K) \ Applied(s)' : fired'[<<job'[s].cur.mail, i>>] = 0
    BY <1>1, <1>7, <1>9
  <2> QED
    BY <1>1, <1>10, <2>1, <2>2, <2>3 DEF NotYetFired
<1>12. ASSUME faults' = 0
       PROVE  /\ InPass(s)' => \A i \in Applied(s)' : fired'[<<job'[s].cur.mail, i>>] >= 1
              /\ \A y \in Mail : InStore(y)' =>
                     Filtered(y)' \/ (InPass(s)' /\ job'[s].cur.mail = y)
  <2>1. \A i \in 1..(k + 1) : fired[<<x, i>>] >= 1
    BY <1>0, <1>1, <1>3, <1>8, <1>12 DEF FilterInv, FiredUnlessFault
  <2>2. \A y \in Mail : InStore(y) => Filtered(y) \/ y = x
    BY <1>0, <1>1, <1>3, <1>12 DEF FilterInv, FiredUnlessFault
  <2>3. rest = << >> => Filtered(x)
    BY <1>2, <2>1 DEF Filtered
  <2>4. rest # << >> => InPass(s)'
    BY <1>4 DEF InPass
  <2> QED
    BY <1>1, <1>5, <1>7, <2>1, <2>2, <2>3, <2>4
<1> QED
  BY <1>1, <1>6, <1>10, <1>11, <1>12 DEF FilterInv, FiredUnlessFault

\* Every other step of a run, of the servers or of a client leaves the stored
\* mails, what has fired and every pass alone, or gives a pass up by a fault.
LEMMA NextFilters ==
  ASSUME \A s, t \in Sync : s = t, MaxRecoveries = 0, TypeOK, IdInv, FilterInv, [Next]_vars
  PROVE  FilterInv'
<1> DEFINE Stays(s) == pc'[s] = pc[s] /\ job'[s].cur = job[s].cur /\ job'[s].acts = job[s].acts
           Leaves(s) == /\ pc'[s] \notin {"save_new", "save_seen", "filter", "log"}
                        /\ faults' = 0 => ~InPass(s)
<1>0. store' = store => \A x \in Mail : InStore(x)' <=> InStore(x)
  BY DEF InStore
<1>1. CASE Server \/ UNCHANGED vars
  <2>1. UNCHANGED <<store, effects, pc, job, budget>>
    BY <1>1 DEF Server, Deliver, Expunge, Renumber, MarkSeen, vars
  <2> QED
    BY <1>0, <2>1, FilterFrame DEF effects, budget
<1>2. ASSUME NEW s \in Sync, Requests(s) \/ Step(s) \/ Failures(s)
      PROVE  FilterInv'
  <2> DEFINE Quietly == /\ UNCHANGED <<store, fired>> /\ (faults' = 0 => faults = 0)
                        /\ \A t \in Sync \ {s} : Stays(t)
                        /\ Leaves(s)
  <2>1. ASSUME Quietly PROVE FilterInv'
    BY <1>0, <2>1, FilterFrame
  <2>2. \A fs, as : Resume(fs, as) \notin {"save_new", "save_seen", "filter", "log"}
    BY DEF Resume
  <2>3. CASE Requests(s)
    <3>0. PICK batch : Begin(s, batch)
      BY <2>3 DEF Requests
    <3>1. Quietly
      BY <2>2, <3>0 DEF Begin, InPass, effects, budget, TypeOK
    <3> QED
      BY <2>1, <3>1
  <2>4. CASE Step(s)
    <3>1. CASE \E a \in Account : ListFolders(s, a)
      <4>1. Quietly
        BY <2>2, <3>1 DEF ListFolders, InPass, effects, budget, TypeOK
      <4> QED
        BY <2>1, <4>1
    <3>2. CASE \E m \in Mailbox : OpenFolder(s, m)
      <4>1. Quietly
        BY <3>2 DEF OpenFolder, InPass, effects, budget, TypeOK, Job
      <4> QED
        BY <2>1, <4>1
    <3>3. CASE Select(s)
      <4>1. Quietly
        BY <3>3 DEF Select, InPass, effects, budget, TypeOK, Job
      <4> QED
        BY <2>1, <4>1
    <3>4. CASE Fetch(s)
      <4>1. Quietly
        BY <3>4 DEF Fetch, InPass, effects, budget, TypeOK, Job
      <4> QED
        BY <2>1, <4>1
    <3>5. CASE FetchRefused(s)
      <4>1. Quietly
        BY <2>2, <3>5 DEF FetchRefused, AbandonAccount, InPass, effects, budget, TypeOK
      <4> QED
        BY <2>1, <4>1
    <3>6. CASE SaveCheckpoint(s)
      <4>1. Quietly
        BY <2>2, <3>6 DEF SaveCheckpoint, InPass, effects, budget, TypeOK
      <4> QED
        BY <2>1, <4>1
    <3>7. CASE \E e \in job[s].emails : CheckNew(s, e)
      BY <3>7, TakeUp
    <3> QED
      BY <2>4, <3>1, <3>2, <3>3, <3>4, <3>5, <3>6, <3>7, SaveFilters, ApplyFilters,
         AdvanceFilters DEF Step
  <2>5. CASE Failures(s)
    <3>1. CASE \E e \in job[s].emails : LookupFails(s, e)
      BY <3>1, TakeUp
    <3>2. Fault => faults' # 0
      BY DEF Fault, TypeOK
    <3>3. ASSUME NEW a \in Account, AccountFails(s, a) PROVE FilterInv'
      <4>1. Quietly
        BY <2>2, <3>2, <3>3 DEF AccountFails, effects, TypeOK
      <4> QED
        BY <2>1, <4>1
    <3>4. CASE CallFails(s)
      <4>1. Quietly
        BY <2>2, <3>2, <3>4 DEF CallFails, AbandonAccount, effects, TypeOK
      <4> QED
        BY <2>1, <4>1
    <3>5. CASE Cancel(s)
      <4>1. Quietly
        BY <3>2, <3>5 DEF Cancel, effects, TypeOK
      <4> QED
        BY <2>1, <4>1
    <3> QED
      BY <2>5, <3>1, <3>3, <3>4, <3>5, AdvanceFilters DEF Failures
  <2> QED
    BY <1>2, <2>3, <2>4, <2>5
<1>3. ASSUME NEW r \in store, NEW b \in ReadRequests, MarkReadRpc(r.id, b) PROVE FilterInv'
  <2>1. UNCHANGED <<fired, pc, job, faults>> /\ SetRead(r.id, b)
    BY <1>3 DEF MarkReadRpc, effects, budget
  <2>2. \A x \in Mail : InStore(x)' <=> InStore(x)
    BY <2>1, SetReadMails
  <2> QED
    BY <2>1, <2>2, FilterFrame
<1>4. CASE Crash
  <2>1. /\ UNCHANGED <<store, fired>> /\ faults' # 0
        /\ \A s \in Sync : pc'[s] = "idle"
    BY <1>4 DEF Crash, Restart, Fault, effects, TypeOK
  <2> QED
    BY <1>0, <2>1, FilterFrame
<1>5. ~Recover
  BY DEF Recover, TypeOK
<1> QED
  BY <1>1, <1>2, <1>3, <1>4, <1>5 DEF Next

\* apply_filter_actions: for one sync run at a time, however often and
\* wherever it fails, is cancelled or crashes, no action fires twice for a
\* mail, and without a fault every action has fired for whatever is stored.
\* The hypotheses name what breaks it in this code: overlapping runs that both
\* find a message new, UIDs that stand for two mails (several mailboxes, a
\* renumbering), and a recovery, which empties the store and so makes every
\* message new again.
THEOREM FiltersFireOnce ==
  (/\ \A s, t \in Sync : s = t
   /\ \A m, n \in Mailbox : m = n
   /\ MaxValidity <= 1
   /\ MaxRecoveries = 0
   /\ Spec) => []FiltersExactlyOnce
<1> SUFFICES ASSUME \A s, t \in Sync : s = t, \A m, n \in Mailbox : m = n,
                    MaxValidity <= 1, MaxRecoveries = 0
             PROVE  Spec => []FiltersExactlyOnce
  OBVIOUS
<1>1. Init => FilterInv
  <2> SUFFICES ASSUME Init PROVE FilterInv
    OBVIOUS
  <2>1. \A p \in Places : fired[p] = 0
    BY DEF Init, Places
  <2>2. AtMostOnce
    BY <2>1 DEF AtMostOnce, Init, Places
  <2>3. NotYetFired
    BY <2>1 DEF NotYetFired, InPass, Init, Places
  <2>4. FiredUnlessFault
    BY DEF FiredUnlessFault, InPass, InStore, Init
  <2> QED
    BY <2>2, <2>3, <2>4 DEF FilterInv
<1>2. TypeOK /\ IdInv /\ FilterInv /\ [Next]_vars => FilterInv'
  BY NextFilters
<1>3. TypeOK /\ FilterInv => FiltersExactlyOnce
  <2> SUFFICES ASSUME TypeOK, FilterInv PROVE FiltersExactlyOnce
    OBVIOUS
  <2>1. ASSUME faults = 0, Quiet, NEW r \in store PROVE Filtered(r.mail)
    <3>1. r.mail \in Mail /\ InStore(r.mail)
      BY DEF TypeOK, Row, InStore
    <3>2. \A s \in Sync : ~InPass(s)
      BY <2>1 DEF Quiet, InPass
    <3> QED
      BY <2>1, <3>1, <3>2 DEF FilterInv, FiredUnlessFault
  <2> QED
    BY <2>1 DEF FiltersExactlyOnce, FiltersNotMissedUnlessFault, FiltersNotMissed, FilterInv
<1> QED
  BY <1>1, <1>2, <1>3, IdsStandForMails, PTL DEF Spec
=============================================================================
