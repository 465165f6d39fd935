------------------------------- MODULE Outbox -------------------------------
(***************************************************************************)
(* The outbox: filter actions on the remote mailbox are enqueued as rows   *)
(* of pending_remote_mutations, and one worker polls them, backs off and   *)
(* counts retries until it gives a row up.                                 *)
(*                                                                         *)
(* Source: the outbox worker of crates/nunciod/src/main.rs,                *)
(* crates/nuncio-filter/src/outbox.rs, the enqueueing half of              *)
(* apply_filter_actions in crates/nunciod/src/sync.rs, and                 *)
(* save_pending_mutation, list_pending_mutations and                       *)
(* update_mutation_status of crates/nuncio-store/src/db.rs.                *)
(***************************************************************************)
EXTENDS Integers, FiniteSets, FiniteSetsExt

CONSTANTS
    Mutation,      \* the mutations that can ever be enqueued
    MaxTime,       \* bound: readings of the clock
    TicksPerSecond,\* clock readings with the same created_at
    SameTick,      \* whether two enqueues may read the same clock value
    POLL_LIMIT,    \* rows list_pending_mutations returns
    MAX_RETRIES,
    MaxFaults      \* bound: failed updates and crashes

BASE_BACKOFF_MS == 500

ASSUME OutboxAssumption ==
    /\ MaxTime \in Nat
    /\ TicksPerSecond \in Nat \ {0}
    /\ SameTick \in BOOLEAN
    /\ POLL_LIMIT \in Nat \ {0}
    /\ MAX_RETRIES \in Nat
    /\ MaxFaults \in Nat

VARIABLES
    clock,     \* nanoseconds, as uuid_simple reads them
    enqueued,  \* the mutations save_pending_mutation was called for
    outbox,    \* table pending_remote_mutations
    pc,        \* where the worker is
    batch,     \* the rows its poll returned that it has not handled
    backoff,   \* by mutation: how long the worker last waited for it
    faults

vars == <<clock, enqueued, outbox, pc, batch, backoff, faults>>

\* create_mutation: the id is a hash of the clock.
mutation_id(t) == t

\* Mutant: the exponent counts down.
backoff_shrinks(retry_count) == BASE_BACKOFF_MS * 2^(10 - Min({retry_count, 10}))

\* calculate_backoff_ms: at most 10 doublings, and some jitter.  Retry counts
\* are never negative, so the cast to u32 keeps them.
calculate_backoff_ms(retry_count) ==
    LET exponent == Min({retry_count, 10})
        base     == BASE_BACKOFF_MS * 2^exponent
    IN base + ((base \div 4) % 100)

Pending == {m \in outbox : m.status = "pending"}

\* The outcomes of SELECT ... WHERE pending ORDER BY created_at LIMIT: rows
\* created at the same time come in any order.
Polls ==
    LET n == Min({POLL_LIMIT, Cardinality(Pending)})
    IN {b \in kSubset(n, Pending) :
            \A x \in b, y \in Pending \ b : x.created_at <= y.created_at}

Fault ==
    /\ faults < MaxFaults
    /\ faults' = faults + 1

-----------------------------------------------------------------------------
\* Time passes between two readings of the clock, or does not.
Tick ==
    /\ clock < MaxTime
    /\ clock' = clock + 1
    /\ UNCHANGED <<enqueued, outbox, pc, batch, backoff, faults>>

\* create_mutation and save_pending_mutation: INSERT OR REPLACE by id.
Enqueue(m) ==
    LET id == mutation_id(clock)
    IN /\ m \notin enqueued
       /\ SameTick \/ \A x \in outbox : x.id # id
       /\ enqueued' = enqueued \union {m}
       /\ outbox' = {x \in outbox : x.id # id} \union
             {[id |-> id, mutation |-> m, status |-> "pending",
               retry_count |-> 0, created_at |-> clock \div TicksPerSecond]}
       /\ UNCHANGED <<clock, pc, batch, backoff, faults>>

\* The worker's tick: list_pending_mutations.
Poll ==
    /\ pc = "tick"
    /\ batch = {}
    /\ \E b \in Polls : b # {} /\ batch' = b
    /\ pc' = "item"
    /\ UNCHANGED <<clock, enqueued, outbox, backoff, faults>>

\* update_mutation_status, by id.
Updated(x, status, retry_count) ==
    {IF y.id = x.id THEN [y EXCEPT !.status = status, !.retry_count = retry_count] ELSE y
        : y \in outbox}

\* What is left of the batch; when nothing is, the next tick comes.
Done(x) ==
    /\ batch' = batch \ {x}
    /\ pc' = IF batch = {x} THEN "tick" ELSE "item"

\* The rows of a batch are handled one by one, the oldest first.
Turn(x) ==
    /\ pc = "item"
    /\ x \in batch
    /\ \A y \in batch : x.created_at <= y.created_at

\* Mutant: the row is deleted.
GiveUpDeletes(x) ==
    /\ Turn(x)
    /\ x.retry_count + 1 > MAX_RETRIES
    /\ outbox' = outbox \ {x}
    /\ Done(x)
    /\ UNCHANGED <<clock, enqueued, backoff, faults>>

\* Retries are used up.
GiveUp(x) ==
    /\ Turn(x)
    /\ x.retry_count + 1 > MAX_RETRIES
    /\ outbox' = Updated(x, "failed", x.retry_count + 1)
    /\ Done(x)
    /\ UNCHANGED <<clock, enqueued, backoff, faults>>

\* Mutants: one retry too many; the retry is not counted.
BackOffOnceMore(x) ==
    /\ Turn(x)
    /\ x.retry_count <= MAX_RETRIES
    /\ backoff' = [backoff EXCEPT ![x.mutation] = calculate_backoff_ms(x.retry_count)]
    /\ outbox' = Updated(x, "pending", x.retry_count + 1)
    /\ Done(x)
    /\ UNCHANGED <<clock, enqueued, faults>>

BackOffUncounted(x) ==
    /\ Turn(x)
    /\ x.retry_count + 1 <= MAX_RETRIES
    /\ backoff' = [backoff EXCEPT ![x.mutation] = calculate_backoff_ms(x.retry_count)]
    /\ Done(x)
    /\ UNCHANGED <<clock, enqueued, outbox, faults>>

\* The worker sleeps, then counts the retry.
BackOff(x) ==
    /\ Turn(x)
    /\ x.retry_count + 1 <= MAX_RETRIES
    /\ backoff' = [backoff EXCEPT ![x.mutation] = calculate_backoff_ms(x.retry_count)]
    /\ outbox' = Updated(x, "pending", x.retry_count + 1)
    /\ Done(x)
    /\ UNCHANGED <<clock, enqueued, faults>>

\* The update fails and its error is dropped.
UpdateFails(x) ==
    /\ Fault
    /\ Turn(x)
    /\ Done(x)
    /\ UNCHANGED <<clock, enqueued, outbox, backoff>>

\* The daemon dies; the worker starts over.
Crash ==
    /\ Fault
    /\ pc' = "tick"
    /\ batch' = {}
    /\ UNCHANGED <<clock, enqueued, outbox, backoff>>

Init ==
    /\ clock = 0
    /\ enqueued = {}
    /\ outbox = {}
    /\ pc = "tick"
    /\ batch = {}
    /\ backoff = [m \in Mutation |-> 0]
    /\ faults = 0

Worker == Poll \/ \E x \in batch : GiveUp(x) \/ BackOff(x)

Next ==
    \/ Tick
    \/ \E m \in Mutation : Enqueue(m)
    \/ Worker
    \/ \E x \in batch : UpdateFails(x)
    \/ Crash

Spec == Init /\ [][Next]_vars

\* The worker's loop has no exit and its timers fire.
FairSpec == Spec /\ WF_vars(Worker)

-----------------------------------------------------------------------------
(* Properties                                                              *)

Row == [id : Nat, mutation : Mutation, status : {"pending", "failed"},
        retry_count : Nat, created_at : Nat]

\* Every variable has its type.
TypeOK ==
    /\ clock \in Nat
    /\ enqueued \subseteq Mutation
    /\ outbox \subseteq Row
    /\ pc \in {"tick", "item"}
    /\ batch \subseteq Row
    /\ backoff \in [Mutation -> Nat]
    /\ faults \in Nat

\* The worker gives a row up after MAX_RETRIES retries, not one earlier or
\* later, whatever updates fail and however often it starts over.
GivenUpAfterRetries ==
    \A x \in outbox :
        \/ x.status = "pending" /\ x.retry_count <= MAX_RETRIES
        \/ x.status = "failed" /\ x.retry_count = MAX_RETRIES + 1

\* What makes it so: one row per id, and a polled row is the stored row as
\* long as it has not been handled.
OutboxInv ==
    /\ \A x, y \in outbox : x.id = y.id => x = y
    /\ \A x, y \in batch : x.id = y.id => x = y
    /\ \A x \in batch :
          /\ x.status = "pending" /\ x.retry_count <= MAX_RETRIES
          /\ \E y \in outbox : y.id = x.id /\ (~SameTick => y = x)
    /\ GivenUpAfterRetries

\* apply_filter_actions: what was enqueued stays in the outbox.
NothingLost == \A m \in enqueued : \E x \in outbox : x.mutation = m

\* OutboxManager: the waits for one mutation never get shorter, and the row a
\* mutation waits in is never handed back a smaller retry count.
BackoffGrows == [][\A m \in Mutation : backoff'[m] >= backoff[m]]_vars

\* The worker: every mutation is given up in the end, behind however many
\* older ones it is queued and however small the poll.
EverySettles ==
    \A m \in Mutation :
        (\E x \in outbox : x.mutation = m)
            ~> (\E x \in outbox : x.mutation = m /\ x.status = "failed")
=============================================================================
