------------------------------- MODULE Triage -------------------------------
(***************************************************************************)
(* The retroactive rescan: a worker walks the message store page by page,  *)
(* applies the filter rules to each message, and reports its progress on a *)
(* bounded channel that the client reads, while a sync saves new messages. *)
(*                                                                         *)
(* Source: triage of crates/nunciod/src/grpc.rs, get_message_chunk of      *)
(* crates/nuncio-store/src/db.rs, handle_filter_triage of crates/          *)
(* nuncio-cli/src/runner.rs.                                               *)
(***************************************************************************)
EXTENDS Integers, Sequences, FiniteSets, FiniteSetsExt

CONSTANTS
    MessageIds,    \* ids of messages, in the order of the primary key
    Matching,      \* the messages some rule matches with at least one action
    ChunkSizes,    \* chunk sizes a client asks for; 0 asks for the default
    DefaultChunk,  \* 100
    ChannelSize    \* 16

ASSUME TriageAssumption ==
    /\ MessageIds \subseteq Nat \ {0} /\ IsFiniteSet(MessageIds)
    /\ ChunkSizes \subseteq Nat
    /\ DefaultChunk \in Nat \ {0}
    /\ ChannelSize \in Nat \ {0}

VARIABLES
    rows,       \* ids in the messages table
    asked,      \* rows when the scan began
    chunk,      \* chunk_size
    worker,     \* "off", "page", "apply", "send", "fail", "ended"
    pageRows,      \* messages of the page still to be looked at
    short,      \* is_last_page
    last_id,
    scanned,    \* the messages looked at, in order
    matched,    \* how many of them had actions
    channel,    \* progress on its way: progress, or an error
    reader,     \* the client: "off", "reading", "complete", "failed", "gone"
    updates     \* what the client received

triageVars == <<rows, asked, chunk, worker, pageRows, short, last_id, scanned, matched, channel, reader, updates>>
workerVars == <<chunk, worker, pageRows, short, last_id, scanned, matched>>

-----------------------------------------------------------------------------
\* get_message_chunk: WHERE id > ? ORDER BY id ASC LIMIT ?
After(id) == {r \in rows : r > id}
\* Mutant: the page begins with the row the last one ended with.
chunk_from(id, n) ==
    LET from == {r \in rows : r >= id}
    IN {r \in from : Cardinality({o \in from : o <= r}) <= n}

get_message_chunk(id, n) == {r \in After(id) : Cardinality({o \in After(id) : o <= r}) <= n}

Triage(n) ==
    /\ worker = "off"
    /\ chunk' = IF n = 0 THEN DefaultChunk ELSE n
    /\ asked' = rows
    /\ worker' = "page"
    /\ reader' = "reading"
    /\ UNCHANGED <<rows, pageRows, short, last_id, scanned, matched, channel, updates>>

\* Mutant: a page that was full is taken for the last one when nothing follows.
ReadPageNone ==
    /\ worker = "page"
    /\ pageRows' = get_message_chunk(last_id, chunk)
    /\ short' = (Cardinality(pageRows') <= chunk)
    /\ worker' = "apply"
    /\ UNCHANGED <<rows, asked, chunk, last_id, scanned, matched, channel, reader, updates>>

ReadPage ==
    /\ worker = "page"
    /\ pageRows' = get_message_chunk(last_id, chunk)
    /\ short' = (Cardinality(pageRows') < chunk)
    /\ worker' = "apply"
    /\ UNCHANGED <<rows, asked, chunk, last_id, scanned, matched, channel, reader, updates>>

\* A page cannot be read: one error on the stream, and the worker ends.
ReadPageFails ==
    /\ worker = "page"
    /\ worker' = "fail"
    /\ UNCHANGED <<rows, asked, chunk, pageRows, short, last_id, scanned, matched, channel, reader, updates>>

\* apply_filter_actions for the next message of the page.
Apply ==
    /\ worker = "apply" /\ pageRows # {}
    /\ LET email == Min(pageRows)
       IN /\ pageRows' = pageRows \ {email}
          /\ last_id' = email
          /\ scanned' = Append(scanned, email)
          /\ matched' = matched + (IF email \in Matching THEN 1 ELSE 0)
    /\ UNCHANGED <<rows, asked, chunk, worker, short, channel, reader, updates>>

PageApplied ==
    /\ worker = "apply" /\ pageRows = {}
    /\ worker' = "send"
    /\ UNCHANGED <<rows, asked, chunk, pageRows, short, last_id, scanned, matched, channel, reader, updates>>

Failure  == [failed |-> TRUE]
Progress == [failed |-> FALSE, scanned_count |-> Len(scanned), matched_count |-> matched,
             last_message_id |-> last_id, done |-> short]

\* Mutant: the result of the send is not looked at.
SendWaits ==
    /\ worker = "send"
    /\ Len(channel) < ChannelSize
    /\ channel' = Append(channel, Progress)
    /\ worker' = IF short THEN "ended" ELSE "page"
    /\ UNCHANGED <<rows, asked, chunk, pageRows, short, last_id, scanned, matched, reader, updates>>

\* tx.send waits for room, and fails once the client is gone.
SendProgress ==
    /\ worker = "send"
    /\ \/ /\ reader = "reading" /\ Len(channel) < ChannelSize
          /\ channel' = Append(channel, Progress)
          /\ worker' = IF short THEN "ended" ELSE "page"
       \/ /\ reader # "reading"
          /\ worker' = "ended"
          /\ UNCHANGED channel
    /\ UNCHANGED <<rows, asked, chunk, pageRows, short, last_id, scanned, matched, reader, updates>>

\* Mutant: the last progress is sent again when a page could not be read.
SendDone ==
    /\ worker = "fail"
    /\ worker' = "ended"
    /\ channel' = IF reader = "reading" THEN Append(channel, [Progress EXCEPT !.done = TRUE]) ELSE channel
    /\ UNCHANGED <<rows, asked, chunk, pageRows, short, last_id, scanned, matched, reader, updates>>

SendError ==
    /\ worker = "fail"
    /\ Len(channel) < ChannelSize \/ reader # "reading"
    /\ worker' = "ended"
    /\ channel' = IF reader = "reading" THEN Append(channel, Failure) ELSE channel
    /\ UNCHANGED <<rows, asked, chunk, pageRows, short, last_id, scanned, matched, reader, updates>>

TriageWorker ==
    \/ ReadPage
    \/ ReadPageFails
    \/ Apply
    \/ PageApplied
    \/ SendProgress
    \/ SendError

\* The loop of handle_filter_triage: it ends with done or with an error.  (It
\* also takes the end of the stream for an end; the worker never closes the
\* stream without one of the two.)
ReadUpdate ==
    /\ reader = "reading"
    /\ channel # << >>
    /\ channel' = Tail(channel)
    /\ IF Head(channel).failed
       THEN reader' = "failed" /\ UNCHANGED updates
       ELSE /\ updates' = Append(updates, Head(channel))
            /\ reader' = IF Head(channel).done THEN "complete" ELSE "reading"
    /\ UNCHANGED <<rows, asked, workerVars>>

\* The client is interrupted.
Interrupt ==
    /\ reader = "reading"
    /\ reader' = "gone"
    /\ channel' = << >>
    /\ UNCHANGED <<rows, asked, workerVars, updates>>

\* A sync saves a message meanwhile, anywhere in the order of the ids.
SyncSaves(id) ==
    /\ id \notin rows
    /\ rows' = rows \union {id}
    /\ UNCHANGED <<asked, workerVars, channel, reader, updates>>

-----------------------------------------------------------------------------
TriageInit ==
    /\ rows \in SUBSET MessageIds
    /\ asked = {}
    /\ chunk = 0
    /\ worker = "off"
    /\ pageRows = {}
    /\ short = FALSE
    /\ last_id = 0
    /\ scanned = << >>
    /\ matched = 0
    /\ channel = << >>
    /\ reader = "off"
    /\ updates = << >>

TriageNext ==
    \/ \E n \in ChunkSizes : Triage(n)
    \/ TriageWorker
    \/ ReadUpdate
    \/ Interrupt
    \/ \E id \in MessageIds : SyncSaves(id)

-----------------------------------------------------------------------------
(* Properties                                                              *)

ScannedSet == {scanned[i] : i \in DOMAIN scanned}

\* The rules are applied to no message twice, whatever is saved between two
\* pages and whichever page is the last.
ScannedAtMostOnce == \A i, j \in DOMAIN scanned : i # j => scanned[i] # scanned[j]

\* The client reports the rescan complete only when every message that was in
\* the store when it began has been looked at, and the figures it prints are
\* those of the whole scan: "never a fabricated done".
CompleteCoversStore ==
    reader = "complete" =>
        /\ asked \subseteq ScannedSet
        /\ updates # << >>
        /\ updates[Len(updates)].scanned_count = Len(scanned)
        /\ updates[Len(updates)].matched_count = Cardinality(ScannedSet \intersect Matching)

\* What a rescan has done, and what it tells.
RescanSound == ScannedAtMostOnce /\ CompleteCoversStore

\* A worker nobody listens to any more ends: "stops the worker rather than
\* continuing to scan for no one".  And a client that stays gets an answer,
\* although the worker may have to wait for room in the channel.
RescanEnds ==
    /\ (reader = "gone") ~> (worker = "ended")
    /\ (reader = "reading") ~> (reader # "reading")
=============================================================================
