----------------------------- MODULE EventFeed -----------------------------
(***************************************************************************)
(* The event bus as its subscribers see it: the read flags of the messages *)
(* in the store, the MarkRead RPC that changes one and then publishes the  *)
(* change, the writers that change flags without publishing anything, the  *)
(* bounded broadcast channel, and the Subscribe stream with its lag.       *)
(*                                                                         *)
(* Source: crates/nuncio-core/src/lib.rs (EventBus), crates/nunciod/src/   *)
(* grpc.rs (map_core_event, subscribe, mark_read), set_message_read and    *)
(* save_email of crates/nuncio-store/src/db.rs.                            *)
(***************************************************************************)
EXTENDS Integers, Sequences, FiniteSets

CONSTANTS
    Message,       \* messages in the store
    MarkRequest,   \* MarkRead calls
    Subscriber,    \* Subscribe streams
    OtherKinds,    \* kinds of events the rest of the daemon publishes
    EVENT_CAPACITY,
    MaxEvents      \* bound: events published

ASSUME FeedAssumption ==
    /\ IsFiniteSet(Message)
    /\ EVENT_CAPACITY \in Nat \ {0}
    /\ MaxEvents \in Nat
    /\ "MessageFlagsChanged" \notin OtherKinds

VARIABLES
    read_flag,     \* the read flag of each row of messages
    bus,           \* the events published so far, oldest first
    unread_count,  \* AppState.unread_count
    mark,          \* each MarkRead call: where it is and what it asks for
    cursor,        \* the next event of each stream; 0 when not subscribed
    received,      \* what each stream has yielded
    silent,        \* messages whose flag changed without an event
    crossed,       \* messages that two calls were changing at the same time
    lagging,       \* streams that have skipped events
    drifted        \* unread_count was wrong before, or a call changed nothing

feedVars == <<read_flag, bus, unread_count, mark, cursor, received, silent, crossed, lagging, drifted>>

-----------------------------------------------------------------------------
(* EventBus                                                                *)

\* publish_event: the channel drops its oldest event when it is full; the
\* streams find out when they read.  (The broadcast channel rounds the
\* capacity it is asked for, 100, up to a power of two.)
Publish(event) == bus' = Append(bus, event)

FlagsChanged(m, r) == [kind |-> "MessageFlagsChanged", message |-> m, read |-> r]

\* map_core_event: the progress of a sync has no place in the protocol.
Forwarded(event) == event.kind # "SyncProgress"

\* Mutant: the count goes up for a message that was read.
RecountSwapped(n, r) == IF r THEN n + 1 ELSE (IF n = 0 THEN 0 ELSE n - 1)

\* saturating_sub and saturating_add of process_command, MarkRead.
Recount(n, r) == IF r THEN (IF n = 0 THEN 0 ELSE n - 1) ELSE n + 1

UnreadIn(flags) == Cardinality({m \in Message : ~flags[m]})

Busy(q) == mark[q].pc \in {"store", "publish"}

-----------------------------------------------------------------------------
(* The MarkRead RPC                                                        *)

MarkRead(q, m, r) ==
    /\ mark[q].pc = "ready"
    /\ mark' = [mark EXCEPT ![q] = [pc |-> "store", message |-> m, read |-> r]]
    /\ crossed' = IF \E o \in MarkRequest \ {q} : Busy(o) /\ mark[o].message = m
                  THEN crossed \union {m} ELSE crossed
    /\ UNCHANGED <<read_flag, bus, unread_count, cursor, received, silent, lagging, drifted>>

\* set_message_read updates the row ...
SetMessageRead(q) ==
    /\ mark[q].pc = "store"
    /\ drifted' = (drifted \/ read_flag[mark[q].message] = mark[q].read)
    /\ read_flag' = [read_flag EXCEPT ![mark[q].message] = mark[q].read]
    /\ mark' = [mark EXCEPT ![q].pc = "publish"]
    /\ UNCHANGED <<bus, unread_count, cursor, received, silent, crossed, lagging>>

\* Mutant: the change is announced although it was not stored.
AnnounceAnyway(q) ==
    /\ mark[q].pc = "store"
    /\ mark' = [mark EXCEPT ![q].pc = "publish"]
    /\ UNCHANGED <<read_flag, bus, unread_count, cursor, received, silent, crossed, lagging, drifted>>

\* ... or fails, and nothing is announced.
SetMessageReadFails(q) ==
    /\ mark[q].pc = "store"
    /\ mark' = [mark EXCEPT ![q].pc = "refused"]
    /\ UNCHANGED <<read_flag, bus, unread_count, cursor, received, silent, crossed, lagging, drifted>>

\* process_command(MarkRead).
ProcessMarkRead(q) ==
    /\ mark[q].pc = "publish"
    /\ Len(bus) < MaxEvents
    /\ unread_count' = Recount(unread_count, mark[q].read)
    /\ Publish(FlagsChanged(mark[q].message, mark[q].read))
    /\ mark' = [mark EXCEPT ![q].pc = "done"]
    /\ UNCHANGED <<read_flag, cursor, received, silent, crossed, lagging, drifted>>

-----------------------------------------------------------------------------
(* The rest of the daemon                                                  *)

\* save_email with the flag of the server, and MARK READ or MARK UNREAD of a
\* filter rule: the row changes and no event says so.
WriteFlag(m, r) ==
    /\ read_flag[m] # r
    /\ read_flag' = [read_flag EXCEPT ![m] = r]
    /\ silent' = silent \union {m}
    /\ drifted' = TRUE
    /\ UNCHANGED <<bus, unread_count, mark, cursor, received, crossed, lagging>>

\* A sync or the update check publishes an event of its own.
PublishOther(k) ==
    /\ Len(bus) < MaxEvents
    /\ Publish([kind |-> k])
    /\ UNCHANGED <<read_flag, unread_count, mark, cursor, received, silent, crossed, lagging, drifted>>

-----------------------------------------------------------------------------
(* The Subscribe RPC                                                       *)

\* subscribe registers the receiver before it answers.
Subscribe(s) ==
    /\ cursor[s] = 0 /\ received[s] = << >>
    /\ cursor' = [cursor EXCEPT ![s] = Len(bus) + 1]
    /\ UNCHANGED <<read_flag, bus, unread_count, mark, received, silent, crossed, lagging, drifted>>

Behind(s) == Len(bus) + 1 - cursor[s]

\* The stream yields the next event, unless it is not for clients.
Yield(s) ==
    /\ cursor[s] > 0 /\ Behind(s) \in 1..EVENT_CAPACITY
    /\ cursor' = [cursor EXCEPT ![s] = @ + 1]
    /\ received' = IF Forwarded(bus[cursor[s]])
                   THEN [received EXCEPT ![s] = Append(@, cursor[s])] ELSE received
    /\ UNCHANGED <<read_flag, bus, unread_count, mark, silent, crossed, lagging, drifted>>

\* Mutant: the stream ends when it lags.
EndOnLag(s) ==
    /\ cursor[s] > 0 /\ Behind(s) > EVENT_CAPACITY
    /\ lagging' = lagging \union {s}
    /\ UNCHANGED <<read_flag, bus, unread_count, mark, cursor, received, silent, crossed, drifted>>

\* BroadcastStreamRecvError::Lagged: the stream goes on with the oldest event
\* the channel still holds.
SkipLagged(s) ==
    /\ cursor[s] > 0 /\ Behind(s) > EVENT_CAPACITY
    /\ cursor' = [cursor EXCEPT ![s] = Len(bus) + 1 - EVENT_CAPACITY]
    /\ lagging' = lagging \union {s}
    /\ UNCHANGED <<read_flag, bus, unread_count, mark, received, silent, crossed, drifted>>

\* The client hangs up.
Disconnect(s) ==
    /\ cursor[s] > 0
    /\ cursor' = [cursor EXCEPT ![s] = 0]
    /\ UNCHANGED <<read_flag, bus, unread_count, mark, received, silent, crossed, lagging, drifted>>

-----------------------------------------------------------------------------
FeedInit ==
    /\ read_flag \in [Message -> BOOLEAN]
    /\ bus = << >>
    /\ unread_count = 0
    /\ mark = [q \in MarkRequest |->
                 [pc |-> "ready", message |-> CHOOSE m \in Message : TRUE, read |-> FALSE]]
    /\ cursor = [s \in Subscriber |-> 0]
    /\ received = [s \in Subscriber |-> << >>]
    /\ silent = {}
    /\ crossed = {}
    /\ lagging = {}
    /\ drifted = (UnreadIn(read_flag) # 0)

FeedNext ==
    \/ \E q \in MarkRequest :
        \/ \E m \in Message, r \in BOOLEAN : MarkRead(q, m, r)
        \/ SetMessageRead(q)
        \/ SetMessageReadFails(q)
        \/ ProcessMarkRead(q)
    \/ \E m \in Message, r \in BOOLEAN : WriteFlag(m, r)
    \/ \E k \in OtherKinds : PublishOther(k)
    \/ \E s \in Subscriber :
        \/ Subscribe(s)
        \/ Yield(s)
        \/ SkipLagged(s)
        \/ Disconnect(s)

-----------------------------------------------------------------------------
(* Properties                                                              *)

Kept(s) == cursor[s] > 0
FlagEvents(s, m) ==
    {i \in DOMAIN received[s] :
        /\ bus[received[s][i]].kind = "MessageFlagsChanged"
        /\ bus[received[s][i]].message = m}

\* A subscriber that keeps the last MessageFlagsChanged of a message holds the
\* flag of the store, once it has read everything and no call is under way;
\* unless it lagged, two calls crossed between storing and publishing, or a
\* sync or a filter rule changed the flag, which no event tells.
MirrorAgrees ==
    \A s \in Subscriber, m \in Message :
        /\ Kept(s) /\ Behind(s) = 0 /\ s \notin lagging
        /\ \A q \in MarkRequest : ~Busy(q)
        /\ m \notin silent \union crossed
        /\ FlagEvents(s, m) # {}
        => LET last == CHOOSE i \in FlagEvents(s, m) : \A j \in FlagEvents(s, m) : j <= i
           IN bus[received[s][last]].read = read_flag[m]

\* A stream yields each event at most once and in the order of publication,
\* whether it lags or not; and one that has not lagged has yielded every event
\* for clients between its subscription and its place.
InOrderOnce ==
    \A s \in Subscriber :
        /\ \A i, j \in DOMAIN received[s] : i < j => received[s][i] < received[s][j]
        /\ (Kept(s) /\ s \notin lagging /\ received[s] # << >>) =>
              \A k \in received[s][1]..(cursor[s] - 1) :
                  Forwarded(bus[k]) => \E i \in DOMAIN received[s] : received[s][i] = k

\* unread_count is the number of unread messages when no call is under way, as
\* long as it began right, every call changed its flag, no two crossed on a
\* message, and no flag changed behind its back.
UnreadTracks ==
    (~drifted /\ crossed = {} /\ \A q \in MarkRequest : ~Busy(q)) => unread_count = UnreadIn(read_flag)

\* What the two readers of the bus know: the mirror of a subscriber, the order
\* it was told in, and the daemon's own count.
FeedTruthful == MirrorAgrees /\ InOrderOnce /\ UnreadTracks

\* A stream that stays open gets to the end of what was published, although
\* it may lag: "preferable to it never recovering".
StreamCatchesUp == \A s \in Subscriber : (Kept(s)) ~> (~Kept(s) \/ Behind(s) = 0)
=============================================================================
