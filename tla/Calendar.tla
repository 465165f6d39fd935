------------------------------ MODULE Calendar ------------------------------
(***************************************************************************)
(* Calendar events: what a CalDAV server sends is parsed, saved row by row *)
(* and mirrored in a search index; a query for a window of time joins the  *)
(* plain events and the occurrences of recurring ones.                     *)
(*                                                                         *)
(* Source: crates/nuncio-cal/src (caldav.rs, parser.rs, rrule.rs),         *)
(* calendar_sync.rs and the Calendar service of crates/nunciod/src, table  *)
(* calendar_events in crates/nuncio-store/src/db.rs and search_events of   *)
(* search.rs.                                                              *)
(*                                                                         *)
(* One account.  Times are small numbers; an hour and a day have the       *)
(* lengths of the constants.  The rrule of an event is NULL, empty, blank, *)
(* malformed, or a rule as the rrule library reads it: every so often, so  *)
(* many times.                                                             *)
(***************************************************************************)
EXTENDS Mirror, Subsequence

CONSTANTS
    Responses,    \* CalDAV answers: a sequence of VEVENTs
    Collection,   \* calendar collections
    Windows,      \* [from, to] a client may ask for
    Hour, Day,    \* lengths in units of time
    MAX_EXPANSION_COUNT,
    NoEvent,      \* no such row, or nothing said
    MaxRounds     \* bound: syncs

\* What a VEVENT says of a time, and of its repetitions.
Moments == [kind : {"date", "utc"}, at : Nat] \union [kind : {"zone"}, at : Nat, known : BOOLEAN]
RRules  == [kind : {"null", "empty", "blank", "malformed"}] \union [kind : {"rule"}, every : Nat, count : Nat]

Vevents  == UNION {{r[n] : n \in DOMAIN r} : r \in Responses}
EventIds == UNION {DOMAIN r : r \in Responses}

\* A row of the table.
EventForm == [summary : {v.summary : v \in Vevents}, rrule : RRules, start : Nat, end : Nat, calendar : Collection]

ASSUME CalendarAssumption ==
    /\ Hour \in Nat /\ Day \in Nat \ {0} /\ MAX_EXPANSION_COUNT \in Nat
    /\ \A w \in Windows : w.from \in Nat /\ w.to \in Nat
    /\ Responses \subseteq Seq(Vevents)
    /\ \A v \in Vevents : /\ v.start \in Moments \union {NoEvent} /\ v.end \in Moments \union {NoEvent}
                         /\ v.rrule \in RRules
    /\ NoEvent \notin EventForm \union Collection

-----------------------------------------------------------------------------
(* What the server sends                                                   *)

\* resolve_timestamp: a day stands for its first or its last unit of time,
\* and a local time may have no meaning in its zone.  {} when it has none.
resolve_timestamp(value, date_only_time) ==
    IF value.kind = "date" THEN {value.at * Day + date_only_time}
    ELSE IF value.kind = "utc" \/ value.known THEN {value.at}
    ELSE {}

\* parse_ical: an event that does not say when it ends lasts an hour.  {}
\* when the payload cannot be parsed.
parse_ical(vevent) ==
    UNION {{[summary |-> vevent.summary, rrule |-> vevent.rrule, start |-> s, end |-> e] :
                e \in IF vevent.end = NoEvent THEN {s + Hour}
                      ELSE resolve_timestamp(vevent.end, Day - 1)} :
           s \in IF vevent.start = NoEvent THEN {0} ELSE resolve_timestamp(vevent.start, 0)}

\* CalDavClient::parse_multistatus_response: what cannot be parsed is left
\* out, and an event's id is its place among the others.
parse_multistatus_response(raw) ==
    LET good == Picked(raw, {n \in DOMAIN raw : parse_ical(raw[n]) # {}})
    IN [n \in DOMAIN good |-> CHOOSE e \in parse_ical(good[n]) : TRUE]

-----------------------------------------------------------------------------
VARIABLES
    events,      \* table calendar_events
    events_fts,  \* its index
    round,       \* the sync under way: its calendar and what it has yet to save
    rounds,
    listing      \* the ListEvents call under way

calendarVars == <<events, events_fts, round, rounds, listing>>

NoRound   == [of |-> NoEvent, left |-> << >>, n |-> 0]
NoListing == [at |-> "none"]

save_calendar_event(id, event, calendar) ==
    /\ events' = [events EXCEPT ![id] =
            [summary |-> event.summary, rrule |-> event.rrule, start |-> event.start, end |-> event.end,
             calendar |-> calendar]]
    /\ events_fts' = mirror(events_fts, events[id] # NoEvent, id, event.summary)

-----------------------------------------------------------------------------
(* Synchronisation                                                         *)

\* sync_with_backend: fetch_events answers; when it fails, nothing is done.
SyncCalendar(calendar, raw) ==
    /\ round = NoRound /\ rounds < MaxRounds
    /\ rounds' = rounds + 1
    /\ round' = [of |-> calendar, left |-> parse_multistatus_response(raw), n |-> 0]
    /\ UNCHANGED <<events, events_fts, listing>>

\* The next event of the loop is saved.
SaveNextEvent ==
    /\ round.left # << >>
    /\ save_calendar_event(round.n + 1, Head(round.left), round.of)
    /\ round' = [round EXCEPT !.left = Tail(@), !.n = @ + 1]
    /\ listing' = IF listing.at = "between" THEN [listing EXCEPT !.touched = @ \union {round.n + 1}]
                  ELSE listing
    /\ UNCHANGED rounds

\* The loop is over, or a save failed: what was saved stays.
SyncEnds ==
    /\ round # NoRound
    /\ round' = NoRound
    /\ UNCHANGED <<events, events_fts, rounds, listing>>

-----------------------------------------------------------------------------
(* ListEvents                                                              *)

Present == {i \in EventIds : events[i] # NoEvent}

\* list_calendar_events: standard interval overlap.
list_calendar_events(w) ==
    {[id |-> i, row |-> events[i]] : i \in {j \in Present : events[j].start <= w.to /\ events[j].end >= w.from}}

\* list_recurring_calendar_events: rrule IS NOT NULL AND rrule != ''.
list_recurring_calendar_events ==
    {[id |-> i, row |-> events[i]] : i \in {j \in Present : events[j].rrule.kind \notin {"null", "empty"}}}

\* The starts the rrule library yields for a rule it can parse.
Occurrences(row) == {row.start + k * row.rrule.every : k \in 0..(row.rrule.count - 1)}

Instance(e, occ, at) == [id |-> e.id, occ |-> occ, start |-> at, end |-> at + (e.row.end - e.row.start),
                         calendar |-> e.row.calendar]

\* RecurrenceEngine::expand_occurrences: the first ones in the window; the
\* event itself when its rule is blank or cannot be parsed.
expand_occurrences(e, w) ==
    IF e.row.rrule.kind \in {"blank", "malformed"}
    THEN {Instance(e, 0, e.row.start)}
    ELSE LET within == {t \in Occurrences(e.row) : w.from <= t /\ t <= w.to}
             nth(t) == Cardinality({u \in within : u <= t})
         IN {Instance(e, nth(t), t) : t \in {u \in within : nth(u) <= MAX_EXPANSION_COUNT}}

\* Mutant: recurring rows of the window are kept as they are, too.
expand_keeping_masters(all_in_window, recurring, w) ==
    {Instance(e, 0, e.row.start) : e \in all_in_window}
        \union UNION {expand_occurrences(e, w) : e \in recurring}

\* expand_events_for_window: only rows without a rule are kept as they are.
expand_events_for_window(all_in_window, recurring, w) ==
    {Instance(e, 0, e.row.start) : e \in {x \in all_in_window : x.row.rrule.kind = "null"}}
        \union UNION {expand_occurrences(e, w) : e \in recurring}

\* list_events reads the rows of the window ...
ListEvents(w, calendar) ==
    /\ listing.at = "none"
    /\ listing' = [at |-> "between", window |-> w, calendar |-> calendar,
                   rows |-> list_calendar_events(w), touched |-> {}]
    /\ UNCHANGED <<events, events_fts, round, rounds>>

\* ... and, in a query of its own, the recurring ones.
ListRecurring ==
    /\ listing.at = "between"
    /\ LET all == expand_events_for_window(listing.rows, list_recurring_calendar_events, listing.window)
           kept == {a \in all : listing.calendar = NoEvent \/ a.calendar = listing.calendar}
       IN listing' = [at |-> "answered", window |-> listing.window, calendar |-> listing.calendar,
                      touched |-> listing.touched, answer |-> kept, table |-> events]
    /\ UNCHANGED <<events, events_fts, round, rounds>>

\* The client has its answer.
Answered ==
    /\ listing.at = "answered"
    /\ listing' = NoListing
    /\ UNCHANGED <<events, events_fts, round, rounds>>

-----------------------------------------------------------------------------
CalendarInit ==
    /\ events = [i \in EventIds |-> NoEvent] /\ events_fts = [i \in EventIds |-> << >>]
    /\ round = NoRound /\ rounds = 0
    /\ listing = NoListing

CalendarNext ==
    \/ \E calendar \in Collection, raw \in Responses : SyncCalendar(calendar, raw)
    \/ SaveNextEvent
    \/ SyncEnds
    \/ \E w \in Windows, calendar \in Collection \union {NoEvent} : ListEvents(w, calendar)
    \/ ListRecurring
    \/ Answered

-----------------------------------------------------------------------------
(* Properties                                                              *)

\* The triggers keep "events_fts from accumulating a stale row every time
\* save_calendar_event upserts an existing event": a search finds the events
\* as they are.
EventsMirrored ==
    \A i \in EventIds :
        /\ Mirrors(events_fts, i, i \in Present, IF i \in Present THEN events[i].summary ELSE NoEvent)
        /\ i \in Present => i \in search(events_fts, events[i].summary)

\* When a row should be in the answer for a window: at some instant of it.
OnAt(start, end, w) == \E t \in w.from..w.to : start <= t /\ t <= end

\* The starts of a row that the window shows.  An occurrence that began
\* before the window is not shown although it still goes on, a rule that is
\* no rule shows the event in every window, and an empty one in none.
Shown(row, w) ==
    IF row = NoEvent \/ row.rrule.kind = "empty" THEN {}
    ELSE IF row.rrule.kind = "null" THEN {t \in {row.start} : OnAt(t, row.end, w)}
    ELSE IF row.rrule.kind \in {"blank", "malformed"} THEN {row.start}
    ELSE {t \in Occurrences(row) : t >= w.from /\ OnAt(t, t + row.end - row.start, w)}

\* The window and the event begin before they end.  ListEvents compares the
\* ends as they are: of the others it may show what is at no instant of the
\* window.
Forward(row, w) == w.from <= w.to /\ (row # NoEvent => row.start <= row.end)

\* ListEvents answers with each event of the window once, at each of its
\* times, and of no other calendar: unless a sync saved that event between
\* the two queries of the call.
WindowRight ==
    listing.at = "answered" =>
        \A i \in EventIds \ listing.touched :
            LET row  == listing.table[i]
                mine == {a \in listing.answer : a.id = i}
                asked == row # NoEvent /\ listing.calendar \in {NoEvent, row.calendar}
                want == IF asked THEN Shown(row, listing.window) ELSE {}
            IN /\ mine # {} => asked
               /\ Cardinality(mine) = Cardinality({a.start : a \in mine})
               /\ Forward(row, listing.window) =>
                     /\ {a.start : a \in mine} \subseteq want
                     /\ \A t \in want : Cardinality({u \in want : u <= t}) <= MAX_EXPANSION_COUNT
                                           => \E a \in mine : a.start = t

\* The calendar, while syncs and listings interleave.
CalendarSound == EventsMirrored /\ WindowRight
=============================================================================
