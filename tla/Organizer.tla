------------------------------ MODULE Organizer ------------------------------
(***************************************************************************)
(* The calendar and the contacts of the daemon, side by side.              *)
(***************************************************************************)
EXTENDS Calendar, Contacts

\* What they promise: the search finds every event and every contact under
\* the name it has now, a listing of events is right for its window, and a
\* contact stays as it was created.
OrganizerSound == CalendarSound /\ ContactsKept
=============================================================================
