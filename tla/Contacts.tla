------------------------------ MODULE Contacts ------------------------------
(***************************************************************************)
(* Contacts: those a CardDAV server sends, and those created by hand, in   *)
(* one table whose search index triggers keep.                             *)
(*                                                                         *)
(* Source: crates/nuncio-contacts/src (carddav.rs, parser.rs, models.rs),  *)
(* contacts_sync.rs and the Contacts service of crates/nunciod/src, and    *)
(* table contacts in crates/nuncio-store/src/db.rs.                        *)
(*                                                                         *)
(* A contact is its display name.                                          *)
(***************************************************************************)
EXTENDS Mirror

CONSTANTS
    CardAnswers,  \* CardDAV answers: a sequence of vCards
    NewContact,   \* names a client may create a contact under
    NoContact,    \* no such row, or nothing said
    MaxFetches,   \* bound: syncs
    MaxCreated    \* bound: contacts created by hand

ContactIds ==
    ({"carddav"} \X UNION {DOMAIN a : a \in CardAnswers}) \union ({"ct"} \X (0..MaxCreated))

Cards == UNION {{a[n] : n \in DOMAIN a} : a \in CardAnswers}

ASSUME ContactsAssumption ==
    /\ CardAnswers \subseteq Seq(Cards)
    /\ NoContact \notin NewContact
    /\ MaxCreated \in Nat

\* VCardParserAdapter::parse_vcard: the name, or else the first address.
parse_vcard(card) ==
    IF card.fn # NoContact THEN {card.fn} ELSE IF card.email # NoContact THEN {card.email} ELSE {}

\* CardDavClient: one card that cannot be parsed fails the answer.  The set
\* of the sequences it may return.
parse_cards(raw) ==
    IF \E n \in DOMAIN raw : parse_vcard(raw[n]) = {} THEN {}
    ELSE {[n \in DOMAIN raw |-> CHOOSE c \in parse_vcard(raw[n]) : TRUE]}

-----------------------------------------------------------------------------
VARIABLES
    contacts,      \* table contacts
    contacts_fts,  \* its index
    fetch,         \* the sync under way: what it has yet to save
    fetches,
    millis,        \* the clock Contact::new reads
    made,          \* the contacts CreateContact has answered with
    doubled        \* ids given to a second contact in the same millisecond

contactVars == <<contacts, contacts_fts, fetch, fetches, millis, made, doubled>>

NoFetch == [on |-> FALSE, left |-> << >>, n |-> 0]

save_contact(id, name) ==
    /\ contacts' = [contacts EXCEPT ![id] = name]
    /\ contacts_fts' = mirror(contacts_fts, contacts[id] # NoContact, id, name)

\* sync_with_backend: fetch_contacts answers.  A card that cannot be parsed,
\* or a server that fails, ends the call before anything is saved.
SyncContacts(raw) ==
    /\ fetch = NoFetch /\ fetches < MaxFetches
    /\ fetches' = fetches + 1
    /\ fetch' = IF parse_cards(raw) = {} THEN NoFetch
                ELSE [on |-> TRUE, left |-> CHOOSE c \in parse_cards(raw) : TRUE, n |-> 0]
    /\ UNCHANGED <<contacts, contacts_fts, millis, made, doubled>>

\* The next contact of the loop is saved.
SaveNextContact ==
    /\ fetch.left # << >>
    /\ save_contact(<<"carddav", fetch.n + 1>>, Head(fetch.left))
    /\ fetch' = [fetch EXCEPT !.left = Tail(@), !.n = @ + 1]
    /\ UNCHANGED <<fetches, millis, made, doubled>>

\* The loop is over, or a save failed: what was saved stays.
FetchEnds ==
    /\ fetch.on
    /\ fetch' = NoFetch
    /\ UNCHANGED <<contacts, contacts_fts, fetches, millis, made, doubled>>

\* Mutant: a contact's id is its place among the contacts.
contact_id_by_count == <<"carddav", 1>>

\* Contact::new: the clock, in milliseconds, and the process.
contact_id == <<"ct", millis>>

\* The clock may not have moved since the last contact.
create_contact(name) ==
    /\ Cardinality(made) < MaxCreated
    /\ save_contact(contact_id, name)
    /\ made' = made \union {[id |-> contact_id, name |-> name]}
    /\ doubled' = IF \E c \in made : c.id = contact_id THEN doubled \union {contact_id} ELSE doubled
    /\ millis' \in {millis, millis + 1} /\ millis' <= MaxCreated
    /\ UNCHANGED <<fetch, fetches>>

-----------------------------------------------------------------------------
ContactsInit ==
    /\ contacts = [i \in ContactIds |-> NoContact] /\ contacts_fts = [i \in ContactIds |-> << >>]
    /\ fetch = NoFetch /\ fetches = 0
    /\ millis = 0 /\ made = {} /\ doubled = {}

ContactsNext ==
    \/ \E raw \in CardAnswers : SyncContacts(raw)
    \/ SaveNextContact
    \/ FetchEnds
    \/ \E name \in NewContact : create_contact(name)

-----------------------------------------------------------------------------
(* Properties                                                              *)

\* A contact that CreateContact answered with stays as it was given, through
\* every sync, unless another was created in the same millisecond; and the
\* search finds every contact under the name it has now.
ContactsKept ==
    /\ \A c \in made : c.id \notin doubled => contacts[c.id] = c.name
    /\ \A i \in ContactIds :
          /\ Mirrors(contacts_fts, i, contacts[i] # NoContact, contacts[i])
          /\ contacts[i] # NoContact => i \in search(contacts_fts, contacts[i])
=============================================================================
