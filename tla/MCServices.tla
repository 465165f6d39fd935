----------------------------- MODULE MCServices -----------------------------
(***************************************************************************)
(* The services of the daemon that share no state, in one model: a         *)
(* behaviour is about one of them, the part chosen at the start, while the *)
(* others rest in a single initial state.                                  *)
(***************************************************************************)
EXTENDS Client, EventFeed, Triage, Submission, SelfUpdate, Store, Organizer, Jmap, Outbox

CONSTANTS p1, p2

VARIABLE part

Parts == {"client", "feed", "triage", "submission", "update", "store", "calendar", "contacts", "jmap",
          "outbox"}

restVars == <<feedVars, triageVars, submissionVars, updateVars, storeVars, calendarVars, contactVars, jmapVars, vars>>
allVars  == <<part, clientVars, restVars>>

-----------------------------------------------------------------------------
(* The instances                                                           *)

\* One client edits the IMAP settings of the account, the other the SMTP ones.
MCEditField == (p1 :> "imap") @@ (p2 :> "smtp")

MCTlsOf == (1 :> "StartTls") @@ (2 :> "Plain")

Mail(to, cc, subject, plain, html, attachments) ==
    [to |-> to, cc |-> cc, subject |-> subject, plain |-> plain, html |-> html, attachments |-> attachments]
MCCompose ==
    {Mail("good", "none", TRUE, TRUE, FALSE, << >>), Mail("good", "good", TRUE, TRUE, TRUE, <<"a", "a">>),
     Mail("good", "blank", TRUE, FALSE, FALSE, <<"a">>), Mail("blank", "none", TRUE, TRUE, FALSE, << >>),
     Mail("bad", "none", TRUE, TRUE, FALSE, << >>), Mail("good", "bad", TRUE, TRUE, FALSE, << >>),
     Mail("good", "none", FALSE, TRUE, FALSE, << >>), Mail("good", "none", TRUE, TRUE, FALSE, <<"bad_type">>)}

MCSiblings     == <<"nuncio-cli", "nunciod">>
MCInstalledTag == <<1, 2>>
MCReleaseTags  == {<<1, 1>>, <<1, 3>>, <<1, 2, -1>>}

Letter1(folder, subject, body) ==
    [id |-> 1, account_id |-> "a1", folder_id |-> folder, received_at |-> 1, subject |-> subject, body |-> body]
Letter2(folder, subject, body) ==
    [id |-> 2, account_id |-> "a1", folder_id |-> folder, received_at |-> 2, subject |-> subject, body |-> body]
MCEmail ==
    {Letter1("inbox", "rust", "java"), Letter1("inbox", "rust", ""), Letter1("sent", "java", Null),
     Letter2("inbox", "java", "rust"), Letter2("sent", "hi", "hi")}

Endpoint(id, smtp_host, smtp_port, imap_tls_mode, smtp_tls_mode) ==
    [id |-> id, server_host |-> "h", server_port |-> 1, smtp_host |-> smtp_host, smtp_port |-> smtp_port,
     imap_tls_mode |-> imap_tls_mode, smtp_tls_mode |-> smtp_tls_mode]
MCAccountRow == {Endpoint("a1", "s", 2, "StartTls", "Plain"), Endpoint("a2", "s", 2, "ImplicitTls", "StartTls")}

\* No file; one from before the index and the SMTP columns; one from before
\* the TLS modes.
MCOldFile ==
    {[schema |-> {}, columns |-> {}, keys |-> 0,
      accounts |-> [i \in {"a1", "a2"} |-> Null], messages |-> <<Null, Null>>],
     [schema |-> {"messages", "accounts"}, columns |-> {}, keys |-> 1,
      accounts |-> ("a1" :> Endpoint("a1", Null, Null, Null, Null)) @@ ("a2" :> Null),
      messages |-> <<Letter1("inbox", "rust", "java"), Letter2("inbox", "java", "rust")>>],
     [schema |-> {"messages", "accounts"}, columns |-> {"smtp_host", "smtp_port"}, keys |-> 1,
      accounts |-> ("a1" :> Endpoint("a1", "s", 2, Null, Null)) @@ ("a2" :> Null),
      messages |-> <<Letter1("inbox", "rust", ""), Null>>]}

Utc(t)          == [kind |-> "utc", at |-> t]
OnDay(d)        == [kind |-> "date", at |-> d]
Zoned(t, known) == [kind |-> "zone", at |-> t, known |-> known]
Rule(kind)      == [kind |-> kind]
Every(n, count) == [kind |-> "rule", every |-> n, count |-> count]
Vevent(summary, start, end, rrule) == [summary |-> summary, start |-> start, end |-> end, rrule |-> rrule]
MCResponses ==
    {<<Vevent("a", Utc(1), Utc(6), Rule("null")), Vevent("b", Zoned(2, FALSE), NoEvent, Rule("null")),
       Vevent("b", Zoned(2, TRUE), NoEvent, Every(2, 4))>>,
     <<Vevent("a", OnDay(0), OnDay(0), Rule("malformed")), Vevent("a", NoEvent, Utc(2), Rule("blank"))>>,
     <<Vevent("b", Utc(0), Utc(2), Every(3, 3)), Vevent("b", Utc(4), NoEvent, Rule("empty"))>>}

\* The last window ends before it begins.
MCWindows == {[from |-> 1, to |-> 6], [from |-> 4, to |-> 5], [from |-> 5, to |-> 3]}

Card(fn, email) == [fn |-> fn, email |-> email]
MCCardAnswers ==
    {<<Card("ann", NoContact), Card(NoContact, "bob")>>, <<Card("ann", "x"), Card(NoContact, NoContact)>>,
     <<Card("eve", NoContact)>>}

-----------------------------------------------------------------------------
AllInit ==
    /\ part \in Parts
    /\ ClientInit     /\ (part # "client"     => vault = NoToken /\ account = NoAccount)
    /\ FeedInit       /\ (part # "feed"       => read_flag = [m \in Message |-> TRUE])
    /\ TriageInit     /\ (part # "triage"     => rows = {})
    /\ SubmissionInit /\ (part # "submission" => present = {})
    /\ UpdateInit     /\ (part # "update"     => platform = "unix" /\ \A b \in Binary : disk[b].exe = Installed)
    /\ StoreInit      /\ (part # "store"      => schema = {})
    /\ CalendarInit
    /\ ContactsInit
    /\ JmapInit       /\ (part # "jmap"       => boxes = [m \in JMail |-> {}])
    /\ Init

AllNext ==
    \/ part = "client"     /\ ClientNext     /\ UNCHANGED <<part, restVars>>
    \/ part = "feed"       /\ FeedNext       /\ UNCHANGED <<part, clientVars, triageVars, submissionVars, updateVars,
                                                            storeVars, calendarVars, contactVars, jmapVars, vars>>
    \/ part = "triage"     /\ TriageNext     /\ UNCHANGED <<part, clientVars, feedVars, submissionVars, updateVars,
                                                            storeVars, calendarVars, contactVars, jmapVars, vars>>
    \/ part = "submission" /\ SubmissionNext /\ UNCHANGED <<part, clientVars, feedVars, triageVars, updateVars,
                                                            storeVars, calendarVars, contactVars, jmapVars, vars>>
    \/ part = "update"     /\ UpdateNext     /\ UNCHANGED <<part, clientVars, feedVars, triageVars, submissionVars,
                                                            storeVars, calendarVars, contactVars, jmapVars, vars>>
    \/ part = "store"      /\ StoreNext      /\ UNCHANGED <<part, clientVars, feedVars, triageVars, submissionVars,
                                                            updateVars, calendarVars, contactVars, jmapVars, vars>>
    \/ part = "calendar"   /\ CalendarNext   /\ UNCHANGED <<part, clientVars, feedVars, triageVars, submissionVars,
                                                            updateVars, storeVars, contactVars, jmapVars, vars>>
    \/ part = "contacts"   /\ ContactsNext   /\ UNCHANGED <<part, clientVars, feedVars, triageVars, submissionVars,
                                                            updateVars, storeVars, calendarVars, jmapVars, vars>>
    \/ part = "jmap"       /\ JmapNext       /\ UNCHANGED <<part, clientVars, feedVars, triageVars, submissionVars,
                                                            updateVars, storeVars, calendarVars, contactVars, vars>>
    \/ part = "outbox"     /\ Next           /\ UNCHANGED <<part, clientVars, feedVars, triageVars, submissionVars,
                                                            updateVars, storeVars, calendarVars, contactVars, jmapVars>>

\* The fairness each part states for itself.
AllFairness ==
    /\ \A p \in Process :
          /\ WF_clientVars(part = "client" /\ ClientStep(p))
          /\ WF_clientVars(part = "client" /\ ~WaitsForServer(cmd[p])
                              /\ (Unauthenticated(p) \/ Refuse(p) \/ Serve(p)))
    /\ \A s \in Subscriber : WF_feedVars(part = "feed" /\ (Yield(s) \/ SkipLagged(s)))
    /\ WF_triageVars(part = "triage" /\ TriageWorker)
    /\ WF_triageVars(part = "triage" /\ ReadUpdate)
    /\ WF_vars(part = "outbox" /\ Worker)

ServicesSpec == AllInit /\ [][AllNext]_allVars /\ AllFairness
=============================================================================
