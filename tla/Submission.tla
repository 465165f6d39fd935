----------------------------- MODULE Submission -----------------------------
(***************************************************************************)
(* Outgoing mail: a SendMessage RPC resolves an account, reads its         *)
(* password, builds the transport and the message, and submits it once,    *)
(* while the account may be edited, the server may refuse or hang up, and  *)
(* the client may go away.  There is no queue and no second try.           *)
(*                                                                         *)
(* Source: crates/nunciod/src/send.rs, crates/nuncio-mail/src/smtp.rs and  *)
(* send_message of crates/nunciod/src/grpc.rs.  The SMTP session itself is *)
(* the lettre library's.                                                   *)
(***************************************************************************)
EXTENDS Integers, Sequences, FiniteSets, FiniteSetsExt, Functions

CONSTANTS
    SendRequest,   \* SendMessage calls
    Compose,       \* what clients ask to have sent
    SenderIds,     \* account ids, in the order list_accounts returns them
    TlsOf,         \* smtp_tls_mode of each account
    Offered,       \* the transport security servers may offer
    AnyAccount,    \* a request that names no account
    MaxEdits       \* bound: times an account is moved to another server

ASSUME SubmissionAssumption ==
    /\ SenderIds \subseteq Nat
    /\ TlsOf \in [SenderIds -> {"ImplicitTls", "StartTls", "Plain"}]
    /\ Offered \subseteq {"wrapper", "starttls", "none"}
    /\ AnyAccount \notin SenderIds
    /\ \A c \in Compose :
          /\ c.plain \in BOOLEAN /\ c.html \in BOOLEAN
          /\ c.attachments \in Seq(Range(c.attachments))
          /\ Range(c.attachments) \intersect {"plain", "html", "empty"} = {}
    /\ MaxEdits \in Nat

VARIABLES
    present,  \* the accounts there are
    rowVersion,  \* smtp_host of each account's row: which of its servers
    secret,      \* which server's password the keyring holds for each account
    send,        \* each call: where it is and its locals
    delivered,   \* what servers accepted, in order
    shown,       \* passwords that were sent: [of, to, clear]
    crossedEdit, \* calls during which their account was edited
    edits

submissionVars == <<present, rowVersion, secret, send, delivered, shown, crossedEdit, edits>>
settingVars      == <<present, rowVersion, secret, edits>>

-----------------------------------------------------------------------------
(* The message                                                             *)

\* build_outbound_mime_message: the addresses that must parse.  A blank cc is
\* left out.
AddressesParse(c) == c.to = "good" /\ c.cc \in {"none", "blank", "good"}

Bodies(c) == (IF c.plain THEN <<"plain">> ELSE << >>) \o (IF c.html THEN <<"html">> ELSE << >>)

\* finish_message: the leaves of the message, in order; with no body at all it
\* has one empty part.
finish_message(c) ==
    (IF Bodies(c) = << >> THEN <<"empty">> ELSE Bodies(c)) \o c.attachments

\* An attachment whose content type does not parse fails the whole message.
Buildable(c) ==
    /\ AddressesParse(c)
    /\ \A i \in DOMAIN c.attachments : c.attachments[i] # "bad_type"

-----------------------------------------------------------------------------
(* The call                                                                *)

Step(q, l)    == send' = [send EXCEPT ![q].pc = l]
Fail(q, why)  == send' = [send EXCEPT ![q].pc = "failed", ![q].why = why]

\* send_message: what is checked before anything is looked up.
SendMessage(q, c, a) ==
    /\ send[q].pc = "ready"
    /\ LET fields == [send[q] EXCEPT !.compose = c, !.account = a]
       IN send' = [send EXCEPT ![q] =
            IF c.to = "blank" \/ ~c.subject
            THEN [fields EXCEPT !.pc = "failed", !.why = "invalid_argument"]
            ELSE [fields EXCEPT !.pc = "resolve"]]
    /\ UNCHANGED <<settingVars, delivered, shown, crossedEdit>>

\* Mutant: a name that is not found falls back on the first account.
resolve_or_first(a) ==
    IF a \in present THEN {a} ELSE IF present = {} THEN {} ELSE {Min(present)}

\* resolve_sending_account: an account that was named is used or the call
\* fails; otherwise the first one is.
resolve_sending_account(a) ==
    IF a = AnyAccount
    THEN (IF present = {} THEN {} ELSE {Min(present)})
    ELSE present \intersect {a}

ResolveAccount(q) ==
    /\ send[q].pc = "resolve"
    /\ \/ \E a \in resolve_sending_account(send[q].account) :
             /\ send' = [send EXCEPT ![q].pc = "secret", ![q].from = a, ![q].host = rowVersion[a]]
             /\ crossedEdit' = IF secret[a] # rowVersion[a] THEN crossedEdit \union {q} ELSE crossedEdit
       \/ /\ \/ resolve_sending_account(send[q].account) = {} /\ Fail(q, "no_account")
             \/ Fail(q, "store")
          /\ UNCHANGED crossedEdit
    /\ UNCHANGED <<settingVars, delivered, shown>>

\* get_secret, after the row was read.
ReadSecret(q) ==
    /\ send[q].pc = "secret"
    /\ \/ send' = [send EXCEPT ![q].pc = "build", ![q].password = secret[send[q].from]]
       \/ Fail(q, "vault")
    /\ UNCHANGED <<settingVars, delivered, shown, crossedEdit>>

\* build_smtp_sender, then the message: both before anything is dialled.
BuildMessage(q) ==
    /\ send[q].pc = "build"
    /\ \/ Buildable(send[q].compose) /\ Step(q, "dial")
       \/ ~Buildable(send[q].compose) /\ Fail(q, "unbuildable")
       \/ Fail(q, "bad_smtp_config")
    /\ UNCHANGED <<settingVars, delivered, shown, crossedEdit>>

\* build_transport: what the server must offer.  Tls::Required fails without
\* STARTTLS; Tls::None never asks.
security(mode) ==
    CASE mode = "ImplicitTls" -> {"wrapper"}
      [] mode = "StartTls"    -> {"starttls"}
      [] mode = "Plain"       -> {"none", "starttls", "wrapper"}

Clear(mode, offer) == mode = "Plain" \/ offer = "none"

\* The session is opened and the password sent, or the connection fails.
OpenSession(q, offer) ==
    /\ send[q].pc = "dial"
    /\ \/ /\ offer \in security(TlsOf[send[q].from])
          /\ shown' = shown \union
                {[by |-> q, of |-> send[q].password, to |-> send[q].host, account |-> send[q].from,
                  clear |-> Clear(TlsOf[send[q].from], offer)]}
          /\ Step(q, "submit")
       \/ Fail(q, "transport") /\ UNCHANGED shown
    /\ UNCHANGED <<settingVars, delivered, crossedEdit>>

Letter(q) == [by |-> q, from |-> send[q].from, parts |-> finish_message(send[q].compose),
              cc |-> send[q].compose.cc = "good"]

\* The server takes the message, or refuses it.
ServerTakes(q) ==
    /\ send[q].pc = "submit"
    /\ delivered' = Append(delivered, Letter(q))
    /\ Step(q, "taken")
    /\ UNCHANGED <<settingVars, shown, crossedEdit>>

ServerRefuses(q) ==
    /\ send[q].pc = "submit"
    /\ Fail(q, "refused")
    /\ UNCHANGED <<settingVars, delivered, shown, crossedEdit>>

\* Its reply arrives, or the connection breaks before it does.
ReplyArrives(q) ==
    /\ send[q].pc = "taken"
    /\ Step(q, "sent")
    /\ UNCHANGED <<settingVars, delivered, shown, crossedEdit>>

ReplyLost(q) ==
    /\ send[q].pc = "taken"
    /\ Fail(q, "reply_lost")
    /\ UNCHANGED <<settingVars, delivered, shown, crossedEdit>>

\* The client goes away and its call is dropped where it is.
Abandon(q) ==
    /\ send[q].pc \notin {"ready", "sent", "failed", "dropped"}
    /\ Step(q, "dropped")
    /\ UNCHANGED <<settingVars, delivered, shown, crossedEdit>>

-----------------------------------------------------------------------------
(* update_account moves an account to another server with another password: *)
(* the keyring first, the row after it.                                     *)

Holding(a) == {q \in SendRequest : send[q].from = a /\ send[q].pc \in {"secret", "build"}}

RotateSecret(a) ==
    /\ edits < MaxEdits
    /\ a \in present /\ secret[a] = rowVersion[a]
    /\ secret' = [secret EXCEPT ![a] = @ + 1]
    /\ edits' = edits + 1
    /\ crossedEdit' = crossedEdit \union Holding(a)
    /\ UNCHANGED <<present, rowVersion, send, delivered, shown>>

SaveRow(a) ==
    /\ secret[a] # rowVersion[a]
    /\ rowVersion' = [rowVersion EXCEPT ![a] = secret[a]]
    /\ UNCHANGED <<present, secret, edits, send, delivered, shown, crossedEdit>>

-----------------------------------------------------------------------------
NotAsked == CHOOSE c \in Compose : TRUE

SubmissionInit ==
    /\ present \in SUBSET SenderIds
    /\ rowVersion = [a \in SenderIds |-> 1]
    /\ secret = [a \in SenderIds |-> 1]
    /\ send = [q \in SendRequest |->
                 [pc |-> "ready", why |-> "none", compose |-> NotAsked, account |-> AnyAccount,
                  from |-> 0, host |-> 0, password |-> 0]]
    /\ delivered = << >>
    /\ shown = {}
    /\ crossedEdit = {}
    /\ edits = 0

SubmissionNext ==
    \/ \E q \in SendRequest :
        \/ \E c \in Compose, a \in SenderIds \union {AnyAccount} : SendMessage(q, c, a)
        \/ ResolveAccount(q)
        \/ ReadSecret(q)
        \/ BuildMessage(q)
        \/ \E offer \in Offered : OpenSession(q, offer)
        \/ ServerTakes(q)
        \/ ServerRefuses(q)
        \/ ReplyArrives(q)
        \/ ReplyLost(q)
        \/ Abandon(q)
    \/ \E a \in SenderIds : RotateSecret(a) \/ SaveRow(a)

-----------------------------------------------------------------------------
(* Properties                                                              *)

Times(x, parts) == Cardinality({i \in DOMAIN parts : parts[i] = x})
Letters(q) == {i \in DOMAIN delivered : delivered[i].by = q}

\* A call that reported success put exactly one letter into the hands of a
\* server, from the account that was named, with both bodies and every
\* attachment.
SentAsComposed ==
    \A q \in SendRequest : send[q].pc = "sent" =>
        \E i \in DOMAIN delivered :
            /\ Letters(q) = {i}
            /\ send[q].account # AnyAccount => delivered[i].from = send[q].account
            /\ \A x \in {"plain", "html"} : send[q].compose[x] => Times(x, delivered[i].parts) = 1
            /\ \A x \in Range(send[q].compose.attachments) :
                  Times(x, delivered[i].parts) = Times(x, send[q].compose.attachments)

\* Nothing is sent twice for one call, and a call that failed sent nothing
\* unless the server's reply was lost.
FailedSentNothing ==
    \A q \in SendRequest :
        /\ Cardinality(Letters(q)) <= 1
        /\ send[q].pc = "failed" /\ send[q].why # "reply_lost" => Letters(q) = {}

\* A password is shown only to the server it is for, and in the clear only
\* for an account that asks for plaintext; unless the account was being moved
\* when its row and its keyring entry were read, one after the other.
SecretsToTheirServer ==
    \A x \in shown :
        /\ x.clear => TlsOf[x.account] = "Plain"
        /\ x.by \notin crossedEdit => x.of = x.to

SubmissionSound == SentAsComposed /\ FailedSentNothing /\ SecretsToTheirServer
=============================================================================
