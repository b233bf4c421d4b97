---------------------------- MODULE AccountRecovery ----------------------------
(***************************************************************************)
(* What a person does with a message or a code they were sent: resetting a *)
(* forgotten password through a mailed link, changing the phone through a  *)
(* text, changing the address through a mailed code, and signing in on one *)
(* device by approving its QR code on another.  Each begins with a request *)
(* that leaves a ticket in Redis (the address change leaves its code at    *)
(* the provider) and ends with a request that redeems it.                  *)
(***************************************************************************)
EXTENDS Naturals, FiniteSets

CONSTANTS
  Users,      \* the accounts
  Requests,   \* the HTTP requests that may arrive, each once
  InputOf,    \* what each of them carries
  Batches,    \* model bound: the requests of a run
  MaxFaults   \* model bound: failures, lost answers, crashes, suspensions

Op(r)     == InputOf[r].op
By(r)     == InputOf[r].by       \* the signed-in account
Of(r)     == InputOf[r].of       \* the request whose ticket is redeemed
Right(r)  == InputOf[r].right    \* whether the code or the receiver secret is the one given out
Target(r) == InputOf[r].target   \* the phone or address asked for, the address typed

Doing(op) == {r \in Requests : Op(r) = op}
Tickets   == Doing("forgot") \cup Doing("text") \cup Doing("qr")
Redeems   == Doing("reset") \cup Doing("phone") \cup Doing("consume")
Addresses == Doing("address")

RecoveryAssumption ==
  /\ \A r \in Requests :
       \/ r \in Tickets \/ r \in Addresses
       \/ Op(r) = "reset" /\ Of(r) \in Doing("forgot")
       \/ Op(r) = "phone" /\ Of(r) \in Doing("text")
       \/ Op(r) \in {"approve", "consume"} /\ Of(r) \in Doing("qr")
       \/ Op(r) = "confirm" /\ Of(r) \in Addresses
  /\ \A r \in Requests :
       /\ Op(r) \in {"phone", "approve", "address", "confirm"} => By(r) \in Users
       /\ Right(r) \in BOOLEAN
  /\ Users \cap {"unused", "open", "gone"} = {} /\ Requests \cap {"none", "initial", "before"} = {}
  /\ \A b \in Batches : b \subseteq Requests
  /\ MaxFaults \in Nat

VARIABLES
  account,   \* database: status, phone and verified address of each account
  upstream,  \* provider: the address of each account and the code that proves it
  secret,    \* provider: the request that last set each password
  live,      \* Redis: the sessions, each with what made it and its account
  ticket,    \* Redis: the record of each ticket
  audits,    \* database: the mandatory audit rows of QR sign-in
  given,     \* the tickets and codes that reached a person
  errand,    \* what each request is doing
  redeemed,  \* history: the tickets that had their effect, and through whom
  approvals, \* history: the accounts that approved a challenge
  confirmed, \* history: the addresses the provider has verified for an account
  outrun,    \* history: accounts whose mirror was written after a newer change began
  mishaps    \* how many failures so far

recoveryVars == <<account, upstream, secret, live, ticket, audits, given, errand, redeemed,
                  approvals, confirmed, outrun, mishaps>>

Labels  == {"idle", "stored", "spent", "set", "audited", "usable", "recorded", "asked", "read", "done"}
Answers == {"none", "ok", "accepted", "pending", "invalid", "conflict", "limited", "failed"}

\* No record yet, a record without an account, the record's account, or gone.
Records == {"unused", "open", "gone"} \cup Users

TypeOK ==
  /\ \A u \in Users : account[u].status \in {"active", "disabled"}
  /\ \A u \in Users : upstream[u].verified \in BOOLEAN /\ upstream[u].code \in Addresses \cup {"none"}
  /\ secret \in [Users -> Doing("reset") \cup {"initial"}]
  /\ live \subseteq (Doing("consume") \cup {"before"}) \X Users
  /\ ticket \in [Tickets -> Records]
  /\ audits \subseteq {"approval_requested", "receiver_verified"} \X Doing("qr") \X Users
  /\ given \subseteq Tickets \cup Addresses
  /\ \A r \in Requests : errand[r].pc \in Labels /\ errand[r].answer \in Answers
  /\ mishaps \in 0 .. MaxFaults

Init ==
  /\ account = [u \in Users |-> [status |-> "active", phone |-> <<"old", u>>, email |-> <<"old", u>>]]
  /\ upstream = [u \in Users |-> [email |-> <<"old", u>>, verified |-> TRUE, code |-> "none"]]
  /\ secret = [u \in Users |-> "initial"] /\ live = {"before"} \X Users
  /\ ticket = [t \in Tickets |-> "unused"] /\ audits = {} /\ given = {}
  /\ \E b \in Batches :
       errand = [r \in Requests |-> [pc |-> IF r \in b THEN "idle" ELSE "done",
                                     found |-> "none", answer |-> "none"]]
  /\ redeemed = {} /\ approvals = {} /\ outrun = {} /\ mishaps = 0
  /\ confirmed = {<<u, <<"old", u>>>> : u \in Users}

At(r, label)     == errand[r].pc = label
Smooth           == UNCHANGED mishaps
Mishap           == mishaps < MaxFaults /\ mishaps' = mishaps + 1
To(r, label)     == errand' = [errand EXCEPT ![r].pc = label]
With(r, label, x) == errand' = [errand EXCEPT ![r].pc = label, ![r].found = x]
Answer(r, a)     == errand' = [errand EXCEPT ![r].pc = "done", ![r].answer = a]

historyVars == <<redeemed, approvals, confirmed, outrun>>
accountVars == <<account, upstream, secret>>

CanAuthenticate(u) == account[u].status = "active"

-----------------------------------------------------------------------------
(* Issuing a ticket *)

\* Budgets, risk checks and grants refuse a request before anything is stored.
Limited(r) ==
  /\ At(r, "idle") /\ Op(r) \notin {"approve", "consume"}
  /\ Answer(r, "limited")
  /\ Smooth /\ UNCHANGED <<accountVars, live, ticket, audits, given, historyVars>>

Stored(r, x) == [ticket EXCEPT ![r] = x]

\* Several accounts may show one address.
Holds(u, r) == account[u].email = Target(r)

\* The account is the row that comes first; an address nobody who may sign in
\* shows is answered alike, and the mail goes to the address that was typed.
RequestReset(r) ==
  /\ Op(r) = "forgot" /\ At(r, "idle")
  /\ \/ \E u \in Users :
          /\ Holds(u, r) /\ CanAuthenticate(u) /\ ticket' = Stored(r, u)
          /\ \/ To(r, "stored") /\ Smooth
             \/ Answer(r, "failed") /\ Mishap
     \/ /\ (\A u \in Users : ~Holds(u, r)) \/ (\E u \in Users : Holds(u, r) /\ ~CanAuthenticate(u))
        /\ Answer(r, "accepted") /\ UNCHANGED ticket /\ Smooth
     \/ Answer(r, "failed") /\ UNCHANGED ticket /\ Mishap
  /\ UNCHANGED <<accountVars, live, audits, given, historyVars>>

\* A mail may go out although its sending is reported as failed; the asker is
\* told the same, and the ticket stays.
SendMail(r) ==
  /\ Op(r) = "forgot" /\ At(r, "stored") /\ Answer(r, "accepted")
  /\ \/ given' = given \cup {r} /\ Smooth
     \/ given' \in {given, given \cup {r}} /\ Mishap
  /\ UNCHANGED <<accountVars, live, ticket, audits, historyVars>>

RequestPhoneChange(r) ==
  /\ Op(r) = "text" /\ At(r, "idle")
  /\ \/ ticket' = Stored(r, "open") /\ To(r, "stored") /\ Smooth
     \/ ticket' \in {ticket, Stored(r, "open")} /\ Answer(r, "failed") /\ Mishap
  /\ UNCHANGED <<accountVars, live, audits, given, historyVars>>

\* A text is of no use without the answer, which names the ticket.
SendCode(r) ==
  /\ Op(r) = "text" /\ At(r, "stored")
  /\ \/ given' = given \cup {r} /\ Answer(r, "accepted") /\ Smooth
     \/ UNCHANGED given /\ Answer(r, "failed") /\ Mishap
  /\ UNCHANGED <<accountVars, live, ticket, audits, historyVars>>

BeginQR(r) ==
  /\ Op(r) = "qr" /\ At(r, "idle")
  /\ \/ ticket' = Stored(r, "open") /\ given' = given \cup {r} /\ Answer(r, "ok") /\ Smooth
     \/ ticket' \in {ticket, Stored(r, "open")} /\ UNCHANGED given /\ Answer(r, "failed") /\ Mishap
  /\ UNCHANGED <<accountVars, live, audits, historyVars>>

-----------------------------------------------------------------------------
(* Redeeming a ticket *)

\* Reading and deleting is one script, so that of two requests one finds it.
Present(t)     == ticket[t] \in {"open"} \cup Users
Taken_Kept(t)  == ticket
Taken(t)       == [ticket EXCEPT ![t] = "gone"]
Perhaps(t)     == IF Present(t) THEN {ticket, Taken(t)} ELSE {ticket}

ConsumeResetToken(r) ==
  LET t == Of(r) IN
  /\ Op(r) = "reset" /\ At(r, "idle") /\ t \in given
  /\ \/ Present(t) /\ ticket' = Taken(t) /\ With(r, "spent", ticket[t]) /\ Smooth
     \/ ~Present(t) /\ UNCHANGED ticket /\ Answer(r, "invalid") /\ Smooth
     \/ ticket' \in Perhaps(t) /\ Answer(r, "invalid") /\ Mishap
  /\ UNCHANGED <<accountVars, live, audits, given, historyVars>>

\* The status of the account is not looked at again.
SetPassword(r) ==
  LET u == errand[r].found IN
  /\ Op(r) = "reset" /\ At(r, "spent")
  /\ \/ /\ secret' = [secret EXCEPT ![u] = r] /\ redeemed' = redeemed \cup {<<Of(r), r>>}
        /\ \/ To(r, "set") /\ Smooth
           \/ Answer(r, "failed") /\ Mishap
     \/ Answer(r, "failed") /\ UNCHANGED <<secret, redeemed>> /\ Mishap
  /\ UNCHANGED <<account, upstream, live, ticket, audits, given, approvals, confirmed, outrun>>

\* Whether or not every session could be ended, the reset is a success.
RevokeSessions(r) ==
  LET own == {s \in live : s[2] = errand[r].found} IN
  /\ Op(r) = "reset" /\ At(r, "set") /\ Answer(r, "ok")
  /\ \/ live' = live \ own /\ Smooth
     \/ (\E gone \in SUBSET own : gone # own /\ live' = live \ gone) /\ Mishap
  /\ UNCHANGED <<accountVars, ticket, audits, given, historyVars>>

\* A wrong code spends the ticket as well: one guess for each text.
Guessed_Any(r) == TRUE
Guessed(r) == Right(r)

ConsumePhoneCode(r) ==
  LET t == Of(r) IN
  /\ Op(r) = "phone" /\ At(r, "idle") /\ t \in given
  /\ \/ Present(t) /\ Guessed(r) /\ ticket' = Taken(t) /\ To(r, "spent") /\ Smooth
     \/ Present(t) /\ ~Guessed(r) /\ ticket' = Taken(t) /\ Answer(r, "invalid") /\ Smooth
     \/ ~Present(t) /\ UNCHANGED ticket /\ Answer(r, "invalid") /\ Smooth
     \/ ticket' \in Perhaps(t) /\ Answer(r, "failed") /\ Mishap
  /\ UNCHANGED <<accountVars, live, audits, given, historyVars>>

\* The number goes to the account that types the code, whichever asked for it.
PhoneFree_Never(r) == TRUE
PhoneFree(r) == \A u \in Users \ {By(r)} : account[u].phone # Target(Of(r))

UpdatePhone(r) ==
  LET u == By(r) IN
  /\ Op(r) = "phone" /\ At(r, "spent")
  /\ \/ /\ CanAuthenticate(u) /\ PhoneFree(r)
        /\ account' = [account EXCEPT ![u].phone = Target(Of(r))]
        /\ redeemed' = redeemed \cup {<<Of(r), r>>}
        /\ \/ Answer(r, "ok") /\ Smooth
           \/ Answer(r, "failed") /\ Mishap
     \/ ~CanAuthenticate(u) /\ Answer(r, "invalid") /\ Smooth /\ UNCHANGED <<account, redeemed>>
     \/ /\ CanAuthenticate(u) /\ ~PhoneFree(r) /\ Answer(r, "conflict") /\ Smooth
        /\ UNCHANGED <<account, redeemed>>
     \/ Answer(r, "failed") /\ Mishap /\ UNCHANGED <<account, redeemed>>
  /\ UNCHANGED <<upstream, secret, live, ticket, audits, given, approvals, confirmed, outrun>>

-----------------------------------------------------------------------------
(* Signing in through a QR code *)

Noted(event, r, u) == audits' = audits \cup {<<event, Of(r), u>>}

\* The row says that an approval was asked for, and it is there first.
AuditApproval(r) ==
  /\ Op(r) = "approve" /\ At(r, "idle") /\ Of(r) \in given
  /\ \/ Noted("approval_requested", r, By(r)) /\ To(r, "audited") /\ Smooth
     \/ (UNCHANGED audits \/ Noted("approval_requested", r, By(r))) /\ Answer(r, "failed") /\ Mishap
  /\ UNCHANGED <<accountVars, live, ticket, given, historyVars>>

Approvable_Again(t) == ticket[t] # "unused"
Approvable(t) == ticket[t] = "open"

Approve(r) ==
  LET t == Of(r) IN
  /\ Op(r) = "approve" /\ At(r, "audited")
  /\ \/ /\ Approvable(t) /\ ticket' = [ticket EXCEPT ![t] = By(r)]
        /\ approvals' = approvals \cup {<<t, By(r)>>}
        /\ \/ Answer(r, "ok") /\ Smooth
           \/ Answer(r, "failed") /\ Mishap
     \/ ~Approvable(t) /\ Answer(r, "invalid") /\ Smooth /\ UNCHANGED <<ticket, approvals>>
     \/ Answer(r, "failed") /\ Mishap /\ UNCHANGED <<ticket, approvals>>
  /\ UNCHANGED <<accountVars, live, audits, given, redeemed, confirmed, outrun>>

Receivable(r) == Right(r) /\ ticket[Of(r)] \in Users

ConsumeChallenge(r) ==
  LET t == Of(r) IN
  /\ Op(r) = "consume" /\ At(r, "idle") /\ t \in given
  /\ \/ Receivable(r) /\ ticket' = Taken(t) /\ With(r, "spent", ticket[t]) /\ Smooth
     \/ /\ ~Receivable(r) /\ UNCHANGED ticket /\ Smooth
        /\ Answer(r, IF Right(r) /\ ticket[t] = "open" THEN "pending" ELSE "invalid")
     \/ /\ ticket' \in {ticket} \cup (IF Receivable(r) THEN {Taken(t)} ELSE {})
        /\ Answer(r, "failed") /\ Mishap
  /\ UNCHANGED <<accountVars, live, audits, given, historyVars>>

CanUseSession(r) ==
  /\ Op(r) = "consume" /\ At(r, "spent")
  /\ \/ CanAuthenticate(errand[r].found) /\ To(r, "usable") /\ Smooth
     \/ ~CanAuthenticate(errand[r].found) /\ Answer(r, "invalid") /\ Smooth
     \/ Answer(r, "invalid") /\ Mishap
  /\ UNCHANGED <<accountVars, live, ticket, audits, given, historyVars>>

AuditReceiver_BestEffort(r) ==
  /\ Op(r) = "consume" /\ At(r, "usable") /\ To(r, "recorded")
  /\ \/ Noted("receiver_verified", r, errand[r].found) /\ Smooth
     \/ UNCHANGED audits /\ Mishap
  /\ UNCHANGED <<accountVars, live, ticket, given, historyVars>>

AuditReceiver(r) ==
  /\ Op(r) = "consume" /\ At(r, "usable")
  /\ \/ Noted("receiver_verified", r, errand[r].found) /\ To(r, "recorded") /\ Smooth
     \/ /\ UNCHANGED audits \/ Noted("receiver_verified", r, errand[r].found)
        /\ Answer(r, "failed") /\ Mishap
  /\ UNCHANGED <<accountVars, live, ticket, given, historyVars>>

CreateSession(r) ==
  LET s == <<r, errand[r].found>> IN
  /\ Op(r) = "consume" /\ At(r, "recorded")
  /\ \/ /\ live' = live \cup {s} /\ redeemed' = redeemed \cup {<<Of(r), r>>}
        /\ \/ Answer(r, "ok") /\ Smooth
           \/ Answer(r, "failed") /\ Mishap
     \/ Answer(r, "failed") /\ Mishap /\ UNCHANGED <<live, redeemed>>
  /\ UNCHANGED <<accountVars, ticket, audits, given, approvals, confirmed, outrun>>

-----------------------------------------------------------------------------
(* Changing the address *)

\* The provider takes the address at once, unverified, and mails a code; an
\* address another of its accounts has is refused.
Unowned(r) == \A u \in Users \ {By(r)} : upstream[u].email # Target(r)

SetEmail(r) == [upstream EXCEPT ![By(r)] = [email |-> Target(r), verified |-> FALSE, code |-> r]]

BeginEmailChange(r) ==
  /\ Op(r) = "address" /\ At(r, "idle")
  /\ \/ /\ Unowned(r) /\ given' = given \cup {r} /\ upstream' = SetEmail(r)
        /\ \/ Answer(r, "ok") /\ Smooth
           \/ Answer(r, "failed") /\ Mishap
     \/ ~Unowned(r) /\ Answer(r, "conflict") /\ Smooth /\ UNCHANGED <<upstream, given>>
     \/ Answer(r, "failed") /\ Mishap /\ UNCHANGED <<upstream, given>>
  /\ UNCHANGED <<account, secret, live, ticket, audits, historyVars>>

\* Whatever the provider says of the code, its view of the address is read
\* next, so a code whose acceptance was lost is made good by a retry.
VerifyEmail(r) ==
  LET u == By(r) IN
  /\ Op(r) = "confirm" /\ At(r, "idle") /\ (Right(r) => Of(r) \in given) /\ To(r, "asked")
  /\ \/ /\ Right(r) /\ upstream[u].code = Of(r)
        /\ upstream' = [upstream EXCEPT ![u].verified = TRUE, ![u].code = "none"]
        /\ confirmed' = confirmed \cup {<<u, upstream[u].email>>} /\ Smooth
     \/ ~(Right(r) /\ upstream[u].code = Of(r)) /\ Smooth /\ UNCHANGED <<upstream, confirmed>>
     \/ Mishap /\ UNCHANGED <<upstream, confirmed>>
  /\ UNCHANGED <<account, secret, live, ticket, audits, given, redeemed, approvals, outrun>>

Believed_Unverified(u) == TRUE
Believed(u) == upstream[u].verified

ReadEmail(r) ==
  LET u == By(r) IN
  /\ Op(r) = "confirm" /\ At(r, "asked")
  /\ \/ Believed(u) /\ With(r, "read", upstream[u].email) /\ Smooth
     \/ ~Believed(u) /\ Answer(r, "invalid") /\ Smooth
     \/ Answer(r, "failed") /\ Mishap
  /\ UNCHANGED <<accountVars, live, ticket, audits, given, historyVars>>

Mirrored_NoRows(r) == TRUE
Mirrored(r) == CanAuthenticate(By(r))

\* One statement; where it changes nothing, the row has to say so already.
\* Neither it nor the table asks whether another account shows the address.
UpdateVerifiedEmail(r) ==
  LET u == By(r)
      e == errand[r].found IN
  /\ Op(r) = "confirm" /\ At(r, "read")
  /\ \/ /\ CanAuthenticate(u) /\ account' = [account EXCEPT ![u].email = e]
        /\ outrun' = IF upstream[u].email # e THEN outrun \cup {u} ELSE outrun \ {u}
        /\ \/ Answer(r, "ok") /\ Smooth
           \/ Answer(r, "failed") /\ Mishap
     \/ ~CanAuthenticate(u) /\ UNCHANGED <<account, outrun>> /\ Smooth
        /\ Answer(r, IF Mirrored(r) THEN "ok" ELSE "failed")
     \/ Answer(r, "failed") /\ Mishap /\ UNCHANGED <<account, outrun>>
  /\ UNCHANGED <<upstream, secret, live, ticket, audits, given, redeemed, approvals, confirmed>>

-----------------------------------------------------------------------------
(* The environment *)

Expire(t) ==
  /\ Present(t) /\ ticket' = Taken(t)
  /\ Smooth /\ UNCHANGED <<accountVars, live, audits, given, errand, historyVars>>

Suspend(u) ==
  /\ CanAuthenticate(u) /\ account' = [account EXCEPT ![u].status = "disabled"] /\ Mishap
  /\ UNCHANGED <<upstream, secret, live, ticket, audits, given, errand, historyVars>>

Crash(r) ==
  /\ errand[r].pc \notin {"idle", "done"} /\ Answer(r, "failed") /\ Mishap
  /\ UNCHANGED <<accountVars, live, ticket, audits, given, historyVars>>

-----------------------------------------------------------------------------
ResetPassword(r) == \/ RequestReset(r) \/ SendMail(r) \/ ConsumeResetToken(r)
                    \/ SetPassword(r) \/ RevokeSessions(r)
ChangePhone(r)   == \/ RequestPhoneChange(r) \/ SendCode(r)
                    \/ ConsumePhoneCode(r) \/ UpdatePhone(r)
SignIn(r)        == \/ BeginQR(r) \/ AuditApproval(r) \/ Approve(r) \/ ConsumeChallenge(r)
                    \/ CanUseSession(r) \/ AuditReceiver(r) \/ CreateSession(r)
ChangeEmail(r)   == BeginEmailChange(r) \/ VerifyEmail(r) \/ ReadEmail(r) \/ UpdateVerifiedEmail(r)

Next ==
  \/ \E r \in Requests : \/ Limited(r) \/ ResetPassword(r) \/ ChangePhone(r) \/ SignIn(r)
                         \/ ChangeEmail(r) \/ Crash(r)
  \/ \E t \in Tickets : Expire(t)
  \/ \E u \in Users : Suspend(u)

Spec == Init /\ [][Next]_recoveryVars

-----------------------------------------------------------------------------
(* Properties *)

\* A mailed link sets one password, a texted code binds one number and a QR
\* approval opens one session, however many requests redeem it.
RedeemedOnce == \A t \in Tickets : Cardinality({x \in redeemed : x[1] = t}) <= 1

\* A session from a QR code belongs to the account that approved the code, its
\* browser held the receiver secret, and both halves are in the audit.
SessionApproved ==
  \A r \in Doing("consume"), u \in Users :
    <<r, u>> \in live =>
      /\ <<Of(r), u>> \in approvals /\ Right(r)
      /\ <<"approval_requested", Of(r), u>> \in audits
      /\ <<"receiver_verified", Of(r), u>> \in audits

\* A number or address on an account was proven: by a code sent to it, or to the
\* provider for this account; a password was set through a link mailed to an
\* address that was proven for this account, whoever else shows it (GetByEmail).
ContactProven ==
  \A u \in Users :
    /\ \/ account[u].phone = <<"old", u>>
       \/ \E x \in redeemed : /\ Op(x[2]) = "phone" /\ By(x[2]) = u /\ Right(x[2])
                              /\ account[u].phone = Target(x[1])
    /\ <<u, account[u].email>> \in confirmed
    /\ secret[u] # "initial" => <<u, Target(Of(secret[u]))>> \in confirmed

\* No two accounts share a number, and none an address at the provider; what
\* the database shows may be shared, but then one of the two has changed its
\* address at the provider since (UpdateVerifiedEmail looks at no other row).
ContactsUnique ==
  \A u, v \in Users : u # v =>
    /\ account[u].phone # account[v].phone /\ upstream[u].email # upstream[v].email
    /\ account[u].email = account[v].email => \E w \in {u, v} : account[w].email # upstream[w].email

\* An address the provider has verified and the account does not show has a
\* request that is about to mirror it or was told that it failed.
MirrorAccounted ==
  \A u \in Users :
    (upstream[u].verified /\ account[u].email # upstream[u].email) =>
      \/ u \in outrun
      \/ \E r \in Doing("confirm") :
           /\ By(r) = u
           /\ At(r, "asked") \/ At(r, "read") \/ errand[r].answer = "failed"

\* A ticket that was redeemed or ran out never comes back, and an approval is
\* not taken over by another account.
TicketKept ==
  \A t \in Tickets :
    /\ ticket[t] = "gone" => ticket'[t] = "gone"
    /\ ticket[t] \in Users => ticket'[t] \in {ticket[t], "gone"}
===============================================================================
