------------------------------ MODULE Registration ------------------------------
(***************************************************************************)
(* Self registration.  An account is reserved in the United Pass database, *)
(* created at the provider under the same identifier, and activated when   *)
(* the provider has verified the code it mailed.  A reservation made with  *)
(* a WeChat identity is kept when the provider fails: a verifier of the    *)
(* submitted form, stored in a second database, lets a retry with the same *)
(* form take the reservation up again, and a worker removes the verifiers  *)
(* that are no longer needed.                                              *)
(***************************************************************************)
EXTENDS Naturals, FiniteSets

CONSTANTS
  Requests,   \* the HTTP requests that may arrive, each once
  InputOf,    \* what each of them carries
  Scenarios,  \* model bound: the requests of a run and the reservation it finds
  MaxFaults   \* model bound: failures, lost answers, crashes

Op(r)    == InputOf[r].op
Public   == {r \in Requests : Op(r) = "create"}
WeChat   == {r \in Requests : Op(r) = "wechat"}
Verifies == {r \in Requests : Op(r) = "verify"}
Resends  == {r \in Requests : Op(r) = "resend"}
Creates  == Public \cup WeChat
Email(r)    == InputOf[r].email
Subject(r)  == InputOf[r].subject
Phone(r)    == InputOf[r].phone
Form(r)     == InputOf[r].form        \* what the verifier of the form tells apart
Expected(r) == InputOf[r].expected    \* the reservation a recovery is bound to
Code(r)     == InputOf[r].code        \* the one-time WeChat code it carries
Of(r)       == InputOf[r].of          \* the request whose token is presented

\* A request proposes an identifier of its own, so it names the account.
Legacy   == "legacy"
Accounts == Creates \cup {Legacy}
Subjects == {Subject(r) : r \in WeChat}

RegistrationAssumption ==
  /\ \A r \in Requests : /\ Op(r) \in {"create", "wechat", "verify", "resend"}
                         /\ Op(r) = "resend" => Of(r) \in Creates
                         /\ Op(r) = "wechat" => /\ Expected(r) \in Accounts \cup {"none"}
                                                /\ Subject(r) # "none" /\ Phone(r) # "none"
  /\ \A s \in Scenarios : s.requests \subseteq Requests /\ s.legacy \in Subjects \cup {"none"}
  /\ Requests \cap {"none", Legacy} = {}
  /\ MaxFaults \in Nat

VARIABLES
  user,     \* database: the accounts, with their phone, their WeChat link and whether they
            \* have their provider link and persona
  events,   \* database: the authority effects of reservations
  locks,    \* database: the advisory locks that open transactions hold
  intent,   \* second database: the verifier stored for each WeChat identity
  upstream, \* provider: the accounts and the state of their address
  mailed,   \* provider: the accounts whose code has been sent
  spent,    \* Redis: the WeChat codes claimed so far
  token,    \* Redis: the account each registration token stands for
  sweep,    \* what the cleanup pass is doing
  run,      \* what each request is doing
  proven,   \* history: accounts whose address was proven at the provider
  unsure,   \* history: public reservations that could not be undone
  revived,  \* history: accounts reserved under a verifier past its grace
  faults    \* how many failures so far

registrationVars == <<user, events, locks, intent, upstream, mailed, spent, token, sweep, run,
                      proven, unsure, revived, faults>>

Labels  == {"idle", "token", "reserved", "undo_provider", "undo_user", "removing", "undo_token",
            "claimed", "exchanged", "fresh", "insert", "held", "made", "asked", "checked", "clear", "done"}
Answers == {"none", "ok", "conflict", "failed", "invalid"}
Absent  == [status |-> "none", email |-> "none", subject |-> "none", phone |-> "none", linked |-> FALSE]
NoIntent == [user |-> "none", form |-> "none", old |-> FALSE]
Idle    == [pc |-> "idle", subject |-> "none", user |-> "none"]

TypeOK ==
  /\ \A u \in Accounts : /\ user[u].status \in {"none", "pending", "active", "disabled"}
                         /\ user[u].linked \in BOOLEAN
  /\ events \subseteq {"reserved", "phone"} \X Accounts
  /\ \A l \in locks : l[2] \in WeChat /\ run[l[2]].pc \in {"fresh", "insert"}
  /\ \A s \in Subjects : intent[s].user \in Accounts \cup {"none"}
  /\ upstream \in [Accounts -> {"none", "unverified", "verified"}]
  /\ {u \in Accounts : upstream[u] = "verified"} \subseteq mailed /\ mailed \subseteq Accounts
  /\ spent \subseteq {Code(r) : r \in WeChat}
  /\ token \in [Creates -> Accounts \cup {"none"}]
  /\ sweep.pc \in {"idle", "listed", "doomed"}
  /\ \A r \in Requests : run[r].pc \in Labels /\ run[r].answer \in Answers
  /\ faults \in 0 .. MaxFaults

Init ==
  /\ \E s \in Scenarios :
       /\ user = [u \in Accounts |-> IF u = Legacy /\ s.legacy # "none"
                  THEN [status |-> "pending", email |-> s.email, subject |-> s.legacy,
                        phone |-> "none", linked |-> TRUE]
                  ELSE Absent]
       /\ intent = [x \in Subjects |-> IF x = s.legacy
                    THEN [user |-> Legacy, form |-> s.form, old |-> TRUE] ELSE NoIntent]
       /\ events = IF s.legacy # "none" THEN {<<"reserved", Legacy>>} ELSE {}
       /\ run = [r \in Requests |-> [pc |-> IF r \in s.requests THEN "idle" ELSE "done",
                                     user |-> "none", answer |-> "none"]]
  /\ locks = {} /\ upstream = [u \in Accounts |-> "none"] /\ mailed = {}
  /\ spent = {} /\ token = [r \in Creates |-> "none"] /\ sweep = Idle
  /\ proven = {} /\ unsure = {} /\ revived = {} /\ faults = 0

At(r, label) == run[r].pc = label
NoFault      == UNCHANGED faults
Fault        == faults < MaxFaults /\ faults' = faults + 1
To(r, label) == run' = [run EXCEPT ![r].pc = label]
With(r, label, u) == run' = [run EXCEPT ![r].pc = label, ![r].user = u]
Answer(r, a) == run' = [run EXCEPT ![r].pc = "done", ![r].answer = a]
Undoing(r, label, a) == run' = [run EXCEPT ![r].pc = label, ![r].answer = a]

historyVars == <<proven, unsure, revived>>

-----------------------------------------------------------------------------
(* The account repository *)

Present(u)      == user[u].status # "none"
HasEmail(e)     == \E u \in Accounts : Present(u) /\ user[u].email = e
LinkedTo(s)     == {u \in Accounts : Present(u) /\ user[u].subject = s}
PhoneOwners(p)  == {u \in Accounts : Present(u) /\ user[u].phone = p}
PendingUser(u)  == user[u].status = "pending"
Reserved(u)     == PendingUser(u) /\ user[u].linked

Keys_NoEmail(r) == {Subject(r), Phone(r)}
Keys(r)         == {Email(r), Subject(r), Phone(r)}
Free(keys)      == \A l \in locks : l[1] \notin keys
Unlocked_Kept(r) == locks
Unlocked(r)     == {l \in locks : l[2] # r}

CreatePending(r) ==
  /\ At(r, "token") /\ Free({Email(r)})
  /\ \/ /\ HasEmail(Email(r)) /\ Undoing(r, "undo_token", "conflict")
        /\ UNCHANGED <<user, unsure>> /\ NoFault
     \/ /\ ~HasEmail(Email(r))
        /\ user' = [user EXCEPT ![r] = [status |-> "pending", email |-> Email(r),
                                        subject |-> "none", phone |-> "none", linked |-> TRUE]]
        /\ \/ To(r, "reserved") /\ UNCHANGED unsure /\ NoFault
           \/ Undoing(r, "undo_token", "failed") /\ unsure' = unsure \cup {r} /\ Fault
     \/ /\ Undoing(r, "undo_token", "failed") /\ UNCHANGED <<user, unsure>> /\ Fault
  /\ UNCHANGED <<events, locks, intent, upstream, mailed, token, sweep, spent, proven, revived>>

\* Takes the reservation that the same identity made up again: it has to be
\* the same form, and the phone is brought up to date.
Resumable_AnyForm(r, u) == PendingUser(u) /\ user[u].email = Email(r)
Resumable(r, u) ==
  /\ PendingUser(u) /\ user[u].email = Email(r)
  /\ Expected(r) \in {u, "none"}
  /\ user[u].phone \in {"none", Phone(r)} /\ PhoneOwners(Phone(r)) \subseteq {u}
  /\ intent[Subject(r)].user = u /\ intent[Subject(r)].form = Form(r)

Resume(r, u) ==
  /\ u \in LinkedTo(Subject(r))
  /\ \/ /\ ~Resumable(r, u) /\ Answer(r, "conflict") /\ NoFault /\ UNCHANGED <<user, events>>
     \/ /\ Resumable(r, u)
        /\ user' = [user EXCEPT ![u] = [@ EXCEPT !.phone = Phone(r), !.linked = TRUE]]
        /\ events' = events \cup {<<"reserved", u>>}
                      \cup (IF user[u].phone # Phone(r) THEN {<<"phone", u>>} ELSE {})
        /\ \/ With(r, "held", u) /\ NoFault
           \/ Answer(r, "failed") /\ Fault
     \/ /\ Answer(r, "failed") /\ Fault /\ UNCHANGED <<user, events>>
  /\ UNCHANGED <<locks, intent>>

Reservable(r) ==
  /\ Expected(r) = "none" /\ ~HasEmail(Email(r)) /\ PhoneOwners(Phone(r)) = {}

\* The locks stay until the transaction ends, across the commit in the second
\* database.
Reserve(r) ==
  /\ LinkedTo(Subject(r)) = {}
  /\ \/ Reservable(r) /\ To(r, "fresh") /\ locks' = locks \cup (Keys(r) \X {r})
     \/ ~Reservable(r) /\ Answer(r, "conflict") /\ UNCHANGED locks
  /\ NoFault /\ UNCHANGED <<user, events, intent>>

ReservePendingWithWeChat(r) ==
  /\ At(r, "exchanged") /\ Free(Keys(r))
  /\ Reserve(r) \/ (\E u \in Accounts : Resume(r, u))
  /\ UNCHANGED <<upstream, mailed, token, sweep, spent, proven, unsure, revived>>

\* The second database's own transaction: the identifier it answers with is the
\* one stored first.
Stored(r) == IF intent[Subject(r)] = NoIntent
             THEN [user |-> r, form |-> Form(r), old |-> FALSE] ELSE intent[Subject(r)]

ReserveNew(r) ==
  /\ At(r, "fresh")
  /\ \/ /\ Stored(r).form = Form(r)
        /\ intent' = [intent EXCEPT ![Subject(r)] = Stored(r)]
        /\ \/ With(r, "insert", Stored(r).user) /\ UNCHANGED locks /\ NoFault
           \/ Answer(r, "failed") /\ locks' = Unlocked(r) /\ Fault
     \/ /\ Stored(r).form # Form(r) /\ Answer(r, "conflict") /\ locks' = Unlocked(r)
        /\ UNCHANGED intent /\ NoFault
     \/ /\ Answer(r, "failed") /\ locks' = Unlocked(r) /\ UNCHANGED intent /\ Fault
  /\ UNCHANGED <<user, events, upstream, mailed, token, sweep, spent, historyVars>>

InsertReserved(r) ==
  LET u == run[r].user IN
  /\ At(r, "insert")
  /\ \/ /\ user' = [user EXCEPT ![u] = [status |-> "pending", email |-> Email(r),
                                        subject |-> Subject(r), phone |-> Phone(r),
                                        linked |-> TRUE]]
        /\ events' = events \cup {<<"reserved", u>>}
        /\ revived' = IF intent[Subject(r)].old \/ intent[Subject(r)].user # u
                      THEN revived \cup {u} ELSE revived
        /\ \/ To(r, "held") /\ NoFault
           \/ Answer(r, "failed") /\ Fault
     \/ Answer(r, "failed") /\ Fault /\ UNCHANGED <<user, events, revived>>
  /\ locks' = Unlocked(r)
  /\ UNCHANGED <<intent, upstream, mailed, token, sweep, spent, proven, unsure>>

\* Undoing a public reservation: one transaction, which looks for it without
\* locking it.
FindPending(r) ==
  /\ At(r, "undo_user")
  /\ \/ Reserved(r) /\ To(r, "removing") /\ UNCHANGED unsure /\ NoFault
     \/ ~Reserved(r) /\ To(r, "undo_token") /\ UNCHANGED unsure /\ NoFault
     \/ To(r, "undo_token") /\ unsure' = unsure \cup {r} /\ Fault
  /\ UNCHANGED <<user, events, locks, intent, upstream, mailed, token, sweep, spent, proven, revived>>

\* Persona and provider link go whatever became of the account since, the
\* account itself only if it is pending still.
Removed(u) == IF PendingUser(u) THEN Absent ELSE [user[u] EXCEPT !.linked = FALSE]

DeletePending(r) ==
  /\ At(r, "removing") /\ To(r, "undo_token")
  /\ \/ user' = [user EXCEPT ![r] = Removed(r)] /\ UNCHANGED unsure /\ NoFault
     \/ UNCHANGED user /\ unsure' = unsure \cup {r} /\ Fault
  /\ UNCHANGED <<events, locks, intent, upstream, mailed, token, sweep, spent, proven, revived>>

-----------------------------------------------------------------------------
(* The WeChat codes *)

Claimable_Always(r) == TRUE
Claimable(r) == Code(r) \notin spent

\* The code is claimed before WeChat is asked, so it is spent whatever follows.
ClaimProofs(r) ==
  /\ r \in WeChat /\ At(r, "idle")
  /\ \/ Claimable(r) /\ spent' = spent \cup {Code(r)} /\ To(r, "claimed") /\ NoFault
     \/ ~Claimable(r) /\ Answer(r, "invalid") /\ UNCHANGED spent /\ NoFault
     \/ spent' \in {spent, spent \cup {Code(r)}} /\ Answer(r, "failed") /\ Fault
  /\ UNCHANGED <<user, events, locks, intent, upstream, mailed, token, sweep, historyVars>>

VerifyRegistration(r) ==
  /\ At(r, "claimed")
  /\ \/ To(r, "exchanged") /\ NoFault
     \/ Answer(r, "failed") /\ Fault
  /\ UNCHANGED <<user, events, locks, intent, upstream, mailed, token, sweep, spent, historyVars>>

-----------------------------------------------------------------------------
(* The registration tokens *)

PutToken(r, u, Stopped(_)) ==
  \/ token' = [token EXCEPT ![r] = u] /\ To(r, "token") /\ NoFault
  \/ (token' = [token EXCEPT ![r] = u] \/ UNCHANGED token) /\ Stopped(r) /\ Fault

\* A public registration stores its token before anything else.
CreateToken(r) ==
  /\ r \in Public /\ At(r, "idle")
  /\ PutToken(r, r, LAMBDA x : Answer(x, "failed"))
  /\ UNCHANGED <<user, events, locks, intent, upstream, mailed, sweep, spent, historyVars>>

\* A WeChat registration stores it last.
IssueToken(r) ==
  /\ At(r, "made")
  /\ \/ token' = [token EXCEPT ![r] = run[r].user] /\ Answer(r, "ok") /\ NoFault
     \/ Answer(r, "failed") /\ UNCHANGED token /\ Fault
  /\ UNCHANGED <<user, events, locks, intent, upstream, mailed, sweep, spent, historyVars>>

DeleteToken(r) ==
  /\ At(r, "undo_token") /\ To(r, "done")
  /\ \/ token' = [token EXCEPT ![r] = "none"] /\ NoFault
     \/ UNCHANGED token /\ Fault
  /\ UNCHANGED <<user, events, locks, intent, upstream, mailed, sweep, spent, historyVars>>

-----------------------------------------------------------------------------
(* The provider *)

\* Creation under a chosen identifier; one that is there already counts as
\* created, and its code is mailed again, if it has not been verified.
AddHumanUser(u) ==
  /\ upstream' = [upstream EXCEPT ![u] = IF @ = "none" THEN "unverified" ELSE @]
  /\ mailed' = mailed \cup {u}

CreateUser(r, u, Created, Failed(_)) ==
  \/ AddHumanUser(u) /\ Created /\ NoFault
  \/ AddHumanUser(u) /\ Failed("failed") /\ Fault
  \/ \E a \in {"failed", "conflict", "invalid"} : Failed(a) /\ UNCHANGED <<upstream, mailed>> /\ Fault

CreateProviderUser_TokenOnly(r) ==
  /\ At(r, "reserved")
  /\ CreateUser(r, r, Answer(r, "ok"), LAMBDA a : Undoing(r, "undo_token", a))
  /\ UNCHANGED <<user, events, locks, intent, token, sweep, spent, historyVars>>

CreateProviderUser(r) ==
  /\ At(r, "reserved")
  /\ CreateUser(r, r, Answer(r, "ok"), LAMBDA a : Undoing(r, "undo_provider", a))
  /\ UNCHANGED <<user, events, locks, intent, token, sweep, spent, historyVars>>

CreateReservedUser_Proposed(r) ==
  /\ At(r, "held")
  /\ CreateUser(r, r, To(r, "made"), LAMBDA a : Answer(r, a))
  /\ UNCHANGED <<user, events, locks, intent, token, sweep, spent, historyVars>>

CreateReservedUser(r) ==
  /\ At(r, "held")
  /\ CreateUser(r, run[r].user, To(r, "made"), LAMBDA a : Answer(r, a))
  /\ UNCHANGED <<user, events, locks, intent, token, sweep, spent, historyVars>>

DeleteProviderUser(r) ==
  /\ At(r, "undo_provider") /\ To(r, "undo_user")
  /\ \/ upstream' = [upstream EXCEPT ![r] = "none"] /\ mailed' = mailed \ {r}
        /\ UNCHANGED unsure /\ NoFault
     \/ UNCHANGED <<upstream, mailed>> /\ unsure' = unsure \cup {r} /\ Fault
  /\ UNCHANGED <<user, events, locks, intent, token, sweep, spent, proven, revived>>

\* A code is accepted once; what the provider says of the address decides when
\* the code is refused, so a spent one can be presented again.
ReadBack_Found(u) == upstream[u] # "none"
ReadBack(u) == upstream[u] = "verified"

VerifyProviderEmail(r) ==
  LET u == run[r].user IN
  /\ At(r, "asked")
  /\ \/ /\ upstream[u] = "unverified" /\ u \in mailed
        /\ upstream' = [upstream EXCEPT ![u] = "verified"] /\ proven' = proven \cup {u}
        /\ \/ To(r, "checked") /\ NoFault
           \/ Answer(r, "failed") /\ Fault
     \/ /\ IF ReadBack(u) THEN To(r, "checked") ELSE Answer(r, "invalid")
        /\ UNCHANGED <<upstream, proven>> /\ NoFault
     \/ /\ Answer(r, "failed") /\ UNCHANGED <<upstream, proven>> /\ Fault
  /\ UNCHANGED <<user, events, locks, intent, mailed, token, sweep, spent, unsure, revived>>

ResendEmail(r) ==
  /\ r \in Resends /\ At(r, "idle") /\ run[Of(r)].answer = "ok"
  /\ \/ /\ token[Of(r)] # "none" /\ upstream[token[Of(r)]] = "unverified"
        /\ mailed' = mailed \cup {token[Of(r)]} /\ Answer(r, "ok") /\ NoFault
     \/ /\ token[Of(r)] = "none" \/ upstream[token[Of(r)]] # "unverified"
        /\ Answer(r, "invalid") /\ UNCHANGED mailed /\ NoFault
     \/ Answer(r, "failed") /\ UNCHANGED mailed /\ Fault
  /\ UNCHANGED <<user, events, locks, intent, upstream, token, sweep, spent, historyVars>>

-----------------------------------------------------------------------------
(* The verification of an address *)

\* The identifier comes with the link in the mail.
IsPending(r) ==
  /\ r \in Verifies /\ At(r, "idle")
  /\ \E u \in mailed :
       \/ Reserved(u) /\ With(r, "asked", u)
       \/ ~Reserved(u) /\ Answer(r, "invalid")
  /\ NoFault /\ UNCHANGED <<user, events, locks, intent, upstream, mailed, token, sweep, spent, historyVars>>

Activatable_AnyStatus(u) == Present(u) /\ user[u].linked
Activatable(u) == user[u].status \in {"pending", "active"} /\ user[u].linked

ActivateVerified(r) ==
  LET u == run[r].user IN
  /\ At(r, "checked")
  /\ \/ /\ Activatable(u) /\ user' = [user EXCEPT ![u].status = "active"]
        /\ \/ To(r, "clear") /\ NoFault
           \/ Answer(r, "failed") /\ Fault
     \/ ~Activatable(u) /\ Answer(r, "invalid") /\ UNCHANGED user /\ NoFault
     \/ Answer(r, "failed") /\ UNCHANGED user /\ Fault
  /\ UNCHANGED <<events, locks, intent, upstream, mailed, token, sweep, spent, historyVars>>

Clear(r) ==
  /\ At(r, "clear") /\ Answer(r, "ok")
  /\ \/ /\ intent' = [s \in Subjects |-> IF intent[s].user = run[r].user THEN NoIntent ELSE intent[s]]
        /\ NoFault
     \/ UNCHANGED intent /\ Fault
  /\ UNCHANGED <<user, events, locks, upstream, mailed, token, sweep, spent, historyVars>>

-----------------------------------------------------------------------------
(* The worker that removes verifiers past their grace *)

ListIntents ==
  /\ sweep.pc = "idle"
  /\ \E s \in Subjects : intent[s].old /\ sweep' = [pc |-> "listed", subject |-> s, user |-> intent[s].user]
  /\ NoFault /\ UNCHANGED <<user, events, locks, intent, upstream, mailed, token, run, spent, historyVars>>

Kept_Never(u) == FALSE
Kept_Present(u) == Present(u)
Kept(u) == PendingUser(u)

ReadAuthority ==
  /\ sweep.pc = "listed"
  /\ \/ Kept(sweep.user) /\ sweep' = Idle /\ NoFault
     \/ ~Kept(sweep.user) /\ sweep' = [sweep EXCEPT !.pc = "doomed"] /\ NoFault
     \/ sweep' = Idle /\ Fault
  /\ UNCHANGED <<user, events, locks, intent, upstream, mailed, token, run, spent, historyVars>>

DeleteIntent ==
  LET s == sweep.subject IN
  /\ sweep.pc = "doomed" /\ sweep' = Idle
  /\ \/ /\ intent' = [intent EXCEPT ![s] = IF @.user = sweep.user /\ @.old THEN NoIntent ELSE @]
        /\ NoFault
     \/ UNCHANGED intent /\ Fault
  /\ UNCHANGED <<user, events, locks, upstream, mailed, token, run, spent, historyVars>>

CleanupCompleted == ListIntents \/ ReadAuthority \/ DeleteIntent

-----------------------------------------------------------------------------
(* The environment *)

\* The grace is far longer than a transaction.
GracePasses(s) ==
  /\ intent[s] # NoIntent /\ ~intent[s].old
  /\ \A r \in WeChat : At(r, "insert") => Subject(r) # s
  /\ intent' = [intent EXCEPT ![s].old = TRUE]
  /\ NoFault
  /\ UNCHANGED <<user, events, locks, upstream, mailed, token, sweep, run, spent, historyVars>>

\* An administrator suspends the account.
Suspend(u) ==
  /\ user[u].status \in {"pending", "active"} /\ user' = [user EXCEPT ![u].status = "disabled"]
  /\ Fault
  /\ UNCHANGED <<events, locks, intent, upstream, mailed, token, sweep, run, spent, historyVars>>

Crash(r) ==
  /\ run[r].pc \notin {"idle", "done"} /\ Answer(r, "failed")
  /\ locks' = Unlocked(r) /\ unsure' = unsure \cup {r} /\ Fault
  /\ UNCHANGED <<user, events, intent, upstream, mailed, token, sweep, spent, proven, revived>>

-----------------------------------------------------------------------------
Create(r) ==
  \/ CreateToken(r) \/ CreatePending(r) \/ CreateProviderUser(r)
  \/ DeleteProviderUser(r) \/ FindPending(r) \/ DeletePending(r) \/ DeleteToken(r)

CreateVerified(r) ==
  \/ ClaimProofs(r) \/ VerifyRegistration(r)
  \/ ReservePendingWithWeChat(r) \/ ReserveNew(r) \/ InsertReserved(r)
  \/ CreateReservedUser(r) \/ IssueToken(r)

Verify(r) == IsPending(r) \/ VerifyProviderEmail(r) \/ ActivateVerified(r) \/ Clear(r)

Next ==
  \/ \E r \in Requests : \/ Create(r) \/ CreateVerified(r) \/ Verify(r) \/ ResendEmail(r)
                         \/ Crash(r)
  \/ CleanupCompleted
  \/ \E s \in Subjects : GracePasses(s)
  \/ \E u \in Accounts : Suspend(u)

Spec == Init /\ [][Next]_registrationVars

-----------------------------------------------------------------------------
(* Properties *)

\* An address, a WeChat identity and a phone belong to one account, though
\* public and WeChat registrations race (the advisory locks of both flows).
AuthorityUnique ==
  \A u, v \in {a \in Accounts : Present(a)} : u # v =>
    /\ user[u].email # user[v].email
    /\ user[u].subject # "none" => user[u].subject # user[v].subject
    /\ user[u].phone # "none" => user[u].phone # user[v].phone

Undone(u)  == u \in Public /\ run[u].answer \in {"conflict", "failed", "invalid"}
Refused(r) == Undone(r) /\ At(r, "done")

\* An account is active only after its address was proven at the provider, and
\* the provider still has it, unless its registration was being undone while
\* the link in the mail was followed (the compensation of Service.Create).
ActiveBacked ==
  \A u \in Accounts : user[u].status = "active" =>
    u \in proven /\ (upstream[u] = "verified" \/ Undone(u))

\* A public registration that is refused leaves no reservation and nothing at
\* the provider, unless undoing it failed as well. What was activated or
\* suspended meanwhile stays (DeletePending), and only that can have lost its
\* provider link and persona: no other account ever does.
RefusedLeavesNothing ==
  /\ \A r \in Public : Refused(r) /\ r \notin unsure =>
       /\ user[r].status # "pending" /\ upstream[r] = "none"
       /\ user[r].status = "active" => r \in proven
  /\ \A u \in Accounts : Present(u) /\ ~user[u].linked =>
       Undone(u) /\ user[u].status \in {"active", "disabled"}

\* A registration that succeeded names an account that waits for, or has
\* passed, its verification here and at the provider.
AnswerBacked ==
  \A r \in Creates : run[r].answer = "ok" =>
    token[r] # "none" /\ Present(token[r]) /\ upstream[token[r]] # "none"

\* However often a WeChat registration is retried, the identity has one
\* account at the provider, made from one form (the stored verifier).
OneUpstream ==
  \A r, q \in {w \in WeChat : run[w].user # "none" /\ upstream[run[w].user] # "none"} :
    Subject(r) = Subject(q) => run[r].user = run[q].user /\ Form(r) = Form(q)

\* A WeChat code that was intercepted or sent twice serves one registration.
CodeOnce ==
  \A r, q \in WeChat : r # q /\ Code(r) = Code(q) =>
    ~(run[r].answer # "invalid" /\ run[q].answer # "invalid" /\ run[r].user # "none" /\ run[q].user # "none")

\* A pending reservation keeps the verifier that makes it retryable, unless it
\* was made under a verifier already past its grace.
VerifierKept ==
  \A u \in Accounts : PendingUser(u) /\ user[u].subject # "none" /\ u \notin revived =>
    intent[user[u].subject].user = u

\* "Pending identities retain their verifier so an ambiguous provider creation
\* remains safely retryable", whatever the age of the verifier.
PendingRetainsVerifier ==
  \A u \in Accounts : PendingUser(u) /\ user[u].subject # "none" => intent[user[u].subject].user = u

\* A verification under way never revives a suspended account.
SuspendedKept == \A u \in Accounts : user[u].status = "disabled" => user'[u].status = "disabled"

\* A verifier that is no longer needed, which should not stay.
Superfluous(s) == intent[s] # NoIntent /\ ~PendingUser(intent[s].user)
==============================================================================
