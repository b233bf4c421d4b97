---------------------------- MODULE WeChatOnboarding ----------------------------
(***************************************************************************)
(* Onboarding from the mini program: a verified WeChat identity either     *)
(* signs its linked account in or receives a one-shot token; completing    *)
(* the token proves the password (and the second factor) of an existing    *)
(* account, binds the identity to it and exchanges the provider session    *)
(* for a native one, or reserves a new account.  The provider session of a *)
(* two-step completion is covered by a cleanup obligation that a worker    *)
(* works off unless the session is promoted first.                         *)
(***************************************************************************)
EXTENDS Naturals, Sequences, FiniteSets

CONSTANTS
  Requests,    \* the HTTP requests that may arrive, each once
  InputOf,     \* what each of them asks for
  Scenarios,   \* model bound: the requests of a run and the accounts it finds
  Subjects,    \* WeChat identities
  PhoneOf,     \* the phone WeChat verifies for each of them
  Workers,     \* cleanup workers, one per API instance
  MaxAttempts, \* wrong codes a challenge takes
  MaxVersion,  \* model bound: versions of an account
  MaxFaults    \* model bound: failures, lost answers, crashes, late leases

Op(r)     == InputOf[r].op
Of(r)     == InputOf[r].of              \* the request that issued the token presented
Begins    == {r \in Requests : Op(r) = "begin"}
Completes == {r \in Requests : Op(r) = "complete"}
Tokens    == Begins \cup Completes      \* each names the token it issues
MFAToken(t) == t \in Completes
Mismatch(r) == MFAToken(Of(r)) # (Op(r) = "mfa")
Ceremony(r) == IF MFAToken(Of(r)) THEN Of(r) ELSE r  \* whose provider session r handles
\* A completion is only given a token when it presented one of a begin.
Subject(t)  == InputOf[IF t \in Begins THEN t ELSE Of(t)].subject
Account(r)  == LET c == IF Op(r) = "mfa" THEN Of(r) ELSE r
               IN IF c \in Completes THEN InputOf[c].account ELSE "none"
Accounts    == UNION {DOMAIN s.accounts : s \in Scenarios}
Phones      == {PhoneOf[s] : s \in Subjects}
                 \cup UNION {{s.accounts[a].phone : a \in DOMAIN s.accounts} : s \in Scenarios}

\* An identity is linked to one account and a verified phone has one owner.
OneToOne(acc) ==
  \A a, b \in Accounts : a # b => /\ acc[a].link = "none" \/ acc[a].link # acc[b].link
                                  /\ acc[a].phone = "none" \/ acc[a].phone # acc[b].phone
                                       \/ ~acc[a].verified \/ ~acc[b].verified

OnboardingAssumption ==
  /\ IsFiniteSet(Requests) /\ "none" \notin Requests \cup Subjects \cup Workers
  /\ {"none", "new"} \cap Accounts = {}
  /\ \A r \in Requests : /\ Op(r) \in {"begin", "complete", "mfa"}
                         /\ Op(r) = "begin" => InputOf[r].subject \in Subjects
                         /\ Op(r) = "complete" => /\ Of(r) \in Tokens
                                                  /\ InputOf[r].account \in Accounts \cup {"new"}
                         /\ Op(r) = "mfa" => Of(r) \in Tokens
  /\ \A s \in Scenarios :
       /\ s.requests \subseteq Requests
       /\ s.accounts \in [Accounts -> [version : 1 .. MaxVersion, active : BOOLEAN,
            link : Subjects \cup {"none"}, phone : Phones, verified : BOOLEAN]]
       /\ OneToOne(s.accounts)
  /\ {MaxAttempts, MaxVersion, MaxFaults} \subseteq Nat \ {0}

VARIABLES
  account,    \* database: version, status, WeChat link and phone of each account
  chal,       \* Redis: the live challenges
  holder,     \* Redis: who holds the claim lock of each challenge
  attempts,   \* Redis: the attempt counter of each challenge
  obligation, \* Redis: provider sessions with an encrypted revocation obligation
  due,        \* Redis: the index of obligations
  promotion,  \* Redis: the live promotion leases
  promoted,   \* Redis: the tombstones of completed promotions
  lease,      \* Redis: the worker that holds the cleanup claim
  provider,   \* provider sessions, by completion
  native,     \* native sessions, by the request that created them
  work,       \* what each worker is doing
  run,        \* what each request is doing
  registered, \* history: reservations made with each token
  moved,      \* history: completions whose account changed since its lookup
  lapsed,     \* history: challenges whose lock a live request has lost
  leaked,     \* history: provider sessions whose revocation failed or was lost
  faults      \* how many failures so far

onboardingVars == <<account, chal, holder, attempts, obligation, due, promotion, promoted, lease,
                    provider, native, work, run, registered, moved, lapsed, leaked, faults>>
cleanupVars == <<obligation, due, promotion, promoted, lease>>
historyVars == <<registered, moved, lapsed, leaked>>

Labels  == {"idle", "phone", "federated", "create", "lookup", "password", "judge", "register",
            "bind", "challenge", "count", "free", "consume", "session", "promote", "tidy", "done"}
Chores  == {"drop", "release", "revoke", "schedule", "unsession"}
Answers == {"onboarding", "mfa", "registered", "session", "refused", "invalid", "internal"}
Idle    == [pc |-> "idle", of |-> "none"]

TypeOK ==
  /\ \A a \in Accounts : /\ account[a].version \in 1 .. MaxVersion + Cardinality(Requests)
                         /\ account[a].link \in Subjects \cup {"none"}
  /\ chal \subseteq Tokens /\ holder \in [Tokens -> Requests \cup {"none"}]
  /\ attempts \in [Tokens -> 0 .. Cardinality(Requests)]
  /\ obligation \subseteq due /\ due \subseteq Completes
  /\ promotion \subseteq obligation
  /\ promoted \cap obligation = {}
  /\ lease \in [Completes -> Workers \cup {"none"}]
  /\ provider \in [Completes -> {"none", "open", "closed"}]
  /\ native \in [Requests -> {"none", "live", "gone"}]
  /\ \A r \in Requests : run[r].pc \in Labels /\ run[r].todo \in Seq(Chores)
  /\ faults \in 0 .. MaxFaults

Init ==
  /\ chal = {} /\ holder = [t \in Tokens |-> "none"] /\ attempts = [t \in Tokens |-> 0]
  /\ obligation = {} /\ due = {} /\ promotion = {} /\ promoted = {}
  /\ lease = [c \in Completes |-> "none"] /\ provider = [c \in Completes |-> "none"]
  /\ native = [r \in Requests |-> "none"] /\ work = [w \in Workers |-> Idle]
  /\ \E s \in Scenarios :
       /\ account = s.accounts
       /\ run = [r \in Requests |-> [pc |-> IF r \in s.requests THEN "idle" ELSE "done",
                                     seen |-> 0, mfa |-> FALSE, todo |-> <<>>, answer |-> "none"]]
  /\ registered = [t \in Tokens |-> 0] /\ moved = {} /\ lapsed = {} /\ leaked = {}
  /\ faults = 0

At(r, label) == run[r].pc = label
Busy(r)      == run[r].pc \notin {"idle", "done"}
NoFault      == UNCHANGED faults
Fault        == faults < MaxFaults /\ faults' = faults + 1
To(r, label) == run' = [run EXCEPT ![r].pc = label]
Answer(r, a) == run' = [run EXCEPT ![r].pc = "done", ![r].answer = a]
Tidying(r, chores, a) ==
  run' = [run EXCEPT ![r].pc = "tidy", ![r].todo = chores, ![r].answer = a]

-----------------------------------------------------------------------------
(* The account repository *)

LinkedTo(s)      == {a \in Accounts : account[a].link = s}
PhoneOwners(p)   == {a \in Accounts : account[a].phone = p}

\* The proof may fill an empty phone or verify the same unverified one.
PhoneAdded(a, p)    == \/ account[a].phone = "none" /\ ~account[a].verified
                       \/ account[a].phone = p /\ ~account[a].verified
PhoneConflict(a, p) == ~PhoneAdded(a, p) /\ ~(account[a].phone = p /\ account[a].verified)
PhoneTaken_Linked(a, p) == \E b \in PhoneOwners(p) \ {a} : account[b].link = "none"
PhoneTaken(a, p)    == PhoneOwners(p) \ {a} # {}

\* The links of the identity and of the account, taken together, must be this
\* one link or none.
LinkConflict(a, s) == LinkedTo(s) \ {a} # {} \/ account[a].link \notin {s, "none"}

Advanced(a, s, p) ==
  [account EXCEPT ![a].link = s, ![a].phone = p, ![a].verified = TRUE, ![a].version = @ + 1]

Unchanged_StatusOnly(r, a) == account[a].active
Unchanged(r, a) == account[a].active /\ account[a].version = run[r].seen

Bindable(r, a, s, p) ==
  Unchanged(r, a) /\ ~LinkConflict(a, s) /\ ~PhoneConflict(a, p) /\ ~PhoneTaken(a, p)

\* Locks the account, its links and the owners of the phone; a link or a phone
\* that is added moves the version and the security epoch.
BindExistingOnce(r, a, s, p) ==
  IF account[a].link = s /\ ~PhoneAdded(a, p) THEN UNCHANGED account
                                              ELSE account' = Advanced(a, s, p)
Looked(a) == {c \in Completes : Account(c) = a /\ run[c].seen # 0}
Moving(a) == moved' = IF account' = account THEN moved ELSE moved \cup Looked(a)

BindExistingWithWeChat(r) ==
  LET a == Account(r) s == Subject(Of(r)) p == PhoneOf[s] IN
  /\ At(r, "bind")
  /\ \/ /\ Bindable(r, a, s, p) /\ BindExistingOnce(r, a, s, p) /\ Moving(a)
        /\ \/ To(r, "consume") /\ NoFault
           \/ Tidying(r, <<"revoke", "release">>, "internal") /\ Fault
     \/ /\ ~Bindable(r, a, s, p)
        /\ Tidying(r, <<"revoke", "drop">>, "refused") /\ NoFault /\ UNCHANGED <<account, moved>>
     \/ /\ Tidying(r, <<"revoke", "release">>, "internal") /\ Fault
        /\ UNCHANGED <<account, moved>>
  /\ UNCHANGED <<chal, holder, attempts, cleanupVars, provider, native, work, registered,
                 lapsed, leaked>>

\* A sign-in of a linked account, completed with the verified phone.
CompleteLinkedWithVerifiedPhone(r) ==
  LET s == Subject(r) p == PhoneOf[s] IN
  /\ At(r, "phone")
  /\ \E a \in Accounts :
       LET linked == account[a].active /\ account[a].link = s
                       /\ ~PhoneConflict(a, p) /\ ~PhoneTaken(a, p) IN
       /\ run[r].seen = a
       /\ \/ /\ linked
             /\ IF PhoneAdded(a, p) THEN account' = Advanced(a, s, p) ELSE UNCHANGED account
             /\ Moving(a)
             /\ (To(r, "federated") /\ NoFault) \/ (Answer(r, "internal") /\ Fault)
          \/ ~linked /\ Answer(r, "refused") /\ NoFault /\ UNCHANGED <<account, moved>>
          \/ Answer(r, "internal") /\ Fault /\ UNCHANGED <<account, moved>>
  /\ UNCHANGED <<chal, holder, attempts, cleanupVars, provider, native, work, registered,
                 lapsed, leaked>>

-----------------------------------------------------------------------------
(* Begin *)

\* WeChat has verified identity and phone.
BeginService(r) ==
  /\ At(r, "idle") /\ Op(r) = "begin"
  /\ \/ /\ LinkedTo(Subject(r)) = {} /\ To(r, "create")
     \/ \E a \in LinkedTo(Subject(r)) :
          IF account[a].active THEN run' = [run EXCEPT ![r].pc = "phone", ![r].seen = a]
                               ELSE Answer(r, "refused")
     \/ Answer(r, "refused")
  /\ UNCHANGED <<account, chal, holder, attempts, cleanupVars, provider, native, work,
                 historyVars, faults>>

CreateOnboarding(r) ==
  /\ At(r, "create")
  /\ \/ chal' = chal \cup {r} /\ Answer(r, "onboarding") /\ NoFault
     \/ chal' \in {chal, chal \cup {r}} /\ Answer(r, "internal") /\ Fault
  /\ UNCHANGED <<account, holder, attempts, cleanupVars, provider, native, work, historyVars>>

CreateFederatedSession(r) ==
  /\ At(r, "federated")
  /\ \/ native' = [native EXCEPT ![r] = "live"] /\ Answer(r, "session") /\ NoFault
     \/ Answer(r, "internal") /\ Fault /\ (UNCHANGED native \/ native' = [native EXCEPT ![r] = "live"])
  /\ UNCHANGED <<account, chal, holder, attempts, cleanupVars, provider, work, historyVars>>

-----------------------------------------------------------------------------
(* Claiming and consuming a token *)

ClaimFree(t) == t \in chal /\ holder[t] = "none"

\* A token presented on the other route is terminal, and a two-step token
\* takes its provider session with it.
Claimed(r) == IF Mismatch(r) THEN Tidying(r, <<"drop", "revoke">>, "refused")
              ELSE To(r, IF Op(r) = "mfa" THEN "judge" ELSE "lookup")

Claim(r) ==
  LET t == Of(r) IN
  /\ At(r, "idle") /\ Op(r) # "begin" /\ run[t].answer \in {"onboarding", "mfa"}
  /\ \/ ClaimFree(t) /\ holder' = [holder EXCEPT ![t] = r] /\ Claimed(r) /\ NoFault
     \/ ~ClaimFree(t) /\ Answer(r, "refused") /\ NoFault /\ UNCHANGED holder
     \/ /\ Answer(r, "internal") /\ Fault
        /\ UNCHANGED holder \/ (ClaimFree(t) /\ holder' = [holder EXCEPT ![t] = r])
  /\ UNCHANGED <<account, chal, attempts, cleanupVars, provider, native, work, historyVars>>

\* A rate bucket of the client, the identity or the target account is empty.
Limited(r) ==
  /\ At(r, "lookup") \/ At(r, "judge") \/ At(r, "password")
  /\ Tidying(r, <<"release">>, "refused")
  /\ UNCHANGED <<account, chal, holder, attempts, cleanupVars, provider, native, work,
                 historyVars, faults>>

Consumable(r) == holder[Of(r)] = r /\ Of(r) \in chal

\* Consuming a two-step token keeps the obligation and starts the promotion lease.
ConsumeHash_Kept(r) ==
  LET t == Of(r) IN
  /\ holder' = [holder EXCEPT ![t] = "none"] /\ UNCHANGED <<chal, attempts>>
  /\ IF t \in obligation THEN promotion' = promotion \cup {t} /\ UNCHANGED due
                         ELSE promotion' = promotion \ {t} /\ due' = due \ {t}
ConsumeHash_Dequeued(r) ==
  LET t == Of(r) IN
  /\ chal' = chal \ {t} /\ holder' = [holder EXCEPT ![t] = "none"]
  /\ attempts' = [attempts EXCEPT ![t] = 0] /\ due' = due \ {t}
  /\ promotion' = IF t \in obligation THEN promotion \cup {t} ELSE promotion \ {t}
ConsumeHash(r) ==
  LET t == Of(r) IN
  /\ chal' = chal \ {t} /\ holder' = [holder EXCEPT ![t] = "none"]
  /\ attempts' = [attempts EXCEPT ![t] = 0]
  /\ IF t \in obligation THEN promotion' = promotion \cup {t} /\ UNCHANGED due
                         ELSE promotion' = promotion \ {t} /\ due' = due \ {t}
ConsumeVars == <<chal, holder, attempts, promotion, due>>

\* A challenge that is gone gives up the lock; a lock that was lost is left alone.
NotConsumed(r) ==
  /\ UNCHANGED <<chal, attempts, promotion, due>>
  /\ holder' = IF holder[Of(r)] = r THEN [holder EXCEPT ![Of(r)] = "none"] ELSE holder

Won(r) == IF Op(r) = "complete" /\ Account(r) = "new" THEN Answer(r, "registered")
          ELSE IF run[r].mfa THEN Answer(r, "mfa") ELSE To(r, "session")
Undo(r) == IF Account(r) = "new" THEN <<"release">> ELSE <<"revoke", "release">>

Consume(r) ==
  /\ At(r, "consume")
  /\ \/ Consumable(r) /\ ConsumeHash(r) /\ Won(r) /\ NoFault
     \/ ~Consumable(r) /\ NotConsumed(r) /\ Tidying(r, Undo(r), "internal") /\ NoFault
     \/ /\ Tidying(r, Undo(r), "internal") /\ Fault
        /\ UNCHANGED ConsumeVars \/ (Consumable(r) /\ ConsumeHash(r))
  /\ UNCHANGED <<account, obligation, promoted, lease, provider, native, work, historyVars>>

-----------------------------------------------------------------------------
(* Completion *)

FindByNormalizedEmail(r) ==
  /\ At(r, "lookup")
  /\ \/ Account(r) = "new" /\ To(r, "register")
     \/ /\ Account(r) # "new"
        /\ IF account[Account(r)].active
             THEN run' = [run EXCEPT ![r].pc = "password", ![r].seen = account[Account(r)].version]
             ELSE Tidying(r, <<"drop">>, "refused")
  /\ UNCHANGED <<account, chal, holder, attempts, cleanupVars, provider, native, work,
                 historyVars, faults>>

\* A new account is reserved by wechatregistration, which is not modelled here.
CompletePendingRegistration(r) ==
  /\ At(r, "register")
  /\ \/ /\ registered' = [registered EXCEPT ![Of(r)] = @ + 1]
        /\ (To(r, "consume") /\ NoFault) \/ (Tidying(r, <<"release">>, "internal") /\ Fault)
     \/ Tidying(r, <<"release">>, "refused") /\ NoFault /\ UNCHANGED registered
  /\ UNCHANGED <<account, chal, holder, attempts, cleanupVars, provider, native, work,
                 moved, lapsed, leaked>>

VerifyUserPassword(r) ==
  /\ At(r, "password")
  /\ \/ /\ provider' = [provider EXCEPT ![r] = "open"] /\ NoFault /\ UNCHANGED leaked
        /\ \E next \in {"bind", "challenge"} : To(r, next)
     \/ To(r, "count") /\ NoFault /\ UNCHANGED <<provider, leaked>>
     \/ Tidying(r, <<"drop">>, "refused") /\ NoFault /\ UNCHANGED <<provider, leaked>>
     \/ /\ Tidying(r, <<"release">>, "internal") /\ Fault
        /\ \/ UNCHANGED <<provider, leaked>>
           \/ provider' = [provider EXCEPT ![r] = "open"] /\ leaked' = leaked \cup {r}
  /\ UNCHANGED <<account, chal, holder, attempts, cleanupVars, native, work, registered,
                 moved, lapsed>>

\* Challenge, obligation and index entry are stored together.
CreateMFAChallenge_Unindexed(r) ==
  chal' = chal \cup {r} /\ obligation' = obligation \cup {r} /\ UNCHANGED due
CreateMFAChallenge(r) ==
  chal' = chal \cup {r} /\ obligation' = obligation \cup {r} /\ due' = due \cup {r}

StoreMFAChallenge(r) ==
  /\ At(r, "challenge")
  /\ \/ CreateMFAChallenge(r) /\ NoFault
        /\ run' = [run EXCEPT ![r].pc = "consume", ![r].mfa = TRUE]
     \/ /\ Tidying(r, <<"revoke", "release">>, "internal") /\ Fault
        /\ CreateMFAChallenge(r) \/ UNCHANGED <<chal, obligation, due>>
  /\ UNCHANGED <<account, holder, attempts, promotion, promoted, lease, provider, native, work,
                 historyVars>>

\* The provider judges the second factor in the session of the challenge.
CompleteMFAProvider(r) ==
  /\ At(r, "judge")
  /\ IF provider[Of(r)] = "open"
       THEN \/ run' = [run EXCEPT ![r].pc = "bind", ![r].seen = run[Of(r)].seen] /\ NoFault
            \/ To(r, "count") /\ NoFault
            \/ Tidying(r, <<"release">>, "internal") /\ Fault
       ELSE Tidying(r, <<"drop", "revoke">>, "refused") /\ NoFault
  /\ UNCHANGED <<account, chal, holder, attempts, cleanupVars, provider, native, work, historyVars>>

IncrementAttempts(r) ==
  LET t == Of(r) IN
  /\ At(r, "count")
  /\ \/ /\ t \in chal /\ attempts' = [attempts EXCEPT ![t] = @ + 1]
        /\ \/ attempts[t] + 1 < MaxAttempts /\ To(r, "free") /\ NoFault
           \/ attempts[t] + 1 >= MaxAttempts /\ NoFault /\ Tidying(r, <<"drop", "revoke">>, "refused")
           \/ Tidying(r, <<"drop", "revoke">>, "internal") /\ Fault
     \/ /\ Tidying(r, <<"drop", "revoke">>, "internal") /\ UNCHANGED attempts
        /\ IF t \in chal THEN Fault ELSE NoFault
  /\ UNCHANGED <<account, chal, holder, cleanupVars, provider, native, work, historyVars>>

\* A wrong code gives the challenge back; if that fails, its session goes.
ReleaseAfterFailure(r) ==
  LET t == Of(r) IN
  /\ At(r, "free")
  /\ \/ /\ holder[t] = r /\ holder' = [holder EXCEPT ![t] = "none"]
        /\ \/ Answer(r, "invalid") /\ NoFault /\ UNCHANGED lapsed
           \/ Tidying(r, <<"revoke">>, "internal") /\ Fault /\ lapsed' = lapsed \cup {t}
     \/ /\ Tidying(r, <<"revoke">>, "internal") /\ UNCHANGED <<holder, lapsed>>
        /\ IF holder[t] = r THEN Fault ELSE NoFault
  /\ UNCHANGED <<account, chal, attempts, cleanupVars, provider, native, work, registered, moved,
                 leaked>>

-----------------------------------------------------------------------------
(* Native session and promotion *)

AfterSession(r) == IF Op(r) = "mfa" THEN To(r, "promote") ELSE Answer(r, "session")
Abandon(r)      == IF Op(r) = "mfa" THEN <<"schedule", "revoke">> ELSE <<"revoke">>

CreateSession(r) ==
  /\ At(r, "session")
  /\ \/ native' = [native EXCEPT ![r] = "live"] /\ AfterSession(r) /\ NoFault
     \/ /\ Tidying(r, Abandon(r), "internal") /\ Fault
        /\ UNCHANGED native \/ native' = [native EXCEPT ![r] = "live"]
  /\ UNCHANGED <<account, chal, holder, attempts, cleanupVars, provider, work, historyVars>>

\* Only an obligation under its promotion lease that no worker has claimed.
Promotable_Unleased(c) == c \in obligation
Promotable(c) == c \in obligation /\ c \in promotion /\ lease[c] = "none"

Promoted(c) ==
  /\ obligation' = obligation \ {c} /\ promotion' = promotion \ {c}
  /\ due' = due \ {c} /\ promoted' = promoted \cup {c}

CompleteProviderSessionPromotion(r) ==
  LET c == Of(r) undo == <<"schedule", "unsession", "revoke">> IN
  /\ At(r, "promote")
  /\ \/ Promotable(c) /\ Promoted(c) /\ Answer(r, "session") /\ NoFault
     \/ /\ ~Promotable(c) /\ NoFault /\ UNCHANGED <<obligation, promotion, due, promoted>>
        /\ IF c \in promoted THEN Answer(r, "session") ELSE Tidying(r, undo, "internal")
     \/ /\ Tidying(r, undo, "internal") /\ Fault
        /\ (Promotable(c) /\ Promoted(c)) \/ UNCHANGED <<obligation, promotion, due, promoted>>
  /\ UNCHANGED <<account, chal, holder, attempts, lease, provider, native, work, historyVars>>

-----------------------------------------------------------------------------
(* The best-effort chores of a failing request, whose errors are ignored *)

Chore(r, chore) == At(r, "tidy") /\ run[r].todo # <<>> /\ Head(run[r].todo) = chore
Next1(r)  == run' = [run EXCEPT ![r].todo = Tail(@)]

Drop(r) ==
  /\ Chore(r, "drop") /\ Next1(r)
  /\ \/ Consumable(r) /\ ConsumeHash(r) /\ NoFault
     \/ ~Consumable(r) /\ NotConsumed(r) /\ NoFault
     \/ UNCHANGED ConsumeVars /\ Fault
  /\ UNCHANGED <<account, obligation, promoted, lease, provider, native, work, historyVars>>

Release(r) ==
  /\ Chore(r, "release") /\ Next1(r)
  /\ \/ NoFault /\ holder' = IF holder[Of(r)] = r THEN [holder EXCEPT ![Of(r)] = "none"] ELSE holder
     \/ Fault /\ UNCHANGED holder
  /\ UNCHANGED <<account, chal, attempts, cleanupVars, provider, native, work, historyVars>>

\* The provider session may be missing: there is then nothing to revoke.
Revoke(r) ==
  LET c == Ceremony(r) IN
  /\ Chore(r, "revoke") /\ Next1(r)
  /\ \/ /\ NoFault /\ UNCHANGED leaked
        /\ provider' = IF c \in Completes /\ provider[c] = "open"
                         THEN [provider EXCEPT ![c] = "closed"] ELSE provider
     \/ Fault /\ leaked' = leaked \cup ({c} \cap Completes) /\ UNCHANGED provider
  /\ UNCHANGED <<account, chal, holder, attempts, cleanupVars, native, work, registered,
                 moved, lapsed>>

ScheduleProviderSessionCleanup(r) ==
  LET c == Of(r) IN
  /\ Chore(r, "schedule") /\ Next1(r)
  /\ \/ /\ NoFault /\ promotion' = promotion \ {c}
        /\ due' = IF c \in obligation THEN due ELSE due \ {c}
     \/ Fault /\ UNCHANGED <<promotion, due>>
  /\ UNCHANGED <<account, chal, holder, attempts, obligation, promoted, lease, provider, native,
                 work, historyVars>>

DeleteSession(r) ==
  /\ Chore(r, "unsession") /\ Next1(r)
  /\ \/ NoFault /\ native' = [native EXCEPT ![r] = "gone"]
     \/ Fault /\ UNCHANGED native
  /\ UNCHANGED <<account, chal, holder, attempts, cleanupVars, provider, work, historyVars>>

Tidied(r) ==
  /\ At(r, "tidy") /\ run[r].todo = <<>> /\ To(r, "done")
  /\ UNCHANGED <<account, chal, holder, attempts, cleanupVars, provider, native, work,
                 historyVars, faults>>

-----------------------------------------------------------------------------
(* The cleanup worker *)

\* Not while the challenge lives, a request holds it, or a promotion runs.
Abandoned(c) == c \notin chal /\ holder[c] = "none" /\ c \notin promotion /\ lease[c] = "none"

ClaimCleanup(w, c) ==
  /\ work[w] = Idle /\ c \in due
  /\ \/ /\ c \in promoted /\ due' = due \ {c} /\ obligation' = obligation \ {c}
        /\ promotion' = promotion \ {c} /\ lease' = [lease EXCEPT ![c] = "none"] /\ UNCHANGED work
     \/ /\ c \notin promoted /\ Abandoned(c) /\ c \in obligation
        /\ lease' = [lease EXCEPT ![c] = w] /\ work' = [work EXCEPT ![w] = [pc |-> "revoke", of |-> c]]
        /\ UNCHANGED <<due, obligation, promotion>>
  /\ UNCHANGED <<account, chal, holder, attempts, promoted, provider, native, run, historyVars, faults>>

RevokeProviderSession(w) ==
  LET c == work[w].of closed == [provider EXCEPT ![c] = "closed"] IN
  /\ work[w].pc = "revoke"
  /\ \/ provider' = closed /\ work' = [work EXCEPT ![w].pc = "complete"] /\ NoFault
     \/ provider' \in {provider, closed} /\ work' = [work EXCEPT ![w].pc = "retry"] /\ Fault
  /\ UNCHANGED <<account, chal, holder, attempts, cleanupVars, native, run, historyVars>>

CompleteCleanup(w) ==
  LET c == work[w].of IN
  /\ work[w].pc = "complete" /\ work' = [work EXCEPT ![w] = Idle]
  /\ \/ /\ lease[c] = w /\ NoFault
        /\ obligation' = obligation \ {c} /\ due' = due \ {c}
        /\ promotion' = promotion \ {c} /\ lease' = [lease EXCEPT ![c] = "none"]
     \/ /\ IF lease[c] = w THEN Fault ELSE NoFault
        /\ UNCHANGED <<obligation, due, promotion, lease>>
  /\ UNCHANGED <<account, chal, holder, attempts, promoted, provider, native, run, historyVars>>

RetryCleanup_Forgotten(w) ==
  LET c == work[w].of IN
  /\ work[w].pc = "retry" /\ work' = [work EXCEPT ![w] = Idle]
  /\ lease' = IF lease[c] = w THEN [lease EXCEPT ![c] = "none"] ELSE lease
  /\ obligation' = obligation \ {c} /\ due' = due \ {c} /\ promotion' = promotion \ {c}
  /\ UNCHANGED <<account, chal, holder, attempts, promoted, provider, native, run, historyVars, faults>>
RetryCleanup(w) ==
  LET c == work[w].of IN
  /\ work[w].pc = "retry" /\ work' = [work EXCEPT ![w] = Idle]
  /\ lease' = IF lease[c] = w THEN [lease EXCEPT ![c] = "none"] ELSE lease
  /\ due' = IF c \in obligation THEN due ELSE due \ {c}
  /\ UNCHANGED <<account, chal, holder, attempts, obligation, promotion, promoted, provider, native,
                 run, historyVars, faults>>

CrashWorker(w) ==
  /\ work[w] # Idle /\ work' = [work EXCEPT ![w] = Idle] /\ Fault
  /\ UNCHANGED <<account, chal, holder, attempts, cleanupVars, provider, native, run, historyVars>>

-----------------------------------------------------------------------------
(* Time, the other handlers of the account, and crashes *)

\* A lease that ends under the process that relies on it is a failure.
Late(inUse) == IF inUse THEN Fault ELSE NoFault

ChallengeExpires(t) ==
  /\ t \in chal /\ chal' = chal \ {t} /\ attempts' = [attempts EXCEPT ![t] = 0]
  /\ UNCHANGED <<account, holder, cleanupVars, provider, native, work, run, historyVars, faults>>

LockExpires(t) ==
  /\ holder[t] # "none" /\ holder' = [holder EXCEPT ![t] = "none"]
  /\ Late(Busy(holder[t])) /\ lapsed' = IF Busy(holder[t]) THEN lapsed \cup {t} ELSE lapsed
  /\ UNCHANGED <<account, chal, attempts, cleanupVars, provider, native, work, run, registered,
                 moved, leaked>>

PromotionExpires(c) ==
  /\ c \in promotion /\ promotion' = promotion \ {c}
  /\ Late(\E r \in Requests : Busy(r) /\ Op(r) # "begin" /\ Of(r) = c)
  /\ UNCHANGED <<account, chal, holder, attempts, obligation, due, promoted, lease, provider, native,
                 work, run, historyVars>>

CleanupLeaseExpires(c) ==
  /\ lease[c] # "none" /\ lease' = [lease EXCEPT ![c] = "none"]
  /\ Late(work[lease[c]].of = c)
  /\ UNCHANGED <<account, chal, holder, attempts, obligation, due, promotion, promoted, provider,
                 native, work, run, historyVars>>

\* A password change, a suspension, any other step that moves the epoch.
AccountChange(a) ==
  /\ account[a].active /\ account[a].version < MaxVersion
  /\ \E active \in BOOLEAN :
       account' = [account EXCEPT ![a].version = @ + 1, ![a].active = active]
  /\ moved' = moved \cup Looked(a)
  /\ UNCHANGED <<chal, holder, attempts, cleanupVars, provider, native, work, run, registered,
                 lapsed, leaked, faults>>

CrashRequest(r) ==
  /\ Busy(r) /\ To(r, "done") /\ Fault
  /\ leaked' = leaked \cup ({IF At(r, "tidy") THEN Ceremony(r) ELSE r} \cap Completes)
  /\ UNCHANGED <<account, chal, holder, attempts, cleanupVars, provider, native, work, registered,
                 moved, lapsed>>

-----------------------------------------------------------------------------
(* The handlers *)

Begin(r) == BeginService(r) \/ CompleteLinkedWithVerifiedPhone(r) \/ CreateFederatedSession(r)
              \/ CreateOnboarding(r)

CompleteExisting(r) == VerifyUserPassword(r) \/ StoreMFAChallenge(r)

Complete(r) == FindByNormalizedEmail(r) \/ CompletePendingRegistration(r) \/ CompleteExisting(r)

CompleteMFA(r) == CompleteMFAProvider(r) \/ CompleteProviderSessionPromotion(r)

FinishCeremony(r) ==
  \/ Claim(r) \/ Limited(r) \/ BindExistingWithWeChat(r) \/ IncrementAttempts(r)
  \/ ReleaseAfterFailure(r) \/ Consume(r) \/ CreateSession(r)

TidyUp(r) == Drop(r) \/ Release(r) \/ Revoke(r) \/ ScheduleProviderSessionCleanup(r)
               \/ DeleteSession(r) \/ Tidied(r)

Worker(w) == \/ \E c \in Completes : ClaimCleanup(w, c)
             \/ RevokeProviderSession(w) \/ CompleteCleanup(w) \/ RetryCleanup(w)

Serve(r) == Begin(r) \/ Complete(r) \/ CompleteMFA(r) \/ FinishCeremony(r) \/ TidyUp(r)

Next ==
  \/ \E r \in Requests : Serve(r) \/ CrashRequest(r)
  \/ \E w \in Workers : Worker(w) \/ CrashWorker(w)
  \/ \E t \in Tokens : ChallengeExpires(t) \/ LockExpires(t)
  \/ \E c \in Completes : PromotionExpires(c) \/ CleanupLeaseExpires(c)
  \/ \E a \in Accounts : AccountChange(a)

Spec == Init /\ [][Next]_onboardingVars

-----------------------------------------------------------------------------
(* What onboarding promises *)

\* A provider session opened by a completion is never forgotten: it backs a
\* native session, an obligation covers it, or a request is still handling it;
\* only a failed best-effort revocation or a crash leaves one behind.
Handled(c) == \E r \in Completes \cup {q \in Requests : Op(q) = "mfa"} :
                Ceremony(r) = c /\ (Busy(r) \/ native[r] = "live")
SessionsAccounted ==
  \A c \in Completes : provider[c] = "open" => c \in obligation \cup leaked \/ Handled(c)

\* A session that was handed to the client keeps its provider session: neither
\* the worker nor a competing completion revokes it, unless a request that
\* had lost its claim lock went on.
SessionBacked ==
  \A r \in Requests : run[r].answer = "session" /\ Op(r) # "begin" /\ Of(r) \notin lapsed
                        => provider[Ceremony(r)] = "open"

\* One token is worth one outcome, whatever retries and rival requests do.
Rewards(t)    == {r \in Requests : Op(r) # "begin" /\ Of(r) = t
                                     /\ run[r].answer \in {"session", "mfa", "registered"}}
SingleOutcome == \A t \in Tokens : Cardinality(Rewards(t)) <= 1

\* An identity is linked to one account and a verified phone has one owner.
LinksOneToOne == OneToOne(account)

\* A link once made is never moved to another identity, and none is made on
\* behalf of a request whose account has changed since its password was checked.
LinksKept == \A a \in Accounts :
  account'[a].link # account[a].link =>
    /\ account[a].link = "none"
    /\ \E r \in Requests : /\ At(r, "bind") /\ run'[r].pc # "bind"
                         /\ Account(r) = a /\ Ceremony(r) \notin moved
=============================================================================
