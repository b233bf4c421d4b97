------------------------------ MODULE Ceremonies ------------------------------
(***************************************************************************)
(* Two-step authentication: signing in and reauthenticating.  A begin      *)
(* request verifies the password and, if a second factor is due, stores a  *)
(* challenge; completion requests claim it, let the provider judge a code, *)
(* and consume it for a session or for a one-shot grant.  Reauthentication *)
(* opens a temporary provider session that must not outlive the ceremony:  *)
(* every terminal path revokes it and a worker revokes the abandoned ones. *)
(***************************************************************************)
EXTENDS Naturals, FiniteSets

CONSTANTS
  Requests,    \* the HTTP requests that may arrive, each once
  InputOf,     \* what each of them asks for
  Batches,     \* model bound: the sets of requests that arrive in one run
  MaxAttempts, \* wrong codes a challenge takes
  MaxGen,      \* model bound: security generations of the user
  MaxFaults    \* model bound: failures, lost answers, crashes, late locks

Op(r)      == InputOf[r].op
Login(c)   == InputOf[c].kind = "login"
Of(r)      == InputOf[r].of       \* the ceremony, or the request that got the grant
Session(r) == InputOf[r].session
Freshened(c) == InputOf[c].kind = "dreamup"  \* a DreamUp action
Ceremonies == {r \in Requests : Op(r) = "begin"}
Grantees   == {r \in Requests : Op(r) # "use"}
CeremonyOf(r) == IF Op(r) = "begin" THEN r ELSE Of(r)

CeremoniesAssumption ==
  /\ \A r \in Requests : /\ Op(r) \in {"begin", "complete", "use"}
                         /\ Op(r) = "complete" => Of(r) \in Ceremonies
                         /\ Op(r) = "use" => Of(r) \in Grantees
                         /\ Op(r) = "begin" => InputOf[r].kind \in {"login", "reauth", "dreamup"}
  /\ IsFiniteSet(Requests) /\ "none" \notin Requests /\ Batches \subseteq SUBSET Requests
  /\ {MaxAttempts, MaxGen} \subseteq Nat \ {0} /\ MaxFaults \in Nat

VARIABLES
  temp,     \* provider: the temporary session of each reauthentication
  chal,     \* Redis: the epoch stamped on each live challenge, 0 if none
  attempts, \* Redis: the attempt counter of each challenge
  holder,   \* Redis: who holds the claim lock of each challenge
  index,    \* Redis: cleanup index of the reauthentication challenges
  popped,   \* entries the cleanup worker has taken and not yet worked off
  grant,    \* Redis: the grant minted by each request
  freshness,\* Redis: requests whose DreamUp step-up state is stored
  audited,  \* requests whose success has a durable audit row
  signedIn, \* sessions each login ceremony has created
  wrong,    \* history: wrong codes the provider judged, by ceremony
  stamped,  \* history: the epoch each challenge was stamped with
  accepted, \* history: how often each grant was accepted
  leaked,   \* history: ceremonies whose revocation failed or was lost
  auth,     \* the security state row of the user
  run,      \* what each request is doing
  mishaps   \* how many failures so far

ceremonyVars == <<temp, chal, attempts, holder, index, popped, grant, freshness, audited, signedIn,
                  wrong, stamped, accepted, leaked, auth, run, mishaps>>
storeVars == <<chal, attempts, holder, index>>
grantVars == <<grant, freshness, audited, accepted>>

Labels  == {"idle", "store", "judge", "count", "release", "drop", "consume", "session",
            "revoke", "mint", "audit", "fresh", "undo", "gate", "done"}
Answers == {"challenge", "granted", "signed_in", "accepted", "refused", "invalid", "internal"}
NoGrant == [state |-> "none", gen |-> 0]

Runs    == [pc : Labels, gen : 0 .. MaxGen, won : BOOLEAN, answer : Answers \cup {"none"}]
Grants  == [state : {"none", "live", "gone"}, gen : 0 .. MaxGen]

TypeOK ==
  /\ temp \in [Ceremonies -> {"none", "open", "closed"}]
  /\ chal \in [Ceremonies -> 0 .. MaxGen] /\ stamped \in [Ceremonies -> 0 .. MaxGen]
  /\ attempts \in [Ceremonies -> 0 .. MaxAttempts + MaxFaults]
  /\ \A c \in Ceremonies : chal[c] = 0 => attempts[c] = 0
  /\ holder \in [Ceremonies -> Requests \cup {"none"}]
  /\ index \subseteq {c \in Ceremonies : ~Login(c)} /\ popped \subseteq Ceremonies \ index
  /\ grant \in [Grantees -> Grants]
  /\ \A r \in Grantees : (grant[r].state = "none") = (grant[r].gen = 0)
  /\ freshness \subseteq Grantees /\ audited \subseteq Grantees /\ leaked \subseteq Ceremonies
  /\ signedIn \in [Ceremonies -> Nat] /\ wrong \in [Ceremonies -> Nat]
  /\ accepted \in [Grantees -> Nat]
  /\ auth \in [gen : 1 .. MaxGen, intent : BOOLEAN] /\ (auth.intent => auth.gen < MaxGen)
  /\ run \in [Requests -> Runs] /\ mishaps \in 0 .. MaxFaults

Init ==
  /\ temp = [c \in Ceremonies |-> "none"] /\ chal = [c \in Ceremonies |-> 0]
  /\ attempts = [c \in Ceremonies |-> 0] /\ holder = [c \in Ceremonies |-> "none"]
  /\ index = {} /\ popped = {} /\ grant = [r \in Grantees |-> NoGrant]
  /\ freshness = {} /\ audited = {} /\ signedIn = [c \in Ceremonies |-> 0]
  /\ wrong = [c \in Ceremonies |-> 0] /\ stamped = [c \in Ceremonies |-> 0]
  /\ accepted = [r \in Grantees |-> 0] /\ leaked = {}
  /\ auth = [gen |-> 1, intent |-> FALSE]
  /\ \E batch \in Batches :
       run = [r \in Requests |-> [pc |-> IF r \in batch THEN "idle" ELSE "done", gen |-> 0,
                                  won |-> FALSE, answer |-> "none"]]
  /\ mishaps = 0

At(r, label)   == run[r].pc = label
NoFault        == UNCHANGED mishaps
Fault          == mishaps < MaxFaults /\ mishaps' = mishaps + 1
To(r, label)   == run' = [run EXCEPT ![r].pc = label]
Answer(r, a)   == run' = [run EXCEPT ![r].pc = "done", ![r].answer = a]
Next2(r, label, a) == run' = [run EXCEPT ![r].pc = label, ![r].answer = a]

-----------------------------------------------------------------------------
(* Begin *)

\* The password of a sign-in: refused, enough, or a second factor is due.
BeginLogin(r) ==
  /\ At(r, "idle") /\ Op(r) = "begin" /\ Login(r)
  /\ \/ \E next \in {"session", "store"} :
          run' = [run EXCEPT ![r].pc = next, ![r].gen = auth.gen, ![r].won = next = "session"]
     \/ Answer(r, "invalid")
  /\ UNCHANGED <<temp, storeVars, popped, grantVars, signedIn, wrong, stamped, leaked, auth, mishaps>>

\* The request is audited before the password is verified, and a verified
\* password has opened a provider session.
BeginReauthentication(r) ==
  /\ At(r, "idle") /\ Op(r) = "begin" /\ ~Login(r)
  /\ \/ /\ temp' = [temp EXCEPT ![r] = "open"] /\ NoFault /\ UNCHANGED leaked
        /\ \E next \in {"revoke", "store"} :
             run' = [run EXCEPT ![r].pc = next, ![r].gen = auth.gen, ![r].won = next = "revoke"]
     \/ Answer(r, "invalid") /\ NoFault /\ UNCHANGED <<temp, leaked>>
     \/ /\ Answer(r, "internal") /\ Fault
        /\ \/ UNCHANGED <<temp, leaked>>
           \/ temp' = [temp EXCEPT ![r] = "open"] /\ leaked' = leaked \cup {r}
  /\ UNCHANGED <<storeVars, popped, grantVars, signedIn, wrong, stamped, auth>>

\* The challenge of a sign-in stands alone, that of a reauthentication is
\* stored together with its cleanup entry.
CreateMFA(c) == chal' = [chal EXCEPT ![c] = 1] /\ UNCHANGED index
CreateChallenge_Unindexed(c) == chal' = [chal EXCEPT ![c] = run[c].gen] /\ UNCHANGED index
CreateChallenge(c) == chal' = [chal EXCEPT ![c] = run[c].gen] /\ index' = index \cup {c}

Stored(r) == IF Login(r) THEN CreateMFA(r) ELSE CreateChallenge(r)

StoreChallenge(r) ==
  /\ At(r, "store") /\ stamped' = [stamped EXCEPT ![r] = run[r].gen]
  /\ \/ Stored(r) /\ Answer(r, "challenge") /\ NoFault
     \/ /\ Next2(r, IF Login(r) THEN "done" ELSE "revoke", "internal") /\ Fault
        /\ Stored(r) \/ UNCHANGED <<chal, index>>
  /\ UNCHANGED <<temp, attempts, holder, popped, grantVars, signedIn, wrong, leaked, auth>>

-----------------------------------------------------------------------------
(* Completion *)

\* A challenge of another session, another client kind or another security
\* generation than the caller's.
Foreign_SessionOnly(r) == Session(r) # Session(Of(r))
Foreign(r) ==
  \/ Session(r) # Session(Of(r))
  \/ ~Login(Of(r)) /\ chal[Of(r)] # auth.gen

ClaimChallenge(r) ==
  LET c == Of(r) IN
  /\ At(r, "idle") /\ Op(r) = "complete"
  /\ run[c].answer = "challenge"  \* the browser has been given the token
  /\ \/ (holder[c] # "none" \/ chal[c] = 0) /\ Answer(r, "refused") /\ NoFault /\ UNCHANGED holder
     \/ /\ holder[c] = "none" /\ chal[c] # 0 /\ NoFault
        /\ holder' = [holder EXCEPT ![c] = r]
        /\ run' = [run EXCEPT ![r].pc = IF Foreign(r) THEN "drop" ELSE "judge",
                              ![r].gen = auth.gen,
                              ![r].answer = IF Foreign(r) THEN "refused" ELSE "none"]
     \/ /\ Answer(r, "internal") /\ Fault
        /\ IF holder[c] # "none" \/ chal[c] = 0 THEN UNCHANGED holder
           ELSE holder' \in {holder, [holder EXCEPT ![c] = r]}
  /\ UNCHANGED <<temp, chal, attempts, index, popped, grantVars, signedIn, wrong, stamped, leaked, auth>>

\* The provider judges the code: right, wrong, too late, or no answer.
Judge(r) ==
  /\ At(r, "judge")
  /\ \/ /\ run' = [run EXCEPT ![r].pc = "consume", ![r].won = TRUE]
        /\ NoFault /\ UNCHANGED wrong
     \/ /\ Next2(r, "count", "invalid") /\ wrong' = [wrong EXCEPT ![Of(r)] = @ + 1] /\ NoFault
     \/ Next2(r, "drop", "refused") /\ NoFault /\ UNCHANGED wrong
     \/ Next2(r, "release", "internal") /\ Fault /\ UNCHANGED wrong
  /\ UNCHANGED <<temp, storeVars, popped, grantVars, signedIn, stamped, leaked, auth>>

\* INCR, unless the challenge is gone.
IncrementAttempts_Unchecked(c) == [attempts EXCEPT ![c] = @ + 1]
IncrementAttempts(c) == IF chal[c] = 0 THEN attempts ELSE [attempts EXCEPT ![c] = @ + 1]
MaxReached_Exceeded(c) == attempts'[c] > MaxAttempts
MaxReached(c) == attempts'[c] >= MaxAttempts

\* A wrong code is counted before the claim is given up; at the maximum, and
\* if it could not be counted, the challenge is consumed.
CountAttempt(r) ==
  LET c == Of(r) IN
  /\ At(r, "count")
  /\ \/ /\ attempts' = IncrementAttempts(c) /\ NoFault
        /\ To(r, IF chal[c] = 0 \/ MaxReached(c) THEN "drop" ELSE "release")
     \/ attempts' \in {attempts, IncrementAttempts(c)} /\ To(r, "drop") /\ Fault
  /\ UNCHANGED <<temp, chal, holder, index, popped, grantVars, signedIn, wrong, stamped, leaked, auth>>

Unlocked(c) == [holder EXCEPT ![c] = "none"]

\* Errors of a release are ignored.
ReleaseChallenge(r) ==
  LET c == Of(r) IN
  /\ At(r, "release") /\ To(r, "done")
  /\ \/ holder' = (IF holder[c] = r THEN Unlocked(c) ELSE holder) /\ NoFault
     \/ UNCHANGED holder /\ Fault
  /\ UNCHANGED <<temp, chal, attempts, index, popped, grantVars, signedIn, wrong, stamped, leaked, auth>>

\* The script of both stores: only the holder, and only a live challenge.
Consumable(r) == holder[Of(r)] = r /\ chal[Of(r)] # 0
ConsumeChallenge(r) ==
  LET c == Of(r) IN
  /\ chal' = (IF Consumable(r) THEN [chal EXCEPT ![c] = 0] ELSE chal)
  /\ attempts' = (IF Consumable(r) THEN [attempts EXCEPT ![c] = 0] ELSE attempts)
  /\ holder' = (IF holder[c] = r THEN Unlocked(c) ELSE holder)

\* Where a consumed challenge leads: a sign-in makes its session, a
\* reauthentication first revokes the temporary session.
After(r) == IF Login(Of(r)) THEN "session" ELSE "revoke"

Unconsumed_Ignored(r) == After(r)
Unconsumed(r) == "done"

\* Success: without the consumption there is neither session nor grant.
ConsumeWon(r) ==
  /\ At(r, "consume")
  /\ \/ /\ ConsumeChallenge(r) /\ NoFault
        /\ IF Consumable(r) THEN To(r, After(r)) ELSE Next2(r, Unconsumed(r), "internal")
     \/ /\ ConsumeChallenge(r) \/ UNCHANGED <<chal, attempts, holder>>
        /\ Next2(r, Unconsumed(r), "internal") /\ Fault
  /\ UNCHANGED <<temp, index, popped, grantVars, signedIn, wrong, stamped, leaked, auth>>

\* Terminal failure: the error of this consumption is ignored.
ConsumeLost(r) ==
  /\ At(r, "drop") /\ To(r, IF Login(Of(r)) THEN "done" ELSE "revoke")
  /\ \/ ConsumeChallenge(r) /\ NoFault
     \/ UNCHANGED <<chal, attempts, holder>> /\ Fault
  /\ UNCHANGED <<temp, index, popped, grantVars, signedIn, wrong, stamped, leaked, auth>>

-----------------------------------------------------------------------------
(* What a ceremony earns *)

\* A session, unless the account may not use one.
HandleAuthenticated(r) ==
  LET c == CeremonyOf(r) IN
  /\ At(r, "session")
  /\ \/ Answer(r, "signed_in") /\ signedIn' = [signedIn EXCEPT ![c] = @ + 1] /\ NoFault
     \/ Answer(r, "refused") /\ NoFault /\ UNCHANGED signedIn
     \/ Answer(r, "internal") /\ Fault /\ signedIn' \in {signedIn, [signedIn EXCEPT ![c] = @ + 1]}
  /\ UNCHANGED <<temp, storeVars, popped, grantVars, wrong, stamped, leaked, auth>>

\* Best effort; a failure is audited and left to the provider's expiry.
RevokeProviderSession(r) ==
  LET c == CeremonyOf(r) IN
  /\ At(r, "revoke") /\ To(r, IF run[r].won THEN "mint" ELSE "done")
  /\ \/ temp' = [temp EXCEPT ![c] = "closed"] /\ NoFault /\ UNCHANGED leaked
     \/ UNCHANGED temp /\ Fault /\ leaked' = leaked \cup {c}
  /\ UNCHANGED <<storeVars, popped, grantVars, signedIn, wrong, stamped, auth>>

\* The grant carries the generation of the caller's session.
CreateGrant(r) == grant' = [grant EXCEPT ![r] = [state |-> "live", gen |-> run[r].gen]]

MintGrant(r) ==
  /\ At(r, "mint")
  /\ \/ CreateGrant(r) /\ To(r, "audit") /\ NoFault
     \/ (CreateGrant(r) \/ UNCHANGED grant) /\ Answer(r, "internal") /\ Fault
  /\ UNCHANGED <<temp, storeVars, popped, freshness, audited, accepted, signedIn, wrong, stamped,
                 leaked, auth>>

\* The durable success row, without which the token is not returned.
Unaudited_Ignored(r) == "granted"
Unaudited(r) == "none"
AuditGrant(r) ==
  LET c == CeremonyOf(r) IN
  /\ At(r, "audit")
  /\ \/ /\ audited' = audited \cup {r} /\ NoFault
        /\ IF Freshened(c) THEN To(r, "fresh") ELSE Answer(r, "granted")
     \/ /\ audited' \in {audited, audited \cup {r}} /\ Fault
        /\ Next2(r, "undo", Unaudited(r))
  /\ UNCHANGED <<temp, storeVars, popped, grant, freshness, accepted, signedIn, wrong, stamped,
                 leaked, auth>>

\* The step-up state that a DreamUp action needs besides the grant.
PutStepUp(r) ==
  /\ At(r, "fresh")
  /\ \/ freshness' = freshness \cup {r} /\ Answer(r, "granted") /\ NoFault
     \/ freshness' \in {freshness, freshness \cup {r}} /\ To(r, "undo") /\ Fault
  /\ UNCHANGED <<temp, storeVars, popped, grant, audited, accepted, signedIn, wrong, stamped,
                 leaked, auth>>

\* The grant that cannot be returned is consumed; an error here is ignored.
UndoGrant(r) ==
  /\ At(r, "undo")
  /\ \/ grant' = [grant EXCEPT ![r].state = "gone"] /\ NoFault
     \/ UNCHANGED grant /\ Fault
  /\ IF run[r].answer = "none" THEN Answer(r, "internal") ELSE To(r, "done")
  /\ UNCHANGED <<temp, storeVars, popped, freshness, audited, accepted, signedIn, wrong, stamped,
                 leaked, auth>>

IssueGrant(r) == MintGrant(r) \/ AuditGrant(r) \/ PutStepUp(r) \/ UndoGrant(r)

-----------------------------------------------------------------------------
(* Using a grant *)

Taken_Kept(g) == grant
Taken(g) == [grant EXCEPT ![g].state = "gone"]

\* GETDEL, before anything is compared.
ConsumeGrant(r) ==
  LET g == Of(r) IN
  /\ At(r, "idle") /\ Op(r) = "use" /\ run[g].answer = "granted"
  /\ \/ /\ grant[g].state = "live" /\ grant' = Taken(g) /\ NoFault
        /\ IF Session(r) # Session(g) THEN Answer(r, "refused") ELSE To(r, "gate")
     \/ grant[g].state # "live" /\ Answer(r, "refused") /\ NoFault /\ UNCHANGED grant
     \/ /\ grant' \in {grant, IF grant[g].state = "live" THEN Taken(g) ELSE grant}
        /\ Answer(r, "internal") /\ Fault
  /\ UNCHANGED <<temp, storeVars, popped, freshness, audited, accepted, signedIn, wrong, stamped,
                 leaked, auth>>

\* AllowSensitiveConsumption.
AllowUse(r) ==
  LET g == Of(r) IN
  /\ At(r, "gate")
  /\ \/ /\ grant[g].gen = auth.gen /\ ~auth.intent /\ NoFault
        /\ Answer(r, "accepted") /\ accepted' = [accepted EXCEPT ![g] = @ + 1]
     \/ (grant[g].gen # auth.gen \/ auth.intent) /\ Answer(r, "refused") /\ NoFault /\ UNCHANGED accepted
     \/ Answer(r, "internal") /\ Fault /\ UNCHANGED accepted
  /\ UNCHANGED <<temp, storeVars, popped, grant, freshness, audited, signedIn, wrong, stamped,
                 leaked, auth>>

VerifyAndConsumeData(r) == ConsumeGrant(r) \/ AllowUse(r)

-----------------------------------------------------------------------------
(* The cleanup worker *)

\* A challenge that is still there is live: its entry waits.
Abandoned_Any(c) == c \in index
Abandoned(c) == c \in index /\ chal[c] = 0

\* One script takes the entries out of the index.
PopExpiredChallenges ==
  /\ popped = {} /\ \E c \in Ceremonies : Abandoned(c)
  /\ popped' = {c \in Ceremonies : Abandoned(c)} /\ index' = index \ popped'
  /\ UNCHANGED <<temp, chal, attempts, holder, grantVars, signedIn, wrong, stamped, leaked, auth, run,
                 mishaps>>

RevokeAbandoned ==
  \E c \in popped :
    /\ popped' = popped \ {c}
    /\ \/ temp' = [temp EXCEPT ![c] = "closed"] /\ NoFault /\ UNCHANGED leaked
       \/ UNCHANGED temp /\ Fault /\ leaked' = leaked \cup {c}
    /\ UNCHANGED <<storeVars, grantVars, signedIn, wrong, stamped, auth, run>>

Sweep == PopExpiredChallenges \/ RevokeAbandoned

CrashWorker ==
  /\ popped # {} /\ popped' = {} /\ leaked' = leaked \cup popped /\ Fault
  /\ UNCHANGED <<temp, storeVars, grantVars, signedIn, wrong, stamped, auth, run>>

-----------------------------------------------------------------------------
(* Time, other flows and crashes *)

\* The counter is given the remaining lifetime of its challenge.
ChallengeExpires(c) ==
  /\ chal[c] # 0 /\ chal' = [chal EXCEPT ![c] = 0] /\ attempts' = [attempts EXCEPT ![c] = 0]
  /\ UNCHANGED <<temp, holder, index, popped, grantVars, signedIn, wrong, stamped, leaked, auth, run,
                 mishaps>>

LockExpires(c) ==
  /\ holder[c] # "none" /\ holder' = Unlocked(c)
  /\ IF At(holder[c], "done") THEN NoFault ELSE Fault
  /\ UNCHANGED <<temp, chal, attempts, index, popped, grantVars, signedIn, wrong, stamped, leaked,
                 auth, run>>

SecurityChange ==
  /\ \/ ~auth.intent /\ auth.gen < MaxGen /\ auth' = [auth EXCEPT !.intent = TRUE]
     \/ auth.intent /\ auth' \in {[gen |-> auth.gen, intent |-> FALSE],
                                  [gen |-> auth.gen + 1, intent |-> FALSE]}
  /\ UNCHANGED <<temp, storeVars, popped, grantVars, signedIn, wrong, stamped, leaked, run, mishaps>>

\* The process dies; a request that was about to revoke never does.
CrashRequest(r) ==
  /\ run[r].pc \notin {"idle", "done"} /\ Answer(r, "internal") /\ Fault
  /\ leaked' = IF At(r, "revoke") \/ (At(r, "store") /\ ~Login(r)) THEN leaked \cup {CeremonyOf(r)}
               ELSE leaked
  /\ UNCHANGED <<temp, storeVars, popped, grantVars, signedIn, wrong, stamped, auth>>

-----------------------------------------------------------------------------
(* The handlers *)

LoginHandler(r) == Op(r) = "begin" /\ Login(r) /\ (BeginLogin(r) \/ StoreChallenge(r))
Request(r) == Op(r) = "begin" /\ ~Login(r) /\ (BeginReauthentication(r) \/ StoreChallenge(r))
CompleteMFA(r) ==
  /\ Op(r) = "complete"
  /\ ClaimChallenge(r) \/ Judge(r) \/ CountAttempt(r) \/ ReleaseChallenge(r) \/ ConsumeWon(r)
       \/ ConsumeLost(r)

Serve(r) ==
  \/ LoginHandler(r) \/ Request(r) \/ CompleteMFA(r) \/ HandleAuthenticated(r)
  \/ RevokeProviderSession(r) \/ IssueGrant(r) \/ VerifyAndConsumeData(r)

Next ==
  \/ \E r \in Requests : Serve(r) \/ CrashRequest(r)
  \/ Sweep \/ CrashWorker
  \/ \E c \in Ceremonies : ChallengeExpires(c) \/ LockExpires(c)
  \/ SecurityChange

Spec == Init /\ [][Next]_ceremonyVars

-----------------------------------------------------------------------------
(* Properties *)

\* A ceremony earns at most one session or one returned grant, however many
\* requests complete it and whichever locks run out.
OneReward ==
  \A c \in Ceremonies :
    signedIn[c] + Cardinality({r \in Grantees : CeremonyOf(r) = c /\ grant[r].state # "none"}) <= 1

\* Wrong codes a challenge takes: the maximum, and one more for each failure
\* or lapsed lock.
GuessesBounded == \A c \in Ceremonies : wrong[c] <= MaxAttempts + mishaps

\* A grant in a caller's hands has its durable audit row and, for a DreamUp
\* action, its step-up state.
GrantAudited ==
  \A r \in Grantees : run[r].answer = "granted" =>
    r \in audited /\ (Freshened(CeremonyOf(r)) => r \in freshness)

\* A grant carries the security generation its challenge was made in.
GrantOfChallenge ==
  \A r \in Grantees : Op(r) = "complete" /\ grant[r].state # "none" => grant[r].gen = stamped[Of(r)]

\* A grant is accepted at most once.
AcceptedOnce == \A r \in Grantees : accepted[r] <= 1

\* The temporary session of a reauthentication is closed, or its challenge is
\* live, or its cleanup entry exists, or a request or the worker is about to
\* revoke it; a revocation that failed is on record.
TempCovered ==
  \A c \in Ceremonies : temp[c] = "open" =>
    \/ c \in index \cup popped \cup leaked
    \/ \E r \in Requests : run[r].pc \in {"store", "revoke"} /\ CeremonyOf(r) = c

\* The worker leaves a ceremony that is under way alone: it revokes no
\* session whose challenge can still be completed.
SweepSpares == \A c \in popped : chal[c] = 0
=============================================================================
