-------------------------- MODULE RegistrationGate --------------------------
(***************************************************************************)
(* What stands between the public and registration: form intents bound to  *)
(* one browser, the honeypot and its blocks, the interactive challenge,    *)
(* and the creation budgets.  A submission passes when its intent is its   *)
(* own, its browser is not blocked, the trust it presents was earned by a  *)
(* challenge of exactly this form, and the budgets allow it; it then       *)
(* spends the intent and only then reaches the registration service.       *)
(***************************************************************************)
EXTENDS Naturals, FiniteSets

CONSTANTS
  Requests,        \* the HTTP requests that may arrive, each once
  InputOf,         \* what each of them asks for
  Batches,         \* model bound: requests that occur together, and intents used before
  Browsers,        \* browsers, each with a device cookie, behind one network
  Emails,
  GuessLimit,      \* CompletionLimit, the attempts at one challenge
  DeviceGuesses,   \* RegistrationCompletionDeviceLimit
  NetworkGuesses,  \* RegistrationCompletionNetworkLimit
  IssueLimit,      \* RegistrationIssueDeviceLimit
  EmailLimit,      \* creations charged to one email
  IPBlockAfter,    \* strikes that block the network's address
  MaxFaults        \* model bound: failures, lost answers, crashes, expiries

Op(r)      == InputOf[r].op
Intents    == {r \in Requests : Op(r) = "issue"}    \* each names the intent it issues
Creates    == {r \in Requests : Op(r) = "create"}   \* each names the challenge it issues
Solves     == {r \in Requests : Op(r) = "solve"}    \* each names the trust it earns
Unblocks   == {r \in Requests : Op(r) = "unblock"}
Browser(r) == InputOf[r].browser
Intent(c)  == InputOf[c].intent
Filled(c)  == InputOf[c].filled
Email(c)   == InputOf[c].email
Of(s)      == InputOf[s].of                         \* the challenge it answers
Network    == "network"
Sources    == Browsers \cup {Network}

\* The identifier (email, intent, origin) with the device and the network.
Scope(c) == <<Intent(c), Email(c), Browser(c)>>

GateAssumption ==
  /\ \A r \in Requests :
       /\ Op(r) \in {"issue", "create", "solve", "unblock"}
       /\ Op(r) = "create" => Intent(r) \in Intents /\ Email(r) \in Emails /\ Filled(r) \in BOOLEAN
       /\ Op(r) = "solve" => Of(r) \in Creates
       /\ Op(r) = "unblock" => InputOf[r].source \in Sources
  /\ \A b \in Batches :
       /\ b.requests \subseteq Requests /\ b.past \subseteq Intents \X Emails
       /\ \A p, q \in b.past : p[1] = q[1] => p = q
       /\ \A p \in b.past : p[1] \notin b.requests
  /\ \A r \in Requests : Op(r) # "unblock" => Browser(r) \in Browsers
  /\ IsFiniteSet(Requests) /\ "none" \notin Requests \cup Emails /\ Emails \cap Browsers = {}
  /\ Network \notin Browsers /\ MaxFaults \in Nat
  /\ {GuessLimit, DeviceGuesses, NetworkGuesses, IssueLimit, EmailLimit, IPBlockAfter} \subseteq Nat \ {0}

VARIABLES
  intent,   \* Redis: the form intents, with the email each is pinned to
  known,    \* Redis: registered device cookies
  block,    \* Redis: blocked devices and addresses
  strikes,  \* Redis: honeypot strikes of the address
  active,   \* Redis: the challenge that occupies its registration scope
  chal,     \* Redis: published challenges
  claim,    \* Redis: the completion that holds each challenge
  guesses,  \* Redis: completion attempts at each challenge
  tried,    \* Redis: registration completions of each device and of the network
  issued,   \* Redis: challenges issued to each device and to the network
  trust,    \* Redis: device trust, by the completion that earned it
  marker,   \* Redis: the create-chain marker of each intent
  bucket,   \* Redis: creations charged to each email and to each browser
  audit,    \* database: durable events of unblocking
  run,      \* what each request is doing
  asked,    \* history: completions whose proof was put to the provider
  proven,   \* history: completions whose proof the provider accepted
  created,  \* history: registrations begun with each intent
  faults    \* how many failures and expiries so far

gateVars == <<intent, known, block, strikes, active, chal, claim, guesses, tried, issued, trust,
              marker, bucket, audit, run, asked, proven, created, faults>>
formVars   == <<intent, known, block, strikes>>
proofVars  == <<chal, claim, guesses, tried, trust, asked, proven>>
issueVars  == <<active, issued>>
budgetVars == <<marker, bucket>>

Labels ==
  {"idle", "intent", "honeypot", "hit", "bind", "blocked", "decoy", "admit", "assess", "reserve",
   "rate", "begin", "finalize", "release", "email", "chain", "consume", "create", "refund",
   "guess", "scope", "verify", "spend", "trust", "unclaim", "unblock", "outcome", "done"}

Answers ==
  {"none", "issued", "limited", "unavailable", "invalid", "decoy", "internal", "failed", "unblocked",
   "challenge", "proof", "created", "conflict", "lost"}
States   == {"none", "young", "live", "spent", "expired"}
NoEmail  == "none"

TypeOK ==
  /\ intent \in [Intents -> [state : States, email : Emails \cup {NoEmail}]]
  /\ known \subseteq Browsers /\ block \subseteq Sources /\ strikes \in Nat
  /\ active \subseteq Creates /\ chal \subseteq Creates
  /\ claim \in [Creates -> Solves \cup {"none"}] /\ guesses \in [Creates -> Nat]
  /\ tried \in [Sources -> Nat] /\ issued \in [Sources -> Nat]
  /\ tried[Network] <= NetworkGuesses /\ \A b \in Browsers : tried[b] <= DeviceGuesses
  /\ trust \subseteq proven /\ proven \subseteq asked /\ asked \subseteq Solves
  /\ marker \in [Intents -> [uses : 0 .. 2, email : Emails \cup {NoEmail}, refunded : BOOLEAN]]
  /\ \A i \in Intents : marker[i].refunded => marker[i].uses > 0
  /\ bucket \in [Emails \cup Browsers -> Nat] /\ created \in [Intents -> Nat]
  /\ run \in [Requests -> [pc : Labels, answer : Answers]]
  /\ faults \in 0 .. MaxFaults

\* A past intent has been charged, spent and used.
PastOf(b, i)  == {e \in Emails : <<i, e>> \in b.past}
PastEmail(b, i) == IF PastOf(b, i) = {} THEN NoEmail ELSE CHOOSE e \in PastOf(b, i) : TRUE
Past(b, i)    == PastOf(b, i) # {}

Init ==
  /\ known = {} /\ block = {} /\ strikes = 0 /\ active = {} /\ chal = {}
  /\ claim = [c \in Creates |-> "none"] /\ guesses = [c \in Creates |-> 0]
  /\ tried = [x \in Sources |-> 0] /\ issued = [x \in Sources |-> 0]
  /\ trust = {} /\ proven = {} /\ asked = {}
  /\ audit = {} /\ faults = 0
  /\ \E b \in Batches :
       /\ run = [r \in Requests |-> [pc |-> IF r \in b.requests THEN "idle" ELSE "done",
                                     answer |-> "none"]]
       /\ intent = [i \in Intents |-> [state |-> IF Past(b, i) THEN "spent" ELSE "none",
                                       email |-> PastEmail(b, i)]]
       /\ marker = [i \in Intents |-> [uses |-> IF Past(b, i) THEN 1 ELSE 0,
                                       email |-> PastEmail(b, i), refunded |-> FALSE]]
       /\ created = [i \in Intents |-> IF Past(b, i) THEN 1 ELSE 0]
       /\ bucket = [x \in Emails \cup Browsers |->
                      Cardinality({p \in b.past : x \in {p[2], Browser(p[1])}})]

At(r, label)   == run[r].pc = label
Busy(r)        == run[r].pc \notin {"idle", "done"}
To(r, label)   == run' = [run EXCEPT ![r].pc = label]
Answer(r, a)   == run' = [run EXCEPT ![r].pc = "done", ![r].answer = a]
Then(r, label, a) == run' = [run EXCEPT ![r].pc = label, ![r].answer = a]
Answered(r, a) == run[r].pc = "done" /\ run[r].answer = a
NoFault        == UNCHANGED faults
Fault          == faults < MaxFaults /\ faults' = faults + 1

-----------------------------------------------------------------------------
(* Form intents *)

\* The funnel budgets come first; then the device cookie is registered.
EnsureDevice(r) ==
  /\ At(r, "idle") /\ Op(r) = "issue"
  /\ \/ known' = known \cup {Browser(r)} /\ To(r, "intent") /\ NoFault
     \/ known' = known /\ Answer(r, "limited") /\ Fault
  /\ UNCHANGED <<intent, block, strikes, issueVars, proofVars, budgetVars, audit, created>>

CreateFormIntent(r) ==
  /\ At(r, "intent")
  /\ intent' = [intent EXCEPT ![r].state = "young"]
  /\ (Answer(r, "issued") /\ NoFault) \/ (Answer(r, "unavailable") /\ Fault)
  /\ UNCHANGED <<known, block, strikes, issueVars, proofVars, budgetVars, audit, created>>

\* The browser tuple of the intent is the caller's, and it is neither too
\* young nor over.
Bound(c)  == Browser(Intent(c)) = Browser(c)
Ready(c)  == intent[Intent(c)].state = "live" /\ Bound(c)

\* The first clean submission pins its email to the intent.
Pinned_Overwritten(c) == TRUE
Pinned(c) == intent[Intent(c)].email \in {"none", Email(c)}

BindFormIntentEmail(r) ==
  /\ At(r, "bind")
  /\ \/ /\ Ready(r) /\ Pinned(r)
        /\ intent' = [intent EXCEPT ![Intent(r)].email = Email(r)]
        /\ (To(r, "blocked") /\ NoFault) \/ (Answer(r, "unavailable") /\ Fault)
     \/ ~(Ready(r) /\ Pinned(r)) /\ Answer(r, "invalid") /\ NoFault /\ UNCHANGED intent
  /\ UNCHANGED <<known, block, strikes, issueVars, proofVars, budgetVars, audit, created>>

\* Consumption asks for exactly the email pinned so far: none for a honeypot.
Consumable(c) ==
  Ready(c) /\ intent[Intent(c)].email = IF Filled(c) THEN "none" ELSE Email(c)

Spent_Kept(i) == UNCHANGED intent
Spent(i)      == intent' = [intent EXCEPT ![i].state = "spent"]

ConsumeFormIntent(r) ==
  /\ run[r].pc \in {"honeypot", "decoy", "consume"}
  /\ \/ /\ Consumable(r) /\ Spent(Intent(r))
        /\ \/ /\ NoFault
              /\ CASE At(r, "honeypot") -> To(r, "hit")
                   [] At(r, "decoy")    -> Answer(r, "decoy")
                   [] At(r, "consume")  -> To(r, "create")
           \/ Answer(r, "unavailable") /\ Fault
     \/ ~Consumable(r) /\ Answer(r, "invalid") /\ NoFault /\ UNCHANGED intent
     \/ Answer(r, "unavailable") /\ Fault /\ UNCHANGED intent
  /\ UNCHANGED <<known, block, strikes, issueVars, proofVars, budgetVars, audit, created>>

-----------------------------------------------------------------------------
(* Honeypot and blocks *)

\* A filled honeypot counts only once the caller has spent an intent of its own.
Classified_Unspent(r) == IF Filled(r) THEN "hit" ELSE "bind"
Classified(r) == IF Filled(r) THEN "honeypot" ELSE "bind"

ClassifyHoneypot(r) ==
  /\ At(r, "idle") /\ Op(r) = "create"
  /\ Answered(Intent(r), "issued")    \* the token was delivered
  /\ To(r, Classified(r))
  /\ UNCHANGED <<formVars, issueVars, proofVars, budgetVars, audit, created, faults>>

Struck(b) ==
  /\ strikes' = strikes + 1
  /\ block' = block \cup {b} \cup (IF strikes' >= IPBlockAfter THEN {Network} ELSE {})

RecordRegistrationHoneypot(r) ==
  /\ At(r, "hit") /\ Answer(r, "decoy")
  /\ \/ Struck(Browser(r)) /\ NoFault
     \/ UNCHANGED <<block, strikes>> /\ Fault   \* the decoy is served all the same
  /\ UNCHANGED <<intent, known, issueVars, proofVars, budgetVars, audit, created>>

IsRegistrationBlocked(r) ==
  /\ At(r, "blocked")
  /\ \/ To(r, IF block \cap {Browser(r), Network} # {} THEN "decoy" ELSE "admit") /\ NoFault
     \/ Answer(r, "unavailable") /\ Fault
  /\ UNCHANGED <<formVars, issueVars, proofVars, budgetVars, audit, created>>

\* An administrator revokes one block: the request is on record before the key
\* goes, the outcome after it.
Revoke(r) ==
  /\ At(r, "idle") /\ Op(r) = "unblock" /\ InputOf[r].source \in block
  /\ \/ audit' = audit \cup {<<r, "requested">>} /\ To(r, "unblock") /\ NoFault
     \/ Answer(r, "internal") /\ audit' \in {audit, audit \cup {<<r, "requested">>}} /\ Fault
  /\ UNCHANGED <<formVars, issueVars, proofVars, budgetVars, created>>

Forgiven_BlockOnly(source) == UNCHANGED strikes
Forgiven(source) == strikes' = IF source = Network THEN 0 ELSE strikes

UnblockRegistrationHash(r) ==
  /\ At(r, "unblock")
  /\ \/ /\ block' = block \ {InputOf[r].source} /\ Forgiven(InputOf[r].source)
        /\ To(r, "outcome") /\ NoFault
     \/ Then(r, "outcome", "failed") /\ UNCHANGED <<block, strikes>> /\ Fault
  /\ UNCHANGED <<intent, known, issueVars, proofVars, budgetVars, audit, created>>

RecordOutcome(r) ==
  /\ At(r, "outcome")
  /\ LET event == IF run[r].answer = "failed" THEN "failed" ELSE "unblocked" IN
     \/ /\ audit' = audit \cup {<<r, event>>} /\ NoFault
        /\ Answer(r, IF event = "failed" THEN "internal" ELSE "unblocked")
     \/ UNCHANGED audit /\ Answer(r, "internal") /\ Fault
  /\ UNCHANGED <<formVars, issueVars, proofVars, budgetVars, created>>

-----------------------------------------------------------------------------
(* The challenge *)

\* The in-process admission queue lets the request through or is busy.
Admit(r) ==
  /\ At(r, "admit")
  /\ (To(r, "assess") /\ NoFault) \/ (Answer(r, "limited") /\ Fault)
  /\ UNCHANGED <<formVars, issueVars, proofVars, budgetVars, audit, created>>

\* Trust belongs to the device, the operation and the identifier that earned it.
Trusted_DeviceOnly(r, s) == s \in trust /\ Browser(Of(s)) = Browser(r)
Trusted(r, s) == s \in trust /\ Scope(Of(s)) = Scope(r)

\* The browser presents whatever trust cookie it has, if any.
Assess(r) ==
  /\ At(r, "assess")
  /\ \/ To(r, "reserve") /\ NoFault
     \/ \E s \in trust : Trusted(r, s) /\ To(r, "email") /\ NoFault
     \/ Answer(r, "unavailable") /\ Fault
  /\ UNCHANGED <<formVars, issueVars, proofVars, budgetVars, audit, created>>

Free(c) == \A d \in active : Scope(d) # Scope(c)

ReserveRegistrationChallenge(r) ==
  /\ At(r, "reserve")
  /\ \/ /\ Free(r) /\ active' = active \cup {r}
        /\ (To(r, "rate") /\ NoFault) \/ (Answer(r, "unavailable") /\ Fault)
     \/ ~Free(r) /\ Answer(r, "limited") /\ NoFault /\ UNCHANGED active
  /\ UNCHANGED <<formVars, issued, proofVars, budgetVars, audit, created>>

CheckRegistrationIssueRate(r) ==
  /\ At(r, "rate")
  /\ \/ /\ issued[Browser(r)] < IssueLimit
        /\ issued' = [x \in Sources |-> issued[x] + IF x \in {Browser(r), Network} THEN 1 ELSE 0]
        /\ To(r, "begin") /\ NoFault
     \/ /\ issued[Browser(r)] >= IssueLimit
        /\ Then(r, "release", "limited") /\ NoFault /\ UNCHANGED issued
     \/ Then(r, "release", "unavailable") /\ Fault /\ UNCHANGED issued
  /\ UNCHANGED <<formVars, active, proofVars, budgetVars, audit, created>>

\* The provider opens a challenge, within the issue queue; registration has no
\* computational fallback.
Begin(r) ==
  /\ At(r, "begin")
  /\ (To(r, "finalize") /\ NoFault) \/ (Then(r, "release", "unavailable") /\ Fault)
  /\ UNCHANGED <<formVars, issueVars, proofVars, budgetVars, audit, created>>

\* Only the owner of the scope publishes; its lease becomes the challenge's life.
Owned_Unchecked(r) == TRUE
Owned(r) == r \in active

FinalizeRegistrationChallenge(r) ==
  /\ At(r, "finalize")
  /\ \/ Owned(r) /\ chal' = chal \cup {r} /\ Answer(r, "challenge") /\ NoFault
     \/ /\ Owned(r) /\ chal' \in {chal, chal \cup {r}}
        /\ Then(r, "release", "unavailable") /\ Fault
     \/ ~Owned(r) /\ Then(r, "release", "unavailable") /\ NoFault /\ UNCHANGED chal
  /\ UNCHANGED <<formVars, issueVars, claim, guesses, tried, trust, asked, proven, budgetVars,
                 audit, created>>

ReleaseRegistrationChallenge(r) ==
  /\ At(r, "release") /\ Answer(r, run[r].answer)
  /\ (active' = active \ {r} /\ NoFault) \/ (UNCHANGED active /\ Fault)
  /\ UNCHANGED <<formVars, issued, proofVars, budgetVars, audit, created>>

-----------------------------------------------------------------------------
(* Completing it *)

ClaimChallenge(r) ==
  /\ At(r, "idle") /\ Op(r) = "solve" /\ Answered(Of(r), "challenge")
  /\ LET c == Of(r) IN
     \/ /\ claim[c] = "none" /\ c \in chal /\ claim' = [claim EXCEPT ![c] = r]
        /\ (To(r, "guess") /\ NoFault) \/ (Answer(r, "invalid") /\ Fault)
     \/ (claim[c] # "none" \/ c \notin chal) /\ Answer(r, "invalid") /\ NoFault /\ UNCHANGED claim
  /\ UNCHANGED <<formVars, issueVars, chal, guesses, tried, trust, asked, proven, budgetVars,
                 audit, created>>

\* The counter of the challenge moves even when it denies.
Allowed(c) == guesses[c] < GuessLimit

CheckCompletionRate(r) ==
  /\ At(r, "guess")
  /\ LET c == Of(r) IN
     \/ /\ Browser(r) = Browser(c) /\ guesses' = [guesses EXCEPT ![c] = @ + 1]
        /\ IF Allowed(c) THEN To(r, "scope") ELSE Then(r, "unclaim", "limited")
        /\ NoFault
     \/ Browser(r) # Browser(c) /\ Then(r, "unclaim", "invalid") /\ NoFault /\ UNCHANGED guesses
     \/ Then(r, "unclaim", "unavailable") /\ Fault /\ UNCHANGED guesses
  /\ UNCHANGED <<formVars, issueVars, chal, claim, tried, trust, asked, proven, budgetVars,
                 audit, created>>

\* Neither bucket moves once one is exhausted.
Room_OneMore(b) == tried[b] <= DeviceGuesses /\ tried[Network] < NetworkGuesses
Room(b) == tried[b] < DeviceGuesses /\ tried[Network] < NetworkGuesses

CheckRegistrationCompletionRate(r) ==
  /\ At(r, "scope")
  /\ LET b == Browser(Of(r)) IN
     \/ /\ Room(b) /\ tried' = [x \in Sources |-> tried[x] + IF x \in {b, Network} THEN 1 ELSE 0]
        /\ To(r, "verify") /\ NoFault
     \/ ~Room(b) /\ Then(r, "unclaim", "limited") /\ NoFault /\ UNCHANGED tried
     \/ Then(r, "unclaim", "unavailable") /\ Fault /\ UNCHANGED tried
  /\ UNCHANGED <<formVars, issueVars, chal, claim, guesses, trust, asked, proven, budgetVars,
                 audit, created>>

VerifyProof(r) ==
  /\ At(r, "verify")
  /\ asked' = asked \cup {r}
  /\ \/ InputOf[r].right /\ proven' = proven \cup {r} /\ To(r, "spend") /\ NoFault
     \/ ~InputOf[r].right /\ Then(r, "unclaim", "invalid") /\ NoFault /\ UNCHANGED proven
     \/ Then(r, "unclaim", "invalid") /\ Fault /\ UNCHANGED proven
  /\ UNCHANGED <<formVars, issueVars, chal, claim, guesses, tried, trust, budgetVars, audit, created>>

\* The claim authorises it, and only the challenge's own scope is cleared.
Held(r) == claim[Of(r)] = r
Cleared(c) == claim' = [claim EXCEPT ![c] = "none"] /\ active' = active \ {c}

ConsumeRegistrationChallenge(r) ==
  /\ At(r, "spend")
  /\ LET c == Of(r) IN
     \/ /\ Held(r) /\ Cleared(c) /\ chal' = chal \ {c}
        /\ \/ (IF c \in chal THEN To(r, "trust") ELSE Answer(r, "invalid")) /\ NoFault
           \/ Answer(r, "invalid") /\ Fault
     \/ ~Held(r) /\ Answer(r, "invalid") /\ NoFault /\ UNCHANGED <<chal, claim, active>>
  /\ UNCHANGED <<formVars, issued, guesses, tried, trust, asked, proven, budgetVars, audit, created>>

PutTrust(r) ==
  /\ At(r, "trust")
  /\ \/ trust' = trust \cup {r} /\ Answer(r, "proof") /\ NoFault
     \/ trust' \in {trust, trust \cup {r}} /\ Answer(r, "unavailable") /\ Fault
  /\ UNCHANGED <<formVars, issueVars, chal, claim, guesses, tried, asked, proven, budgetVars,
                 audit, created>>

ReleaseChallenge(r) ==
  /\ At(r, "unclaim") /\ Answer(r, run[r].answer)
  /\ \/ /\ claim' = IF claim[Of(r)] = r THEN [claim EXCEPT ![Of(r)] = "none"] ELSE claim
        /\ NoFault
     \/ UNCHANGED claim /\ Fault
  /\ UNCHANGED <<formVars, issueVars, chal, guesses, tried, trust, asked, proven, budgetVars,
                 audit, created>>

-----------------------------------------------------------------------------
(* Budgets, and the registration itself *)

AssessEmail(r) ==
  /\ At(r, "email")
  /\ (To(r, "chain") /\ NoFault) \/ (Answer(r, "unavailable") /\ Fault)
  /\ UNCHANGED <<formVars, issueVars, proofVars, budgetVars, audit, created>>

\* The first use of an intent charges every bucket at once, or none; one more
\* use with the same binding is free.
Charged_EveryUse(r) == TRUE
Charged(r) == marker[Intent(r)].uses = 0

CheckRegistrationCreateChain(r) ==
  /\ At(r, "chain")
  /\ LET i == Intent(r) IN
     \/ /\ marker[i].uses = 0 \/ (marker[i].uses = 1 /\ marker[i].email = Email(r))
        /\ marker[i].uses = 0 => bucket[Email(r)] < EmailLimit
        /\ marker' = [marker EXCEPT ![i].uses = @ + 1, ![i].email = Email(r)]
        /\ bucket' = IF Charged(r) THEN [bucket EXCEPT ![Email(r)] = @ + 1, ![Browser(r)] = @ + 1]
                                   ELSE bucket
        /\ (To(r, "consume") /\ NoFault) \/ (Answer(r, "limited") /\ Fault)
     \/ /\ marker[i].uses = 0 /\ bucket[Email(r)] >= EmailLimit
        /\ Answer(r, "limited") /\ NoFault /\ UNCHANGED budgetVars
     \/ /\ marker[i].uses = 2 \/ (marker[i].uses = 1 /\ marker[i].email # Email(r))
        /\ Answer(r, "invalid") /\ NoFault /\ UNCHANGED budgetVars
  /\ UNCHANGED <<formVars, issueVars, proofVars, audit, created>>

\* The registration service: a new pending account, a conflict, or a failure.
Create(r) ==
  /\ At(r, "create")
  /\ created' = [created EXCEPT ![Intent(r)] = @ + 1]
  /\ \/ Answer(r, "created") /\ NoFault
     \/ To(r, "refund") /\ NoFault
     \/ Answer(r, "unavailable") /\ Fault
  /\ UNCHANGED <<formVars, issueVars, proofVars, budgetVars, audit>>

Refundable(i) == marker[i].uses > 0 /\ ~marker[i].refunded

\* A conflict gives the email budget back, once; the browser's stays charged.
RefundRegistrationCreateCohorts(r) ==
  /\ At(r, "refund") /\ Answer(r, "conflict")
  /\ LET i == Intent(r) IN
     \/ /\ Refundable(i) /\ NoFault
        /\ marker' = [marker EXCEPT ![i].refunded = TRUE]
        /\ bucket' = [bucket EXCEPT ![Email(r)] = @ - 1]
     \/ UNCHANGED budgetVars /\ Fault
  /\ UNCHANGED <<formVars, issueVars, proofVars, audit, created>>

-----------------------------------------------------------------------------
(* Time and failure *)

Ripen(i) ==
  /\ intent[i].state = "young" /\ intent' = [intent EXCEPT ![i].state = "live"]
  /\ UNCHANGED <<known, block, strikes, issueVars, proofVars, budgetVars, audit, run, created, faults>>

ExpireIntent(i) ==
  /\ intent[i].state \in {"young", "live"} /\ Fault
  /\ intent' = [intent EXCEPT ![i].state = "expired"]
  /\ UNCHANGED <<known, block, strikes, issueVars, proofVars, budgetVars, audit, run, created>>

\* A published challenge and its scope share one lifetime; a reservation has
\* its own, shorter than an issuer may take.
ExpireChallenge(c) ==
  /\ c \in active /\ Fault /\ active' = active \ {c} /\ chal' = chal \ {c}
  /\ UNCHANGED <<formVars, issued, claim, guesses, tried, trust, asked, proven, budgetVars, audit,
                 run, created>>

ExpireClaim(c) ==
  /\ claim[c] # "none" /\ Fault /\ claim' = [claim EXCEPT ![c] = "none"]
  /\ UNCHANGED <<formVars, issueVars, chal, guesses, tried, trust, asked, proven, budgetVars, audit,
                 run, created>>

ExpireTrust(s) ==
  /\ s \in trust /\ Fault /\ trust' = trust \ {s}
  /\ UNCHANGED <<formVars, issueVars, chal, claim, guesses, tried, asked, proven, budgetVars, audit,
                 run, created>>

Crash(r) ==
  /\ Busy(r) /\ Fault /\ Answer(r, "lost")
  /\ UNCHANGED <<formVars, issueVars, proofVars, budgetVars, audit, created>>

-----------------------------------------------------------------------------
(* The specification *)

IssueFormIntent(r)  == EnsureDevice(r) \/ CreateFormIntent(r)
IssueChallenge(r)   == \/ ReserveRegistrationChallenge(r) \/ CheckRegistrationIssueRate(r)
                       \/ Begin(r) \/ FinalizeRegistrationChallenge(r)
                       \/ ReleaseRegistrationChallenge(r)
RequireRegistration(r) == Assess(r) \/ IssueChallenge(r)
CreateHandler(r)    == \/ ClassifyHoneypot(r) \/ RecordRegistrationHoneypot(r)
                       \/ BindFormIntentEmail(r) \/ IsRegistrationBlocked(r) \/ Admit(r)
                       \/ RequireRegistration(r) \/ AssessEmail(r) \/ CheckRegistrationCreateChain(r)
                       \/ ConsumeFormIntent(r) \/ Create(r) \/ RefundRegistrationCreateCohorts(r)
Complete(r)         == \/ ClaimChallenge(r) \/ CheckCompletionRate(r)
                       \/ CheckRegistrationCompletionRate(r) \/ VerifyProof(r)
                       \/ ConsumeRegistrationChallenge(r) \/ PutTrust(r) \/ ReleaseChallenge(r)
RevokeBlock(r)      == Revoke(r) \/ UnblockRegistrationHash(r) \/ RecordOutcome(r)

Next ==
  \/ \E r \in Intents : IssueFormIntent(r)
  \/ \E r \in Creates : CreateHandler(r)
  \/ \E r \in Solves : Complete(r)
  \/ \E r \in Unblocks : RevokeBlock(r)
  \/ \E r \in Requests : Crash(r)
  \/ \E i \in Intents : Ripen(i) \/ ExpireIntent(i)
  \/ \E c \in Creates : ExpireChallenge(c) \/ ExpireClaim(c)
  \/ \E s \in Solves : ExpireTrust(s)

Spec == Init /\ [][Next]_gateVars

-----------------------------------------------------------------------------
(* Properties *)

Charging(e) == {i \in Intents : marker[i].uses > 0 /\ marker[i].email = e /\ ~marker[i].refunded}
Used(b)     == {i \in Intents : marker[i].uses > 0 /\ Browser(i) = b}

\* An intent starts at most one registration, is spent and charged before it
\* does, and stays spent (Create, consumeRegistrationFormIntentWithBinding).
OneRegistration ==
  \A i \in Intents : created[i] <= 1 /\ (created[i] = 1 => intent[i].state = "spent"
                                                           /\ marker[i].uses > 0)

\* Whatever reaches the registration service was proven human by a challenge
\* of the very same form: same intent, email and device (RequireRegistration).
HumanProven ==
  \A r \in Creates : run[r].pc \in {"email", "chain", "consume", "create", "refund"}
                       => \E s \in proven : Scope(Of(s)) = Scope(r)

\* Budgets are exact: an email is charged for the intents whose conflict did
\* not give it back, a browser for every intent (registrationCreateChainScript).
BudgetsExact ==
  /\ \A e \in Emails : bucket[e] = Cardinality(Charging(e))
  /\ \A b \in Browsers : bucket[b] = Cardinality(Used(b))

Delivered == {c \in chal : Answered(c, "challenge")}

\* A scope has one challenge out at a time, however slow its issuer was and
\* however many submissions race for it; one whose publication went unanswered
\* may linger, with a token nobody has (FinalizeRegistrationChallenge).
SoleChallenge ==
  \A c \in Delivered : c \in active /\ \A d \in Delivered : Scope(d) = Scope(c) => d = c

\* The provider is asked about a challenge and by a device a bounded number of
\* times, whatever is retried, claimed anew or lost (Complete).
GuessesBounded ==
  /\ \A c \in Creates : Cardinality({s \in asked : Of(s) = c}) <= GuessLimit
  /\ \A b \in Browsers : Cardinality({s \in asked : Browser(Of(s)) = b}) <= DeviceGuesses

\* Every strike cost an intent of its own, and an address is blocked exactly
\* while its strikes say so (recordRegistrationHoneypotScript).
StrikesEarned ==
  /\ strikes <= Cardinality({i \in Intents : intent[i].state = "spent"})
  /\ Network \in block <=> strikes >= IPBlockAfter

\* An email pinned to an intent stays, and a spent intent never comes back
\* (bindRegistrationFormIntentEmailScript).
PinKept ==
  \A i \in Intents : /\ intent[i].email # "none" => intent'[i].email = intent[i].email
                     /\ intent[i].state \in {"spent", "expired"} => intent'[i].state = intent[i].state
=============================================================================
