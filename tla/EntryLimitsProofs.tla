-------------------------- MODULE EntryLimitsProofs --------------------------
(***************************************************************************)
(* Theorems about RegistrationGate, the admission queue in front of its    *)
(* work, the registration itself, the recovery of an account and the       *)
(* notices about it, one after the other: each has its own Spec, and its   *)
(* assumption on the constants is a hypothesis of each theorem.  At the    *)
(* gate, what a request may rely on further down its path was established  *)
(* on the way there, and strikes, guesses and charges are counted against  *)
(* the intents and completions themselves.                                 *)
(***************************************************************************)
EXTENDS RegistrationGate, FiniteSetTheorems, TLAPS

(***************************************************************************)
(* What a request has behind it where it stands                            *)
(***************************************************************************)
Accepted == {"blocked", "decoy", "admit", "assess", "reserve", "rate", "begin", "finalize", "email",
             "chain", "consume", "create", "refund"}
Human    == {"email", "chain", "consume", "create", "refund"}
Paid     == {"consume", "create", "refund"}

\* A form that is being issued has no intent yet.
Fresh == \A i \in Intents : run[i].pc \in {"idle", "intent"} => intent[i].state = "none"

\* A submission that was accepted comes from the browser of its intent; one
\* that was let through has paid for it; one on its way out has no challenge.
Carried ==
  \A r \in Creates :
    /\ run[r].pc \in Accepted => Bound(r)
    /\ run[r].pc \in Paid => marker[Intent(r)].uses > 0 /\ marker[Intent(r)].email = Email(r)
    /\ run[r].pc = "release" => run[r].answer # "challenge"

\* A completion spends its challenge once its proof was accepted.
Shown == \A s \in Solves : run[s].pc \in {"spend", "trust"} => s \in proven

Placed == Fresh /\ Carried /\ Shown

(***************************************************************************)
(* One registration for each intent                                        *)
(***************************************************************************)
AtService(i) == {r \in Creates : Intent(r) = i /\ run[r].pc = "create"}
Sole ==
  \A i \in Intents :
    /\ created[i] # 0 => created[i] = 1 /\ intent[i].state = "spent" /\ marker[i].uses > 0
    /\ AtService(i) # {} => created[i] = 0 /\ intent[i].state = "spent" /\ marker[i].uses > 0
    /\ \A r, s \in AtService(i) : r = s

(***************************************************************************)
(* A strike for each intent spent on a honeypot; at most as many guesses   *)
(* as were counted, those under way included                               *)
(***************************************************************************)
Hits  == {r \in Creates : run[r].pc = "hit"}
Gone  == {i \in Intents : intent[i].state = "spent"}
StrikesPaid == strikes + Cardinality(Hits) <= Cardinality(Gone)
Blocking == Network \in block <=> strikes >= IPBlockAfter

Guessing(c) == {s \in Solves : Of(s) = c /\ (s \in asked \/ run[s].pc \in {"scope", "verify"})}
Trying(b)   == {s \in Solves : Browser(Of(s)) = b /\ (s \in asked \/ run[s].pc = "verify")}
Counted ==
  /\ \A c \in Creates : /\ Cardinality(Guessing(c)) <= guesses[c]
                        /\ Cardinality(Guessing(c)) <= GuessLimit
  /\ \A b \in Browsers : Cardinality(Trying(b)) <= tried[b]

\* A challenge that was delivered occupies its scope, alone.
Occupied ==
  /\ \A c, d \in active : Scope(c) = Scope(d) => c = d
  /\ \A c \in chal : Answered(c, "challenge") => c \in active

GateInv ==
  /\ TypeOK /\ Placed /\ HumanProven /\ Sole /\ StrikesPaid /\ Blocking /\ Counted
  /\ BudgetsExact /\ Occupied

-----------------------------------------------------------------------------
(* The requests and the moves they make *)

LEMMA Kinds ==
  ASSUME GateAssumption
  PROVE  /\ \A r \in Creates : /\ r \in Requests /\ Intent(r) \in Intents /\ Email(r) \in Emails
                               /\ Browser(r) \in Browsers /\ Filled(r) \in BOOLEAN
         /\ \A r \in Intents : r \in Requests /\ Browser(r) \in Browsers /\ r \notin Creates \cup Solves
         /\ \A r \in Solves : /\ r \in Requests /\ Of(r) \in Creates /\ r \notin Creates
                              /\ Browser(Of(r)) \in Browsers
         /\ \A r \in Unblocks : /\ r \in Requests /\ InputOf[r].source \in Sources
                                /\ r \notin Creates \cup Solves \cup Intents
         /\ {GuessLimit, DeviceGuesses, NetworkGuesses, IssueLimit, EmailLimit, IPBlockAfter}
              \subseteq Nat \ {0}
         /\ NoEmail \notin Emails /\ Emails \cap Browsers = {} /\ Network \notin Browsers
         /\ MaxFaults \in Nat
  BY DEF GateAssumption, Intents, Creates, Solves, Unblocks, Op, Intent, Email, Browser, Filled, Of,
         NoEmail

LEMMA Finite ==
  ASSUME GateAssumption, NEW S \in SUBSET Requests
  PROVE  IsFiniteSet(S) /\ Cardinality(S) \in Nat
  BY FS_Subset, FS_CardinalityType DEF GateAssumption

LEMMA OneMore ==
  ASSUME GateAssumption, NEW S \in SUBSET Requests, NEW x \in Requests, NEW T, T \subseteq S \cup {x}
  PROVE  Cardinality(T) \in Nat /\ Cardinality(T) <= Cardinality(S) + 1
<1>1. /\ IsFiniteSet(S \cup {x}) /\ Cardinality(S \cup {x}) <= Cardinality(S) + 1
      /\ Cardinality(S) \in Nat /\ Cardinality(S \cup {x}) \in Nat
  BY Finite, FS_AddElement, FS_CardinalityType
<1>2. Cardinality(T) <= Cardinality(S \cup {x}) /\ Cardinality(T) \in Nat
  BY <1>1, FS_Subset, FS_CardinalityType
<1> QED BY <1>1, <1>2

LEMMA NoMore ==
  ASSUME GateAssumption, NEW S \in SUBSET Requests, NEW T, T \subseteq S
  PROVE  /\ Cardinality(T) \in Nat /\ Cardinality(S) \in Nat /\ Cardinality(T) <= Cardinality(S)
  BY Finite, FS_Subset, FS_CardinalityType

LEMMA Added ==
  ASSUME GateAssumption, NEW S \in SUBSET Requests, NEW x \in Requests, x \notin S
  PROVE  Cardinality(S \cup {x}) = Cardinality(S) + 1
  BY Finite, FS_AddElement

LEMMA Removed ==
  ASSUME GateAssumption, NEW S \in SUBSET Requests, NEW x \in S
  PROVE  Cardinality(S \ {x}) = Cardinality(S) - 1
  BY Finite, FS_RemoveElement

\* A request that moves leaves the others where they are.
Goes(r, l, a) ==
  /\ run' \in [Requests -> [pc : Labels, answer : Answers]]
  /\ run'[r].pc = l /\ run'[r].answer = a
  /\ \A s \in Requests \ {r} : run'[s] = run[s]

LEMMA Moving ==
  ASSUME TypeOK, NEW r \in Requests, NEW l \in Labels, NEW a \in Answers
  PROVE  /\ To(r, l) => Goes(r, l, run[r].answer)
         /\ Answer(r, a) => Goes(r, "done", a)
         /\ Then(r, l, a) => Goes(r, l, a)
         /\ run[r].answer \in Answers
<1>1. /\ run \in [Requests -> [pc : Labels, answer : Answers]] /\ run[r].answer \in Answers
      /\ "done" \in Labels
  BY DEF TypeOK, Labels
<1>2. ASSUME To(r, l) PROVE Goes(r, l, run[r].answer)
  BY <1>1, <1>2 DEF To, Goes
<1>3. ASSUME Answer(r, a) PROVE Goes(r, "done", a)
  BY <1>1, <1>3 DEF Answer, Goes
<1>4. ASSUME Then(r, l, a) PROVE Goes(r, l, a)
  BY <1>1, <1>4 DEF Then, Goes
<1> QED BY <1>1, <1>2, <1>3, <1>4

-----------------------------------------------------------------------------
(* What a step of the form handler does *)

Still == UNCHANGED <<intent, strikes, block, marker, bucket, created>>
Proofless == UNCHANGED <<guesses, tried, trust, asked, proven>>

\* It goes on, is refused, or ends, and only it moves.
Ahead(r, l) ==
  \/ run[r].pc = "idle" /\ l \in {"honeypot", "bind"}
  \/ run[r].pc = "blocked" /\ l \in {"decoy", "admit"}
  \/ run[r].pc = "admit" /\ l = "assess"
  \/ run[r].pc = "assess" /\ l = "reserve"
  \/ run[r].pc = "assess" /\ l = "email" /\ \E s \in trust : Trusted(r, s)
  \/ run[r].pc \in {"rate", "begin", "finalize"} /\ l \in {"begin", "finalize", "release"}
  \/ run[r].pc = "email" /\ l = "chain"
  \/ l = "done"

Onward(r) ==
  /\ Still /\ UNCHANGED <<active, chal>>
  /\ \E l \in Labels, a \in Answers \ {"challenge"} :
       Goes(r, l, IF l \in {"release", "done"} THEN a ELSE run[r].answer) /\ Ahead(r, l)

Binds(r) ==
  /\ run[r].pc = "bind" /\ Ready(r) /\ Pinned(r)
  /\ intent' = [intent EXCEPT ![Intent(r)].email = Email(r)]
  /\ UNCHANGED <<strikes, block, marker, bucket, created, active, chal>>
  /\ \/ Goes(r, "blocked", run[r].answer)
     \/ Goes(r, "done", "unavailable")

Spends(r) ==
  /\ run[r].pc \in {"honeypot", "decoy", "consume"} /\ Consumable(r) /\ Spent(Intent(r))
  /\ UNCHANGED <<strikes, block, marker, bucket, created, active, chal>>
  /\ \/ run[r].pc = "honeypot" /\ Goes(r, "hit", run[r].answer)
     \/ run[r].pc = "consume" /\ Goes(r, "create", run[r].answer)
     \/ \E a \in {"decoy", "unavailable"} : Goes(r, "done", a)

Strikes(r) ==
  /\ run[r].pc = "hit" /\ Goes(r, "done", "decoy") /\ Struck(Browser(r))
  /\ UNCHANGED <<intent, marker, bucket, created, active, chal>>

Reserves(r) ==
  /\ run[r].pc = "reserve" /\ Free(r) /\ active' = active \cup {r} /\ Still /\ UNCHANGED chal
  /\ Goes(r, "rate", run[r].answer) \/ Goes(r, "done", "unavailable")

Publishes(r) ==
  /\ run[r].pc = "finalize" /\ r \in active /\ Still /\ UNCHANGED active
  /\ \/ chal' = chal \cup {r} /\ Goes(r, "done", "challenge")
     \/ chal' \in {chal, chal \cup {r}} /\ Goes(r, "release", "unavailable")

Releases(r) ==
  /\ run[r].pc = "release" /\ active' = active \ {r} /\ Still /\ UNCHANGED chal
  /\ Goes(r, "done", run[r].answer)

Charges(r) ==
  /\ run[r].pc = "chain"
  /\ marker[Intent(r)].uses = 0 \/ (marker[Intent(r)].uses = 1 /\ marker[Intent(r)].email = Email(r))
  /\ marker' = [marker EXCEPT ![Intent(r)].uses = @ + 1, ![Intent(r)].email = Email(r)]
  /\ bucket' = IF marker[Intent(r)].uses = 0
               THEN [bucket EXCEPT ![Email(r)] = @ + 1, ![Browser(r)] = @ + 1] ELSE bucket
  /\ UNCHANGED <<intent, strikes, block, created, active, chal>>
  /\ Goes(r, "consume", run[r].answer) \/ Goes(r, "done", "limited")

Registers(r) ==
  /\ run[r].pc = "create" /\ created' = [created EXCEPT ![Intent(r)] = @ + 1]
  /\ UNCHANGED <<intent, strikes, block, marker, bucket, active, chal>>
  /\ \/ Goes(r, "refund", run[r].answer)
     \/ \E a \in {"created", "unavailable"} : Goes(r, "done", a)

Refunds(r) ==
  /\ run[r].pc = "refund" /\ Refundable(Intent(r)) /\ Goes(r, "done", "conflict")
  /\ marker' = [marker EXCEPT ![Intent(r)].refunded = TRUE]
  /\ bucket' = [bucket EXCEPT ![Email(r)] = @ - 1]
  /\ UNCHANGED <<intent, strikes, block, created, active, chal>>

Handles(r) ==
  \/ Onward(r) \/ Binds(r) \/ Spends(r) \/ Strikes(r) \/ Reserves(r) \/ Publishes(r) \/ Releases(r)
  \/ Charges(r) \/ Registers(r) \/ Refunds(r)

LEMMA GoesOn ==
  ASSUME TypeOK, NEW r \in Requests, NEW l \in Labels, NEW a \in Answers \ {"challenge"},
         Still, UNCHANGED <<active, chal>>, Ahead(r, l),
         \/ l \notin {"release", "done"} /\ To(r, l)
         \/ l = "done" /\ Answer(r, a)
         \/ l = "release" /\ Then(r, l, a)
  PROVE  Onward(r)
  BY Moving DEF Onward

LEMMA LabelSets ==
  /\ Accepted \cup Human \cup Paid \cup {"idle", "intent", "honeypot", "hit", "bind", "blocked",
      "decoy", "admit", "assess", "reserve", "rate", "begin", "finalize", "release", "email",
      "chain", "consume", "create", "refund", "guess", "scope", "verify", "spend", "trust",
      "unclaim", "unblock", "outcome", "done"} \subseteq Labels
  /\ {"none", "issued", "limited", "unavailable", "invalid", "decoy", "internal", "failed",
      "unblocked", "challenge", "proof", "created", "conflict", "lost"} \subseteq Answers
  BY DEF Labels, Answers, Accepted, Human, Paid

LEMMA HandlerStep ==
  ASSUME GateAssumption, TypeOK, Placed, NEW r \in Creates, CreateHandler(r)
  PROVE  Handles(r) /\ Proofless
<1>1. r \in Requests /\ Op(r) = "create"
  BY Kinds DEF Creates
<1>2. CASE ClassifyHoneypot(r)
  <2>1. Classified(r) \in {"honeypot", "bind"} /\ To(r, Classified(r)) /\ run[r].pc = "idle"
    BY <1>2 DEF ClassifyHoneypot, Classified, At
  <2>2. Still /\ Proofless /\ UNCHANGED <<active, chal>>
    BY <1>2 DEF ClassifyHoneypot, Still, Proofless, formVars, proofVars, issueVars, budgetVars
  <2>3. Onward(r)
    BY <1>1, <2>1, <2>2, GoesOn, LabelSets DEF Ahead
  <2> QED BY <2>2, <2>3 DEF Handles
<1>3. CASE RecordRegistrationHoneypot(r)
  <2>1. run[r].pc = "hit" /\ Answer(r, "decoy") /\ Proofless
        /\ UNCHANGED <<intent, marker, bucket, created, active, chal>>
    BY <1>3 DEF RecordRegistrationHoneypot, At, Proofless, issueVars, proofVars, budgetVars
  <2>2. CASE Struck(Browser(r))
    BY <1>1, <2>1, Moving, LabelSets, <2>2 DEF Handles, Strikes
  <2>3. CASE UNCHANGED <<block, strikes>>
    BY <1>1, <2>1, <2>3, GoesOn, LabelSets DEF Ahead, Still, Handles
  <2> QED BY <1>3, <2>2, <2>3 DEF RecordRegistrationHoneypot
<1>4. CASE BindFormIntentEmail(r)
  <2>1. run[r].pc = "bind" /\ Proofless
        /\ UNCHANGED <<strikes, block, marker, bucket, created, active, chal>>
    BY <1>4 DEF BindFormIntentEmail, At, Proofless, issueVars, proofVars, budgetVars
  <2>2. CASE Ready(r) /\ Pinned(r) /\ intent' = [intent EXCEPT ![Intent(r)].email = Email(r)]
             /\ (To(r, "blocked") \/ Answer(r, "unavailable"))
    BY <1>1, <2>2, Moving, LabelSets, <2>1 DEF Handles, Binds
  <2>3. CASE Answer(r, "invalid") /\ UNCHANGED intent
    BY <1>1, <2>1, <2>3, GoesOn, LabelSets DEF Ahead, Still, Handles
  <2> QED BY <1>4, <2>2, <2>3 DEF BindFormIntentEmail
<1>5. CASE IsRegistrationBlocked(r)
  <2>1. /\ run[r].pc = "blocked" /\ Still /\ Proofless /\ UNCHANGED <<active, chal>>
        /\ (\E l \in {"decoy", "admit"} : To(r, l)) \/ Answer(r, "unavailable")
    BY <1>5 DEF IsRegistrationBlocked, At, Still, Proofless, formVars, issueVars, proofVars, budgetVars
  <2>2. Onward(r)
    BY <1>1, <2>1, GoesOn, LabelSets DEF Ahead
  <2> QED BY <2>1, <2>2 DEF Handles
<1>6. CASE Admit(r) \/ Begin(r) \/ AssessEmail(r)
  <2>1. /\ Still /\ Proofless /\ UNCHANGED <<active, chal>>
        /\ \/ run[r].pc = "admit" /\ (To(r, "assess") \/ Answer(r, "limited"))
           \/ run[r].pc = "begin" /\ (To(r, "finalize") \/ Then(r, "release", "unavailable"))
           \/ run[r].pc = "email" /\ (To(r, "chain") \/ Answer(r, "unavailable"))
    BY <1>6 DEF Admit, Begin, AssessEmail, At, Still, Proofless, formVars, issueVars, proofVars,
                budgetVars
  <2>2. Onward(r)
    BY <1>1, <2>1, GoesOn, LabelSets DEF Ahead
  <2> QED BY <2>1, <2>2 DEF Handles
<1>7. CASE Assess(r)
  <2>1. /\ run[r].pc = "assess" /\ Still /\ Proofless /\ UNCHANGED <<active, chal>>
        /\ \/ To(r, "reserve") \/ Answer(r, "unavailable")
           \/ \E s \in trust : Trusted(r, s) /\ To(r, "email")
    BY <1>7 DEF Assess, At, Still, Proofless, formVars, issueVars, proofVars, budgetVars
  <2>2. Onward(r)
    BY <1>1, <2>1, GoesOn, LabelSets DEF Ahead
  <2> QED BY <2>1, <2>2 DEF Handles
<1>8. CASE ReserveRegistrationChallenge(r)
  <2>1. run[r].pc = "reserve" /\ Still /\ Proofless /\ UNCHANGED chal
    BY <1>8 DEF ReserveRegistrationChallenge, At, Still, Proofless, formVars, proofVars, budgetVars
  <2>2. CASE /\ Free(r) /\ active' = active \cup {r}
             /\ To(r, "rate") \/ Answer(r, "unavailable")
    BY <1>1, <2>2, Moving, LabelSets, <2>1 DEF Handles, Reserves
  <2>3. CASE Answer(r, "limited") /\ UNCHANGED active
    BY <1>1, <2>1, <2>3, GoesOn, LabelSets DEF Ahead, Handles
  <2> QED BY <1>8, <2>2, <2>3 DEF ReserveRegistrationChallenge
<1>9. CASE CheckRegistrationIssueRate(r)
  BY <1>9, <1>1, GoesOn, LabelSets DEF CheckRegistrationIssueRate, At, Still, Proofless, formVars, proofVars,
     budgetVars, Ahead, Handles
<1>10. CASE FinalizeRegistrationChallenge(r)
  <2>1. run[r].pc = "finalize" /\ Still /\ Proofless /\ UNCHANGED active
    BY <1>10 DEF FinalizeRegistrationChallenge, At, Still, Proofless, formVars, issueVars, budgetVars
  <2>2. CASE Owned(r) /\ chal' = chal \cup {r} /\ Answer(r, "challenge")
    BY <1>1, <2>2, Moving, LabelSets, <2>1 DEF Handles, Publishes, Owned
  <2>3. CASE Owned(r) /\ chal' \in {chal, chal \cup {r}} /\ Then(r, "release", "unavailable")
    BY <1>1, <2>3, Moving, LabelSets, <2>1 DEF Handles, Publishes, Owned
  <2>4. CASE Then(r, "release", "unavailable") /\ UNCHANGED chal
    BY <1>1, <2>1, <2>4, GoesOn, LabelSets DEF Ahead, Handles
  <2> QED BY <1>10, <2>2, <2>3, <2>4 DEF FinalizeRegistrationChallenge
<1>11. CASE ReleaseRegistrationChallenge(r)
  <2>1. /\ run[r].pc = "release" /\ Still /\ Proofless /\ UNCHANGED chal
        /\ Answer(r, run[r].answer) /\ run[r].answer \in Answers \ {"challenge"}
        /\ active' = active \ {r} \/ UNCHANGED active
    BY <1>1, <1>11 DEF ReleaseRegistrationChallenge, At, Still, Proofless, formVars, proofVars,
                       budgetVars, Placed, Carried, TypeOK
  <2>2. CASE active' = active \ {r}
    BY <1>1, <2>1, Moving, LabelSets, <2>2 DEF Handles, Releases
  <2>3. CASE UNCHANGED active
    BY <1>1, <2>1, <2>3, GoesOn, LabelSets DEF Ahead, Handles
  <2> QED BY <2>1, <2>2, <2>3
<1>12. CASE CheckRegistrationCreateChain(r)
  <2>1. run[r].pc = "chain" /\ Proofless
        /\ UNCHANGED <<intent, strikes, block, created, active, chal>>
    BY <1>12 DEF CheckRegistrationCreateChain, At, Proofless, formVars, issueVars, proofVars
  <2>2. CASE /\ \/ marker[Intent(r)].uses = 0
                \/ marker[Intent(r)].uses = 1 /\ marker[Intent(r)].email = Email(r)
             /\ marker' = [marker EXCEPT ![Intent(r)].uses = @ + 1, ![Intent(r)].email = Email(r)]
             /\ bucket' = IF Charged(r)
                          THEN [bucket EXCEPT ![Email(r)] = @ + 1, ![Browser(r)] = @ + 1] ELSE bucket
             /\ To(r, "consume") \/ Answer(r, "limited")
    BY <1>1, <2>2, Moving, LabelSets, <2>1 DEF Handles, Charges, Charged
  <2>3. CASE (Answer(r, "limited") \/ Answer(r, "invalid")) /\ UNCHANGED <<marker, bucket>>
    BY <1>1, <2>1, <2>3, GoesOn, LabelSets DEF Ahead, Still, Handles
  <2> QED BY <1>12, <2>2, <2>3 DEF CheckRegistrationCreateChain, budgetVars
<1>13. CASE ConsumeFormIntent(r)
  <2>1. run[r].pc \in {"honeypot", "decoy", "consume"} /\ Proofless
        /\ UNCHANGED <<strikes, block, marker, bucket, created, active, chal>>
    BY <1>13 DEF ConsumeFormIntent, Proofless, issueVars, proofVars, budgetVars
  <2>2. CASE /\ Consumable(r) /\ Spent(Intent(r))
             /\ \/ run[r].pc = "honeypot" /\ To(r, "hit")
                \/ run[r].pc = "consume" /\ To(r, "create")
                \/ \E a \in {"decoy", "unavailable"} : Answer(r, a)
    BY <1>1, <2>2, Moving, LabelSets, <2>1 DEF Handles, Spends
  <2>3. CASE (Answer(r, "invalid") \/ Answer(r, "unavailable")) /\ UNCHANGED intent
    BY <1>1, <2>1, <2>3, GoesOn, LabelSets DEF Ahead, Still, Handles
  <2> QED BY <1>13, <2>1, <2>2, <2>3 DEF ConsumeFormIntent, At
<1>14. CASE Create(r)
  BY <1>14, <1>1, Moving, LabelSets DEF Create, At, Proofless, formVars, issueVars, proofVars, budgetVars,
     Handles, Registers
<1>15. CASE RefundRegistrationCreateCohorts(r)
  <2>1. run[r].pc = "refund" /\ Proofless /\ Answer(r, "conflict")
        /\ UNCHANGED <<intent, strikes, block, created, active, chal>>
    BY <1>15 DEF RefundRegistrationCreateCohorts, At, Proofless, formVars, issueVars, proofVars
  <2>2. CASE /\ Refundable(Intent(r)) /\ marker' = [marker EXCEPT ![Intent(r)].refunded = TRUE]
             /\ bucket' = [bucket EXCEPT ![Email(r)] = @ - 1]
    BY <1>1, <2>1, Moving, LabelSets, <2>2 DEF Handles, Refunds
  <2>3. CASE UNCHANGED <<marker, bucket>>
    BY <1>1, <2>1, <2>3, GoesOn, LabelSets DEF Ahead, Still, Handles
  <2> QED BY <1>15, <2>2, <2>3 DEF RefundRegistrationCreateCohorts, budgetVars
<1> QED
  BY <1>2, <1>3, <1>4, <1>5, <1>6, <1>7, <1>8, <1>9, <1>10, <1>11, <1>12, <1>13, <1>14, <1>15
  DEF CreateHandler, RequireRegistration, IssueChallenge

-----------------------------------------------------------------------------
(* Types *)

Markers == [uses : 0 .. 2, email : Emails \cup {NoEmail}, refunded : BOOLEAN]
RunType == run \in [Requests -> [pc : Labels, answer : Answers]]
FormType ==
  /\ intent \in [Intents -> [state : States, email : Emails \cup {NoEmail}]]
  /\ known \subseteq Browsers /\ block \subseteq Sources /\ strikes \in Nat
ScopeType == active \subseteq Creates /\ issued \in [Sources -> Nat]
ProofType ==
  /\ chal \subseteq Creates
  /\ claim \in [Creates -> Solves \cup {"none"}] /\ guesses \in [Creates -> Nat]
  /\ tried \in [Sources -> Nat]
  /\ tried[Network] <= NetworkGuesses /\ \A b \in Browsers : tried[b] <= DeviceGuesses
  /\ trust \subseteq proven /\ proven \subseteq asked /\ asked \subseteq Solves
BudgetType ==
  /\ marker \in [Intents -> Markers]
  /\ \A i \in Intents : marker[i].refunded => marker[i].uses > 0
  /\ bucket \in [Emails \cup Browsers -> Nat]

LEMMA Types ==
  TypeOK <=> /\ RunType /\ FormType /\ ScopeType /\ ProofType /\ BudgetType
             /\ created \in [Intents -> Nat] /\ faults \in 0 .. MaxFaults
  BY DEF TypeOK, RunType, FormType, ScopeType, ProofType, BudgetType, Markers

LEMMA TypesKept ==
  ASSUME RunType', FormType', ScopeType', ProofType', BudgetType', (created \in [Intents -> Nat])',
         faults' \in 0 .. MaxFaults
  PROVE  TypeOK'
  BY DEF TypeOK, RunType, FormType, ScopeType, ProofType, BudgetType, Markers

\* Whoever moves, moves within the labels and the bound on faults.
LEMMA MovesTyped ==
  ASSUME GateAssumption, TypeOK, NEW r \in Requests, NEW l \in Labels, NEW a \in Answers,
         To(r, l) \/ Answer(r, a) \/ Then(r, l, a)
  PROVE  RunType'
  BY Moving DEF Goes, RunType

LEMMA FaultsTyped ==
  ASSUME GateAssumption, TypeOK, NoFault \/ Fault
  PROVE  faults' \in 0 .. MaxFaults
  BY Kinds DEF TypeOK, NoFault, Fault

LEMMA IssueTypes ==
  ASSUME GateAssumption, TypeOK, NEW r \in Intents, IssueFormIntent(r)
  PROVE  TypeOK'
<1>1. r \in Requests /\ Browser(r) \in Browsers
  BY Kinds
<1>2. FormType /\ ScopeType /\ ProofType /\ BudgetType /\ created \in [Intents -> Nat]
  BY Types
<1>3. CASE EnsureDevice(r)
  <2>1. RunType' /\ faults' \in 0 .. MaxFaults
    BY <1>1, <1>3, MovesTyped, FaultsTyped, LabelSets DEF EnsureDevice
  <2>2. FormType'
    BY <1>1, <1>2, <1>3 DEF EnsureDevice, FormType
  <2>3. ScopeType' /\ ProofType' /\ BudgetType' /\ (created \in [Intents -> Nat])'
    BY <1>2, <1>3 DEF EnsureDevice, ScopeType, ProofType, BudgetType, issueVars, proofVars, budgetVars
  <2> QED BY <2>1, <2>2, <2>3, TypesKept
<1>4. CASE CreateFormIntent(r)
  <2>1. RunType' /\ faults' \in 0 .. MaxFaults
    BY <1>1, <1>4, MovesTyped, FaultsTyped, LabelSets DEF CreateFormIntent
  <2>2. FormType'
    BY <1>1, <1>2, <1>4 DEF CreateFormIntent, FormType, States
  <2>3. ScopeType' /\ ProofType' /\ BudgetType' /\ (created \in [Intents -> Nat])'
    BY <1>2, <1>4 DEF CreateFormIntent, ScopeType, ProofType, BudgetType, issueVars, proofVars, budgetVars
  <2> QED BY <2>1, <2>2, <2>3, TypesKept
<1> QED BY <1>3, <1>4 DEF IssueFormIntent

LEMMA RevokeTypes ==
  ASSUME GateAssumption, TypeOK, NEW r \in Unblocks, RevokeBlock(r)
  PROVE  TypeOK'
<1>1. r \in Requests /\ InputOf[r].source \in Sources
  BY Kinds
<1>2. FormType /\ ScopeType /\ ProofType /\ BudgetType /\ created \in [Intents -> Nat]
  BY Types
<1>3. RunType' /\ faults' \in 0 .. MaxFaults
  BY <1>1, MovesTyped, FaultsTyped, LabelSets DEF RevokeBlock, Revoke, UnblockRegistrationHash, RecordOutcome
<1>4. FormType'
  BY <1>1, <1>2 DEF RevokeBlock, Revoke, UnblockRegistrationHash, RecordOutcome, FormType, formVars, Forgiven
<1>5. ScopeType' /\ ProofType' /\ BudgetType' /\ (created \in [Intents -> Nat])'
  BY <1>2 DEF RevokeBlock, Revoke, UnblockRegistrationHash, RecordOutcome, ScopeType, ProofType,
              BudgetType, issueVars, proofVars, budgetVars
<1> QED BY <1>3, <1>4, <1>5, TypesKept

LEMMA CompleteTypes ==
  ASSUME GateAssumption, TypeOK, Placed, NEW r \in Solves, Complete(r)
  PROVE  TypeOK'
<1>1. r \in Requests /\ Of(r) \in Creates /\ Browser(Of(r)) \in Browsers
  BY Kinds
<1>2. /\ FormType /\ ScopeType /\ ProofType /\ BudgetType /\ created \in [Intents -> Nat]
      /\ run[r].answer \in Answers
  BY <1>1, Types DEF RunType
<1>3. CASE ClaimChallenge(r)
  <2>1. RunType' /\ faults' \in 0 .. MaxFaults
    BY <1>1, <1>3, MovesTyped, FaultsTyped, LabelSets DEF ClaimChallenge
  <2>2. ProofType'
    BY <1>1, <1>2, <1>3 DEF ClaimChallenge, ProofType
  <2>3. FormType' /\ ScopeType' /\ BudgetType' /\ (created \in [Intents -> Nat])'
    BY <1>2, <1>3 DEF ClaimChallenge, FormType, ScopeType, BudgetType, formVars, issueVars, budgetVars
  <2> QED BY <2>1, <2>2, <2>3, TypesKept
<1>4. CASE CheckCompletionRate(r)
  <2>1. RunType' /\ faults' \in 0 .. MaxFaults
    BY <1>1, <1>4, MovesTyped, FaultsTyped, LabelSets DEF CheckCompletionRate
  <2>2. ProofType'
    BY <1>1, <1>2, <1>4 DEF CheckCompletionRate, ProofType
  <2>3. FormType' /\ ScopeType' /\ BudgetType' /\ (created \in [Intents -> Nat])'
    BY <1>2, <1>4 DEF CheckCompletionRate, FormType, ScopeType, BudgetType, formVars, issueVars, budgetVars
  <2> QED BY <2>1, <2>2, <2>3, TypesKept
<1>5. CASE CheckRegistrationCompletionRate(r)
  <2>1. RunType' /\ faults' \in 0 .. MaxFaults
    BY <1>1, <1>5, MovesTyped, FaultsTyped, LabelSets DEF CheckRegistrationCompletionRate
  <2>2. ProofType'
    BY <1>2, <1>5, <1>1, Kinds DEF CheckRegistrationCompletionRate, ProofType, Room, Sources
  <2>3. FormType' /\ ScopeType' /\ BudgetType' /\ (created \in [Intents -> Nat])'
    BY <1>2, <1>5 DEF CheckRegistrationCompletionRate, FormType, ScopeType, BudgetType, formVars,
                      issueVars, budgetVars
  <2> QED BY <2>1, <2>2, <2>3, TypesKept
<1>6. CASE VerifyProof(r)
  <2>1. RunType' /\ faults' \in 0 .. MaxFaults
    BY <1>1, <1>6, MovesTyped, FaultsTyped, LabelSets DEF VerifyProof
  <2>2. ProofType'
    BY <1>1, <1>2, <1>6 DEF VerifyProof, ProofType
  <2>3. FormType' /\ ScopeType' /\ BudgetType' /\ (created \in [Intents -> Nat])'
    BY <1>2, <1>6 DEF VerifyProof, FormType, ScopeType, BudgetType, formVars, issueVars, budgetVars
  <2> QED BY <2>1, <2>2, <2>3, TypesKept
<1>7. CASE ConsumeRegistrationChallenge(r)
  <2>1. RunType' /\ faults' \in 0 .. MaxFaults
    BY <1>1, <1>7, MovesTyped, FaultsTyped, LabelSets DEF ConsumeRegistrationChallenge
  <2>2. ProofType' /\ ScopeType'
    BY <1>1, <1>2, <1>7 DEF ConsumeRegistrationChallenge, Cleared, ProofType, ScopeType
  <2>3. FormType' /\ BudgetType' /\ (created \in [Intents -> Nat])'
    BY <1>2, <1>7 DEF ConsumeRegistrationChallenge, FormType, BudgetType, formVars, budgetVars
  <2> QED BY <2>1, <2>2, <2>3, TypesKept
<1>8. CASE PutTrust(r)
  <2>1. RunType' /\ faults' \in 0 .. MaxFaults
    BY <1>1, <1>8, MovesTyped, FaultsTyped, LabelSets DEF PutTrust
  <2>2. ProofType'
    BY <1>8, <1>2 DEF PutTrust, At, Placed, Shown, ProofType
  <2>3. FormType' /\ ScopeType' /\ BudgetType' /\ (created \in [Intents -> Nat])'
    BY <1>2, <1>8 DEF PutTrust, FormType, ScopeType, BudgetType, formVars, issueVars, budgetVars
  <2> QED BY <2>1, <2>2, <2>3, TypesKept
<1>9. CASE ReleaseChallenge(r)
  <2>1. RunType' /\ faults' \in 0 .. MaxFaults
    BY <1>1, <1>2, <1>9, MovesTyped, FaultsTyped, LabelSets DEF ReleaseChallenge
  <2>2. ProofType'
    BY <1>1, <1>2, <1>9 DEF ReleaseChallenge, ProofType
  <2>3. FormType' /\ ScopeType' /\ BudgetType' /\ (created \in [Intents -> Nat])'
    BY <1>2, <1>9 DEF ReleaseChallenge, FormType, ScopeType, BudgetType, formVars, issueVars, budgetVars
  <2> QED BY <2>1, <2>2, <2>3, TypesKept
<1> QED BY <1>3, <1>4, <1>5, <1>6, <1>7, <1>8, <1>9 DEF Complete

LEMMA TimeTypes ==
  ASSUME GateAssumption, TypeOK,
         \/ \E r \in Requests : Crash(r)
         \/ \E i \in Intents : Ripen(i) \/ ExpireIntent(i)
         \/ \E c \in Creates : ExpireChallenge(c) \/ ExpireClaim(c)
         \/ \E s \in Solves : ExpireTrust(s)
  PROVE  TypeOK'
<1>1. /\ FormType /\ ScopeType /\ ProofType /\ BudgetType /\ created \in [Intents -> Nat] /\ RunType
  BY Types
<1>2. faults' \in 0 .. MaxFaults
  BY FaultsTyped DEF Crash, Ripen, ExpireIntent, ExpireChallenge, ExpireClaim, ExpireTrust, NoFault
<1>3. ASSUME NEW r \in Requests, Crash(r) PROVE TypeOK'
  <2>1. RunType'
    BY <1>3, MovesTyped, LabelSets DEF Crash
  <2>2. FormType' /\ ScopeType' /\ ProofType' /\ BudgetType' /\ (created \in [Intents -> Nat])'
    BY <1>1, <1>3 DEF Crash, FormType, ScopeType, ProofType, BudgetType, formVars, issueVars,
                      proofVars, budgetVars
  <2> QED BY <1>2, <2>1, <2>2, TypesKept
<1>4. ASSUME NEW i \in Intents, Ripen(i) \/ ExpireIntent(i) PROVE TypeOK'
  <2>1. FormType'
    BY <1>1, <1>4 DEF Ripen, ExpireIntent, FormType, States
  <2>2. RunType' /\ ScopeType' /\ ProofType' /\ BudgetType' /\ (created \in [Intents -> Nat])'
    BY <1>1, <1>4 DEF Ripen, ExpireIntent, RunType, ScopeType, ProofType, BudgetType, issueVars,
                      proofVars, budgetVars
  <2> QED BY <1>2, <2>1, <2>2, TypesKept
<1>5. ASSUME NEW c \in Creates, ExpireChallenge(c) \/ ExpireClaim(c) PROVE TypeOK'
  <2>1. ScopeType' /\ ProofType'
    BY <1>1, <1>5 DEF ExpireChallenge, ExpireClaim, ScopeType, ProofType, issueVars
  <2>2. RunType' /\ FormType' /\ BudgetType' /\ (created \in [Intents -> Nat])'
    BY <1>1, <1>5 DEF ExpireChallenge, ExpireClaim, RunType, FormType, BudgetType, formVars, budgetVars
  <2> QED BY <1>2, <2>1, <2>2, TypesKept
<1>6. ASSUME NEW s \in Solves, ExpireTrust(s) PROVE TypeOK'
  BY <1>1, <1>6, <1>2, TypesKept DEF ExpireTrust, ProofType, RunType, FormType, ScopeType, BudgetType,
     formVars, issueVars, budgetVars
<1> QED BY <1>3, <1>4, <1>5, <1>6

\* A charge is one more on two buckets.
LEMMA Twice ==
  ASSUME NEW S, NEW f \in [S -> Nat], NEW x \in S, NEW y \in S, x # y, NEW g,
         g = [f EXCEPT ![x] = @ + 1, ![y] = @ + 1]
  PROVE  g \in [S -> Nat] /\ \A z \in S : g[z] = f[z] + IF z \in {x, y} THEN 1 ELSE 0
  OBVIOUS

\* A use of an intent, as one new marker.
LEMMA OneUse ==
  ASSUME NEW m \in [Intents -> Markers], NEW i \in Intents, NEW e \in Emails,
         m[i].uses \in 0 .. 1, NEW n, n = [m EXCEPT ![i].uses = @ + 1, ![i].email = e]
  PROVE  /\ n \in [Intents -> Markers]
         /\ n[i].uses = m[i].uses + 1 /\ n[i].email = e /\ n[i].refunded = m[i].refunded
         /\ \A j \in Intents \ {i} : n[j] = m[j]
<1>1. m[i] \in Markers /\ m[i].uses + 1 \in 0 .. 2
  BY DEF Markers
<1> DEFINE o == [m[i] EXCEPT !.uses = m[i].uses + 1, !.email = e]
<1>2. /\ o \in Markers /\ o.uses = m[i].uses + 1 /\ o.email = e /\ o.refunded = m[i].refunded
  BY <1>1 DEF Markers
<1>3. n = [m EXCEPT ![i] = o]
  OBVIOUS
<1> HIDE DEF o
<1> QED BY <1>2, <1>3

\* What is refunded was charged.
LEMMA Backed ==
  ASSUME GateAssumption, TypeOK, BudgetsExact, NEW i \in Intents, NEW e \in Emails, Refundable(i),
         marker[i].email = e
  PROVE  bucket[e] \in Nat \ {0}
  BY Finite, FS_EmptySet DEF Charging, Refundable, Intents, BudgetsExact

LEMMA HandlerTypes ==
  ASSUME GateAssumption, TypeOK, Placed, BudgetsExact, NEW r \in Creates, CreateHandler(r)
  PROVE  TypeOK'
<1>1. /\ r \in Requests /\ Intent(r) \in Intents /\ Email(r) \in Emails /\ Browser(r) \in Browsers
      /\ IPBlockAfter \in Nat
  BY Kinds
<1>2. /\ FormType /\ ScopeType /\ ProofType /\ BudgetType /\ created \in [Intents -> Nat]
      /\ Handles(r) /\ Proofless
  BY Types, HandlerStep
<1>3. /\ UNCHANGED <<known, claim>>
      /\ faults' \in 0 .. MaxFaults
      /\ UNCHANGED issued \/ issued' = [x \in Sources |-> issued[x] + IF x \in {Browser(r), Network} THEN 1 ELSE 0]
  <2>1. NoFault \/ Fault
    BY DEF CreateHandler, RequireRegistration, IssueChallenge, ClassifyHoneypot,
      RecordRegistrationHoneypot, BindFormIntentEmail, IsRegistrationBlocked, Admit, Assess,
      ReserveRegistrationChallenge, CheckRegistrationIssueRate, Begin, FinalizeRegistrationChallenge,
      ReleaseRegistrationChallenge, AssessEmail, CheckRegistrationCreateChain, ConsumeFormIntent,
      Create, RefundRegistrationCreateCohorts, NoFault
  <2>2. UNCHANGED <<known, claim>>
    BY DEF CreateHandler, RequireRegistration, IssueChallenge, ClassifyHoneypot,
      RecordRegistrationHoneypot, BindFormIntentEmail, IsRegistrationBlocked, Admit, Assess,
      ReserveRegistrationChallenge, CheckRegistrationIssueRate, Begin, FinalizeRegistrationChallenge,
      ReleaseRegistrationChallenge, AssessEmail, CheckRegistrationCreateChain, ConsumeFormIntent,
      Create, RefundRegistrationCreateCohorts, formVars, proofVars
  <2>3. UNCHANGED issued \/ issued' = [x \in Sources |-> issued[x] + IF x \in {Browser(r), Network} THEN 1 ELSE 0]
    BY DEF CreateHandler, RequireRegistration, IssueChallenge, ClassifyHoneypot,
      RecordRegistrationHoneypot, BindFormIntentEmail, IsRegistrationBlocked, Admit, Assess,
      ReserveRegistrationChallenge, CheckRegistrationIssueRate, Begin, FinalizeRegistrationChallenge,
      ReleaseRegistrationChallenge, AssessEmail, CheckRegistrationCreateChain, ConsumeFormIntent,
      Create, RefundRegistrationCreateCohorts, issueVars
  <2> QED BY <2>1, <2>2, <2>3, FaultsTyped
<1>4. RunType'
  BY <1>2 DEF Handles, Onward, Binds, Spends, Strikes, Reserves, Publishes, Releases, Charges,
              Registers, Refunds, Goes, RunType
<1>5. FormType'
  <2>1. CASE UNCHANGED <<intent, block, strikes>>
    BY <1>2, <1>3, <2>1 DEF FormType
  <2>2. CASE Binds(r) \/ Spends(r)
    BY <1>1, <1>2, <1>3, <2>2 DEF Binds, Spends, Spent, FormType, States
  <2>3. CASE Strikes(r)
    BY <1>1, <1>2, <1>3, <2>3 DEF Strikes, Struck, FormType, Sources
  <2> QED BY <1>2, <2>1, <2>2, <2>3 DEF Handles, Onward, Reserves, Publishes, Releases, Charges,
                                        Registers, Refunds, Still
<1>6. ScopeType'
  <2>1. active' \subseteq Creates
    BY <1>2 DEF Handles, Onward, Binds, Spends, Strikes, Reserves, Publishes, Releases, Charges,
                Registers, Refunds, ScopeType
  <2>2. issued' \in [Sources -> Nat]
    BY <1>2, <1>3 DEF ScopeType
  <2> QED BY <2>1, <2>2 DEF ScopeType
<1>7. ProofType'
  <2>1. chal' \subseteq Creates
    BY <1>2 DEF Handles, Onward, Binds, Spends, Strikes, Reserves, Publishes, Releases, Charges,
                Registers, Refunds, ProofType
  <2> QED BY <1>2, <1>3, <2>1 DEF ProofType, Proofless
<1>8. BudgetType' /\ (created \in [Intents -> Nat])'
  <2>1. CASE UNCHANGED <<marker, bucket, created>>
    BY <1>2, <2>1 DEF BudgetType
  <2>2. CASE Charges(r)
    <3>1. /\ marker[Intent(r)] \in Markers
          /\ marker[Intent(r)].uses \in 0 .. 1 /\ bucket[Email(r)] \in Nat /\ bucket[Browser(r)] \in Nat
          /\ marker \in [Intents -> Markers]
      BY <1>1, <1>2, <2>2 DEF BudgetType, Charges, Markers
    <3>2. marker' \in [Intents -> Markers]
      BY <1>1, <2>2, <3>1, OneUse DEF Charges
    <3>3. \A i \in Intents : marker'[i].refunded => marker'[i].uses > 0
      BY <1>1, <2>2, <3>1, OneUse, <1>2 DEF Charges, BudgetType
    <3>4. bucket' \in [Emails \cup Browsers -> Nat]
      <4>1. Email(r) # Browser(r) /\ Email(r) \in Emails \cup Browsers
            /\ Browser(r) \in Emails \cup Browsers /\ bucket \in [Emails \cup Browsers -> Nat]
        BY <1>1, <1>2, Kinds DEF BudgetType
      <4>2. CASE bucket' = bucket
        BY <4>1, <4>2
      <4>3. CASE bucket' = [bucket EXCEPT ![Email(r)] = @ + 1, ![Browser(r)] = @ + 1]
        BY <4>1, <4>3, Twice
      <4> QED BY <2>2, <4>2, <4>3 DEF Charges
    <3> QED BY <1>2, <2>2, <3>2, <3>3, <3>4 DEF BudgetType, Charges
  <2>3. CASE Registers(r)
    BY <1>1, <1>2, <2>3 DEF BudgetType, Registers
  <2>4. CASE Refunds(r)
    <3>1. marker[Intent(r)].uses > 0 /\ ~marker[Intent(r)].refunded /\ marker[Intent(r)].email = Email(r)
      BY <1>1, <2>4 DEF Refunds, Refundable, Placed, Carried, Paid
    <3>2. bucket[Email(r)] \in Nat \ {0}
      BY <1>1, <2>4, <3>1, Backed DEF Refunds
    <3>3. marker' \in [Intents -> Markers]
          /\ \A i \in Intents : marker'[i].refunded => marker'[i].uses > 0
      BY <1>1, <1>2, <2>4, <3>1 DEF BudgetType, Refunds, Markers
    <3>4. bucket' \in [Emails \cup Browsers -> Nat]
      BY <3>2, <1>1, <1>2, <2>4 DEF BudgetType, Refunds
    <3> QED BY <1>2, <2>4, <3>3, <3>4 DEF BudgetType, Refunds
  <2> QED BY <1>2, <2>1, <2>2, <2>3, <2>4 DEF Handles, Onward, Binds, Spends, Strikes, Reserves,
                                              Publishes, Releases, Still
<1> QED BY <1>3, <1>4, <1>5, <1>6, <1>7, <1>8, TypesKept

-----------------------------------------------------------------------------
(* What everybody else does *)

\* For the form handler, nobody else does more than end a request with it,
\* empty a scope with its challenge, or forgive strikes.
Apart ==
  /\ UNCHANGED <<marker, bucket, created>> /\ proven \subseteq proven' /\ strikes' \in 0 .. strikes
  /\ \A i \in Intents : /\ intent'[i].email = intent[i].email
                        /\ intent'[i].state = "spent" <=> intent[i].state = "spent"
                        /\ intent[i].state = "expired" => intent'[i].state = "expired"
  /\ \A c \in Creates : run'[c] = run[c] \/ Answered(c, "lost")'
  /\ \/ UNCHANGED <<active, chal>>
     \/ \E c \in Creates : active' = active \ {c} /\ chal' = chal \ {c}

Elsewhere ==
  \/ \E r \in Intents : IssueFormIntent(r)
  \/ \E r \in Solves : Complete(r)
  \/ \E r \in Unblocks : RevokeBlock(r)
  \/ \E r \in Requests : Crash(r)
  \/ \E i \in Intents : Ripen(i) \/ ExpireIntent(i)
  \/ \E c \in Creates : ExpireChallenge(c) \/ ExpireClaim(c)
  \/ \E s \in Solves : ExpireTrust(s)

LEMMA Actors == Next <=> (\E r \in Creates : CreateHandler(r)) \/ Elsewhere
  BY DEF Next, Elsewhere

LEMMA OneMoves ==
  ASSUME GateAssumption, TypeOK, NEW r \in Requests, NEW l \in Labels, NEW a \in Answers,
         To(r, l) \/ Answer(r, a) \/ Then(r, l, a)
  PROVE  \A c \in Requests \ {r} : run'[c] = run[c]
  BY Moving DEF Goes

LEMMA IntentsKept ==
  ASSUME GateAssumption, TypeOK, NEW i \in Intents, NEW x \in States \ {"spent"},
         intent[i].state \notin {"spent", "expired"}, intent' = [intent EXCEPT ![i].state = x]
  PROVE  \A j \in Intents : /\ intent'[j].email = intent[j].email
                            /\ intent'[j].state = "spent" <=> intent[j].state = "spent"
                            /\ intent[j].state = "expired" => intent'[j].state = "expired"
  BY DEF TypeOK

LEMMA ApartStep ==
  ASSUME GateAssumption, TypeOK, Placed, Elsewhere
  PROVE  Apart
<1>1. strikes \in Nat /\ strikes \in 0 .. strikes /\ 0 \in 0 .. strikes
  BY DEF TypeOK
<1>2. ASSUME NEW r \in Intents, IssueFormIntent(r) PROVE Apart
  <2>1. r \in Requests /\ r \notin Creates /\ Creates \subseteq Requests
    BY Kinds
  <2>2. \A c \in Creates : run'[c] = run[c]
    BY <1>2, <2>1, OneMoves, LabelSets DEF IssueFormIntent, EnsureDevice, CreateFormIntent
  <2>3. /\ UNCHANGED <<marker, bucket, created, active, chal, proven, strikes>>
        /\ UNCHANGED intent \/ (At(r, "intent") /\ intent' = [intent EXCEPT ![r].state = "young"])
    BY <1>2 DEF IssueFormIntent, EnsureDevice, CreateFormIntent, issueVars, proofVars, budgetVars
  <2>4. CASE UNCHANGED intent
    BY <1>1, <2>2, <2>3, <2>4 DEF Apart
  <2>5. CASE At(r, "intent") /\ intent' = [intent EXCEPT ![r].state = "young"]
    BY <2>5, IntentsKept, <1>1, <2>2, <2>3 DEF Placed, Fresh, At, States, Apart
  <2> QED BY <2>3, <2>4, <2>5
<1>3. ASSUME NEW r \in Solves, Complete(r) PROVE Apart
  <2>1. r \in Requests /\ r \notin Creates /\ Creates \subseteq Requests /\ Of(r) \in Creates
        /\ run[r].answer \in Answers
    BY Kinds, Moving, LabelSets
  <2>2. \A c \in Creates : run'[c] = run[c]
    BY <1>3, <2>1, OneMoves, LabelSets DEF Complete, ClaimChallenge, CheckCompletionRate,
       CheckRegistrationCompletionRate, VerifyProof, ConsumeRegistrationChallenge, PutTrust, ReleaseChallenge
  <2>3. UNCHANGED <<marker, bucket, created, intent, strikes>>
    BY <1>3 DEF Complete, ClaimChallenge, CheckCompletionRate, CheckRegistrationCompletionRate,
       VerifyProof, ConsumeRegistrationChallenge, PutTrust, ReleaseChallenge, formVars, budgetVars
  <2>4. proven \subseteq proven'
    BY <1>3 DEF Complete, ClaimChallenge, CheckCompletionRate, CheckRegistrationCompletionRate,
       VerifyProof, ConsumeRegistrationChallenge, PutTrust, ReleaseChallenge
  <2>5. \/ UNCHANGED <<active, chal>>
        \/ \E c \in Creates : active' = active \ {c} /\ chal' = chal \ {c}
    BY <1>3, <2>1 DEF Complete, ClaimChallenge, CheckCompletionRate, CheckRegistrationCompletionRate,
       VerifyProof, ConsumeRegistrationChallenge, PutTrust, ReleaseChallenge, issueVars, Cleared
  <2> QED BY <1>1, <2>2, <2>3, <2>4, <2>5 DEF Apart
<1>4. ASSUME NEW r \in Unblocks, RevokeBlock(r) PROVE Apart
  <2>1. r \in Requests /\ r \notin Creates /\ Creates \subseteq Requests
    BY Kinds
  <2>2. \A c \in Creates : run'[c] = run[c]
    BY <1>4, <2>1, OneMoves, LabelSets DEF RevokeBlock, Revoke, UnblockRegistrationHash, RecordOutcome
  <2>3. UNCHANGED <<marker, bucket, created, intent, active, chal, proven>> /\ strikes' \in {0, strikes}
    BY <1>4 DEF RevokeBlock, Revoke, UnblockRegistrationHash, RecordOutcome, Forgiven, formVars,
                issueVars, proofVars, budgetVars
  <2> QED BY <1>1, <2>2, <2>3 DEF Apart
<1>5. ASSUME NEW r \in Requests, Crash(r) PROVE Apart
  BY <1>5, Moving, LabelSets, Kinds, <1>1 DEF Crash, formVars, issueVars, proofVars, budgetVars, Goes,
     Answered, Apart
<1>6. ASSUME NEW i \in Intents, Ripen(i) \/ ExpireIntent(i) PROVE Apart
  BY <1>6, IntentsKept, <1>1 DEF Ripen, ExpireIntent, issueVars, proofVars, budgetVars, States, Apart
<1>7. ASSUME NEW c \in Creates, ExpireChallenge(c) \/ ExpireClaim(c) PROVE Apart
  BY <1>7, <1>1 DEF ExpireChallenge, ExpireClaim, formVars, issueVars, budgetVars, Apart
<1>8. ASSUME NEW s \in Solves, ExpireTrust(s) PROVE Apart
  BY <1>8, <1>1 DEF ExpireTrust, formVars, issueVars, budgetVars, Apart
<1> QED BY <1>2, <1>3, <1>4, <1>5, <1>6, <1>7, <1>8 DEF Elsewhere

-----------------------------------------------------------------------------
(* What a step of the form handler leaves alone *)

LEMMA HandlerMoves ==
  ASSUME GateAssumption, TypeOK, NEW r \in Creates, Handles(r)
  PROVE  \E l \in Labels, a \in Answers : Goes(r, l, a)
<1>1. run[r].answer \in Answers
  BY Kinds DEF TypeOK
<1> QED BY <1>1, LabelSets DEF Handles, Onward, Binds, Spends, Strikes, Reserves, Publishes, Releases,
             Charges, Registers, Refunds

LEMMA OthersStay ==
  ASSUME GateAssumption, TypeOK, NEW r \in Creates, Handles(r)
  PROVE  \A s \in Requests \ {r} : run'[s] = run[s]
  BY HandlerMoves DEF Goes

\* Only a live intent of the caller changes: it is pinned, or it is spent.
LEMMA HandlerIntents ==
  ASSUME GateAssumption, TypeOK, NEW r \in Creates, Handles(r)
  PROVE  /\ \A i \in Intents : intent[i].state # "live" \/ i # Intent(r) => intent'[i] = intent[i]
         /\ \A i \in Intents : /\ intent[i].state = "spent" => intent'[i].state = "spent"
                               /\ intent[i].email # NoEmail => intent'[i].email = intent[i].email
<1>1. Intent(r) \in Intents /\ Email(r) \in Emails /\ "spent" \in States
      /\ intent \in [Intents -> [state : States, email : Emails \cup {NoEmail}]]
  BY Kinds DEF TypeOK, States
<1>2. CASE UNCHANGED intent
  BY <1>2
<1>3. CASE Binds(r)
  BY <1>3, <1>1 DEF Binds, Ready, Pinned, NoEmail
<1>4. CASE Spends(r)
  BY <1>4, <1>1 DEF Spends, Consumable, Ready, Spent
<1> QED BY <1>2, <1>3, <1>4 DEF Handles, Onward, Still, Strikes, Reserves, Publishes, Releases, Charges,
                                Registers, Refunds

\* The uses of an intent grow, and once used it keeps its email.
LEMMA HandlerMarkers ==
  ASSUME GateAssumption, TypeOK, NEW r \in Creates, Handles(r)
  PROVE  \A i \in Intents : marker[i].uses > 0 => marker'[i].uses > 0 /\ marker'[i].email = marker[i].email
<1>1. Intent(r) \in Intents /\ Email(r) \in Emails /\ marker \in [Intents -> Markers]
      /\ \A i \in Intents : marker[i].uses \in 0 .. 2
  BY Kinds, Types DEF BudgetType, Markers
<1>2. CASE UNCHANGED marker
  BY <1>2
<1>3. CASE Charges(r)
  BY <1>1, <1>3, OneUse DEF Charges
<1>4. CASE Refunds(r)
  BY <1>1, <1>4 DEF Refunds, Markers
<1> QED BY <1>2, <1>3, <1>4 DEF Handles, Onward, Still, Binds, Spends, Strikes, Reserves, Publishes,
                                Releases, Registers

-----------------------------------------------------------------------------
(* What a request has behind it *)

LEMMA FreshHandler ==
  ASSUME GateAssumption, TypeOK, Fresh, NEW r \in Creates, Handles(r)
  PROVE  Fresh'
  BY Kinds, OthersStay, HandlerIntents DEF Fresh

LEMMA CarriedHandler ==
  ASSUME GateAssumption, TypeOK, Carried, NEW r \in Creates, Handles(r)
  PROVE  Carried'
<1>1. ASSUME NEW s \in Creates \ {r}
      PROVE  /\ run'[s].pc \in Accepted => Bound(s)
             /\ run'[s].pc \in Paid => marker'[Intent(s)].uses > 0 /\ marker'[Intent(s)].email = Email(s)
             /\ run'[s].pc = "release" => run'[s].answer # "challenge"
  BY <1>1, Kinds, OthersStay, HandlerMarkers DEF Carried
<1>2. run'[r].pc \in Accepted => Bound(r)
  <2>1. Binds(r) \/ Spends(r) => Bound(r)
    BY DEF Binds, Spends, Consumable, Ready
  <2>2. run'[r].pc \in Accepted => run[r].pc \in Accepted \/ Binds(r) \/ Spends(r)
    BY DEF Handles, Onward, Ahead, Strikes, Reserves, Publishes, Releases, Charges, Registers, Refunds,
           Goes, Accepted
  <2> QED BY <2>1, <2>2 DEF Carried
<1>3. run'[r].pc \in Paid => marker'[Intent(r)].uses > 0 /\ marker'[Intent(r)].email = Email(r)
  <2>1. Intent(r) \in Intents /\ Email(r) \in Emails /\ marker \in [Intents -> Markers]
        /\ marker[Intent(r)].uses \in 0 .. 2
    BY Kinds, Types DEF BudgetType, Markers
  <2>2. CASE Charges(r)
    BY <2>1, <2>2, OneUse DEF Charges
  <2>3. CASE ~Charges(r)
    <3>1. run'[r].pc \in Paid => run[r].pc \in Paid
      BY <2>3 DEF Handles, Onward, Ahead, Binds, Spends, Strikes, Reserves, Publishes, Releases,
                  Registers, Refunds, Goes, Paid
    <3> QED BY <2>1, <3>1, HandlerMarkers DEF Carried
  <2> QED BY <2>2, <2>3
<1>4. run'[r].pc = "release" => run'[r].answer # "challenge"
  BY DEF Handles, Onward, Ahead, Binds, Spends, Strikes, Reserves, Publishes, Releases, Charges,
         Registers, Refunds, Goes
<1> QED BY <1>1, <1>2, <1>3, <1>4 DEF Carried, Bound

LEMMA ShownHandler ==
  ASSUME GateAssumption, TypeOK, Shown, NEW r \in Creates, Handles(r), Proofless
  PROVE  Shown'
  BY Kinds, OthersStay DEF Shown, Proofless

LEMMA CarriedApart ==
  ASSUME GateAssumption, Carried, Apart
  PROVE  Carried'
  BY DEF Carried, Apart, Answered, Accepted, Paid, Bound

-----------------------------------------------------------------------------
(* Proofs of humanity and the service *)

LEMMA HumanHandler ==
  ASSUME GateAssumption, TypeOK, HumanProven, NEW r \in Creates, Handles(r), Proofless
  PROVE  HumanProven'
<1>1. \A s \in Creates \ {r} : run'[s] = run[s]
  BY Kinds, OthersStay
<1>2. run'[r].pc \in Human => run[r].pc \in Human \/ \E s \in trust : Trusted(r, s)
  BY DEF Handles, Onward, Ahead, Binds, Spends, Strikes, Reserves, Publishes, Releases, Charges,
         Registers, Refunds, Goes, Human
<1>3. \A s \in trust : Trusted(r, s) => s \in proven /\ Scope(Of(s)) = Scope(r)
  BY DEF Trusted, TypeOK
<1> QED BY <1>1, <1>2, <1>3 DEF HumanProven, Human, Proofless, Scope, Intent, Email, Browser, Of

LEMMA HumanApart ==
  ASSUME GateAssumption, HumanProven, Apart
  PROVE  HumanProven'
  BY DEF HumanProven, Apart, Answered, Scope, Intent, Email, Browser, Of

LEMMA SoleHandler ==
  ASSUME GateAssumption, TypeOK, Carried, Sole, NEW r \in Creates, Handles(r)
  PROVE  Sole'
<1>1. /\ Intent(r) \in Intents /\ created \in [Intents -> Nat] /\ \A s \in Creates \ {r} : run'[s] = run[s]
      /\ \A s \in Creates : Intent(s) \in Intents
  BY Kinds, OthersStay DEF TypeOK
<1>2. \A i \in Intents : /\ intent[i].state = "spent" => intent'[i].state = "spent"
                         /\ marker[i].uses > 0 => marker'[i].uses > 0
  BY HandlerIntents, HandlerMarkers
<1>3. CASE run[r].pc = "consume" /\ Goes(r, "create", run[r].answer) /\ Consumable(r)
           /\ Spent(Intent(r)) /\ UNCHANGED <<marker, created>>
  <2>1. intent[Intent(r)].state = "live" /\ marker[Intent(r)].uses > 0
    BY <1>3 DEF Consumable, Ready, Carried, Paid
  <2>2. created[Intent(r)] = 0 /\ AtService(Intent(r)) = {}
    BY <1>1, <2>1 DEF Sole
  <2>3. intent'[Intent(r)].state = "spent"
    BY <1>1, <1>3 DEF Spent, TypeOK
  <2>4. /\ AtService(Intent(r))' \subseteq {r}
        /\ \A i \in Intents \ {Intent(r)} : AtService(i)' = AtService(i)
    BY <1>1, <2>2 DEF AtService, Intent
  <2>5. created'[Intent(r)] = 0 /\ \A i \in Intents : created'[i] = created[i]
    BY <1>3, <2>2
  <2> QED BY <1>1, <1>2, <1>3, <2>1, <2>2, <2>3, <2>4, <2>5 DEF Sole
<1>4. CASE Registers(r)
  BY <1>4, <1>1, <1>2 DEF Registers, AtService, Goes, Sole, Intent
<1>5. CASE UNCHANGED created /\ (run'[r].pc = "create" => run[r].pc = "create")
  BY <1>1, <1>5, <1>2 DEF AtService, Intent, Sole
<1>6. ASSUME ~Registers(r) PROVE UNCHANGED created
  BY <1>6 DEF Handles, Onward, Still, Binds, Spends, Strikes, Reserves, Publishes, Releases, Charges, Refunds
<1>7. ASSUME run'[r].pc = "create", run[r].pc # "create"
      PROVE  run[r].pc = "consume" /\ Goes(r, "create", run[r].answer) /\ Consumable(r)
             /\ Spent(Intent(r)) /\ UNCHANGED <<marker, created>>
  <2>1. Spends(r)
    BY <1>7 DEF Handles, Onward, Ahead, Binds, Strikes, Reserves, Publishes, Releases, Charges,
                Registers, Refunds, Goes
  <2> QED BY <1>7, <2>1 DEF Spends, Goes
<1> QED BY <1>3, <1>4, <1>5, <1>6, <1>7

LEMMA SoleApart ==
  ASSUME GateAssumption, Sole, Apart
  PROVE  Sole'
  BY DEF AtService, Apart, Answered, Intent, Sole

-----------------------------------------------------------------------------
(* The challenge of a scope *)

LEMMA OccupiedHandler ==
  ASSUME GateAssumption, TypeOK, Carried, Occupied, NEW r \in Creates, Handles(r)
  PROVE  Occupied'
<1>1. /\ active \subseteq Creates /\ chal \subseteq Creates /\ \A s \in Creates \ {r} : run'[s] = run[s]
  BY Kinds, OthersStay DEF TypeOK
<1>2. CASE Reserves(r)
  BY <1>2, <1>1 DEF Reserves, Free, Occupied, Goes, Answered, Scope, Intent, Email, Browser
<1>3. CASE Publishes(r)
  BY <1>1, <1>3 DEF Publishes, Goes, Occupied, Answered, Scope, Intent, Email, Browser
<1>4. CASE Releases(r)
  BY <1>4, <1>1 DEF Releases, Goes, Carried, Occupied, Answered, Scope, Intent, Email, Browser
<1>5. CASE ~(Reserves(r) \/ Publishes(r) \/ Releases(r))
  <2>1. run'[r].answer # "challenge" \/ run'[r].pc # "done"
    BY <1>5 DEF Handles, Onward, Binds, Spends, Strikes, Charges, Registers, Refunds, Goes
  <2>2. UNCHANGED <<active, chal>>
    BY <1>5 DEF Handles, Onward, Binds, Spends, Strikes, Charges, Registers, Refunds
  <2> QED BY <1>1, <2>1, <2>2 DEF Occupied, Answered, Scope, Intent, Email, Browser
<1> QED BY <1>2, <1>3, <1>4, <1>5

LEMMA OccupiedApart ==
  ASSUME GateAssumption, TypeOK, Occupied, Apart
  PROVE  Occupied'
  BY DEF Apart, Answered, TypeOK, Occupied, Scope, Intent, Email, Browser

-----------------------------------------------------------------------------
(* Strikes *)

LEMMA StruckHandler ==
  ASSUME GateAssumption, TypeOK, StrikesPaid, NEW r \in Creates, Handles(r)
  PROVE  StrikesPaid'
<1>1. /\ r \in Requests /\ Intent(r) \in Intents /\ Creates \subseteq Requests /\ Intents \subseteq Requests
      /\ strikes \in Nat /\ \A s \in Creates \ {r} : run'[s] = run[s]
      /\ intent \in [Intents -> [state : States, email : Emails \cup {NoEmail}]]
  BY Kinds, OthersStay DEF TypeOK
<1>2. /\ Hits \in SUBSET Requests /\ Hits' \in SUBSET Requests /\ Gone \in SUBSET Requests
      /\ Gone' \in SUBSET Requests
  BY <1>1 DEF Hits, Gone
<1>3. /\ Cardinality(Hits) \in Nat /\ Cardinality(Hits') \in Nat
      /\ Cardinality(Gone) \in Nat /\ Cardinality(Gone') \in Nat
  BY <1>2, Finite
<1>4. Gone \subseteq Gone'
  BY HandlerIntents DEF Gone
<1>5. Cardinality(Gone) <= Cardinality(Gone')
  BY <1>2, <1>4, NoMore
<1>6. CASE Strikes(r)
  <2>1. r \in Hits /\ Hits' = Hits \ {r} /\ strikes' = strikes + 1
    BY <1>1, <1>6 DEF Hits, Strikes, Struck, Goes
  <2>2. Cardinality(Hits') = Cardinality(Hits) - 1
    BY <1>2, <2>1, Removed
  <2> QED BY <1>1, <1>3, <1>5, <2>1, <2>2 DEF StrikesPaid
<1>7. CASE run[r].pc = "honeypot" /\ Spends(r)
  <2>1. Hits' \subseteq Hits \cup {r}
    BY <1>1 DEF Hits
  <2>2. Cardinality(Hits') <= Cardinality(Hits) + 1
    BY <1>1, <1>2, <2>1, OneMore
  <2>3. Intent(r) \notin Gone /\ Gone' = Gone \cup {Intent(r)}
    BY <1>7, <1>1 DEF Spends, Consumable, Ready, Spent, Gone
  <2>4. Cardinality(Gone') = Cardinality(Gone) + 1
    BY <1>1, <1>2, <2>3, Added
  <2>5. strikes' = strikes
    BY <1>7 DEF Spends
  <2> QED BY <1>1, <1>3, <2>2, <2>4, <2>5 DEF StrikesPaid
<1>8. CASE ~Strikes(r) /\ ~(run[r].pc = "honeypot" /\ Spends(r))
  <2>1. run'[r].pc # "hit" /\ strikes' = strikes
    BY <1>8 DEF Handles, Onward, Ahead, Still, Binds, Spends, Reserves, Publishes, Releases, Charges,
                Registers, Refunds, Goes
  <2>2. Hits' \subseteq Hits
    BY <1>1, <2>1 DEF Hits
  <2>3. Cardinality(Hits') <= Cardinality(Hits)
    BY <1>2, <2>2, NoMore
  <2> QED BY <1>1, <1>3, <1>5, <2>1, <2>3 DEF StrikesPaid
<1> QED BY <1>6, <1>7, <1>8

LEMMA StruckApart ==
  ASSUME GateAssumption, TypeOK, StrikesPaid, Apart
  PROVE  StrikesPaid'
<1>1. /\ Hits \in SUBSET Requests /\ Gone \in SUBSET Requests /\ strikes \in Nat /\ strikes' \in 0 .. strikes
  BY DEF Hits, Gone, Creates, Intents, TypeOK, Apart
<1>2. Hits' \subseteq Hits /\ Gone' = Gone
  BY DEF Hits, Gone, Apart, Answered
<1>3. Cardinality(Hits') <= Cardinality(Hits) /\ Cardinality(Hits') \in Nat /\ Cardinality(Hits) \in Nat
  BY <1>1, <1>2, NoMore
<1>4. Cardinality(Gone) \in Nat
  BY <1>1, Finite
<1> QED BY <1>1, <1>2, <1>3, <1>4 DEF StrikesPaid

LEMMA BlockingHandler ==
  ASSUME GateAssumption, TypeOK, Blocking, NEW r \in Creates, Handles(r)
  PROVE  Blocking'
<1>1. CASE Strikes(r)
  BY Kinds, <1>1 DEF TypeOK, Strikes, Struck, Blocking
<1>2. CASE ~Strikes(r)
  BY <1>2 DEF Handles, Onward, Still, Binds, Spends, Reserves, Publishes, Releases, Charges, Registers,
     Refunds, Blocking
<1> QED BY <1>1, <1>2

LEMMA BlockingApart ==
  ASSUME GateAssumption, TypeOK, Blocking, Elsewhere
  PROVE  Blocking'
<1>1. ASSUME NEW r \in Unblocks, RevokeBlock(r) PROVE Blocking'
  BY Kinds, <1>1 DEF TypeOK, RevokeBlock, Revoke, UnblockRegistrationHash, RecordOutcome, Forgiven, Blocking,
     formVars
<1>2. CASE UNCHANGED <<block, strikes>>
  BY <1>2 DEF Blocking
<1> QED BY <1>1, <1>2 DEF Elsewhere, IssueFormIntent, EnsureDevice, CreateFormIntent, Complete,
       ClaimChallenge, CheckCompletionRate, CheckRegistrationCompletionRate, VerifyProof,
       ConsumeRegistrationChallenge, PutTrust, ReleaseChallenge, Crash, Ripen, ExpireIntent,
       ExpireChallenge, ExpireClaim, ExpireTrust, formVars

-----------------------------------------------------------------------------
(* Guesses *)

LEMMA Guessers ==
  ASSUME GateAssumption
  PROVE  /\ \A c \in Creates : Guessing(c) \in SUBSET Requests /\ (Guessing(c) \in SUBSET Requests)'
         /\ \A b \in Browsers : Trying(b) \in SUBSET Requests /\ (Trying(b) \in SUBSET Requests)'
  BY DEF Guessing, Trying, Solves

LEMMA CountedLess ==
  ASSUME GateAssumption, TypeOK, Counted,
         \A c \in Creates : Guessing(c)' \subseteq Guessing(c),
         \A b \in Browsers : Trying(b)' \subseteq Trying(b),
         UNCHANGED <<guesses, tried>>
  PROVE  Counted'
<1>1. ASSUME NEW c \in Creates
      PROVE  Cardinality(Guessing(c)') <= guesses'[c] /\ Cardinality(Guessing(c)') <= GuessLimit
  <2>1. /\ Cardinality(Guessing(c)') \in Nat /\ Cardinality(Guessing(c)) \in Nat
        /\ Cardinality(Guessing(c)') <= Cardinality(Guessing(c))
    BY Guessers, NoMore
  <2>2. guesses[c] \in Nat /\ GuessLimit \in Nat
    BY Kinds DEF TypeOK
  <2> QED BY <2>1, <2>2 DEF Counted
<1>2. ASSUME NEW b \in Browsers PROVE Cardinality(Trying(b)') <= tried'[b]
  <2>1. /\ Cardinality(Trying(b)') \in Nat /\ Cardinality(Trying(b)) \in Nat
        /\ Cardinality(Trying(b)') <= Cardinality(Trying(b))
    BY Guessers, NoMore
  <2>2. tried[b] \in Nat
    BY DEF TypeOK, Sources
  <2> QED BY <2>1, <2>2 DEF Counted
<1> QED BY <1>1, <1>2 DEF Counted

LEMMA CountedStays ==
  ASSUME GateAssumption, TypeOK, Counted, UNCHANGED <<asked, guesses, tried>>,
         \A s \in Solves : run'[s].pc = run[s].pc \/ run'[s].pc \notin {"scope", "verify"}
  PROVE  Counted'
  BY CountedLess DEF Guessing, Of, Trying, Browser

LEMMA CountedHandler ==
  ASSUME GateAssumption, TypeOK, Counted, NEW r \in Creates, Handles(r), Proofless
  PROVE  Counted'
  BY Kinds, OthersStay, CountedStays DEF Proofless

LEMMA CountedComplete ==
  ASSUME GateAssumption, TypeOK, Counted, NEW r \in Solves, Complete(r)
  PROVE  Counted'
<1>1. /\ r \in Requests /\ Of(r) \in Creates /\ Browser(Of(r)) \in Browsers /\ Solves \subseteq Requests
      /\ run[r].answer \in Answers /\ guesses \in [Creates -> Nat] /\ tried \in [Sources -> Nat]
      /\ GuessLimit \in Nat /\ Browsers \subseteq Sources /\ asked \subseteq Solves
  BY Kinds DEF TypeOK, Sources
<1>2. \A s \in Solves \ {r} : run'[s] = run[s]
  BY <1>1, OneMoves, LabelSets DEF Complete, ClaimChallenge, CheckCompletionRate,
     CheckRegistrationCompletionRate, VerifyProof, ConsumeRegistrationChallenge, PutTrust, ReleaseChallenge
<1>3. CASE \/ ClaimChallenge(r) \/ ConsumeRegistrationChallenge(r) \/ PutTrust(r) \/ ReleaseChallenge(r)
  BY <1>1, <1>3, Moving, LabelSets, <1>2, CountedStays DEF ClaimChallenge, ConsumeRegistrationChallenge,
     PutTrust, ReleaseChallenge, Goes
<1>4. CASE CheckCompletionRate(r) /\ UNCHANGED guesses
  <2>1. \E a \in Answers : Goes(r, "unclaim", a)
    <3>1. guesses'[Of(r)] # guesses[Of(r)] \/ guesses' # [guesses EXCEPT ![Of(r)] = @ + 1]
      BY <1>1, <1>4
    <3> QED BY <1>1, <1>4, <3>1, Moving, LabelSets DEF CheckCompletionRate
  <2>2. run'[r].pc \notin {"scope", "verify"}
    BY <2>1 DEF Goes
  <2>3. UNCHANGED <<asked, guesses, tried>>
    BY <1>4 DEF CheckCompletionRate
  <2> QED BY <1>2, <2>2, <2>3, CountedStays
<1>5. CASE CheckCompletionRate(r) /\ guesses' = [guesses EXCEPT ![Of(r)] = @ + 1]
           /\ (IF Allowed(Of(r)) THEN To(r, "scope") ELSE Then(r, "unclaim", "limited"))
  <2>1. UNCHANGED <<asked, tried>>
    BY <1>5 DEF CheckCompletionRate
  <2>2. (run'[r].pc = "scope" /\ Allowed(Of(r))) \/ run'[r].pc = "unclaim"
    BY <1>1, <1>5, Moving, LabelSets DEF Goes
  <2>3. ASSUME NEW c \in Creates
        PROVE  Cardinality(Guessing(c)') <= guesses'[c] /\ Cardinality(Guessing(c)') <= GuessLimit
    <3>1. CASE c = Of(r) /\ Allowed(Of(r))
      <4>1. Guessing(c)' \subseteq Guessing(c) \cup {r}
        BY <1>2, <2>1 DEF Guessing, Of
      <4>2. /\ Cardinality(Guessing(c)') \in Nat /\ Cardinality(Guessing(c)') <= Cardinality(Guessing(c)) + 1
            /\ Cardinality(Guessing(c)) \in Nat
        BY <1>1, <4>1, Guessers, OneMore, NoMore
      <4>3. guesses'[c] = guesses[c] + 1 /\ guesses[c] < GuessLimit /\ guesses[c] \in Nat
        BY <1>1, <1>5, <3>1 DEF Allowed
      <4> QED BY <1>1, <4>2, <4>3 DEF Counted
    <3>2. CASE c # Of(r) \/ ~Allowed(Of(r))
      <4>1. Guessing(c)' \subseteq Guessing(c)
        BY <1>2, <2>1, <2>2, <3>2 DEF Guessing, Of
      <4>2. /\ Cardinality(Guessing(c)') \in Nat /\ Cardinality(Guessing(c)') <= Cardinality(Guessing(c))
            /\ Cardinality(Guessing(c)) \in Nat
        BY <4>1, Guessers, NoMore
      <4>3. guesses'[c] \in Nat /\ guesses[c] \in Nat /\ guesses[c] <= guesses'[c]
        BY <1>1, <1>5
      <4> QED BY <1>1, <4>2, <4>3 DEF Counted
    <3> QED BY <3>1, <3>2
  <2>4. ASSUME NEW b \in Browsers PROVE Cardinality(Trying(b)') <= tried'[b]
    <3>1. Trying(b)' \subseteq Trying(b)
      BY <1>2, <2>1, <2>2 DEF Trying, Browser, Of
    <3>2. /\ Cardinality(Trying(b)') \in Nat /\ Cardinality(Trying(b)') <= Cardinality(Trying(b))
          /\ Cardinality(Trying(b)) \in Nat /\ tried[b] \in Nat
      BY <1>1, <3>1, Guessers, NoMore
    <3> QED BY <2>1, <3>2 DEF Counted
  <2> QED BY <2>3, <2>4 DEF Counted
<1>6. CASE CheckRegistrationCompletionRate(r)
  <2>1. run[r].pc = "scope" /\ UNCHANGED <<asked, guesses>>
    BY <1>6 DEF CheckRegistrationCompletionRate, At
  <2>2. CASE \E a \in Answers : Then(r, "unclaim", a) /\ UNCHANGED tried
    BY ZenonT(120), <1>1, <2>2, Moving, LabelSets, <1>2, <2>1, CountedStays DEF Goes
  <2>3. CASE /\ tried' = [x \in Sources |-> tried[x] + IF x \in {Browser(Of(r)), Network} THEN 1 ELSE 0]
             /\ To(r, "verify")
    <3>1. run'[r].pc = "verify"
      BY <1>1, <2>3, Moving, LabelSets DEF Goes
    <3>2. ASSUME NEW c \in Creates
          PROVE  Cardinality(Guessing(c)') <= guesses'[c] /\ Cardinality(Guessing(c)') <= GuessLimit
      BY <3>2, <1>2, <2>1, <3>1, <1>1, Guessers, NoMore DEF Guessing, Of, Counted
    <3>3. ASSUME NEW b \in Browsers PROVE Cardinality(Trying(b)') <= tried'[b]
      <4>1. tried'[b] = tried[b] + (IF b \in {Browser(Of(r)), Network} THEN 1 ELSE 0) /\ tried[b] \in Nat
        BY <1>1, <2>3
      <4>2. CASE b = Browser(Of(r))
        <5>1. Trying(b)' \subseteq Trying(b) \cup {r}
          BY <1>2, <2>1 DEF Trying, Browser, Of
        <5>2. /\ Cardinality(Trying(b)') \in Nat /\ Cardinality(Trying(b)') <= Cardinality(Trying(b)) + 1
              /\ Cardinality(Trying(b)) \in Nat
          BY <1>1, <5>1, Guessers, OneMore, NoMore
        <5> QED BY <4>1, <4>2, <5>2 DEF Counted
      <4>3. CASE b # Browser(Of(r))
        BY <1>2, <2>1, <4>3, Guessers, NoMore, <4>1 DEF Trying, Browser, Of, Counted
      <4> QED BY <4>2, <4>3
    <3> QED BY <3>2, <3>3 DEF Counted
  <2> QED BY <1>6, <2>2, <2>3, LabelSets DEF CheckRegistrationCompletionRate
<1>7. CASE VerifyProof(r)
  BY <1>7, <1>2, CountedLess DEF VerifyProof, At, Guessing, Of, Trying, Browser
<1> QED BY <1>3, <1>4, <1>5, <1>6, <1>7 DEF Complete, CheckCompletionRate

LEMMA CountedApart ==
  ASSUME GateAssumption, TypeOK, Counted, Elsewhere
  PROVE  Counted'
<1>1. ASSUME NEW r \in Intents, IssueFormIntent(r) PROVE Counted'
  BY <1>1, Kinds, OneMoves, LabelSets, CountedStays DEF IssueFormIntent, EnsureDevice, CreateFormIntent,
     proofVars
<1>2. ASSUME NEW r \in Unblocks, RevokeBlock(r) PROVE Counted'
  BY <1>2, Kinds, OneMoves, LabelSets, CountedStays DEF RevokeBlock, Revoke, UnblockRegistrationHash,
     RecordOutcome, proofVars
<1>3. ASSUME NEW r \in Requests, Crash(r) PROVE Counted'
  BY <1>3, Moving, LabelSets, Kinds, CountedStays DEF Crash, Goes, proofVars
<1>4. ASSUME UNCHANGED <<asked, guesses, tried, run>> PROVE Counted'
  BY <1>4, CountedStays
<1> QED BY <1>1, <1>2, <1>3, <1>4, CountedComplete DEF Elsewhere, Ripen, ExpireIntent, ExpireChallenge,
           ExpireClaim, ExpireTrust, proofVars

-----------------------------------------------------------------------------
(* Budgets *)

LEMMA Charged_Sets ==
  ASSUME GateAssumption
  PROVE  /\ \A e \in Emails : Charging(e) \in SUBSET Requests /\ (Charging(e) \in SUBSET Requests)'
         /\ \A b \in Browsers : Used(b) \in SUBSET Requests /\ (Used(b) \in SUBSET Requests)'
  BY DEF Charging, Used, Intents

LEMMA BudgetsStay ==
  ASSUME BudgetsExact, UNCHANGED bucket, \A e \in Emails : Charging(e)' = Charging(e),
         \A b \in Browsers : Used(b)' = Used(b)
  PROVE  BudgetsExact'
  BY DEF BudgetsExact

LEMMA BudgetsCharge ==
  ASSUME GateAssumption, TypeOK, Carried, BudgetsExact, NEW r \in Creates, Charges(r)
  PROVE  BudgetsExact'
<1> DEFINE i == Intent(r)
<1>1. /\ i \in Intents /\ i \in Requests /\ Email(r) \in Emails /\ Browser(r) \in Browsers
      /\ Browser(i) = Browser(r) /\ Email(r) # Browser(r) /\ Emails \cap Browsers = {}
  BY Kinds DEF Charges, Carried, Accepted, Bound
<1>2. /\ marker \in [Intents -> Markers] /\ marker[i].uses \in 0 .. 1
      /\ marker[i].uses > 0 => marker[i].email = Email(r)
      /\ marker[i].refunded => marker[i].uses > 0
      /\ marker[i].refunded \in BOOLEAN /\ bucket \in [Emails \cup Browsers -> Nat]
  BY <1>1, Types DEF BudgetType, Markers, Charges
<1>3. /\ marker'[i].uses = marker[i].uses + 1 /\ marker'[i].email = Email(r)
      /\ marker'[i].refunded = marker[i].refunded
      /\ \A j \in Intents \ {i} : marker'[j] = marker[j]
  BY <1>1, <1>2, OneUse DEF Charges
<1>4. CASE marker[i].uses = 1
  BY <1>1, <1>2, <1>3, <1>4, BudgetsStay DEF Charging, Used, Browser, Charges
<1>5. CASE marker[i].uses = 0
  <2>1. /\ i \notin Charging(Email(r)) /\ Charging(Email(r))' = Charging(Email(r)) \cup {i}
        /\ \A e \in Emails \ {Email(r)} : Charging(e)' = Charging(e)
    BY <1>1, <1>2, <1>3, <1>5 DEF Charging
  <2>2. /\ i \notin Used(Browser(r)) /\ Used(Browser(r))' = Used(Browser(r)) \cup {i}
        /\ \A b \in Browsers \ {Browser(r)} : Used(b)' = Used(b)
    BY <1>1, <1>2, <1>3, <1>5 DEF Used, Browser
  <2>3. \A z \in Emails \cup Browsers : bucket'[z] = bucket[z] + IF z \in {Email(r), Browser(r)} THEN 1 ELSE 0
    BY <1>5, <1>1, <1>2, Twice DEF Charges
  <2>4. ASSUME NEW e \in Emails PROVE bucket'[e] = Cardinality(Charging(e)')
    BY <2>4, <1>1, <2>1, Charged_Sets, Added, <2>3, <1>2 DEF BudgetsExact
  <2>5. ASSUME NEW b \in Browsers PROVE bucket'[b] = Cardinality(Used(b)')
    BY <2>5, <1>1, <2>2, Charged_Sets, Added, <2>3, <1>2 DEF BudgetsExact
  <2> QED BY <2>4, <2>5 DEF BudgetsExact
<1> QED BY <1>2, <1>4, <1>5

LEMMA BudgetsRefund ==
  ASSUME GateAssumption, TypeOK, Carried, BudgetsExact, NEW r \in Creates, Refunds(r)
  PROVE  BudgetsExact'
<1> DEFINE i == Intent(r)
<1>1. /\ i \in Intents /\ i \in Requests /\ Email(r) \in Emails /\ Emails \cap Browsers = {}
      /\ marker[i].email = Email(r) /\ marker[i].uses > 0 /\ ~marker[i].refunded
      /\ marker \in [Intents -> Markers] /\ bucket \in [Emails \cup Browsers -> Nat]
  BY Kinds, Types DEF Refunds, Refundable, Carried, Paid, BudgetType
<1>2. /\ marker'[i].uses = marker[i].uses /\ marker'[i].email = marker[i].email /\ marker'[i].refunded
      /\ \A j \in Intents \ {i} : marker'[j] = marker[j]
  BY <1>1 DEF Refunds, Markers
<1>3. /\ i \in Charging(Email(r)) /\ Charging(Email(r))' = Charging(Email(r)) \ {i}
      /\ \A e \in Emails \ {Email(r)} : Charging(e)' = Charging(e)
  BY <1>1, <1>2 DEF Charging
<1>4. \A b \in Browsers : Used(b)' = Used(b)
  BY <1>1, <1>2 DEF Used, Browser
<1>5. /\ bucket'[Email(r)] = bucket[Email(r)] - 1
      /\ \A z \in (Emails \cup Browsers) \ {Email(r)} : bucket'[z] = bucket[z]
  BY <1>1 DEF Refunds
<1>6. Cardinality(Charging(Email(r))') = Cardinality(Charging(Email(r))) - 1
  BY <1>1, <1>3, Charged_Sets, Removed
<1> QED BY <1>1, <1>3, <1>4, <1>5, <1>6 DEF BudgetsExact

LEMMA BudgetsHandler ==
  ASSUME GateAssumption, TypeOK, Carried, BudgetsExact, NEW r \in Creates, Handles(r)
  PROVE  BudgetsExact'
<1>1. CASE UNCHANGED <<marker, bucket>>
  BY <1>1, BudgetsStay DEF Charging, Used, Browser
<1> QED BY <1>1, BudgetsCharge, BudgetsRefund DEF Handles, Onward, Still, Binds, Spends, Strikes,
           Reserves, Publishes, Releases, Registers

LEMMA BudgetsApart ==
  ASSUME BudgetsExact, Apart
  PROVE  BudgetsExact'
  BY BudgetsStay DEF Apart, Charging, Used, Browser

-----------------------------------------------------------------------------
(* What everybody else has behind them *)

LEMMA FreshApart ==
  ASSUME GateAssumption, TypeOK, Fresh, Elsewhere
  PROVE  Fresh'
<1>1. ASSUME NEW r \in Intents, IssueFormIntent(r) PROVE Fresh'
  <2>1. r \in Requests /\ Intents \subseteq Requests /\ \A i \in Intents \ {r} : run'[i] = run[i]
    BY <1>1, Kinds, OneMoves, LabelSets DEF IssueFormIntent, EnsureDevice, CreateFormIntent
  <2>2. CASE EnsureDevice(r)
    BY <2>1, <2>2 DEF EnsureDevice, At, Fresh
  <2>3. CASE CreateFormIntent(r)
    BY <2>1, <2>3, Moving, LabelSets DEF CreateFormIntent, TypeOK, Fresh, Goes
  <2> QED BY <1>1, <2>2, <2>3 DEF IssueFormIntent
<1>2. ASSUME NEW r \in Solves, Complete(r) PROVE Fresh'
  <2>1. run[r].answer \in Answers /\ r \in Requests
    BY Kinds, Moving, LabelSets
  <2>2. \A i \in Intents : run'[i] = run[i]
    BY <1>2, <2>1, Kinds, OneMoves, LabelSets DEF Complete, ClaimChallenge, CheckCompletionRate,
       CheckRegistrationCompletionRate, VerifyProof, ConsumeRegistrationChallenge, PutTrust, ReleaseChallenge
  <2>3. UNCHANGED intent
    BY <1>2 DEF Complete, ClaimChallenge, CheckCompletionRate, CheckRegistrationCompletionRate,
       VerifyProof, ConsumeRegistrationChallenge, PutTrust, ReleaseChallenge, formVars
  <2> QED BY <2>2, <2>3 DEF Fresh
<1>3. ASSUME NEW r \in Unblocks, RevokeBlock(r) PROVE Fresh'
  BY <1>3, Kinds, OneMoves, LabelSets DEF RevokeBlock, Revoke, UnblockRegistrationHash, RecordOutcome,
     formVars, Fresh
<1>4. ASSUME NEW r \in Requests, Crash(r) PROVE Fresh'
  BY <1>4, Moving, LabelSets, Kinds DEF Crash, formVars, Goes, Fresh
<1>5. ASSUME NEW i \in Intents, Ripen(i) \/ ExpireIntent(i) PROVE Fresh'
  BY <1>5 DEF Ripen, ExpireIntent, TypeOK, Fresh
<1>6. ASSUME UNCHANGED <<intent, run>> PROVE Fresh'
  BY <1>6 DEF Fresh
<1> QED BY <1>1, <1>2, <1>3, <1>4, <1>5, <1>6 DEF Elsewhere, ExpireChallenge, ExpireClaim,
           ExpireTrust, formVars

LEMMA ShownApart ==
  ASSUME GateAssumption, TypeOK, Placed, Elsewhere
  PROVE  Shown'
<1>0. proven \subseteq proven'
  BY ApartStep DEF Apart
<1>1. ASSUME NEW r \in Intents, IssueFormIntent(r) PROVE \A s \in Solves : run'[s] = run[s]
  BY <1>1, Kinds, OneMoves, LabelSets DEF IssueFormIntent, EnsureDevice, CreateFormIntent
<1>2. ASSUME NEW r \in Unblocks, RevokeBlock(r) PROVE \A s \in Solves : run'[s] = run[s]
  BY <1>2, Kinds, OneMoves, LabelSets DEF RevokeBlock, Revoke, UnblockRegistrationHash, RecordOutcome
<1>3. ASSUME NEW r \in Requests, Crash(r) PROVE \A s \in Solves : run'[s] = run[s] \/ run'[s].pc = "done"
  BY <1>3, Moving, LabelSets, Kinds DEF Crash, Goes
<1>4. ASSUME NEW r \in Solves, Complete(r) PROVE Shown'
  <2>1. run[r].answer \in Answers /\ r \in Requests /\ Solves \subseteq Requests
    BY Kinds, Moving, LabelSets
  <2>2. \A s \in Solves \ {r} : run'[s] = run[s]
    BY <1>4, <2>1, OneMoves, LabelSets DEF Complete, ClaimChallenge, CheckCompletionRate,
       CheckRegistrationCompletionRate, VerifyProof, ConsumeRegistrationChallenge, PutTrust, ReleaseChallenge
  <2>3. CASE VerifyProof(r)
    <3>1. /\ \/ proven' = proven \cup {r} /\ To(r, "spend")
             \/ Then(r, "unclaim", "invalid")
      BY <2>3 DEF VerifyProof
    <3>2. r \in proven' \/ run'[r].pc = "unclaim"
      BY <2>1, <3>1, Moving, LabelSets DEF Goes
    <3> QED BY <1>0, <2>2, <3>2 DEF Placed, Shown
  <2>4. CASE ConsumeRegistrationChallenge(r)
    BY <2>4, <1>0, <2>2 DEF ConsumeRegistrationChallenge, At, Placed, Shown
  <2>5. CASE \/ ClaimChallenge(r) \/ CheckCompletionRate(r) \/ CheckRegistrationCompletionRate(r)
             \/ PutTrust(r) \/ ReleaseChallenge(r)
    <3>1. \E l \in {"guess", "scope", "verify", "unclaim", "done"}, a \in Answers : Goes(r, l, a)
      BY <2>1, <2>5, Moving, LabelSets DEF ClaimChallenge, CheckCompletionRate,
         CheckRegistrationCompletionRate, PutTrust, ReleaseChallenge
    <3>2. run'[r].pc \notin {"spend", "trust"}
      BY <3>1 DEF Goes
    <3> QED BY <1>0, <2>2, <3>2 DEF Placed, Shown
  <2> QED BY <1>4, <2>3, <2>4, <2>5 DEF Complete
<1>5. ASSUME UNCHANGED run PROVE Shown'
  BY <1>0, <1>5 DEF Placed, Shown
<1>6. ASSUME \A s \in Solves : run'[s] = run[s] \/ run'[s].pc = "done" PROVE Shown'
  BY <1>0, <1>6 DEF Placed, Shown
<1> QED BY <1>1, <1>2, <1>3, <1>4, <1>5, <1>6 DEF Elsewhere, Ripen, ExpireIntent, ExpireChallenge,
           ExpireClaim, ExpireTrust

-----------------------------------------------------------------------------
(* The initial states *)

\* The budgets start with what the past intents were charged: one intent, one
\* charge.
LEMMA SameSize ==
  ASSUME GateAssumption, NEW S \in SUBSET (Intents \X Emails),
         \A p, q \in S : p[1] = q[1] => p = q,
         NEW T, T = {i \in Intents : \E p \in S : p[1] = i}
  PROVE  Cardinality(S) = Cardinality(T)
<1> DEFINE f == [p \in S |-> p[1]]
<1>1. T \in SUBSET Requests /\ IsFiniteSet(T)
  BY Finite DEF Intents
<1>2. f \in [S -> T]
  OBVIOUS
<1>3. f \in Injection(S, T)
  BY <1>2 DEF Injection, IsInjective
<1>4. f \in Surjection(S, T)
  BY <1>2 DEF Surjection
<1> HIDE DEF f
<1> QED BY <1>1, <1>3, <1>4, FS_Injection

LEMMA PastOnce ==
  ASSUME GateAssumption, NEW b \in Batches
  PROVE  /\ \A i \in Intents : Past(b, i) <=> \E p \in b.past : p[1] = i
         /\ \A i \in Intents : PastEmail(b, i) \in Emails \cup {NoEmail}
         /\ \A i \in Intents, e \in Emails : Past(b, i) /\ PastEmail(b, i) = e <=> <<i, e>> \in b.past
<1>1. /\ b.past \subseteq Intents \X Emails /\ \A p, q \in b.past : p[1] = q[1] => p = q
      /\ NoEmail \notin Emails
  BY Kinds DEF GateAssumption
<1>2. ASSUME NEW i \in Intents
      PROVE  /\ Past(b, i) <=> \E p \in b.past : p[1] = i
             /\ PastEmail(b, i) \in Emails \cup {NoEmail}
             /\ \A e \in Emails : Past(b, i) /\ PastEmail(b, i) = e <=> <<i, e>> \in b.past
  <2>1. Past(b, i) <=> \E p \in b.past : p[1] = i
    <3>1. ASSUME NEW p \in b.past, p[1] = i PROVE p[2] \in PastOf(b, i)
      BY <1>1, <3>1 DEF PastOf
    <3>2. ASSUME NEW e \in PastOf(b, i) PROVE <<i, e>> \in b.past /\ <<i, e>>[1] = i
      BY DEF PastOf
    <3> QED BY <3>1, <3>2 DEF Past
  <2>2. CASE PastOf(b, i) = {}
    BY <2>1, <2>2 DEF Past, PastOf, PastEmail
  <2>3. CASE PastOf(b, i) # {}
    BY <2>3, <1>1, <2>1 DEF PastEmail, PastOf, Past
  <2> QED BY <2>2, <2>3
<1> QED BY <1>2

LEMMA InitBudgets ==
  ASSUME GateAssumption, Init
  PROVE  BudgetsExact
<1>1. PICK b \in Batches :
        /\ marker = [i \in Intents |-> [uses |-> IF Past(b, i) THEN 1 ELSE 0,
                                        email |-> PastEmail(b, i), refunded |-> FALSE]]
        /\ bucket = [x \in Emails \cup Browsers |->
                       Cardinality({p \in b.past : x \in {p[2], Browser(p[1])}})]
  BY DEF Init
<1>2. /\ b.past \subseteq Intents \X Emails /\ \A p, q \in b.past : p[1] = q[1] => p = q
      /\ \A p \in b.past : p[2] \in Emails /\ p[1] \in Intents /\ Browser(p[1]) \in Browsers
      /\ Emails \cap Browsers = {}
  BY Kinds DEF GateAssumption
<1>3. ASSUME NEW e \in Emails PROVE bucket[e] = Cardinality(Charging(e))
  <2> DEFINE S == {p \in b.past : e \in {p[2], Browser(p[1])}}
  <2>1. S \in SUBSET (Intents \X Emails) /\ \A p, q \in S : p[1] = q[1] => p = q
    BY <1>2
  <2>2. S = {p \in b.past : p[2] = e}
    BY <1>2
  <2>3. Charging(e) = {i \in Intents : <<i, e>> \in b.past}
    BY <1>1, PastOnce DEF Charging
  <2>4. Charging(e) = {i \in Intents : \E p \in S : p[1] = i}
    BY <1>2, <2>2, <2>3
  <2>5. bucket[e] = Cardinality(S)
    BY <1>1
  <2> HIDE DEF S
  <2> QED BY <2>1, <2>4, <2>5, SameSize
<1>4. ASSUME NEW x \in Browsers PROVE bucket[x] = Cardinality(Used(x))
  <2> DEFINE S == {p \in b.past : x \in {p[2], Browser(p[1])}}
  <2>1. S \in SUBSET (Intents \X Emails) /\ \A p, q \in S : p[1] = q[1] => p = q
    BY <1>2
  <2>2. S = {p \in b.past : Browser(p[1]) = x}
    BY <1>2
  <2>3. Used(x) = {i \in Intents : Past(b, i) /\ Browser(i) = x}
    BY <1>1 DEF Used
  <2>4. Used(x) = {i \in Intents : \E p \in S : p[1] = i}
    BY <2>2, <2>3, PastOnce
  <2>5. bucket[x] = Cardinality(S)
    BY <1>1
  <2> HIDE DEF S
  <2> QED BY <2>1, <2>4, <2>5, SameSize
<1> QED BY <1>3, <1>4 DEF BudgetsExact

LEMMA InitInv ==
  ASSUME GateAssumption, Init
  PROVE  GateInv
<1>1. PICK b \in Batches :
        /\ run = [r \in Requests |-> [pc |-> IF r \in b.requests THEN "idle" ELSE "done",
                                      answer |-> "none"]]
        /\ intent = [i \in Intents |-> [state |-> IF Past(b, i) THEN "spent" ELSE "none",
                                        email |-> PastEmail(b, i)]]
        /\ marker = [i \in Intents |-> [uses |-> IF Past(b, i) THEN 1 ELSE 0,
                                        email |-> PastEmail(b, i), refunded |-> FALSE]]
        /\ created = [i \in Intents |-> IF Past(b, i) THEN 1 ELSE 0]
        /\ bucket = [x \in Emails \cup Browsers |->
                       Cardinality({p \in b.past : x \in {p[2], Browser(p[1])}})]
  BY DEF Init
<1>2. /\ \A r \in Requests : run[r].pc \in {"idle", "done"} /\ run[r].answer = "none"
      /\ \A r \in Requests : run[r].pc = "idle" => r \in b.requests
      /\ Creates \subseteq Requests /\ Solves \subseteq Requests /\ Intents \subseteq Requests
  BY <1>1 DEF Creates, Solves, Intents
<1>3. BudgetsExact
  BY InitBudgets
<1>4. TypeOK
  <2>1. RunType
    BY <1>1, LabelSets DEF RunType
  <2>2. FormType
    BY <1>1, PastOnce DEF Init, FormType, States
  <2>3. ScopeType
    BY DEF Init, ScopeType
  <2>4. ProofType
    BY Kinds DEF Init, ProofType, Sources
  <2>5. BudgetType
    <3>1. bucket \in [Emails \cup Browsers -> Nat]
      BY <1>1, <1>3, Charged_Sets, Finite DEF BudgetsExact
    <3>2. marker \in [Intents -> Markers] /\ \A i \in Intents : marker[i].refunded => marker[i].uses > 0
      BY <1>1, PastOnce DEF Markers
    <3> QED BY <3>1, <3>2 DEF BudgetType
  <2>6. created \in [Intents -> Nat] /\ faults \in 0 .. MaxFaults
    BY <1>1, Kinds DEF Init
  <2> QED BY <2>1, <2>2, <2>3, <2>4, <2>5, <2>6, Types
<1>5. Placed
  BY <1>2, PastOnce, <1>1 DEF GateAssumption, Fresh, Carried, Shown, Accepted, Paid, Placed
<1>6. HumanProven
  BY <1>2 DEF HumanProven
<1>7. Sole
  BY SMTT(40), <1>1, <1>2 DEF Sole, AtService
<1>8. StrikesPaid
  <2>1. Hits = {} /\ Gone \in SUBSET Requests
    BY <1>2 DEF Hits, Gone
  <2>2. Cardinality(Hits) = 0 /\ Cardinality(Gone) \in Nat
    BY <2>1, FS_EmptySet, Finite
  <2> QED BY <2>2 DEF StrikesPaid, Init
<1>9. Blocking
  BY Kinds DEF Init, Blocking
<1>10. Counted
  <2>1. /\ \A c \in Creates : Guessing(c) = {} /\ guesses[c] = 0
        /\ \A x \in Browsers : Trying(x) = {} /\ tried[x] = 0
    BY <1>2 DEF Guessing, Trying, Init, Sources
  <2>2. Cardinality({}) = 0 /\ GuessLimit \in Nat
    BY FS_EmptySet, Kinds
  <2>3. ASSUME NEW c \in Creates PROVE Cardinality(Guessing(c)) = 0
    BY <2>3, <2>1, <2>2
  <2>4. ASSUME NEW x \in Browsers PROVE Cardinality(Trying(x)) = 0
    BY <2>4, <2>1, <2>2
  <2> QED BY <2>1, <2>2, <2>3, <2>4 DEF Counted
<1>11. Occupied
  BY DEF Init, Occupied
<1> QED BY <1>3, <1>4, <1>5, <1>6, <1>7, <1>8, <1>9, <1>10, <1>11 DEF GateInv

-----------------------------------------------------------------------------
(* The theorems *)

LEMMA StepInv ==
  ASSUME GateAssumption, GateInv, [Next]_gateVars
  PROVE  GateInv'
<1> USE DEF GateInv, Placed
<1>1. ASSUME NEW r \in Creates, CreateHandler(r) PROVE GateInv'
  BY <1>1, HandlerStep, HandlerTypes, FreshHandler, CarriedHandler, ShownHandler, HumanHandler, SoleHandler,
     OccupiedHandler, StruckHandler, BlockingHandler, CountedHandler, BudgetsHandler
<1>2. ASSUME Elsewhere PROVE GateInv'
  <2>1. Apart
    BY <1>2, ApartStep
  <2>2. TypeOK'
    BY <1>2, IssueTypes, CompleteTypes, RevokeTypes, TimeTypes DEF Elsewhere
  <2>3. Fresh' /\ Carried' /\ Shown'
    BY <1>2, <2>1, FreshApart, CarriedApart, ShownApart
  <2>4. HumanProven' /\ Sole' /\ Occupied' /\ StrikesPaid' /\ BudgetsExact'
    BY <2>1, HumanApart, SoleApart, OccupiedApart, StruckApart, BudgetsApart
  <2>5. Blocking' /\ Counted'
    BY <1>2, BlockingApart, CountedApart
  <2> QED BY <2>2, <2>3, <2>4, <2>5
<1>3. CASE UNCHANGED gateVars
  <2>1. TypeOK'
    BY <1>3 DEF gateVars, TypeOK
  <2>2. Fresh' /\ Carried' /\ Shown' /\ HumanProven' /\ Sole'
    BY <1>3 DEF gateVars, Fresh, Carried, Shown, HumanProven, Sole, AtService, Bound, Scope, Intent,
                Email, Browser, Of
  <2>3. StrikesPaid' /\ Blocking' /\ Counted' /\ BudgetsExact' /\ Occupied'
    BY <1>3 DEF gateVars, StrikesPaid, Hits, Gone, Blocking, Counted, Guessing, Trying, BudgetsExact,
                Charging, Used, Occupied, Answered, Scope, Intent, Email, Browser, Of
  <2> QED BY <2>1, <2>2, <2>3
<1> QED BY <1>1, <1>2, <1>3, Actors

THEOREM InvHolds == ASSUME GateAssumption PROVE Spec => []GateInv
<1>1. Init => GateInv
  BY InitInv
<1>2. GateInv /\ [Next]_gateVars => GateInv'
  BY StepInv
<1> QED BY <1>1, <1>2, PTL DEF Spec

\* Requests, forms, budgets and proofs keep the shape their stores hold.
THEOREM TypeCorrect == ASSUME GateAssumption PROVE Spec => []TypeOK
<1>1. GateInv => TypeOK
  BY DEF GateInv
<1> QED BY <1>1, InvHolds, PTL

\* An intent begins at most one registration, spent and charged before (Create).
THEOREM RegistersOnce == ASSUME GateAssumption PROVE Spec => []OneRegistration
<1>1. GateInv => OneRegistration
  BY DEF GateInv, TypeOK, Sole, OneRegistration
<1> QED BY <1>1, InvHolds, PTL

\* What reaches the registration service was proven human for this very form
\* (RequireRegistration).
THEOREM ProvenHuman == ASSUME GateAssumption PROVE Spec => []HumanProven
<1>1. GateInv => HumanProven
  BY DEF GateInv
<1> QED BY <1>1, InvHolds, PTL

\* A budget is what the unrefunded uses of intents say (registrationCreateChainScript).
THEOREM ExactBudgets == ASSUME GateAssumption PROVE Spec => []BudgetsExact
<1>1. GateInv => BudgetsExact
  BY DEF GateInv
<1> QED BY <1>1, InvHolds, PTL

\* A delivered challenge is alone in its scope (FinalizeRegistrationChallenge).
THEOREM ChallengeAlone == ASSUME GateAssumption PROVE Spec => []SoleChallenge
<1>1. GateInv => SoleChallenge
  BY DEF GateInv, Occupied, SoleChallenge, Delivered
<1> QED BY <1>1, InvHolds, PTL

\* The provider judges at most so many proofs of a challenge and of a device
\* (CheckCompletionRate, CheckRegistrationCompletionRate).
THEOREM BoundedGuesses == ASSUME GateAssumption PROVE Spec => []GuessesBounded
<1>1. ASSUME GateInv PROVE GuessesBounded
  <2>1. asked \subseteq Solves /\ tried \in [Sources -> Nat] /\ \A b \in Browsers : tried[b] <= DeviceGuesses
    BY <1>1 DEF GateInv, TypeOK
  <2>2. ASSUME NEW c \in Creates PROVE Cardinality({s \in asked : Of(s) = c}) <= GuessLimit
    <3>1. {s \in asked : Of(s) = c} \subseteq Guessing(c)
      BY <2>1 DEF Guessing
    <3>2. /\ Cardinality({s \in asked : Of(s) = c}) <= Cardinality(Guessing(c))
          /\ Cardinality({s \in asked : Of(s) = c}) \in Nat /\ Cardinality(Guessing(c)) \in Nat
      BY <3>1, Guessers, NoMore
    <3>3. Cardinality(Guessing(c)) <= GuessLimit /\ GuessLimit \in Nat
      BY <1>1, Kinds DEF GateInv, Counted
    <3> QED BY <3>2, <3>3
  <2>3. ASSUME NEW b \in Browsers PROVE Cardinality({s \in asked : Browser(Of(s)) = b}) <= DeviceGuesses
    <3>1. {s \in asked : Browser(Of(s)) = b} \subseteq Trying(b)
      BY <2>1 DEF Trying
    <3>2. /\ Cardinality({s \in asked : Browser(Of(s)) = b}) <= Cardinality(Trying(b))
          /\ Cardinality({s \in asked : Browser(Of(s)) = b}) \in Nat /\ Cardinality(Trying(b)) \in Nat
      BY <3>1, Guessers, NoMore
    <3>3. Cardinality(Trying(b)) <= tried[b] /\ tried[b] \in Nat /\ tried[b] <= DeviceGuesses
          /\ DeviceGuesses \in Nat
      BY <1>1, <2>1, Kinds DEF GateInv, Counted, Sources
    <3> QED BY <3>2, <3>3
  <2> QED BY <2>2, <2>3 DEF GuessesBounded
<1> QED BY <1>1, InvHolds, PTL

\* Every strike cost an intent, and the address is blocked as the strikes say
\* (recordRegistrationHoneypotScript).
THEOREM EarnedStrikes == ASSUME GateAssumption PROVE Spec => []StrikesEarned
<1>1. ASSUME GateInv PROVE StrikesEarned
  BY <1>1, Finite DEF Hits, Gone, Creates, Intents, GateInv, TypeOK, StrikesPaid, Blocking, StrikesEarned
<1> QED BY <1>1, InvHolds, PTL

\* A pinned email and a spent intent stay (bindRegistrationFormIntentEmailScript).
THEOREM PinsStay == ASSUME GateAssumption PROVE Spec => [][PinKept]_gateVars
<1>1. ASSUME GateInv, [Next]_gateVars PROVE [PinKept]_gateVars
  BY <1>1, HandlerStep, HandlerIntents, ApartStep, Actors DEF GateInv, PinKept, NoEmail, Apart
<1> QED BY <1>1, InvHolds, PTL DEF Spec

-----------------------------------------------------------------------------
(***************************************************************************)
(* The admission queue.  A slot of a semaphore is held by a caller that    *)
(* can be named, whichever way it leaves; a lane lives as long as somebody *)
(* refers to it.                                                           *)
(***************************************************************************)
CONSTANTS
  Callers,             \* requests that pass through, each once
  DomainOf,            \* the mail domain of each
  Established,         \* the domains that need no lane
  InFlight,
  Queued,
  UnfamiliarInFlight,
  UnfamiliarQueued,
  PerDomain,
  MaxLanes,            \* model bound: lanes ever made for a domain
  MaxTimeouts          \* model bound: waits that end in a timeout

VARIABLES
  chan,      \* entries in the channels totalSlots, unfamiliarSlots, unfamiliar and global
  lanes,     \* the lane each domain maps to now, 0 for none
  refs,      \* references of each lane object
  sem,       \* entries in the semaphore of each lane object
  made,      \* lanes made so far for each domain
  held,      \* what each caller holds
  lane,      \* the lane object each caller retained
  pc,
  timeouts

Queue == INSTANCE Admission

\* The queue counts as the standard modules do.
LEMMA QueueCounts ==
  \A S : Queue!Cardinality(S) = Cardinality(S) /\ (Queue!IsFiniteSet(S) <=> IsFiniteSet(S))
BY DEF Queue!Cardinality, Queue!IsFiniteSet, Cardinality, IsFiniteSet
USE QueueCounts

(***************************************************************************)
(* The inductive invariant: where a caller stands says what it holds       *)
(* (HoldsWhatItTook); the channels and lanes count the holders (ChanCounts *)
(* and LaneCounts); a retained lane is the one the map has (LaneCurrent).  *)
(***************************************************************************)
ToGlobal(c) == IF Queue!Unfamiliar(c) THEN Queue!Grants \ {"global"} ELSE {"totalSlots"}

HoldsWhatItTook(c) ==
  /\ pc[c] \in {"idle", "left", "busy"} => held[c] = {}
  /\ pc[c] = "slots" => held[c] = {"totalSlots"}
  /\ pc[c] = "retain" => held[c] = {"totalSlots", "unfamiliarSlots"}
  /\ pc[c] = "lane" => held[c] = {"totalSlots", "unfamiliarSlots", "lane"}
  /\ pc[c] = "unfamiliar" => held[c] = {"totalSlots", "unfamiliarSlots", "lane", "laneSlot"}
  /\ pc[c] = "global" => held[c] = ToGlobal(c)
  /\ pc[c] \in {"slots", "retain", "lane", "unfamiliar"} => Queue!Unfamiliar(c)
  /\ "laneSlot" \in held[c] => "lane" \in held[c]
  /\ "lane" \in held[c] => lane[c] \in 1 .. MaxLanes

OnLane(g, l) == {c \in Queue!Holders(g) : Queue!LaneOf(c) = l}
ChanCounts   == \A k \in Queue!Channels : chan[k] = Cardinality(Queue!Holders(k))
LaneCounts   == \A l \in Queue!Lanes : /\ refs[l] = Cardinality(OnLane("lane", l))
                                       /\ sem[l] = Cardinality(OnLane("laneSlot", l))

AdmissionInv ==
  /\ Queue!TypeOK
  /\ \A c \in Callers : HoldsWhatItTook(c)
  /\ ChanCounts
  /\ LaneCounts
  /\ Queue!LaneCurrent

-----------------------------------------------------------------------------
(* Counting *)

LEMMA LimitsNat ==
  ASSUME Queue!AdmissionAssumption
  PROVE  \A k \in Queue!Channels : Queue!Limit(k) \in Nat
  BY DEF Queue!AdmissionAssumption, Queue!Channels, Queue!Limit

LEMMA FiniteHolders ==
  ASSUME Queue!AdmissionAssumption, NEW S \in SUBSET Callers
  PROVE  IsFiniteSet(S) /\ Cardinality(S) \in Nat /\ Cardinality(S) <= Cardinality(Callers)
  BY FS_Subset, FS_CardinalityType DEF Queue!AdmissionAssumption

LEMMA CountUp ==
  ASSUME Queue!AdmissionAssumption, NEW S \in SUBSET Callers, NEW c \in Callers, c \notin S
  PROVE  Cardinality(S \cup {c}) = Cardinality(S) + 1
  BY FiniteHolders, FS_AddElement

LEMMA CountDown ==
  ASSUME Queue!AdmissionAssumption, NEW S \in SUBSET Callers, NEW c \in S
  PROVE  Cardinality(S \ {c}) = Cardinality(S) - 1 /\ Cardinality(S) >= 1
  BY FiniteHolders, FS_RemoveElement

\* Who holds what after one caller took or gave back one entry.
LEMMA HoldersGain ==
  ASSUME Queue!TypeOK, NEW c \in Callers, NEW k \in Queue!Grants, k \notin held[c],
         held' = [held EXCEPT ![c] = @ \cup {k}]
  PROVE  /\ Queue!Holders(k)' = Queue!Holders(k) \cup {c} /\ c \notin Queue!Holders(k)
         /\ \A g \in Queue!Grants \ {k} : Queue!Holders(g)' = Queue!Holders(g)
  BY DEF Queue!TypeOK, Queue!Holders

LEMMA HoldersLose ==
  ASSUME Queue!TypeOK, NEW c \in Callers, NEW k \in Queue!Grants, k \in held[c],
         held' = [held EXCEPT ![c] = @ \ {k}]
  PROVE  /\ Queue!Holders(k)' = Queue!Holders(k) \ {c} /\ c \in Queue!Holders(k)
         /\ \A g \in Queue!Grants \ {k} : Queue!Holders(g)' = Queue!Holders(g)
  BY DEF Queue!TypeOK, Queue!Holders

\* A channel operation keeps the channels counting their holders.
LEMMA PutCounts ==
  ASSUME Queue!AdmissionAssumption, Queue!TypeOK, ChanCounts, NEW c \in Callers, NEW k \in Queue!Channels,
         k \notin held[c], Queue!Put(c, k)
  PROVE  ChanCounts' /\ \A g \in Queue!Grants \ {k} : Queue!Holders(g)' = Queue!Holders(g)
<1>1. k \in Queue!Grants /\ Queue!Channels \subseteq Queue!Grants
  BY DEF Queue!Channels, Queue!Grants
<1>2. /\ Queue!Holders(k)' = Queue!Holders(k) \cup {c} /\ c \notin Queue!Holders(k)
      /\ \A g \in Queue!Grants \ {k} : Queue!Holders(g)' = Queue!Holders(g)
  BY <1>1, HoldersGain DEF Queue!Put
<1>3. Cardinality(Queue!Holders(k)') = Cardinality(Queue!Holders(k)) + 1
  BY <1>2, CountUp DEF Queue!Holders
<1>4. ASSUME NEW g \in Queue!Channels PROVE chan'[g] = Cardinality(Queue!Holders(g)')
  BY <1>4, <1>3, <1>1, <1>2 DEF Queue!Put, Queue!TypeOK, ChanCounts
<1> QED
  BY <1>2, <1>4 DEF ChanCounts

LEMMA TakeCounts ==
  ASSUME Queue!AdmissionAssumption, Queue!TypeOK, ChanCounts, NEW c \in Callers, NEW k \in Queue!Channels,
         k \in held[c], Queue!Take(c, k)
  PROVE  /\ ChanCounts' /\ \A g \in Queue!Grants \ {k} : Queue!Holders(g)' = Queue!Holders(g)
         /\ chan[k] >= 1
<1>1. k \in Queue!Grants /\ Queue!Channels \subseteq Queue!Grants
  BY DEF Queue!Channels, Queue!Grants
<1>2. /\ Queue!Holders(k)' = Queue!Holders(k) \ {c} /\ c \in Queue!Holders(k)
      /\ \A g \in Queue!Grants \ {k} : Queue!Holders(g)' = Queue!Holders(g)
  BY <1>1, HoldersLose DEF Queue!Take
<1>3. Cardinality(Queue!Holders(k)') = Cardinality(Queue!Holders(k)) - 1 /\ Cardinality(Queue!Holders(k)) >= 1
  BY <1>2, CountDown DEF Queue!Holders
<1>4. ASSUME NEW g \in Queue!Channels PROVE chan'[g] = Cardinality(Queue!Holders(g)')
  BY <1>4, <1>3, <1>1, <1>2 DEF Queue!Take, Queue!TypeOK, ChanCounts
<1> QED
  BY <1>2, <1>3, <1>4 DEF ChanCounts

\* A step on the channels moves no lane: its counts stand.
LEMMA LanesStand ==
  ASSUME Queue!TypeOK, LaneCounts, Queue!LaneCurrent, UNCHANGED Queue!laneVars,
         Queue!Holders("lane")' = Queue!Holders("lane"), Queue!Holders("laneSlot")' = Queue!Holders("laneSlot")
  PROVE  LaneCounts' /\ Queue!LaneCurrent'
  BY DEF Queue!laneVars, OnLane, Queue!LaneOf, LaneCounts, Queue!LaneCurrent

\* A step on the lanes moves no channel.
LEMMA ChannelsStand ==
  ASSUME Queue!TypeOK, ChanCounts, UNCHANGED chan,
         \A k \in Queue!Channels : Queue!Holders(k)' = Queue!Holders(k)
  PROVE  ChanCounts'
  BY DEF ChanCounts

-----------------------------------------------------------------------------
(* What a step of one caller leaves to the others *)

LEMMA OthersKeep ==
  ASSUME NEW c \in Callers, \A x \in Callers : HoldsWhatItTook(x),
         \A x \in Callers \ {c} :
           pc'[x] = pc[x] /\ held'[x] = held[x] /\ lane'[x] = lane[x],
         HoldsWhatItTook(c)'
  PROVE  \A x \in Callers : HoldsWhatItTook(x)'
  BY DEF HoldsWhatItTook, ToGlobal, Queue!Unfamiliar

LEMMA LabelTypes ==
  ASSUME Queue!TypeOK, NEW c \in Callers, NEW p \in Queue!Labels, pc' = [pc EXCEPT ![c] = p]
  PROVE  pc' \in [Callers -> Queue!Labels] /\ pc'[c] = p /\ \A x \in Callers \ {c} : pc'[x] = pc[x]
  BY DEF Queue!TypeOK

LEMMA PutTypes ==
  ASSUME Queue!AdmissionAssumption, Queue!TypeOK, NEW c \in Callers, NEW k \in Queue!Channels,
         Queue!Put(c, k), ~Queue!Full(k)
  PROVE  /\ chan' \in [Queue!Channels -> Nat] /\ \A g \in Queue!Channels : chan'[g] <= Queue!Limit(g)
         /\ held' \in [Callers -> SUBSET Queue!Grants]
         /\ held'[c] = held[c] \cup {k} /\ \A x \in Callers \ {c} : held'[x] = held[x]
  BY LimitsNat DEF Queue!TypeOK, Queue!Full, Queue!Channels, Queue!Grants, Queue!Put

LEMMA TakeTypes ==
  ASSUME Queue!AdmissionAssumption, Queue!TypeOK, NEW c \in Callers, NEW k \in Queue!Channels,
         Queue!Take(c, k), chan[k] >= 1
  PROVE  /\ chan' \in [Queue!Channels -> Nat] /\ \A g \in Queue!Channels : chan'[g] <= Queue!Limit(g)
         /\ held' \in [Callers -> SUBSET Queue!Grants]
         /\ held'[c] = held[c] \ {k} /\ \A x \in Callers \ {c} : held'[x] = held[x]
  BY LimitsNat DEF Queue!TypeOK, Queue!Take

\* A step that puts an entry into a channel, and moves its caller on.
LEMMA PutKeeps ==
  ASSUME Queue!AdmissionAssumption, AdmissionInv, NEW c \in Callers, NEW k \in Queue!Channels,
         NEW p \in Queue!Labels, k \notin held[c], ~Queue!Full(k), Queue!Put(c, k), Queue!To(c, p),
         UNCHANGED <<Queue!laneVars, timeouts>>, HoldsWhatItTook(c)'
  PROVE  AdmissionInv'
  BY PutTypes, LabelTypes, OthersKeep, PutCounts, LanesStand DEF AdmissionInv, Queue!TypeOK, Queue!To,
     Queue!laneVars, Queue!Channels, Queue!Grants

LEMMA TakeKeeps ==
  ASSUME Queue!AdmissionAssumption, AdmissionInv, NEW c \in Callers, NEW k \in Queue!Channels,
         NEW p \in Queue!Labels, k \in held[c], Queue!Take(c, k), Queue!To(c, p),
         UNCHANGED <<Queue!laneVars, timeouts>>, HoldsWhatItTook(c)'
  PROVE  AdmissionInv'
  BY TakeCounts, TakeTypes, LabelTypes, OthersKeep, LanesStand DEF AdmissionInv, Queue!TypeOK, Queue!To,
     Queue!laneVars, Queue!Channels, Queue!Grants

\* A step that moves nothing but where its caller stands.
LEMMA MoveKeeps ==
  ASSUME Queue!AdmissionAssumption, AdmissionInv, NEW c \in Callers, NEW p \in Queue!Labels, Queue!To(c, p),
         UNCHANGED <<chan, held, Queue!laneVars>>, timeouts' \in 0 .. MaxTimeouts, HoldsWhatItTook(c)'
  PROVE  AdmissionInv'
  BY LabelTypes, OthersKeep, ChannelsStand, LanesStand DEF AdmissionInv, Queue!TypeOK, Queue!To,
     Queue!laneVars, Queue!Holders, Queue!Channels, Queue!Grants

-----------------------------------------------------------------------------
(* The steps on channels *)

LEMMA ChannelSteps ==
  ASSUME Queue!AdmissionAssumption, AdmissionInv, NEW c \in Callers,
         \/ Queue!TryReserve(c) \/ Queue!TryReserveUnfamiliar(c) \/ Queue!AcquireUnfamiliar(c)
         \/ Queue!AcquireGlobal(c)
         \/ Queue!Release(c) \/ Queue!WaitTimeout(c) \/ Queue!GiveBack(c)
  PROVE  AdmissionInv'
<1>0. /\ HoldsWhatItTook(c) /\ held[c] \in SUBSET Queue!Grants /\ Queue!TypeOK
      /\ timeouts \in 0 .. MaxTimeouts /\ MaxTimeouts \in Nat
  BY DEF AdmissionInv, Queue!TypeOK, Queue!AdmissionAssumption
<1>1. CASE Queue!TryReserve(c) /\ ~Queue!Full("totalSlots")
  <2> DEFINE p == IF Queue!Unfamiliar(c) THEN "slots" ELSE "global"
  <2>1. p \in Queue!Labels /\ "totalSlots" \in Queue!Channels /\ held[c] = {}
    BY <1>0, <1>1 DEF Queue!Labels, Queue!Channels, Queue!TryReserve, Queue!At, HoldsWhatItTook
  <2>2. Queue!Put(c, "totalSlots") /\ Queue!To(c, p) /\ UNCHANGED <<Queue!laneVars, timeouts>>
    BY <1>1 DEF Queue!TryReserve
  <2>3. pc'[c] = p /\ held'[c] = {"totalSlots"} /\ lane'[c] = lane[c]
    <3>1. pc'[c] = p /\ lane'[c] = lane[c]
      BY <2>1, <2>2, <1>0, LabelTypes DEF Queue!To, Queue!laneVars
    <3>2. held'[c] = held[c] \cup {"totalSlots"}
      BY <2>1, <2>2, <1>0, <1>1, PutTypes
    <3> QED
      BY <3>1, <3>2, <2>1
  <2>4. HoldsWhatItTook(c)'
    BY <2>3 DEF HoldsWhatItTook, ToGlobal, Queue!Unfamiliar
  <2> QED
    BY <2>1, <2>2, <2>4, <1>1, PutKeeps
<1>2. CASE Queue!TryReserve(c) /\ Queue!Full("totalSlots")
  BY <1>0, <1>2, LabelTypes, MoveKeeps DEF Queue!TryReserve, Queue!At, HoldsWhatItTook, Queue!Labels,
     Queue!To, Queue!laneVars
<1>3. CASE Queue!TryReserveUnfamiliar(c) /\ ~Queue!Full("unfamiliarSlots")
  <2>1. /\ held[c] = {"totalSlots"} /\ "unfamiliarSlots" \in Queue!Channels /\ "retain" \in Queue!Labels
        /\ Queue!Put(c, "unfamiliarSlots") /\ Queue!To(c, "retain") /\ UNCHANGED <<Queue!laneVars, timeouts>>
        /\ Queue!Unfamiliar(c)
    BY <1>0, <1>3 DEF Queue!TryReserveUnfamiliar, Queue!At, HoldsWhatItTook, Queue!Channels, Queue!Labels
  <2>2. /\ pc'[c] = "retain" /\ held'[c] = {"totalSlots", "unfamiliarSlots"}
        /\ lane'[c] = lane[c]
    <3>1. pc'[c] = "retain" /\ lane'[c] = lane[c]
      BY <2>1, <1>0, LabelTypes DEF Queue!To, Queue!laneVars
    <3>2. held'[c] = held[c] \cup {"unfamiliarSlots"}
      BY <2>1, <1>0, <1>3, PutTypes
    <3> QED
      BY <3>1, <3>2, <2>1
  <2>3. HoldsWhatItTook(c)'
    BY <2>1, <2>2 DEF HoldsWhatItTook, Queue!Unfamiliar
  <2> QED
    BY <2>1, <2>3, <1>3, PutKeeps
<1>4. CASE Queue!TryReserveUnfamiliar(c) /\ Queue!Full("unfamiliarSlots")
  <2>1. /\ held[c] = {"totalSlots"} /\ "totalSlots" \in Queue!Channels /\ "busy" \in Queue!Labels
        /\ Queue!Take(c, "totalSlots") /\ Queue!To(c, "busy") /\ UNCHANGED <<Queue!laneVars, timeouts>>
    BY <1>0, <1>4 DEF Queue!TryReserveUnfamiliar, Queue!At, HoldsWhatItTook, Queue!Channels, Queue!Labels
  <2>2. chan["totalSlots"] >= 1
    BY <2>1, <1>0, TakeCounts DEF AdmissionInv
  <2>3. pc'[c] = "busy" /\ held'[c] = {} /\ lane'[c] = lane[c]
    <3>1. pc'[c] = "busy" /\ lane'[c] = lane[c]
      BY <2>1, <1>0, LabelTypes DEF Queue!To, Queue!laneVars
    <3>2. held'[c] = held[c] \ {"totalSlots"}
      BY <2>1, <2>2, <1>0, TakeTypes
    <3> QED
      BY <3>1, <3>2, <2>1
  <2>4. HoldsWhatItTook(c)'
    BY <2>3 DEF HoldsWhatItTook
  <2> QED
    BY <2>1, <2>4, TakeKeeps
<1>5. CASE Queue!AcquireUnfamiliar(c)
  <2>1. /\ held[c] = {"totalSlots", "unfamiliarSlots", "lane", "laneSlot"} /\ Queue!Unfamiliar(c)
        /\ "unfamiliar" \in Queue!Channels /\ "global" \in Queue!Labels /\ ~Queue!Full("unfamiliar")
        /\ Queue!Put(c, "unfamiliar") /\ Queue!To(c, "global") /\ UNCHANGED <<Queue!laneVars, timeouts>>
        /\ lane[c] \in 1 .. MaxLanes
    BY <1>0, <1>5 DEF Queue!AcquireUnfamiliar, Queue!At, HoldsWhatItTook, Queue!Channels, Queue!Labels
  <2>2. /\ pc'[c] = "global" /\ held'[c] = Queue!Grants \ {"global"} /\ lane'[c] = lane[c]
    <3>1. pc'[c] = "global" /\ lane'[c] = lane[c]
      BY <2>1, <1>0, LabelTypes DEF Queue!To, Queue!laneVars
    <3>2. held'[c] = held[c] \cup {"unfamiliar"}
      BY <2>1, <1>0, PutTypes
    <3> QED
      BY <3>1, <3>2, <2>1 DEF Queue!Grants
  <2>3. HoldsWhatItTook(c)'
    BY <2>1, <2>2 DEF HoldsWhatItTook, ToGlobal, Queue!Unfamiliar, Queue!Grants
  <2> QED
    BY <2>1, <2>3, PutKeeps
<1>6. CASE Queue!AcquireGlobal(c)
  BY <1>0, <1>6, LabelTypes, PutTypes, PutKeeps DEF Queue!AcquireGlobal, Queue!At, HoldsWhatItTook,
     Queue!Channels, Queue!Labels, Queue!To, Queue!laneVars, ToGlobal
<1>7. CASE Queue!Release(c) \/ Queue!WaitTimeout(c)
  BY <1>7, <1>0, LabelTypes, MoveKeeps DEF Queue!Release, Queue!WaitTimeout, Queue!Labels, Queue!To,
     Queue!laneVars, HoldsWhatItTook
<1>8. CASE Queue!GiveBack(c)
  <2>1. PICK k \in Queue!Channels : Queue!First(c, k) /\ Queue!Take(c, k)
                              /\ IF k = "totalSlots" THEN Queue!To(c, "left") ELSE UNCHANGED pc
    BY <1>8 DEF Queue!GiveBack
  <2> DEFINE p == IF k = "totalSlots" THEN "left" ELSE "leaving"
  <2>2. pc[c] = "leaving" /\ UNCHANGED <<Queue!laneVars, timeouts>> /\ p \in Queue!Labels /\ k \in held[c]
    BY <1>8, <2>1 DEF Queue!GiveBack, Queue!At, Queue!Labels, Queue!First
  <2>3. Queue!To(c, p)
    BY <2>1, <2>2, <1>0 DEF Queue!To, Queue!TypeOK
  <2>4. chan[k] >= 1
    BY <2>1, <2>2, <1>0, TakeCounts DEF AdmissionInv
  <2>5. pc'[c] = p /\ held'[c] = held[c] \ {k} /\ lane'[c] = lane[c]
    BY <2>1, <2>2, <2>3, <2>4, <1>0, TakeTypes, LabelTypes DEF Queue!To, Queue!laneVars
  <2>6. k = "totalSlots" => held'[c] = {}
    BY <2>1, <2>5, <1>0 DEF Queue!First, Queue!Order, Queue!Grants
  <2>7. HoldsWhatItTook(c)'
    BY <2>1, <2>2, <2>5, <2>6, <1>0 DEF HoldsWhatItTook, Queue!Channels
  <2> QED
    BY <2>1, <2>2, <2>3, <2>7, TakeKeeps
<1> QED
  BY <1>1, <1>2, <1>3, <1>4, <1>5, <1>6, <1>7, <1>8

-----------------------------------------------------------------------------
(* The steps on lanes *)

\* A caller's lane is one of the map's: <<its domain, lane[c]>>.
LEMMA LaneTypes ==
  ASSUME NEW c \in Callers, lane[c] \in 1 .. MaxLanes
  PROVE  Queue!LaneOf(c) \in Queue!Lanes
  BY DEF Queue!LaneOf, Queue!Lanes, Queue!Domains

LEMMA RetainKeeps ==
  ASSUME Queue!AdmissionAssumption, AdmissionInv, NEW c \in Callers, Queue!retainLane(c)
  PROVE  AdmissionInv'
<1> DEFINE d == DomainOf[c]
           n == IF lanes[d] = Queue!NoLane THEN made[d] + 1 ELSE lanes[d]
<1>0. /\ Queue!TypeOK /\ HoldsWhatItTook(c) /\ MaxLanes \in Nat /\ d \in Queue!Domains
      /\ made[d] \in Nat /\ lanes[d] \in Nat /\ held[c] \in SUBSET Queue!Grants
      /\ lanes[d] <= made[d] /\ made[d] <= MaxLanes
  BY DEF AdmissionInv, Queue!TypeOK, Queue!AdmissionAssumption, Queue!Domains
<1>1. /\ Queue!To(c, "lane") /\ "lane" \in Queue!Labels /\ n <= MaxLanes
      /\ lanes' = [lanes EXCEPT ![d] = n] /\ lane' = [lane EXCEPT ![c] = n]
      /\ made' = [made EXCEPT ![d] = IF made[d] < n THEN n ELSE made[d]]
      /\ refs' = [refs EXCEPT ![<<d, n>>] = refs[<<d, n>>] + 1]
      /\ held' = [held EXCEPT ![c] = held[c] \cup {"lane"}]
      /\ UNCHANGED <<chan, sem, timeouts>>
      /\ held[c] = {"totalSlots", "unfamiliarSlots"} /\ Queue!Unfamiliar(c)
  BY <1>0 DEF Queue!retainLane, Queue!Referred, Queue!Labels, Queue!At, HoldsWhatItTook
<1>2. n \in 1 .. MaxLanes /\ <<d, n>> \in Queue!Lanes
  BY <1>0, <1>1 DEF Queue!NoLane, Queue!Lanes
<1>3. /\ Queue!Holders("lane")' = Queue!Holders("lane") \cup {c} /\ c \notin Queue!Holders("lane")
      /\ \A g \in Queue!Grants \ {"lane"} : Queue!Holders(g)' = Queue!Holders(g)
  BY <1>1, <1>0, HoldersGain DEF Queue!Grants
<1>4. /\ pc'[c] = "lane" /\ lane'[c] = n /\ held'[c] = {"totalSlots", "unfamiliarSlots", "lane"}
      /\ \A x \in Callers \ {c} : pc'[x] = pc[x] /\ held'[x] = held[x] /\ lane'[x] = lane[x]
  BY <1>0, <1>1, LabelTypes DEF Queue!TypeOK, Queue!To
<1>5. \A l \in Queue!Lanes : OnLane("lane", l)' = IF l = <<d, n>> THEN OnLane("lane", l) \cup {c}
                                            ELSE OnLane("lane", l)
  BY <1>3, <1>4 DEF OnLane, Queue!LaneOf, Queue!Holders
<1>6. \A l \in Queue!Lanes : OnLane("laneSlot", l)' = OnLane("laneSlot", l)
  BY <1>1, <1>3, <1>4 DEF Queue!Holders, Queue!Grants, OnLane, Queue!LaneOf
<1>7. LaneCounts'
  <2>1. ASSUME NEW l \in Queue!Lanes PROVE refs'[l] = Cardinality(OnLane("lane", l)')
    <3>1. refs[l] = Cardinality(OnLane("lane", l))
      BY DEF AdmissionInv, LaneCounts
    <3>2. CASE l = <<d, n>>
      BY <1>3, CountUp, <3>1, <3>2, <1>1, <1>5, <1>0 DEF OnLane, Queue!Holders, Queue!TypeOK
    <3>3. CASE l # <<d, n>>
      BY <3>1, <3>3, <1>1, <1>5, <1>0 DEF Queue!TypeOK
    <3> QED
      BY <3>2, <3>3
  <2>2. ASSUME NEW l \in Queue!Lanes PROVE sem'[l] = Cardinality(OnLane("laneSlot", l)')
    BY <1>1, <1>6 DEF AdmissionInv, LaneCounts
  <2> QED
    BY <2>1, <2>2 DEF LaneCounts
<1>8. Queue!LaneCurrent'
  BY <1>0, <1>1, <1>4, <1>3 DEF Queue!TypeOK, Queue!Holders, AdmissionInv, Queue!LaneCurrent, HoldsWhatItTook,
     Queue!NoLane, Queue!Domains
<1>9. Queue!TypeOK'
  <2>1. \A l \in Queue!Lanes : refs'[l] \in 0 .. Cardinality(Callers)
    <3>1. ASSUME NEW l \in Queue!Lanes PROVE refs'[l] \in 0 .. Cardinality(Callers)
      <4>1. refs'[l] = Cardinality(OnLane("lane", l)')
        BY <1>7 DEF LaneCounts
      <4>2. OnLane("lane", l)' \in SUBSET Callers
        BY DEF OnLane, Queue!Holders
      <4>3. Cardinality(Callers) \in Nat
        BY FS_CardinalityType DEF Queue!AdmissionAssumption
      <4> QED
        BY <4>1, <4>2, <4>3, FiniteHolders
    <3> QED
      BY <3>1
  <2>2. refs' \in [Queue!Lanes -> 0 .. Cardinality(Callers)]
    BY <2>1, <1>0, <1>1 DEF Queue!TypeOK
  <2>3. held' \in [Callers -> SUBSET Queue!Grants]
    BY <1>0, <1>1 DEF Queue!TypeOK, Queue!Grants
  <2>4. /\ made' \in [Queue!Domains -> 0 .. MaxLanes] /\ lanes' \in [Queue!Domains -> 0 .. MaxLanes]
        /\ \A e \in Queue!Domains : lanes'[e] <= made'[e]
    BY <1>0, <1>1, <1>2 DEF Queue!TypeOK
  <2>5. lane' \in [Callers -> 0 .. MaxLanes] /\ pc' \in [Callers -> Queue!Labels]
    BY <1>0, <1>1, <1>2, LabelTypes DEF Queue!TypeOK, Queue!To
  <2> QED
    BY <2>2, <2>3, <2>4, <2>5, <1>0, <1>1 DEF Queue!TypeOK
<1>10. HoldsWhatItTook(c)'
  BY <1>4, <1>2, <1>1 DEF HoldsWhatItTook, Queue!Unfamiliar
<1>11. ChanCounts'
  BY <1>1, <1>3, ChannelsStand DEF AdmissionInv, Queue!Channels, Queue!Grants
<1> QED
  BY <1>4, <1>7, <1>8, <1>9, <1>10, <1>11, OthersKeep DEF AdmissionInv

\* A caller gives its entry in the lane's semaphore back, or takes one: the
\* lanes' references, and the map, stand.
LEMMA AcquireLaneKeeps ==
  ASSUME Queue!AdmissionAssumption, AdmissionInv, NEW c \in Callers, Queue!AcquireLane(c)
  PROVE  AdmissionInv'
<1> DEFINE m == Queue!LaneOf(c)
<1>0. /\ Queue!TypeOK /\ HoldsWhatItTook(c) /\ PerDomain \in Nat /\ MaxLanes \in Nat
      /\ held[c] \in SUBSET Queue!Grants
  BY DEF AdmissionInv, Queue!TypeOK, Queue!AdmissionAssumption
<1>1. /\ held[c] = {"totalSlots", "unfamiliarSlots", "lane"} /\ Queue!Unfamiliar(c)
      /\ lane[c] \in 1 .. MaxLanes /\ m \in Queue!Lanes
      /\ Queue!To(c, "unfamiliar") /\ "unfamiliar" \in Queue!Labels /\ sem[m] < PerDomain
      /\ sem' = [sem EXCEPT ![m] = sem[m] + 1]
      /\ held' = [held EXCEPT ![c] = held[c] \cup {"laneSlot"}]
      /\ UNCHANGED <<chan, lanes, refs, made, lane, timeouts>>
  BY <1>0, LaneTypes DEF Queue!AcquireLane, Queue!Labels, Queue!At, HoldsWhatItTook
<1>2. /\ Queue!Holders("laneSlot")' = Queue!Holders("laneSlot") \cup {c} /\ c \notin Queue!Holders("laneSlot")
      /\ \A g \in Queue!Grants \ {"laneSlot"} : Queue!Holders(g)' = Queue!Holders(g)
  BY <1>1, <1>0, HoldersGain DEF Queue!Grants
<1>3. \A x \in Callers : Queue!LaneOf(x)' = Queue!LaneOf(x)
  BY <1>1 DEF Queue!LaneOf
<1>4. /\ \A l \in Queue!Lanes : OnLane("lane", l)' = OnLane("lane", l)
      /\ \A l \in Queue!Lanes : OnLane("laneSlot", l)' =
                            IF l = m THEN OnLane("laneSlot", l) \cup {c} ELSE OnLane("laneSlot", l)
  BY <1>2, <1>3 DEF OnLane, Queue!Holders, Queue!Grants
<1>5. LaneCounts'
  <2>1. ASSUME NEW l \in Queue!Lanes PROVE sem'[l] = Cardinality(OnLane("laneSlot", l)')
    <3>1. sem[l] = Cardinality(OnLane("laneSlot", l))
      BY DEF AdmissionInv, LaneCounts
    <3>2. CASE l = m
      <4>1. OnLane("laneSlot", l) \in SUBSET Callers /\ c \notin OnLane("laneSlot", l)
        BY <1>2 DEF OnLane, Queue!Holders
      <4>2. Cardinality(OnLane("laneSlot", l) \cup {c}) = Cardinality(OnLane("laneSlot", l)) + 1
        BY <4>1, CountUp
      <4> QED
        BY <3>1, <3>2, <4>2, <1>1, <1>4, <1>0 DEF Queue!TypeOK
    <3>3. CASE l # m
      BY <3>1, <3>3, <1>1, <1>4, <1>0 DEF Queue!TypeOK
    <3> QED
      BY <3>2, <3>3
  <2> QED
    BY <2>1, <1>1, <1>4 DEF LaneCounts, AdmissionInv
<1>6. Queue!TypeOK'
  BY <1>0, <1>1, LabelTypes DEF Queue!TypeOK, Queue!Grants, Queue!To
<1>7. /\ pc'[c] = "unfamiliar" /\ lane'[c] = lane[c]
      /\ held'[c] = {"totalSlots", "unfamiliarSlots", "lane", "laneSlot"}
      /\ \A x \in Callers \ {c} : pc'[x] = pc[x] /\ held'[x] = held[x] /\ lane'[x] = lane[x]
  BY <1>0, <1>1, LabelTypes DEF Queue!TypeOK, Queue!To
<1>8. HoldsWhatItTook(c)'
  BY <1>7, <1>1 DEF HoldsWhatItTook, Queue!Unfamiliar
<1>9. ChanCounts'
  BY <1>1, <1>2, ChannelsStand DEF AdmissionInv, Queue!Channels, Queue!Grants
<1>10. Queue!LaneCurrent'
  BY <1>1, <1>2 DEF AdmissionInv, Queue!LaneCurrent, Queue!Grants
<1> QED
  BY <1>5, <1>6, <1>7, <1>8, <1>9, <1>10, OthersKeep DEF AdmissionInv

\* Whoever is leaving and has an entry in the semaphore has the lane as well.
LEMMA LeaveLaneKeeps ==
  ASSUME Queue!AdmissionAssumption, AdmissionInv, NEW c \in Callers, Queue!LeaveLane(c)
  PROVE  AdmissionInv'
<1> DEFINE m == Queue!LaneOf(c)
<1>0. /\ Queue!TypeOK /\ HoldsWhatItTook(c) /\ PerDomain \in Nat /\ MaxLanes \in Nat
      /\ held[c] \in SUBSET Queue!Grants
  BY DEF AdmissionInv, Queue!TypeOK, Queue!AdmissionAssumption
<1>1. /\ "laneSlot" \in held[c] /\ lane[c] \in 1 .. MaxLanes /\ m \in Queue!Lanes /\ pc[c] = "leaving"
      /\ sem' = [sem EXCEPT ![m] = sem[m] - 1]
      /\ held' = [held EXCEPT ![c] = held[c] \ {"laneSlot"}]
      /\ UNCHANGED <<chan, lanes, refs, made, lane, pc, timeouts>>
  BY <1>0, LaneTypes DEF Queue!LeaveLane, Queue!First, Queue!At, HoldsWhatItTook
<1>2. /\ Queue!Holders("laneSlot")' = Queue!Holders("laneSlot") \ {c} /\ c \in Queue!Holders("laneSlot")
      /\ \A g \in Queue!Grants \ {"laneSlot"} : Queue!Holders(g)' = Queue!Holders(g)
  BY <1>0, <1>1, HoldersLose DEF Queue!Grants
<1>3. \A x \in Callers : Queue!LaneOf(x)' = Queue!LaneOf(x)
  BY <1>1 DEF Queue!LaneOf
<1>4. /\ \A l \in Queue!Lanes : OnLane("lane", l)' = OnLane("lane", l)
      /\ \A l \in Queue!Lanes : OnLane("laneSlot", l)' =
                            IF l = m THEN OnLane("laneSlot", l) \ {c} ELSE OnLane("laneSlot", l)
  BY <1>2, <1>3 DEF OnLane, Queue!Holders, Queue!Grants
<1>5. /\ OnLane("laneSlot", m) \in SUBSET Callers /\ c \in OnLane("laneSlot", m)
      /\ Cardinality(OnLane("laneSlot", m) \ {c}) = Cardinality(OnLane("laneSlot", m)) - 1
      /\ Cardinality(OnLane("laneSlot", m)) >= 1
  BY <1>2, CountDown DEF OnLane, Queue!Holders
<1>6. LaneCounts'
  BY <1>0, <1>1, <1>4, <1>5 DEF AdmissionInv, LaneCounts, Queue!TypeOK
<1>7. Queue!TypeOK'
  BY <1>0, <1>1, <1>5 DEF Queue!TypeOK, AdmissionInv, LaneCounts
<1>8. /\ pc'[c] = "leaving" /\ lane'[c] = lane[c] /\ held'[c] = held[c] \ {"laneSlot"}
      /\ \A x \in Callers \ {c} : pc'[x] = pc[x] /\ held'[x] = held[x] /\ lane'[x] = lane[x]
  BY <1>0, <1>1 DEF Queue!TypeOK
<1>9. HoldsWhatItTook(c)'
  BY <1>8, <1>1 DEF HoldsWhatItTook
<1>10. ChanCounts'
  BY <1>1, <1>2, ChannelsStand DEF AdmissionInv, Queue!Channels, Queue!Grants
<1>11. Queue!LaneCurrent'
  BY <1>1, <1>2 DEF AdmissionInv, Queue!LaneCurrent, Queue!Grants
<1> QED
  BY <1>6, <1>7, <1>8, <1>9, <1>10, <1>11, OthersKeep DEF AdmissionInv

\* The last reference takes the lane out of the map: nobody else has it.
LEMMA ReleaseLaneKeeps ==
  ASSUME Queue!AdmissionAssumption, AdmissionInv, NEW c \in Callers, Queue!releaseLane(c)
  PROVE  AdmissionInv'
<1> DEFINE m == Queue!LaneOf(c)
           d == DomainOf[c]
<1>0. /\ Queue!TypeOK /\ HoldsWhatItTook(c) /\ MaxLanes \in Nat /\ d \in Queue!Domains
      /\ held[c] \in SUBSET Queue!Grants
  BY DEF AdmissionInv, Queue!TypeOK, Queue!AdmissionAssumption, Queue!Domains
<1>1. "lane" \in held[c] /\ "laneSlot" \notin held[c] /\ pc[c] = "leaving"
  BY DEF Queue!releaseLane, Queue!First, Queue!Order, Queue!At
<1>2. lane[c] \in 1 .. MaxLanes /\ m \in Queue!Lanes /\ lanes[d] = lane[c]
  BY <1>0, <1>1, LaneTypes DEF HoldsWhatItTook, AdmissionInv, Queue!LaneCurrent, Queue!Holders
<1>3. /\ held' = [held EXCEPT ![c] = held[c] \ {"lane"}]
      /\ refs' = [refs EXCEPT ![m] = refs[m] - 1]
      /\ lanes' = IF refs[m] = 1 THEN [lanes EXCEPT ![d] = Queue!NoLane] ELSE lanes
      /\ UNCHANGED <<chan, sem, made, lane, pc, timeouts>>
  BY <1>2 DEF Queue!releaseLane, Queue!Forgotten
<1>4. /\ Queue!Holders("lane")' = Queue!Holders("lane") \ {c} /\ c \in Queue!Holders("lane")
      /\ \A g \in Queue!Grants \ {"lane"} : Queue!Holders(g)' = Queue!Holders(g)
  BY <1>0, <1>1, <1>3, HoldersLose DEF Queue!Grants
<1>5. \A x \in Callers : Queue!LaneOf(x)' = Queue!LaneOf(x)
  BY <1>3 DEF Queue!LaneOf
<1>6. /\ \A l \in Queue!Lanes : OnLane("laneSlot", l)' = OnLane("laneSlot", l)
      /\ \A l \in Queue!Lanes : OnLane("lane", l)' =
                            IF l = m THEN OnLane("lane", l) \ {c} ELSE OnLane("lane", l)
  BY <1>4, <1>5 DEF OnLane, Queue!Holders, Queue!Grants
<1>7. /\ OnLane("lane", m) \in SUBSET Callers /\ c \in OnLane("lane", m)
      /\ Cardinality(OnLane("lane", m) \ {c}) = Cardinality(OnLane("lane", m)) - 1
      /\ Cardinality(OnLane("lane", m)) >= 1
  BY <1>4, CountDown DEF OnLane, Queue!Holders
<1>8. LaneCounts'
  BY <1>0, <1>2, <1>3, <1>6, <1>7 DEF AdmissionInv, LaneCounts, Queue!TypeOK
<1>9. Queue!TypeOK'
  <2>1. held' \in [Callers -> SUBSET Queue!Grants]
    BY <1>0, <1>3 DEF Queue!TypeOK
  <2>2. refs[m] >= 1
    BY <1>2, <1>7 DEF AdmissionInv, LaneCounts
  <2>3. Cardinality(Callers) \in Nat
    BY FS_CardinalityType DEF Queue!AdmissionAssumption
  <2>4. refs' \in [Queue!Lanes -> 0 .. Cardinality(Callers)]
    BY <1>0, <1>2, <1>3, <2>2, <2>3 DEF Queue!TypeOK
  <2>5. lanes' \in [Queue!Domains -> 0 .. MaxLanes] /\ \A e \in Queue!Domains : lanes'[e] <= made[e]
    BY <1>0, <1>3 DEF Queue!TypeOK, Queue!NoLane
  <2> QED
    BY <2>1, <2>4, <2>5, <1>0, <1>3 DEF Queue!TypeOK
<1>10. Queue!LaneCurrent'
  <2>1. ASSUME NEW x \in Queue!Holders("lane")' PROVE lanes'[DomainOf[x]] = lane'[x]
    <3>1. x \in Queue!Holders("lane") /\ x # c /\ x \in Callers /\ lane'[x] = lane[x]
          /\ lanes[DomainOf[x]] = lane[x] /\ DomainOf[x] \in Queue!Domains
      BY <1>3, <1>4 DEF Queue!Holders, AdmissionInv, Queue!LaneCurrent, Queue!Domains
    <3>2. CASE refs[m] = 1 /\ DomainOf[x] = d
      <4>1. x \in OnLane("lane", m)
        BY <3>1, <3>2, <1>2 DEF OnLane, Queue!LaneOf
      <4>2. Cardinality(OnLane("lane", m)) = 1 /\ IsFiniteSet(OnLane("lane", m))
        BY <3>2, <1>2, <1>7, FiniteHolders DEF AdmissionInv, LaneCounts
      <4>3. \E y : OnLane("lane", m) = {y}
        BY <4>2, FS_Singleton
      <4> QED
        BY <4>1, <4>3, <1>7, <3>1
    <3>3. CASE ~(refs[m] = 1 /\ DomainOf[x] = d)
      BY <3>1, <3>3, <1>0, <1>3 DEF Queue!TypeOK
    <3> QED
      BY <3>2, <3>3
  <2> QED
    BY <2>1 DEF Queue!LaneCurrent
<1>11. /\ pc'[c] = "leaving" /\ lane'[c] = lane[c] /\ held'[c] = held[c] \ {"lane"}
       /\ \A x \in Callers \ {c} : pc'[x] = pc[x] /\ held'[x] = held[x] /\ lane'[x] = lane[x]
  BY <1>0, <1>1, <1>3 DEF Queue!TypeOK
<1>12. HoldsWhatItTook(c)'
  BY <1>11, <1>1 DEF HoldsWhatItTook
<1>13. ChanCounts'
  BY <1>3, <1>4, ChannelsStand DEF AdmissionInv, Queue!Channels, Queue!Grants
<1> QED
  BY <1>8, <1>9, <1>10, <1>11, <1>12, <1>13, OthersKeep DEF AdmissionInv

-----------------------------------------------------------------------------
(* The theorems *)

LEMMA InitKeeps ==
  ASSUME Queue!AdmissionAssumption, Queue!Init
  PROVE  AdmissionInv
<1>1. Queue!TypeOK
  BY FS_CardinalityType, LimitsNat DEF Queue!AdmissionAssumption, Queue!Init, Queue!TypeOK, Queue!NoLane,
     Queue!Labels
<1>2. \A g : Queue!Holders(g) = {}
  BY DEF Queue!Holders, Queue!Init
<1>3. \A g, l : OnLane(g, l) = {}
  BY <1>2 DEF OnLane
<1>4. ChanCounts /\ LaneCounts
  BY <1>2, <1>3, FS_EmptySet DEF ChanCounts, LaneCounts, Queue!Init
<1>5. Queue!LaneCurrent
  BY <1>2 DEF Queue!LaneCurrent
<1>6. \A c \in Callers : HoldsWhatItTook(c)
  BY DEF HoldsWhatItTook, Queue!Init
<1> QED
  BY <1>1, <1>4, <1>5, <1>6 DEF AdmissionInv

LEMMA NextKeeps ==
  ASSUME Queue!AdmissionAssumption, AdmissionInv, [Queue!Next]_(Queue!admissionVars)
  PROVE  AdmissionInv'
<1>1. ASSUME NEW c \in Callers, Queue!Proceed(c) \/ Queue!WaitTimeout(c) PROVE AdmissionInv'
  BY <1>1, ChannelSteps, RetainKeeps, AcquireLaneKeeps, LeaveLaneKeeps, ReleaseLaneKeeps
     DEF Queue!Proceed, Queue!Acquire, Queue!cleanup
<1>2. CASE UNCHANGED Queue!admissionVars
  <2>1. \A c \in Callers : HoldsWhatItTook(c)'
    BY <1>2 DEF AdmissionInv, Queue!admissionVars, HoldsWhatItTook, ToGlobal, Queue!Unfamiliar
  <2>2. /\ \A g : Queue!Holders(g)' = Queue!Holders(g)
        /\ \A g, l : OnLane(g, l)' = OnLane(g, l)
    BY <1>2 DEF Queue!admissionVars, Queue!Holders, OnLane, Queue!LaneOf
  <2>3. Queue!TypeOK'
    BY <1>2 DEF AdmissionInv, Queue!admissionVars, Queue!TypeOK
  <2> QED
    BY <1>2, <2>1, <2>2, <2>3 DEF AdmissionInv, Queue!admissionVars, ChanCounts, LaneCounts, Queue!LaneCurrent
<1> QED
  BY <1>1, <1>2 DEF Queue!Next

THEOREM AdmissionInvariant ==
  ASSUME Queue!AdmissionAssumption
  PROVE  Queue!Spec => []AdmissionInv
<1>1. Queue!Init => AdmissionInv
  BY InitKeeps
<1>2. AdmissionInv /\ [Queue!Next]_(Queue!admissionVars) => AdmissionInv'
  BY NextKeeps
<1> QED
  BY <1>1, <1>2, PTL DEF Queue!Spec

\* Every channel stays within its capacity, and every lane object within the
\* callers and the semaphore entries there are.
THEOREM QueueTypeCorrect ==
  ASSUME Queue!AdmissionAssumption
  PROVE  Queue!Spec => []Queue!TypeOK
<1>1. AdmissionInv => Queue!TypeOK
  BY DEF AdmissionInv
<1> QED
  BY <1>1, AdmissionInvariant, PTL

\* What the channels and the lanes hold is what their holders hold, whichever
\* wait timed out and in whichever order the callers came and left (Acquire and
\* the cleanup it returns).
THEOREM SlotsAccounted ==
  ASSUME Queue!AdmissionAssumption
  PROVE  Queue!Spec => []Queue!SlotsBalanced
<1>1. AdmissionInv => Queue!SlotsBalanced
  BY DEF AdmissionInv, Queue!SlotsBalanced, ChanCounts, LaneCounts, OnLane, Queue!Settled, HoldsWhatItTook
<1> QED
  BY <1>1, AdmissionInvariant, PTL

\* Nobody who waits or runs refers to a lane the map no longer has
\* (releaseLane deletes on the last reference only).
THEOREM LanesLive ==
  ASSUME Queue!AdmissionAssumption
  PROVE  Queue!Spec => []Queue!LaneCurrent
<1>1. AdmissionInv => Queue!LaneCurrent
  BY DEF AdmissionInv
<1> QED
  BY <1>1, AdmissionInvariant, PTL

\* An unfamiliar domain never has more than its share inside, although its lane
\* comes and goes: whoever is inside holds the lane the map has, and so an entry
\* of one and the same semaphore.
THEOREM DomainsShare ==
  ASSUME Queue!AdmissionAssumption
  PROVE  Queue!Spec => []Queue!DomainBounded
<1>1. ASSUME AdmissionInv, NEW d \in Queue!Domains \ Established
      PROVE  Cardinality(Queue!Inside(d)) <= PerDomain
  <2> DEFINE l == <<d, lanes[d]>>
  <2>1. \A c \in Queue!Inside(d) : /\ c \in Callers /\ "lane" \in held[c] /\ lane[c] = lanes[d]
                                   /\ lane[c] \in 1 .. MaxLanes
    BY <1>1 DEF Queue!Inside, AdmissionInv, HoldsWhatItTook, Queue!LaneCurrent, Queue!Holders
  <2>2. CASE Queue!Inside(d) = {}
    BY <2>2, FS_EmptySet DEF Queue!AdmissionAssumption
  <2>3. CASE Queue!Inside(d) # {}
    <3>1. l \in Queue!Lanes
      BY <2>1, <2>3 DEF Queue!Lanes
    <3>2. sem[l] = Cardinality(OnLane("laneSlot", l)) /\ sem[l] <= PerDomain
      BY <3>1, <1>1 DEF AdmissionInv, LaneCounts, Queue!TypeOK, Queue!AdmissionAssumption
    <3>3. Queue!Inside(d) = OnLane("laneSlot", l)
      BY <2>1 DEF Queue!Inside, OnLane, Queue!LaneOf, Queue!Holders
    <3> QED
      BY <3>2, <3>3
  <2> QED
    BY <2>2, <2>3
<1>2. AdmissionInv => Queue!DomainBounded
  BY <1>1 DEF Queue!DomainBounded
<1> QED
  BY <1>2, AdmissionInvariant, PTL

HIDE QueueCounts

-----------------------------------------------------------------------------
(***************************************************************************)
(* Theorems about Registration.  An identifier is proposed by one request, *)
(* so that the account, the verifier and the provider's account made under *)
(* it belong to that request's identity and form, whichever retry uses     *)
(* them; and between the look at the database and the insertion the locks  *)
(* keep what was seen true.                                                *)
(***************************************************************************)
CONSTANTS
  RegRequests,   \* the HTTP requests that may arrive, each once
  RegInputs,     \* what each of them carries
  RegScenarios,  \* model bound: the requests of a run and the reservation it finds
  RegFaults      \* model bound: failures, lost answers, crashes

VARIABLES
  user,      \* database: the accounts, with their links and phone
  events,    \* database: the authority effects of reservations
  locks,     \* database: the advisory locks that open transactions hold
  upstream,  \* provider: the accounts and the state of their address
  mailed,    \* provider: the accounts whose code has been sent
  spent,     \* Redis: the WeChat codes claimed so far
  token,     \* Redis: the account each registration token stands for
  sweep,     \* what the cleanup pass is doing
  unsure,    \* history: public reservations that could not be undone
  revived    \* history: accounts reserved under a verifier past its grace

Reg == INSTANCE Registration WITH Requests <- RegRequests, InputOf <- RegInputs, Scenarios <- RegScenarios, MaxFaults <- RegFaults

Statuses == {"none", "pending", "active", "disabled"}
Mails    == {Reg!Email(r) : r \in Reg!Creates} \cup {s.email : s \in RegScenarios} \cup {"none"}
Phones   == {Reg!Phone(r) : r \in Reg!WeChat} \cup {"none"}
Forms    == {Reg!Form(r) : r \in Reg!WeChat} \cup {s.form : s \in RegScenarios} \cup {"none"}
Rows     == [status : Statuses, email : Mails, subject : Reg!Subjects \cup {"none"}, phone : Phones, linked : BOOLEAN]
RegIntents  == [user : Reg!Accounts \cup {"none"}, form : Forms, old : BOOLEAN]
Runs     == [pc : Reg!Labels, user : Reg!Accounts \cup {"none"}, answer : Reg!Answers]
Undoes   == {"undo_provider", "undo_user", "removing", "undo_token"}
Refusals == {"conflict", "failed", "invalid"}
Places   == UNION {Reg!Keys(r) : r \in Reg!WeChat}

Shapes ==
  /\ user \in [Reg!Accounts -> Rows]
  /\ events \subseteq {"reserved", "phone"} \X Reg!Accounts
  /\ locks \subseteq Places \X Reg!WeChat
  /\ intent \in [Reg!Subjects -> RegIntents]
  /\ upstream \in [Reg!Accounts -> {"none", "unverified", "verified"}]
  /\ mailed \subseteq Reg!Accounts
  /\ spent \subseteq {Reg!Code(r) : r \in Reg!WeChat}
  /\ token \in [Reg!Creates -> Reg!Accounts \cup {"none"}]
  /\ sweep \in [pc : {"idle", "listed", "doomed"}, subject : Reg!Subjects \cup {"none"}, user : Reg!Accounts \cup {"none"}]
  /\ run \in [RegRequests -> Runs]
  /\ proven \subseteq Reg!Accounts /\ unsure \subseteq RegRequests /\ revived \subseteq Reg!Accounts
  /\ faults \in 0 .. RegFaults

\* Which handler a label belongs to, and when an answer is there.
PlacedAt(r) ==
  /\ run[r].pc \in {"token", "reserved"} \cup Undoes => r \in Reg!Public
  /\ run[r].pc \in {"claimed", "exchanged", "fresh", "insert", "held", "made"} => r \in Reg!WeChat
  /\ run[r].pc \in {"asked", "checked", "clear"} => r \in Reg!Verifies
  /\ run[r].pc \in Undoes => run[r].answer \in Refusals
  /\ run[r].pc \notin Undoes \cup {"done"} => run[r].answer = "none"

\* A public registration: what it has made so far and, when it was refused,
\* what is still to be undone.
PublicAt(r) ==
  /\ run[r].pc \in {"idle", "token"} => user[r].status = "none" /\ upstream[r] = "none"
  /\ run[r].pc \in {"token", "reserved"} => token[r] = r
  /\ run[r].pc = "reserved" => Reg!Present(r)
  /\ run[r].pc \in {"undo_user", "removing"} /\ r \notin unsure => upstream[r] = "none"
  /\ (run[r].pc = "undo_token" \/ (run[r].pc = "done" /\ run[r].answer \in Refusals)) /\ r \notin unsure =>
       upstream[r] = "none" /\ user[r].status # "pending"
  /\ run[r].answer = "ok" => token[r] = r /\ Reg!Present(r) /\ upstream[r] # "none"

\* Nothing has the identifier of the account yet.
Unborn(u) ==
  /\ user[u].status = "none" /\ upstream[u] = "none" /\ sweep.user # u
  /\ \A s \in Reg!Subjects : intent[s].user # u
  /\ \A q \in RegRequests : run[q].user # u

\* The account is one that a request of the same identity and form proposed,
\* or the reservation that was there before.
Kin(r, u) ==
  \/ u \in Reg!WeChat /\ Reg!Subject(u) = Reg!Subject(r) /\ Reg!Form(u) = Reg!Form(r)
  \/ u = Reg!Legacy /\ Reg!Present(Reg!Legacy) /\ user[Reg!Legacy].subject = Reg!Subject(r)

\* What the locks of an open transaction keep as it was seen.
Untaken(r) ==
  /\ Reg!Keys(r) \X {r} \subseteq locks
  /\ ~Reg!HasEmail(Reg!Email(r)) /\ Reg!PhoneOwners(Reg!Phone(r)) = {} /\ Reg!LinkedTo(Reg!Subject(r)) = {}

WeChatAt(r) ==
  /\ run[r].pc \in {"idle", "claimed", "exchanged", "fresh"} => Unborn(r) /\ run[r].user = "none"
  /\ run[r].pc \in {"fresh", "insert"} => Untaken(r)
  /\ run[r].user # "none" => Kin(r, run[r].user)
  /\ run[r].pc = "insert" => run[r].user \in Reg!WeChat
  /\ run[r].pc \in {"held", "made"} => run[r].user \in Reg!Accounts /\ Reg!Present(run[r].user)
  /\ run[r].pc = "made" => upstream[run[r].user] # "none"
  /\ run[r].answer = "ok"
     => token[r] \in Reg!Accounts \ Reg!Public /\ Reg!Present(token[r]) /\ upstream[token[r]] # "none"

VerifyAt(r) ==
  /\ run[r].pc \in {"asked", "checked", "clear"} => run[r].user \in Reg!Accounts
  /\ run[r].pc = "checked" =>
       run[r].user \in proven /\ (upstream[run[r].user] = "verified" \/ Reg!Undone(run[r].user))
  /\ run[r].pc = "clear" => user[run[r].user].status \in {"active", "disabled"}

Stories ==
  /\ \A r \in RegRequests : PlacedAt(r)
  /\ \A r \in Reg!Public : PublicAt(r)
  /\ \A r \in Reg!WeChat : WeChatAt(r)
  /\ \A r \in Reg!Verifies : VerifyAt(r)

\* A lock has one holder, whose transaction is open.
Guarded ==
  /\ \A l \in locks : run[l[2]].pc \in {"fresh", "insert"}
  /\ \A k, l \in locks : k[1] = l[1] => k[2] = l[2]

AccountAt(u) ==
  /\ u \in Reg!Public /\ Reg!Present(u) => user[u].subject = "none" /\ user[u].phone = "none"
  /\ u \in Reg!WeChat /\ Reg!Present(u) => user[u].subject = Reg!Subject(u)
  /\ u \notin Reg!Public /\ upstream[u] # "none" => Reg!Present(u)
  /\ upstream[u] = "verified" => u \in proven /\ u \in mailed
  /\ u \in mailed => upstream[u] # "none"
  /\ Reg!Present(u) /\ ~user[u].linked => Reg!Undone(u) /\ user[u].status \in {"active", "disabled"}

RegOwned == \A u \in Reg!Accounts : AccountAt(u)

IntentAt(s) ==
  /\ intent[s].user = "none" => intent[s] = Reg!NoIntent
  /\ intent[s].user # "none" =>
       \/ intent[s].user \in Reg!WeChat /\ Reg!Subject(intent[s].user) = s /\ intent[s].form = Reg!Form(intent[s].user)
       \/ intent[s].user = Reg!Legacy /\ Reg!Present(Reg!Legacy) /\ user[Reg!Legacy].subject = s
  /\ intent[s].user = Reg!Legacy
     => \A r \in Reg!WeChat : run[r].user = Reg!Legacy => Reg!Form(r) = intent[s].form

Intended ==
  /\ \A s \in Reg!Subjects : IntentAt(s)
  /\ \A r, q \in Reg!WeChat : run[r].user = Reg!Legacy /\ run[q].user = Reg!Legacy
     => Reg!Form(r) = Reg!Form(q)

\* What the cleanup pass has on its list is past its grace, and what it found
\* superfluous cannot have become a reservation with a verifier in its grace.
Sweeping ==
  sweep.pc # "idle" =>
    /\ sweep.subject \in Reg!Subjects /\ sweep.user \in Reg!Accounts
    /\ sweep.user \in Reg!WeChat => Reg!Subject(sweep.user) = sweep.subject
    /\ intent[sweep.subject].user = sweep.user => intent[sweep.subject].old
    /\ sweep.pc = "doomed" => \/ ~Reg!PendingUser(sweep.user) \/ sweep.user \in revived
                              \/ intent[sweep.subject].user # sweep.user

\* The request that claimed a code.
Claimer(r) == run[r].pc \in {"claimed", "exchanged", "fresh", "insert", "held", "made"} \/ run[r].user # "none"

Claimed ==
  /\ \A r \in Reg!WeChat : Claimer(r) => Reg!Code(r) \in spent
  /\ \A r, q \in Reg!WeChat : Claimer(r) /\ Claimer(q) /\ Reg!Code(r) = Reg!Code(q) => r = q

RegistrationInv ==
  /\ Shapes /\ Stories /\ Guarded /\ RegOwned /\ Intended /\ Sweeping /\ Claimed
  /\ Reg!AuthorityUnique /\ Reg!ActiveBacked /\ Reg!VerifierKept

LEMMA RegistrationInit == Reg!RegistrationAssumption /\ Reg!Init => RegistrationInv
<1> SUFFICES ASSUME Reg!RegistrationAssumption, Reg!Init PROVE RegistrationInv
  OBVIOUS
<1>1. PICK s \in RegScenarios :
       /\ user = [u \in Reg!Accounts |-> IF u = Reg!Legacy /\ s.legacy # "none"
                  THEN [status |-> "pending", email |-> s.email, subject |-> s.legacy,
                        phone |-> "none", linked |-> TRUE]
                  ELSE Reg!Absent]
       /\ intent = [x \in Reg!Subjects |-> IF x = s.legacy
                    THEN [user |-> Reg!Legacy, form |-> s.form, old |-> TRUE] ELSE Reg!NoIntent]
       /\ events = IF s.legacy # "none" THEN {<<"reserved", Reg!Legacy>>} ELSE {}
       /\ run = [r \in RegRequests |-> [pc |-> IF r \in s.requests THEN "idle" ELSE "done",
                                     user |-> "none", answer |-> "none"]]
  BY DEF Reg!Init
<1>2. /\ s.legacy \in Reg!Subjects \cup {"none"} /\ "none" \notin Reg!Subjects /\ "none" \notin RegRequests
      /\ Reg!Legacy \notin RegRequests /\ Reg!Legacy # "none"
  BY <1>1 DEF Reg!RegistrationAssumption, Reg!Subjects, Reg!WeChat, Reg!Legacy
<1>3. /\ \A u \in Reg!Creates : u \in Reg!Accounts /\ u \in RegRequests /\ u # Reg!Legacy
      /\ Reg!Legacy \in Reg!Accounts /\ Reg!WeChat \subseteq RegRequests /\ Reg!Public \subseteq RegRequests
  BY <1>2 DEF Reg!Accounts, Reg!Creates, Reg!WeChat, Reg!Public
<1>4. /\ locks = {} /\ upstream = [u \in Reg!Accounts |-> "none"] /\ mailed = {} /\ spent = {}
      /\ token = [r \in Reg!Creates |-> "none"] /\ sweep = Reg!Idle
      /\ proven = {} /\ unsure = {} /\ revived = {} /\ faults = 0
  BY DEF Reg!Init
<1>5. /\ \A u \in Reg!Accounts \ {Reg!Legacy} : user[u] = Reg!Absent
      /\ \A x \in Reg!Subjects : intent[x] = Reg!NoIntent \/ (x = s.legacy /\ intent[x].user = Reg!Legacy)
      /\ \A r \in RegRequests : run[r].user = "none" /\ run[r].answer = "none" /\ run[r].pc \in {"idle", "done"}
      /\ s.legacy \in Reg!Subjects
         => /\ user[Reg!Legacy].status = "pending" /\ user[Reg!Legacy].subject = s.legacy /\ user[Reg!Legacy].linked
                                      /\ intent[s.legacy].user = Reg!Legacy
      /\ s.legacy \notin Reg!Subjects => user[Reg!Legacy] = Reg!Absent
  BY <1>1, <1>2, <1>3
<1>6. Shapes
  BY <1>1, <1>2, <1>3, <1>4
     DEF Reg!RegistrationAssumption, Shapes, Rows, Statuses, Mails, Phones, Reg!Absent, RegIntents, Forms,
         Reg!NoIntent, Runs, Reg!Labels,
         Reg!Answers, Reg!Idle
<1>7. Stories
  <2>1. \A r \in RegRequests : PlacedAt(r)
    BY <1>5 DEF PlacedAt, Undoes
  <2>2. \A r \in Reg!Public : PublicAt(r)
    BY <1>3, <1>4, <1>5 DEF PublicAt, Reg!Absent, Reg!Creates, Refusals
  <2>3. \A r \in Reg!WeChat : WeChatAt(r)
    BY <1>2, <1>3, <1>4, <1>5 DEF Reg!Creates, Unborn, Reg!Absent, Reg!NoIntent, Reg!Idle, WeChatAt
  <2>4. \A r \in Reg!Verifies : VerifyAt(r)
    BY <1>5 DEF VerifyAt, Reg!Verifies
  <2> QED
    BY <2>1, <2>2, <2>3, <2>4 DEF Stories
<1>8. Guarded /\ RegOwned /\ Sweeping /\ Claimed
  BY <1>3, <1>4, <1>5
     DEF Guarded, RegOwned, AccountAt, Sweeping, Claimed, Claimer, Reg!Present, Reg!Absent, Reg!Idle,
         Reg!Creates
<1>9. Intended
  BY <1>2, <1>3, <1>5 DEF Intended, IntentAt, Reg!NoIntent, Reg!Present
<1>10. Reg!AuthorityUnique /\ Reg!ActiveBacked
  BY <1>5 DEF Reg!AuthorityUnique, Reg!ActiveBacked, Reg!Present, Reg!Absent
<1>11. Reg!VerifierKept
  BY <1>2, <1>5 DEF Reg!VerifierKept, Reg!PendingUser, Reg!Absent
<1> QED
  BY <1>6, <1>7, <1>8, <1>9, <1>10, <1>11 DEF RegistrationInv

\* What a request becomes by a step of its own.
Became(r, l, u, a) ==
  /\ run' \in [RegRequests -> Runs]
  /\ run'[r].pc = l /\ run'[r].user = u /\ run'[r].answer = a
  /\ \A q \in RegRequests \ {r} : run'[q] = run[q]

LEMMA Moves ==
  ASSUME Shapes, NEW r \in RegRequests
  PROVE  /\ \A l \in Reg!Labels : Reg!To(r, l) => Became(r, l, run[r].user, run[r].answer)
         /\ \A l \in Reg!Labels, u \in Reg!Accounts \cup {"none"} : Reg!With(r, l, u)
            => Became(r, l, u, run[r].answer)
         /\ \A a \in Reg!Answers : Reg!Answer(r, a) => Became(r, "done", run[r].user, a)
         /\ \A l \in Reg!Labels, a \in Reg!Answers : Reg!Undoing(r, l, a) => Became(r, l, run[r].user, a)
<1>1. run \in [RegRequests -> Runs]
  BY DEF Shapes
<1>2. ASSUME NEW l \in Reg!Labels, Reg!To(r, l)
      PROVE  Became(r, l, run[r].user, run[r].answer)
  BY <1>1, <1>2 DEF Reg!To, Runs, Became
<1>3. ASSUME NEW l \in Reg!Labels, NEW u \in Reg!Accounts \cup {"none"}, Reg!With(r, l, u)
      PROVE  Became(r, l, u, run[r].answer)
  BY <1>1, <1>3 DEF Reg!With, Runs, Became
<1>4. ASSUME NEW a \in Reg!Answers, Reg!Answer(r, a)
      PROVE  Became(r, "done", run[r].user, a)
  BY <1>1, <1>4 DEF Reg!Answer, Runs, Reg!Labels, Became
<1>5. ASSUME NEW l \in Reg!Labels, NEW a \in Reg!Answers, Reg!Undoing(r, l, a)
      PROVE  Became(r, l, run[r].user, a)
  BY <1>1, <1>5 DEF Reg!Undoing, Runs, Became
<1> QED
  BY <1>2, <1>3, <1>4, <1>5

\* The kinds of requests and what they are.
LEMMA RegKinds ==
  ASSUME Reg!RegistrationAssumption
  PROVE  /\ Reg!Public \subseteq RegRequests /\ Reg!WeChat \subseteq RegRequests
         /\ Reg!Verifies \subseteq RegRequests
         /\ Reg!Resends \subseteq RegRequests
         /\ Reg!Creates = Reg!Public \cup Reg!WeChat
         /\ Reg!Accounts = Reg!Public \cup Reg!WeChat \cup {Reg!Legacy}
         /\ Reg!Legacy \notin RegRequests
         /\ Reg!Public \cap Reg!WeChat = {} /\ Reg!Verifies \cap Reg!Creates = {}
         /\ Reg!Resends \cap Reg!Creates = {}
         /\ Reg!Resends \cap Reg!Verifies = {}
         /\ "none" \notin RegRequests /\ Reg!Legacy # "none" /\ "none" \notin Reg!Accounts
         /\ "none" \notin Reg!Subjects
         /\ \A r \in Reg!WeChat : Reg!Subject(r) \in Reg!Subjects /\ Reg!Subject(r) # "none" /\ Reg!Phone(r) # "none"
  BY DEF Reg!RegistrationAssumption, Reg!Public, Reg!WeChat, Reg!Verifies, Reg!Resends, Reg!Creates,
         Reg!Accounts, Reg!Legacy, Reg!Subjects

\* A step that leaves the accounts, the verifiers and the provider's accounts
\* as they were: what is left to show is what it says of its own request.
Quiet(r, l, u, a) ==
  /\ Became(r, l, u, a)
  /\ UNCHANGED <<user, events, intent, upstream, sweep, proven, revived>>
  /\ u = run[r].user \/ (r \in Reg!Verifies /\ u \in mailed)
  /\ run[r].answer \in Refusals => a \in Refusals
  /\ locks' = Reg!Unlocked(r) \/ (locks' = locks /\ (run[r].pc \in {"fresh", "insert"} => l \in {"fresh", "insert"}))
  /\ mailed \subseteq mailed' /\ mailed' \subseteq Reg!Accounts /\ (\A v \in mailed' : upstream[v] # "none")
  /\ spent \subseteq spent' /\ spent' \subseteq {Reg!Code(q) : q \in Reg!WeChat}
  /\ token' \in [Reg!Creates -> Reg!Accounts \cup {"none"}]
  /\ (\A q \in Reg!Creates \ {r} : token'[q] = token[q])
  /\ unsure \subseteq unsure' /\ unsure' \subseteq unsure \cup {r}
  /\ faults' \in 0 .. RegFaults

LEMMA QuietKeeps ==
  ASSUME Reg!RegistrationAssumption, RegistrationInv, NEW r \in RegRequests, NEW l, NEW u, NEW a,
         Quiet(r, l, u, a),
         PlacedAt(r)', r \in Reg!Public => PublicAt(r)', r \in Reg!WeChat => WeChatAt(r)', r \in Reg!Verifies => VerifyAt(r)',
         Claimed'
  PROVE  RegistrationInv'
<1>1. /\ Shapes /\ Stories /\ Guarded /\ RegOwned /\ Intended /\ Sweeping /\ Claimed
      /\ Reg!AuthorityUnique /\ Reg!ActiveBacked /\ Reg!VerifierKept
  BY DEF RegistrationInv
<1>2. /\ user' = user /\ events' = events /\ intent' = intent /\ upstream' = upstream /\ sweep' = sweep
      /\ proven' = proven /\ revived' = revived
      /\ run' \in [RegRequests -> Runs] /\ run'[r].pc = l /\ run'[r].user = u /\ run'[r].answer = a
      /\ \A q \in RegRequests \ {r} : run'[q] = run[q]
  BY DEF Quiet, Became
<1>3. /\ u = run[r].user \/ (r \in Reg!Verifies /\ u \in mailed)
      /\ run[r].answer \in Refusals => a \in Refusals
      /\ mailed \subseteq mailed' /\ mailed' \subseteq Reg!Accounts
      /\ (\A v \in mailed' : upstream[v] # "none")
      /\ spent \subseteq spent' /\ spent' \subseteq {Reg!Code(q) : q \in Reg!WeChat}
      /\ token' \in [Reg!Creates -> Reg!Accounts \cup {"none"}]
      /\ (\A q \in Reg!Creates \ {r} : token'[q] = token[q])
      /\ unsure \subseteq unsure' /\ unsure' \subseteq unsure \cup {r}
      /\ faults' \in 0 .. RegFaults
  BY DEF Quiet
<1>4. /\ locks' \subseteq locks /\ (\A k \in locks : k[2] # r => k \in locks')
      /\ \A k \in locks' : k[2] = r => run'[r].pc \in {"fresh", "insert"}
  BY <1>1, <1>2 DEF Quiet, Reg!Unlocked, Guarded
<1>5. Shapes'
  BY <1>1, <1>2, <1>3, <1>4 DEF Shapes
<1>6. \A v \in Reg!Accounts : Reg!Undone(v) => Reg!Undone(v)'
  BY <1>2, <1>3, RegKinds DEF Reg!Undone, Refusals
<1>7. Stories'
  <2>1. \A q \in RegRequests \ {r} : PlacedAt(q)'
    BY <1>1, <1>2 DEF Stories, PlacedAt
  <2>2. \A q \in Reg!Public \ {r} : PublicAt(q)'
    BY <1>1, <1>3, RegKinds, <1>2 DEF Stories, PublicAt, Reg!Present
  <2>3. \A q \in Reg!WeChat \ {r} : WeChatAt(q)'
    <3> SUFFICES ASSUME NEW q \in Reg!WeChat \ {r} PROVE WeChatAt(q)'
      OBVIOUS
    <3>1. q \in RegRequests \ {r} /\ q \in Reg!Creates \ {r} /\ WeChatAt(q)
      BY <1>1, RegKinds DEF Stories
    <3>2. Unborn(q) => Unborn(q)'
      BY <1>1, <1>2, <1>3 DEF Unborn, RegOwned, AccountAt
    <3>3. Untaken(q) => Untaken(q)'
      BY <1>4, <1>2 DEF Untaken, Reg!HasEmail, Reg!PhoneOwners, Reg!LinkedTo, Reg!Present
    <3>4. \A v : Kin(q, v) => Kin(q, v)'
      BY <1>2 DEF Kin, Reg!Present
    <3> QED
      BY <1>2, <1>3, <3>1, <3>2, <3>3, <3>4 DEF WeChatAt, Reg!Present
  <2>4. \A q \in Reg!Verifies \ {r} : VerifyAt(q)'
    BY <1>1, <1>2, <1>6, RegKinds DEF Stories, VerifyAt
  <2> QED
    BY <2>1, <2>2, <2>3, <2>4 DEF Stories
<1>8. Guarded'
  BY <1>1, RegKinds, <1>2, <1>4 DEF Shapes, Guarded
<1>9. RegOwned'
  BY <1>1, <1>2, <1>3, <1>6 DEF RegOwned, AccountAt, Reg!Present
<1>10. Intended'
  BY <1>2, <1>3, RegKinds, <1>1 DEF Intended, IntentAt, Reg!Present
<1>11. Sweeping'
  BY <1>1, <1>2 DEF Sweeping, Reg!PendingUser
<1>12. Reg!AuthorityUnique' /\ Reg!VerifierKept'
  BY <1>1, <1>2 DEF Reg!AuthorityUnique, Reg!VerifierKept, Reg!Present, Reg!PendingUser
<1>13. Reg!ActiveBacked'
  BY <1>1, <1>2, <1>6 DEF Reg!ActiveBacked
<1> QED
  BY <1>5, <1>7, <1>8, <1>9, <1>10, <1>11, <1>12, <1>13 DEF RegistrationInv

\* Facts of one request that the quiet steps start from.
LEMMA Begins ==
  ASSUME Reg!RegistrationAssumption, RegistrationInv, NEW r \in RegRequests
  PROVE  /\ run[r] \in Runs /\ PlacedAt(r)
         /\ r \in Reg!Public => PublicAt(r)
         /\ r \in Reg!WeChat => WeChatAt(r)
         /\ r \in Reg!Verifies => VerifyAt(r)
         /\ spent \subseteq {Reg!Code(q) : q \in Reg!WeChat} /\ mailed \subseteq Reg!Accounts
         /\ token \in [Reg!Creates -> Reg!Accounts \cup {"none"}] /\ \A v \in mailed : upstream[v] # "none"
         /\ faults \in 0 .. RegFaults /\ (Reg!Fault \/ Reg!NoFault => faults' \in 0 .. RegFaults)
         /\ Shapes /\ RegOwned /\ Guarded /\ Claimed
  BY DEF RegistrationInv, Stories, Shapes, Reg!RegistrationAssumption, Reg!Fault, Reg!NoFault, RegOwned,
     AccountAt

\* A request that only stops: its answer is a refusal or a failure, and no
\* public registration stops with something to undo.
LEMMA EndsKeeps ==
  ASSUME Reg!RegistrationAssumption, RegistrationInv, NEW r \in RegRequests, NEW a \in Refusals,
         Reg!Answer(r, a),
         UNCHANGED <<user, events, intent, upstream, sweep, proven, revived, mailed>>,
         spent \subseteq spent', spent' \subseteq {Reg!Code(q) : q \in Reg!WeChat},
         token' \in [Reg!Creates -> Reg!Accounts \cup {"none"}], \A q \in Reg!Creates \ {r} : token'[q] = token[q],
         locks' = Reg!Unlocked(r) \/ (locks' = locks /\ run[r].pc \notin {"fresh", "insert"}),
         unsure' = unsure \cup {r} \/ (unsure' = unsure /\ (r \in Reg!Public => Reg!At(r, "idle"))),
         Reg!Fault \/ Reg!NoFault
  PROVE  RegistrationInv'
<1>1. Became(r, "done", run[r].user, a)
  BY Moves DEF RegistrationInv, Refusals, Reg!Answers
<1>2. Quiet(r, "done", run[r].user, a)
  BY <1>1, Begins DEF Quiet
<1>3. run'[r].pc = "done" /\ run'[r].user = run[r].user /\ run'[r].answer = a
      /\ \A q \in RegRequests \ {r} : run'[q] = run[q]
  BY <1>1 DEF Became
<1>4. PlacedAt(r)'
  BY <1>3 DEF PlacedAt, Undoes
<1>5. r \in Reg!Public => PublicAt(r)'
  BY Begins, <1>3 DEF Refusals, PublicAt, Reg!At
<1>6. r \in Reg!WeChat => WeChatAt(r)'
  BY Begins, <1>3 DEF Refusals, WeChatAt, Kin, Reg!Present
<1>7. r \in Reg!Verifies => VerifyAt(r)'
  BY <1>3 DEF VerifyAt
<1>8. Claimed'
  BY <1>3, RegKinds, Begins DEF Claimer, Claimed
<1> QED
  BY <1>2, <1>4, <1>5, <1>6, <1>7, <1>8, QuietKeeps

LEMMA ClaimKeeps ==
  ASSUME Reg!RegistrationAssumption, RegistrationInv, NEW r \in RegRequests, Reg!ClaimProofs(r)
  PROVE  RegistrationInv'
<1>1. /\ r \in Reg!WeChat /\ Reg!At(r, "idle") /\ r \in RegRequests /\ WeChatAt(r) /\ PlacedAt(r)
      /\ UNCHANGED <<user, events, locks, intent, upstream, mailed, token, sweep, proven, unsure, revived>>
      /\ spent' = spent \/ spent' = spent \cup {Reg!Code(r)}
  BY Begins, RegKinds DEF Reg!ClaimProofs, Reg!historyVars
<1>2. spent \subseteq spent' /\ spent' \subseteq {Reg!Code(q) : q \in Reg!WeChat}
      /\ token' \in [Reg!Creates -> Reg!Accounts \cup {"none"}] /\ r \notin Reg!Public
  BY <1>1, Begins, RegKinds
<1>3. CASE Reg!Claimable(r) /\ spent' = spent \cup {Reg!Code(r)} /\ Reg!To(r, "claimed") /\ Reg!NoFault
  <2>1. Became(r, "claimed", run[r].user, run[r].answer)
    BY <1>3, Moves DEF RegistrationInv, Reg!Labels
  <2>2. Quiet(r, "claimed", run[r].user, run[r].answer)
    BY <1>1, <1>2, <1>3, <2>1, Begins DEF Quiet, Reg!At
  <2>3. /\ run'[r].pc = "claimed" /\ run'[r].user = run[r].user /\ run'[r].answer = run[r].answer
        /\ \A q \in RegRequests \ {r} : run'[q] = run[q]
    BY <2>1 DEF Became
  <2>4. PlacedAt(r)'
    BY <1>1, <2>3 DEF PlacedAt, Reg!At, Undoes
  <2>5. WeChatAt(r)'
    BY <1>1, <2>3 DEF WeChatAt, Reg!At, PlacedAt, Undoes, Unborn
  <2>6. Claimed'
    BY <2>3, RegKinds, <1>3, Begins DEF Claimer, Claimed, Reg!Claimable
  <2> QED
    BY <1>1, <1>2, <2>2, <2>4, <2>5, <2>6, RegKinds, QuietKeeps
<1>4. CASE \E a \in Refusals : Reg!Answer(r, a) /\ (Reg!NoFault \/ Reg!Fault)
  BY <1>1, <1>2, <1>4, EndsKeeps DEF Reg!At
<1> QED
  BY <1>3, <1>4 DEF Reg!ClaimProofs, Refusals

LEMMA VerifyRegistrationKeeps ==
  ASSUME Reg!RegistrationAssumption, RegistrationInv, NEW r \in RegRequests, Reg!VerifyRegistration(r)
  PROVE  RegistrationInv'
<1>1. /\ Reg!At(r, "claimed") /\ r \in Reg!WeChat /\ WeChatAt(r) /\ PlacedAt(r)
      /\ UNCHANGED <<user, events, locks, intent, upstream, mailed, token, sweep, spent, proven, unsure, revived>>
  BY Begins, RegKinds DEF Reg!VerifyRegistration, Reg!historyVars, PlacedAt, Reg!At
<1>2. spent \subseteq spent' /\ spent' \subseteq {Reg!Code(q) : q \in Reg!WeChat}
      /\ token' \in [Reg!Creates -> Reg!Accounts \cup {"none"}] /\ r \notin Reg!Public
  BY <1>1, Begins, RegKinds
<1>3. CASE Reg!To(r, "exchanged") /\ Reg!NoFault
  <2>1. Became(r, "exchanged", run[r].user, run[r].answer)
    BY <1>3, Moves DEF RegistrationInv, Reg!Labels
  <2>2. Quiet(r, "exchanged", run[r].user, run[r].answer)
    BY <1>1, <1>2, <1>3, <2>1, Begins DEF Quiet, Reg!At
  <2>3. /\ run'[r].pc = "exchanged" /\ run'[r].user = run[r].user /\ run'[r].answer = run[r].answer
        /\ \A q \in RegRequests \ {r} : run'[q] = run[q]
    BY <2>1 DEF Became
  <2>4. PlacedAt(r)'
    BY <1>1, <2>3 DEF PlacedAt, Reg!At, Undoes
  <2>5. WeChatAt(r)'
    BY <1>1, <2>3 DEF WeChatAt, Reg!At, PlacedAt, Undoes, Unborn
  <2>6. Claimed'
    BY <1>1, <2>3, RegKinds, Begins DEF Claimer, Reg!At, Claimed
  <2> QED
    BY <1>1, <1>2, <2>2, <2>4, <2>5, <2>6, RegKinds, QuietKeeps
<1>4. CASE Reg!Answer(r, "failed") /\ Reg!Fault
  BY <1>1, <1>2, <1>4, EndsKeeps DEF Reg!At, Refusals
<1> QED
  BY <1>3, <1>4 DEF Reg!VerifyRegistration

LEMMA CreateTokenKeeps ==
  ASSUME Reg!RegistrationAssumption, RegistrationInv, NEW r \in RegRequests, Reg!CreateToken(r)
  PROVE  RegistrationInv'
<1>1. /\ r \in Reg!Public /\ Reg!At(r, "idle") /\ PublicAt(r) /\ PlacedAt(r)
      /\ r \in Reg!Accounts /\ r \in Reg!Creates /\ r \notin Reg!WeChat /\ r \notin Reg!Verifies
      /\ UNCHANGED <<user, events, locks, intent, upstream, mailed, sweep, spent, proven, unsure, revived>>
  BY Begins, RegKinds DEF Reg!CreateToken, Reg!historyVars
<1>2. /\ \/ token' = [token EXCEPT ![r] = r] /\ Reg!To(r, "token") /\ Reg!NoFault
         \/ (token' = [token EXCEPT ![r] = r] \/ token' = token) /\ Reg!Answer(r, "failed") /\ Reg!Fault
      /\ token \in [Reg!Creates -> Reg!Accounts \cup {"none"}]
  BY Begins DEF Reg!CreateToken, Reg!PutToken
<1>3. /\ token' \in [Reg!Creates -> Reg!Accounts \cup {"none"}]
      /\ (\A q \in Reg!Creates \ {r} : token'[q] = token[q])
      /\ Reg!To(r, "token") => token'[r] = r
      /\ spent \subseteq spent' /\ spent' \subseteq {Reg!Code(q) : q \in Reg!WeChat}
  BY SMTT(40), <1>1, <1>2, Moves, Begins DEF RegistrationInv, Reg!Answers, Reg!Labels, Became
<1>4. CASE Reg!To(r, "token") /\ Reg!NoFault
  <2>1. Became(r, "token", run[r].user, run[r].answer)
    BY <1>4, Moves DEF RegistrationInv, Reg!Labels
  <2>2. Quiet(r, "token", run[r].user, run[r].answer)
    BY <1>1, <1>3, <1>4, <2>1, Begins DEF Quiet, Reg!At
  <2>3. /\ run'[r].pc = "token" /\ run'[r].user = run[r].user /\ run'[r].answer = run[r].answer
        /\ \A q \in RegRequests \ {r} : run'[q] = run[q]
    BY <2>1 DEF Became
  <2>4. PlacedAt(r)' /\ PublicAt(r)'
    BY <1>1, <1>3, <1>4, <2>3 DEF PlacedAt, PublicAt, Reg!At, Undoes
  <2>5. Claimed'
    BY <1>1, <2>3, RegKinds, Begins DEF Claimed, Claimer
  <2> QED
    BY <1>1, <2>2, <2>4, <2>5, QuietKeeps
<1>5. CASE Reg!Answer(r, "failed") /\ Reg!Fault
  BY <1>1, <1>3, <1>5, EndsKeeps DEF Reg!At, Refusals
<1> QED
  BY <1>2, <1>4, <1>5

LEMMA IssueTokenKeeps ==
  ASSUME Reg!RegistrationAssumption, RegistrationInv, NEW r \in RegRequests, Reg!IssueToken(r)
  PROVE  RegistrationInv'
<1> DEFINE u == run[r].user
<1>1. /\ Reg!At(r, "made") /\ r \in Reg!WeChat /\ WeChatAt(r) /\ PlacedAt(r) /\ r \notin Reg!Public
      /\ r \notin Reg!Verifies
      /\ r \in Reg!Creates
      /\ UNCHANGED <<user, events, locks, intent, upstream, mailed, sweep, spent, proven, unsure, revived>>
  BY Begins, RegKinds DEF Reg!IssueToken, Reg!historyVars, PlacedAt, Reg!At
<1>2. /\ \/ token' = [token EXCEPT ![r] = u] /\ Reg!Answer(r, "ok") /\ Reg!NoFault
         \/ Reg!Answer(r, "failed") /\ token' = token /\ Reg!Fault
      /\ token \in [Reg!Creates -> Reg!Accounts \cup {"none"}]
      /\ spent \subseteq spent' /\ spent' \subseteq {Reg!Code(q) : q \in Reg!WeChat}
  BY <1>1, Begins DEF Reg!IssueToken
<1>3. CASE token' = [token EXCEPT ![r] = u] /\ Reg!Answer(r, "ok") /\ Reg!NoFault
  <2>1. Became(r, "done", u, "ok")
    BY <1>3, Moves DEF RegistrationInv, Reg!Answers
  <2>2. /\ u \in Reg!Accounts \ Reg!Public /\ Reg!Present(u) /\ upstream[u] # "none" /\ Kin(r, u)
        /\ u # "none"
    BY <1>1, RegKinds DEF WeChatAt, Reg!At, Kin
  <2>3. token' \in [Reg!Creates -> Reg!Accounts \cup {"none"}] /\ (\A q \in Reg!Creates \ {r} : token'[q] = token[q]) /\ token'[r] = u
    BY <1>1, <1>2, <1>3, <2>2
  <2>4. Quiet(r, "done", u, "ok")
    BY <1>1, <1>2, <1>3, <2>1, <2>3, Begins DEF Quiet, Reg!At, PlacedAt, Undoes, Refusals
  <2>5. /\ run'[r].pc = "done" /\ run'[r].user = u /\ run'[r].answer = "ok"
        /\ \A q \in RegRequests \ {r} : run'[q] = run[q]
    BY <2>1 DEF Became
  <2>6. PlacedAt(r)'
    BY <2>5 DEF PlacedAt, Undoes
  <2>7. WeChatAt(r)'
    BY <1>1, <2>2, <2>5, <2>3 DEF Kin, Reg!Present, WeChatAt
  <2>8. Claimed'
    BY <1>1, <2>2, <2>5, RegKinds, Begins DEF Claimer, Reg!At, Claimed
  <2> QED
    BY <1>1, <2>4, <2>6, <2>7, <2>8, QuietKeeps
<1>4. CASE Reg!Answer(r, "failed") /\ token' = token /\ Reg!Fault
  BY <1>1, <1>2, <1>4, EndsKeeps DEF Reg!At, Refusals
<1> QED
  BY <1>2, <1>3, <1>4

LEMMA DeleteTokenKeeps ==
  ASSUME Reg!RegistrationAssumption, RegistrationInv, NEW r \in RegRequests, Reg!DeleteToken(r)
  PROVE  RegistrationInv'
<1>1. /\ Reg!At(r, "undo_token") /\ Reg!To(r, "done") /\ r \in Reg!Public /\ PublicAt(r) /\ PlacedAt(r)
      /\ r \notin Reg!WeChat /\ r \notin Reg!Verifies /\ r \in Reg!Creates
      /\ UNCHANGED <<user, events, locks, intent, upstream, mailed, sweep, spent, proven, unsure, revived>>
      /\ run[r].answer \in Refusals /\ (Reg!NoFault \/ Reg!Fault)
  BY Begins, RegKinds DEF Reg!DeleteToken, Reg!historyVars, PlacedAt, Reg!At, Undoes
<1>2. token' \in [Reg!Creates -> Reg!Accounts \cup {"none"}] /\ (\A q \in Reg!Creates \ {r} : token'[q] = token[q])
  BY <1>1, Begins DEF Reg!DeleteToken
<1>3. Became(r, "done", run[r].user, run[r].answer)
  BY <1>1, Moves DEF RegistrationInv, Reg!Labels
<1>4. Quiet(r, "done", run[r].user, run[r].answer)
  BY <1>1, <1>2, <1>3, Begins DEF Quiet, Reg!At
<1>5. /\ run'[r].pc = "done" /\ run'[r].user = run[r].user /\ run'[r].answer = run[r].answer
      /\ \A q \in RegRequests \ {r} : run'[q] = run[q]
  BY <1>3 DEF Became
<1>6. PlacedAt(r)' /\ PublicAt(r)'
  BY <1>1, <1>5 DEF PlacedAt, PublicAt, Reg!At, Undoes, Refusals
<1>7. Claimed'
  BY <1>1, <1>5, RegKinds, Begins DEF Claimed, Claimer
<1> QED
  BY <1>1, <1>4, <1>6, <1>7, QuietKeeps

\* A public request that changes nothing but its own progress and its token.
LEMMA PublicKeeps ==
  ASSUME Reg!RegistrationAssumption, RegistrationInv, NEW r \in Reg!Public, NEW l, NEW a,
         Quiet(r, l, run[r].user, a),
         PlacedAt(r)', PublicAt(r)'
  PROVE  RegistrationInv'
  BY RegKinds, Begins, QuietKeeps DEF Quiet, Became, Claimed, Claimer

\* The same of a verification, which may take up an account.
LEMMA VerifyKeeps ==
  ASSUME Reg!RegistrationAssumption, RegistrationInv, NEW r \in Reg!Verifies \cup Reg!Resends, NEW l, NEW u,
         NEW a,
         Quiet(r, l, u, a),
         PlacedAt(r)', VerifyAt(r)'
  PROVE  RegistrationInv'
  BY RegKinds, Begins, QuietKeeps DEF Quiet, Became, Claimed, Claimer

\* A row inserted for a public registration: the address was free, and no
\* transaction that counts on it was open.
LEMMA PublicInserted ==
  ASSUME Reg!RegistrationAssumption, RegistrationInv, NEW r \in Reg!Public, NEW l \in Reg!Labels,
         NEW a \in Reg!Answers,
         Reg!At(r, "token"), Reg!Free({Reg!Email(r)}), ~Reg!HasEmail(Reg!Email(r)),
         user' = [user EXCEPT ![r] = [status |-> "pending", email |-> Reg!Email(r),
                                        subject |-> "none", phone |-> "none", linked |-> TRUE]],
         Became(r, l, run[r].user, a),
         \/ l = "reserved" /\ a = "none" /\ unsure' = unsure
         \/ l = "undo_token" /\ a \in Refusals /\ unsure' = unsure \cup {r},
         UNCHANGED <<events, locks, intent, upstream, mailed, token, sweep, spent, proven, revived>>,
         Reg!Fault \/ Reg!NoFault
  PROVE  RegistrationInv'
<1>1. /\ Shapes /\ Stories /\ Guarded /\ RegOwned /\ Intended /\ Sweeping /\ Claimed
      /\ Reg!AuthorityUnique /\ Reg!ActiveBacked /\ Reg!VerifierKept
  BY DEF RegistrationInv
<1>2. /\ r \in RegRequests /\ r \notin Reg!WeChat /\ r \notin Reg!Verifies /\ r \in Reg!Accounts
      /\ r \in Reg!Creates /\ r # Reg!Legacy
      /\ r # "none"
      /\ Reg!WeChat \subseteq RegRequests \ {r} /\ Reg!Verifies \subseteq RegRequests \ {r}
      /\ Reg!Legacy \in Reg!Accounts \ {r}
      /\ Reg!WeChat \subseteq Reg!Accounts \ {r} /\ Reg!Public \subseteq Reg!Accounts
  BY RegKinds
<1>3. /\ run' \in [RegRequests -> Runs] /\ run'[r].pc = l /\ run'[r].user = run[r].user /\ run'[r].answer = a
      /\ \A q \in RegRequests \ {r} : run'[q] = run[q]
  BY DEF Became
<1>4. /\ user' \in [Reg!Accounts -> Rows] /\ \A v \in Reg!Accounts \ {r} : user'[v] = user[v]
      /\ user'[r].status = "pending" /\ user'[r].email = Reg!Email(r) /\ user'[r].subject = "none"
      /\ user'[r].phone = "none" /\ user'[r].linked
  BY <1>2, <1>1 DEF Rows, Statuses, Mails, Phones, Shapes
<1>5. /\ PublicAt(r) /\ PlacedAt(r) /\ run[r].answer = "none" /\ user[r].status = "none"
      /\ upstream[r] = "none"
      /\ token[r] = r
  BY <1>2, Begins DEF PublicAt, PlacedAt, Reg!At, Undoes
<1>6. Shapes'
  BY <1>1, <1>2, <1>3, <1>4, Begins DEF Shapes
<1>7. /\ \A v \in Reg!Accounts : Reg!Undone(v) => Reg!Undone(v)'
      /\ \A v \in Reg!Accounts : Reg!Present(v) => Reg!Present(v)'
  BY <1>2, <1>3, <1>4, <1>5, RegKinds DEF Reg!Undone, Reg!Present
<1>8. Stories'
  <2>1. \A q \in RegRequests : PlacedAt(q)'
    BY <1>2, <1>3, <1>1 DEF PlacedAt, Undoes, Stories
  <2>2. \A q \in Reg!Public : PublicAt(q)'
    BY <1>2, <1>3, <1>4, <1>5, <1>1, RegKinds DEF PublicAt, Reg!Present, Refusals, Stories
  <2>3. \A q \in Reg!WeChat : WeChatAt(q)'
    <3> SUFFICES ASSUME NEW q \in Reg!WeChat PROVE WeChatAt(q)'
      OBVIOUS
    <3>1. q \in RegRequests \ {r} /\ q \in Reg!Accounts \ {r} /\ WeChatAt(q) /\ run'[q] = run[q]
      BY <1>1, <1>2, <1>3 DEF Stories
    <3>2. Unborn(q) => Unborn(q)'
      BY <1>3, <1>4, <3>1 DEF Unborn
    <3>3. Untaken(q) => Untaken(q)'
      <4> SUFFICES ASSUME Untaken(q) PROVE Untaken(q)'
        OBVIOUS
      <4>1. <<Reg!Email(q), q>> \in locks /\ <<Reg!Email(q), q>>[1] = Reg!Email(q)
        BY DEF Untaken, Reg!Keys
      <4>2. Reg!Email(q) # Reg!Email(r)
        BY <4>1 DEF Reg!Free
      <4>3. ~Reg!HasEmail(Reg!Email(q))'
        BY <1>4, <4>2 DEF Untaken, Reg!HasEmail, Reg!Present
      <4>4. (Reg!PhoneOwners(Reg!Phone(q)) = {} /\ Reg!LinkedTo(Reg!Subject(q)) = {})'
        BY RegKinds, <1>4 DEF Untaken, Reg!PhoneOwners, Reg!LinkedTo, Reg!Present
      <4> QED
        BY <4>3, <4>4 DEF Untaken
    <3>4. \A v \in Reg!Accounts : Kin(q, v) => Kin(q, v)'
      BY <1>2, <1>4 DEF Kin, Reg!Present
    <3>5. run[q].user \in Reg!Accounts \cup {"none"} /\ token[q] \in Reg!Accounts \cup {"none"}
      BY <1>1, <3>1 DEF Shapes, Runs, Reg!Creates
    <3> QED
      BY <1>7, <3>1, <3>2, <3>3, <3>4, <3>5, RegKinds DEF WeChatAt
  <2>4. \A q \in Reg!Verifies : VerifyAt(q)'
    BY <1>1, <1>2, <1>3, <1>4, <1>5, <1>7 DEF Stories, VerifyAt
  <2> QED
    BY <2>1, <2>2, <2>3, <2>4 DEF Stories
<1>9. Guarded'
  BY <1>1, <1>2, <1>3 DEF Shapes, Guarded
<1>10. RegOwned'
  BY <1>1, <1>2, <1>4, <1>5, <1>7 DEF RegOwned, AccountAt, Reg!Present
<1>11. Intended'
  BY <1>1, <1>2, <1>3, <1>4 DEF Intended, IntentAt, Reg!Present
<1>12. Sweeping'
  BY <1>1, <1>4, <1>2 DEF Sweeping, Reg!PendingUser, Intended, IntentAt
<1>13. Reg!AuthorityUnique'
  BY <1>4, <1>1 DEF Reg!Present, Reg!HasEmail, Reg!AuthorityUnique
<1>14. Reg!ActiveBacked' /\ Reg!VerifierKept'
  BY <1>1, <1>4, <1>7 DEF Reg!ActiveBacked, Reg!VerifierKept, Reg!PendingUser
<1>15. Claimed'
  BY <1>1, <1>2, <1>3 DEF Claimed, Claimer
<1> QED
  BY <1>6, <1>8, <1>9, <1>10, <1>11, <1>12, <1>13, <1>14, <1>15 DEF RegistrationInv

LEMMA CreatePendingKeeps ==
  ASSUME Reg!RegistrationAssumption, RegistrationInv, NEW r \in RegRequests, Reg!CreatePending(r)
  PROVE  RegistrationInv'
<1>1. /\ Reg!At(r, "token") /\ r \in Reg!Public /\ PublicAt(r) /\ PlacedAt(r) /\ r \in Reg!Creates
      /\ UNCHANGED <<events, locks, intent, upstream, mailed, token, sweep, spent, proven, revived>>
      /\ user[r].status = "none" /\ upstream[r] = "none" /\ run[r].answer = "none"
  BY Begins, RegKinds DEF Reg!CreatePending, PlacedAt, PublicAt, Reg!At, Undoes
<1>2. CASE (\E a \in Refusals : Reg!Undoing(r, "undo_token", a)) /\ UNCHANGED <<user, unsure>> /\ (Reg!NoFault \/ Reg!Fault)
  <2>1. PICK a \in Refusals : Reg!Undoing(r, "undo_token", a)
    BY <1>2
  <2>2. Became(r, "undo_token", run[r].user, a)
    BY <2>1, Moves DEF RegistrationInv, Refusals, Reg!Answers, Reg!Labels
  <2>3. Quiet(r, "undo_token", run[r].user, a)
    BY <1>1, <1>2, <2>1, <2>2, Begins DEF Quiet, Reg!At
  <2>4. run'[r].pc = "undo_token" /\ run'[r].answer = a
    BY <2>2 DEF Became
  <2>5. PlacedAt(r)' /\ PublicAt(r)'
    BY <1>1, <1>2, <2>1, <2>4 DEF PlacedAt, PublicAt, Undoes, Refusals
  <2> QED
    BY <1>1, <2>3, <2>5, PublicKeeps
<1>3. CASE /\ ~Reg!HasEmail(Reg!Email(r))
           /\ user' = [user EXCEPT ![r] = [status |-> "pending", email |-> Reg!Email(r),
                                             subject |-> "none", phone |-> "none", linked |-> TRUE]]
           /\ \/ Reg!To(r, "reserved") /\ UNCHANGED unsure /\ Reg!NoFault
              \/ Reg!Undoing(r, "undo_token", "failed") /\ unsure' = unsure \cup {r} /\ Reg!Fault
  <2>1. Reg!Free({Reg!Email(r)})
    BY DEF Reg!CreatePending
  <2>2. CASE Reg!To(r, "reserved") /\ UNCHANGED unsure /\ Reg!NoFault
    <3>1. Became(r, "reserved", run[r].user, "none")
      BY <1>1, <2>2, Moves DEF RegistrationInv, Reg!Labels
    <3> QED
      BY <1>1, <1>3, <2>1, <2>2, <3>1, PublicInserted DEF Reg!Labels, Reg!Answers
  <2>3. CASE Reg!Undoing(r, "undo_token", "failed") /\ unsure' = unsure \cup {r} /\ Reg!Fault
    BY <1>1, <2>3, Moves, <1>3, <2>1, PublicInserted DEF RegistrationInv, Reg!Labels, Reg!Answers, Refusals
  <2> QED
    BY <1>3, <2>2, <2>3
<1> QED
  BY <1>2, <1>3 DEF Reg!CreatePending, Refusals

\* A WeChat request that changes nothing but its own progress and its token.
LEMMA WeChatKeeps ==
  ASSUME Reg!RegistrationAssumption, RegistrationInv, NEW r \in Reg!WeChat, NEW l, NEW a,
         Quiet(r, l, run[r].user, a),
         PlacedAt(r)', WeChatAt(r)', Claimer(r)' => Claimer(r)
  PROVE  RegistrationInv'
  BY RegKinds, Begins, QuietKeeps DEF Quiet, Became, Claimer, Claimed

\* The locks are taken where the database has been found free.
LEMMA FreshKeeps ==
  ASSUME Reg!RegistrationAssumption, RegistrationInv, NEW r \in Reg!WeChat, Reg!At(r, "exchanged"),
         Reg!Free(Reg!Keys(r)),
         Reg!LinkedTo(Reg!Subject(r)) = {}, Reg!Reservable(r), Reg!To(r, "fresh"), locks' = locks \cup (Reg!Keys(r) \X {r}), Reg!NoFault,
         UNCHANGED <<user, events, intent, upstream, mailed, token, sweep, spent, proven, unsure, revived>>
  PROVE  RegistrationInv'
<1>1. /\ Shapes /\ Stories /\ Guarded /\ RegOwned /\ Intended /\ Sweeping /\ Claimed
      /\ Reg!AuthorityUnique /\ Reg!ActiveBacked /\ Reg!VerifierKept
  BY DEF RegistrationInv
<1>2. r \in RegRequests /\ r \notin Reg!Public /\ r \notin Reg!Verifies /\ Reg!WeChat \subseteq RegRequests
  BY RegKinds
<1>3. /\ run' \in [RegRequests -> Runs] /\ run'[r].pc = "fresh" /\ run'[r].user = run[r].user
      /\ run'[r].answer = run[r].answer
      /\ \A q \in RegRequests \ {r} : run'[q] = run[q]
  BY <1>1, <1>2, Moves DEF Became, Reg!Labels
<1>4. Shapes'
  BY <1>1, <1>2, <1>3, Begins DEF Places, Shapes
<1>5. \A v \in Reg!Accounts : Reg!Undone(v)' <=> Reg!Undone(v)
  BY <1>2, <1>3, RegKinds DEF Reg!Undone
<1>6. Stories'
  <2>1. \A q \in RegRequests : PlacedAt(q)'
    BY <1>1, <1>2, <1>3 DEF Stories, PlacedAt, Reg!At, Undoes
  <2>2. \A q \in Reg!Public : PublicAt(q)'
    BY <1>2, RegKinds, <1>1, <1>3 DEF Stories, PublicAt, Reg!Present
  <2>3. \A q \in Reg!WeChat : WeChatAt(q)'
    <3> SUFFICES ASSUME NEW q \in Reg!WeChat PROVE WeChatAt(q)'
      OBVIOUS
    <3>1. q \in RegRequests /\ WeChatAt(q) /\ run'[q].user = run[q].user /\ run'[q].answer = run[q].answer
      BY <1>1, <1>2, <1>3 DEF Stories
    <3>2. Unborn(q) => Unborn(q)'
      BY <1>3 DEF Unborn
    <3>3. Untaken(q) => Untaken(q)'
      BY DEF Untaken, Reg!HasEmail, Reg!PhoneOwners, Reg!LinkedTo, Reg!Present
    <3>4. Kin(q, run[q].user) => Kin(q, run[q].user)'
      BY <1>3, <3>1 DEF Kin, Reg!Present
    <3>5. CASE q = r
      BY <1>3, <3>1, <3>2, <3>4, <3>5 DEF Untaken, Reg!Reservable, Reg!HasEmail, Reg!PhoneOwners,
         Reg!LinkedTo, Reg!Present, Reg!At, WeChatAt
    <3>6. CASE q # r
      BY <1>3, <3>1, <3>6, <3>2, <3>3, <3>4 DEF WeChatAt, Reg!Present
    <3> QED
      BY <3>5, <3>6
  <2>4. \A q \in Reg!Verifies : VerifyAt(q)'
    BY <1>2, RegKinds, <1>1, <1>3, <1>5 DEF Stories, VerifyAt
  <2> QED
    BY <2>1, <2>2, <2>3, <2>4 DEF Stories
<1>7. Guarded'
  BY <1>1, <1>2, <1>3 DEF Shapes, Guarded, Reg!Free
<1>8. RegOwned' /\ Intended' /\ Sweeping'
  BY <1>2, <1>3, <1>1, <1>5 DEF RegOwned, AccountAt, Intended, IntentAt, Sweeping, Reg!Present, Reg!PendingUser
<1>9. Claimed'
  BY <1>2, <1>3, <1>1 DEF Claimer, Reg!At, Claimed
<1>10. Reg!AuthorityUnique' /\ Reg!ActiveBacked' /\ Reg!VerifierKept'
  BY <1>1, <1>5 DEF Reg!AuthorityUnique, Reg!ActiveBacked, Reg!VerifierKept, Reg!Present, Reg!PendingUser
<1> QED
  BY <1>4, <1>6, <1>7, <1>8, <1>9, <1>10 DEF RegistrationInv

\* The same identity takes its reservation up again, with the same form.
LEMMA ResumedKeeps ==
  ASSUME Reg!RegistrationAssumption, RegistrationInv, NEW r \in Reg!WeChat, Reg!At(r, "exchanged"),
         Reg!Free(Reg!Keys(r)),
         NEW u \in Reg!Accounts, u \in Reg!LinkedTo(Reg!Subject(r)), Reg!Resumable(r, u),
         user' = [user EXCEPT ![u] = [@ EXCEPT !.phone = Reg!Phone(r), !.linked = TRUE]],
         events' = events \cup {<<"reserved", u>>} \cup (IF user[u].phone # Reg!Phone(r) THEN {<<"phone", u>>} ELSE {}),
         NEW l \in Reg!Labels, NEW w \in Reg!Accounts \cup {"none"}, NEW a \in Reg!Answers,
         Became(r, l, w, a),
         (l = "held" /\ w = u /\ a = "none") \/ (l = "done" /\ w = run[r].user /\ a = "failed"),
         Reg!Fault \/ Reg!NoFault,
         UNCHANGED <<locks, intent, upstream, mailed, token, sweep, spent, proven, unsure, revived>>
  PROVE  RegistrationInv'
<1>1. /\ Shapes /\ Stories /\ Guarded /\ RegOwned /\ Intended /\ Sweeping /\ Claimed
      /\ Reg!AuthorityUnique /\ Reg!ActiveBacked /\ Reg!VerifierKept
  BY DEF RegistrationInv
<1>2. /\ r \in RegRequests /\ r \notin Reg!Public /\ r \notin Reg!Verifies
      /\ Reg!WeChat \subseteq RegRequests
      /\ Reg!WeChat \subseteq Reg!Accounts
      /\ Reg!Subject(r) \in Reg!Subjects /\ Reg!Subject(r) # "none" /\ Reg!Phone(r) # "none"
      /\ "none" \notin Reg!Accounts
      /\ Reg!Legacy \in Reg!Accounts /\ Reg!Legacy \notin Reg!WeChat
      /\ Reg!Public \subseteq RegRequests \ {r} /\ Reg!Public \subseteq Reg!Accounts
      /\ Reg!Verifies \subseteq RegRequests \ {r}
  BY RegKinds
<1>3. /\ run' \in [RegRequests -> Runs] /\ run'[r].pc = l /\ run'[r].user = w /\ run'[r].answer = a
      /\ \A q \in RegRequests \ {r} : run'[q] = run[q]
  BY DEF Became
<1>4. /\ user' \in [Reg!Accounts -> Rows] /\ \A v \in Reg!Accounts \ {u} : user'[v] = user[v]
      /\ user'[u].status = user[u].status /\ user'[u].email = user[u].email
      /\ user'[u].subject = user[u].subject
      /\ user'[u].phone = Reg!Phone(r) /\ user'[u].linked
  <2> DEFINE row == [user[u] EXCEPT !.phone = Reg!Phone(r), !.linked = TRUE]
  <2>1. user \in [Reg!Accounts -> Rows] /\ Reg!Phone(r) \in Phones
    BY <1>1 DEF Shapes, Phones
  <2>2. /\ row \in Rows /\ row.status = user[u].status /\ row.email = user[u].email
        /\ row.subject = user[u].subject /\ row.phone = Reg!Phone(r) /\ row.linked
    BY <2>1 DEF Rows
  <2>3. user' = [user EXCEPT ![u] = row]
    OBVIOUS
  <2> QED
    BY <2>1, <2>2, <2>3
<1>5. \A v \in Reg!Accounts : user'[v].status = user[v].status /\ user'[v].email = user[v].email /\ user'[v].subject = user[v].subject
  BY <1>4
<1>6. /\ Reg!Present(u) /\ user[u].subject = Reg!Subject(r) /\ Reg!PendingUser(u)
      /\ Reg!PhoneOwners(Reg!Phone(r)) \subseteq {u}
      /\ intent[Reg!Subject(r)].user = u /\ intent[Reg!Subject(r)].form = Reg!Form(r)
  BY DEF Reg!LinkedTo, Reg!Resumable
<1>7. u \notin Reg!Public /\ (u \in Reg!WeChat => Reg!Subject(u) = Reg!Subject(r) /\ Reg!Form(u) = Reg!Form(r))
  BY <1>1, <1>2, <1>6 DEF RegOwned, Intended, AccountAt, IntentAt
<1>8. /\ WeChatAt(r) /\ PlacedAt(r) /\ run[r].user = "none" /\ run[r].answer = "none"
      /\ run[r].pc = "exchanged"
      /\ Claimer(r)
  BY <1>2, Begins DEF WeChatAt, PlacedAt, Reg!At, Undoes, Claimer
<1>9. Shapes'
  BY <1>1, <1>2, <1>3, <1>4, Begins DEF Shapes
<1>10. /\ \A v \in Reg!Accounts : Reg!Undone(v)' <=> Reg!Undone(v)
       /\ \A v \in Reg!Accounts : Reg!Present(v)' <=> Reg!Present(v)
       /\ \A v \in Reg!Accounts : Reg!PendingUser(v)' <=> Reg!PendingUser(v)
  BY <1>2, <1>3, <1>5 DEF Reg!Undone, Reg!Present, Reg!PendingUser
<1>11. Stories'
  <2>1. \A q \in RegRequests : PlacedAt(q)'
    BY <1>2, <1>3, <1>1 DEF PlacedAt, Undoes, Stories
  <2>2. \A q \in Reg!Public : PublicAt(q)'
    BY <1>1, <1>2, <1>3, <1>5 DEF Stories, PublicAt, Reg!Present
  <2>3. \A q \in Reg!WeChat : WeChatAt(q)'
    <3> SUFFICES ASSUME NEW q \in Reg!WeChat PROVE WeChatAt(q)'
      OBVIOUS
    <3>1. q \in RegRequests /\ q \in Reg!Accounts /\ WeChatAt(q)
      BY <1>1, <1>2 DEF Stories
    <3>2. \A v \in Reg!Accounts : Kin(q, v) => Kin(q, v)'
      BY <1>2, <1>5 DEF Kin, Reg!Present
    <3>3. CASE q = r
      BY <1>8, <1>2, <1>5, <1>6, <1>7, RegKinds, <1>3, <1>10, <3>3 DEF Kin, Reg!Present, WeChatAt
    <3>4. CASE q # r
      <4>1. run'[q] = run[q] /\ run[q].user \in Reg!Accounts \cup {"none"} /\ token[q] \in Reg!Accounts \cup {"none"}
        BY <1>1, <1>3, <3>1, <3>4 DEF Shapes, Runs, Reg!Creates
      <4>2. Unborn(q) => Unborn(q)'
        BY <1>6, <1>2, <1>3, <1>8, <3>1, <1>5 DEF Unborn, Reg!Present
      <4>3. Untaken(q) => Untaken(q)'
        <5> SUFFICES ASSUME Untaken(q) PROVE Untaken(q)'
          OBVIOUS
        <5>1. <<Reg!Phone(q), q>> \in locks /\ <<Reg!Phone(q), q>>[1] = Reg!Phone(q)
          BY DEF Untaken, Reg!Keys
        <5>2. Reg!Phone(q) # Reg!Phone(r)
          BY <5>1 DEF Reg!Free, Reg!Keys
        <5>3. Reg!PhoneOwners(Reg!Phone(q))' = {}
          BY <1>4, <1>10, <5>2 DEF Untaken, Reg!PhoneOwners
        <5>4. ~Reg!HasEmail(Reg!Email(q))' /\ Reg!LinkedTo(Reg!Subject(q))' = {}
          BY <1>5, <1>10 DEF Untaken, Reg!HasEmail, Reg!LinkedTo
        <5> QED
          BY <5>3, <5>4 DEF Untaken
      <4> QED
        BY <1>10, <3>1, <3>2, <4>1, <4>2, <4>3 DEF WeChatAt
    <3> QED
      BY <3>3, <3>4
  <2>4. \A q \in Reg!Verifies : VerifyAt(q)'
    BY <1>1, <1>2, <1>3, <1>5, <1>10 DEF Stories, VerifyAt
  <2> QED
    BY <2>1, <2>2, <2>3, <2>4 DEF Stories
<1>12. Guarded'
  BY <1>1, <1>2, <1>8, <1>3 DEF Shapes, Guarded
<1>13. RegOwned'
  BY <1>1, <1>4, <1>5, <1>7, <1>10 DEF RegOwned, AccountAt
<1>14. Intended'
  BY <1>2, <1>3, <1>8, <1>1, <1>6, <1>5, <1>10 DEF Intended, IntentAt
<1>15. Sweeping' /\ Reg!VerifierKept'
  BY <1>1, <1>5, <1>10 DEF Sweeping, Reg!VerifierKept
<1>16. Reg!ActiveBacked'
  BY <1>1, <1>5, <1>10 DEF Reg!ActiveBacked
<1>17. Reg!AuthorityUnique'
  BY <1>6, <1>1, <1>4, <1>5, <1>10 DEF Reg!PhoneOwners, Reg!AuthorityUnique
<1>18. Claimed'
  BY <1>2, <1>3, <1>8, <1>1 DEF Claimer, Claimed
<1> QED
  BY <1>9, <1>11, <1>12, <1>13, <1>14, <1>15, <1>16, <1>17, <1>18 DEF RegistrationInv

LEMMA ReservePendingKeeps ==
  ASSUME Reg!RegistrationAssumption, RegistrationInv, NEW r \in RegRequests, Reg!ReservePendingWithWeChat(r)
  PROVE  RegistrationInv'
<1>1. /\ Reg!At(r, "exchanged") /\ Reg!Free(Reg!Keys(r)) /\ r \in Reg!WeChat /\ WeChatAt(r) /\ PlacedAt(r)
      /\ r \notin Reg!Public
      /\ UNCHANGED <<upstream, mailed, token, sweep, spent, proven, unsure, revived>>
      /\ run[r].user = "none" /\ run[r].answer = "none"
  BY Begins, RegKinds DEF Reg!ReservePendingWithWeChat, PlacedAt, WeChatAt, Reg!At, Undoes
<1>2. token' \in [Reg!Creates -> Reg!Accounts \cup {"none"}] /\ spent' \subseteq {Reg!Code(q) : q \in Reg!WeChat}
  BY <1>1, Begins
<1>3. CASE (\E a \in Refusals : Reg!Answer(r, a)) /\ (Reg!Fault \/ Reg!NoFault) /\ UNCHANGED <<user, events, locks, intent>>
  BY <1>1, <1>2, <1>3, EndsKeeps DEF Reg!At
<1>4. CASE Reg!Reserve(r)
  BY <1>1, <1>3, <1>4, FreshKeeps, Moves DEF Reg!Reserve, Refusals, RegistrationInv, Reg!Answers, Reg!Labels,
     Became
<1>5. ASSUME NEW u \in Reg!Accounts, Reg!Resume(r, u)
      PROVE  RegistrationInv'
  <2>1. CASE /\ Reg!Resumable(r, u) /\ user' = [user EXCEPT ![u] = [@ EXCEPT !.phone = Reg!Phone(r), !.linked = TRUE]]
             /\ events' = events \cup {<<"reserved", u>>} \cup (IF user[u].phone # Reg!Phone(r) THEN {<<"phone", u>>} ELSE {})
             /\ (Reg!With(r, "held", u) /\ Reg!NoFault) \/ (Reg!Answer(r, "failed") /\ Reg!Fault)
    <3>1. u \in Reg!LinkedTo(Reg!Subject(r)) /\ UNCHANGED <<locks, intent>>
      BY <1>5 DEF Reg!Resume
    <3>2. CASE Reg!With(r, "held", u) /\ Reg!NoFault
      <4>1. Became(r, "held", u, "none")
        BY <1>1, <3>2, Moves DEF RegistrationInv, Reg!Labels
      <4> QED
        BY ZenonT(120), <1>1, <2>1, <3>1, <3>2, <4>1, ResumedKeeps DEF Reg!Labels, Reg!Answers
    <3>3. CASE Reg!Answer(r, "failed") /\ Reg!Fault
      BY ZenonT(120), <1>1, <3>3, Moves, <2>1, <3>1, ResumedKeeps DEF RegistrationInv, Reg!Answers, Reg!Labels
    <3> QED
      BY <2>1, <3>2, <3>3
  <2> QED
    BY <1>3, <1>5, <2>1 DEF Reg!Resume, Refusals
<1> QED
  BY <1>4, <1>5 DEF Reg!ReservePendingWithWeChat

\* The verifier is stored under the identifier of the first form; a request
\* with another form, or one that fails, lets its locks go.
LEMMA StoredKeeps ==
  ASSUME Reg!RegistrationAssumption, RegistrationInv, NEW r \in Reg!WeChat, Reg!At(r, "fresh"),
         Reg!Stored(r).form = Reg!Form(r),
         intent' = [intent EXCEPT ![Reg!Subject(r)] = Reg!Stored(r)],
         NEW l \in Reg!Labels, NEW w \in Reg!Accounts \cup {"none"}, NEW a \in Reg!Answers,
         Became(r, l, w, a),
         \/ l = "insert" /\ w = Reg!Stored(r).user /\ a = "none" /\ locks' = locks
         \/ l = "done" /\ w = run[r].user /\ a = "failed" /\ locks' = Reg!Unlocked(r),
         Reg!Fault \/ Reg!NoFault,
         UNCHANGED <<user, events, upstream, mailed, token, sweep, spent, proven, unsure, revived>>
  PROVE  RegistrationInv'
<1>1. /\ Shapes /\ Stories /\ Guarded /\ RegOwned /\ Intended /\ Sweeping /\ Claimed
      /\ Reg!AuthorityUnique /\ Reg!ActiveBacked /\ Reg!VerifierKept
  BY DEF RegistrationInv
<1>2. /\ r \in RegRequests /\ r \notin Reg!Public /\ r \notin Reg!Verifies
      /\ Reg!WeChat \subseteq RegRequests
      /\ Reg!WeChat \subseteq Reg!Accounts
      /\ Reg!Subject(r) \in Reg!Subjects /\ Reg!Subject(r) # "none" /\ r # Reg!Legacy /\ r # "none"
      /\ "none" \notin Reg!Accounts
      /\ Reg!Legacy \in Reg!Accounts /\ Reg!Legacy \notin Reg!WeChat
      /\ Reg!Public \subseteq RegRequests \ {r} /\ Reg!Public \subseteq Reg!Accounts
      /\ Reg!Verifies \subseteq RegRequests \ {r}
  BY RegKinds
<1>3. /\ run' \in [RegRequests -> Runs] /\ run'[r].pc = l /\ run'[r].user = w /\ run'[r].answer = a
      /\ \A q \in RegRequests \ {r} : run'[q] = run[q]
  BY DEF Became
<1>4. /\ WeChatAt(r) /\ PlacedAt(r) /\ Unborn(r) /\ Untaken(r) /\ run[r].user = "none"
      /\ run[r].answer = "none"
      /\ run[r].pc = "fresh" /\ Claimer(r)
  BY <1>2, Begins DEF WeChatAt, PlacedAt, Reg!At, Undoes, Claimer
<1> DEFINE i == Reg!Stored(r)
           s == Reg!Subject(r)
<1>5. /\ (intent[s] = Reg!NoIntent /\ i.user = r /\ i.form = Reg!Form(r) /\ i.old = FALSE) \/ i = intent[s]
      /\ i \in RegIntents
  BY <1>2, <1>1 DEF RegIntents, Forms, Reg!Accounts, Reg!Creates, Shapes, Reg!Stored
<1>6. i.form = Reg!Form(r)
  OBVIOUS
<1>7. intent' = [intent EXCEPT ![s] = i]
  OBVIOUS
<1> HIDE DEF i, s
<1>8. i.user \in Reg!WeChat /\ Reg!Subject(i.user) = s /\ Reg!Form(i.user) = Reg!Form(r)
  BY <1>1, <1>2, <1>4, <1>6, <1>5 DEF Intended, s, IntentAt, Untaken, Reg!LinkedTo, Reg!Stored, i
<1>9. /\ intent' \in [Reg!Subjects -> RegIntents] /\ intent'[s] = i
      /\ \A x \in Reg!Subjects \ {s} : intent'[x] = intent[x]
      /\ \A x \in Reg!Subjects : intent'[x] = intent[x] \/ (x = s /\ intent[x] = Reg!NoIntent /\ intent'[x].user = r)
  BY <1>1, <1>2, <1>5, <1>7 DEF Shapes, s
<1>10. w = "none" \/ (w = i.user /\ w \in Reg!WeChat)
  BY <1>4, <1>8 DEF i
<1>11. /\ locks' \subseteq locks /\ (\A k \in locks : k[2] # r => k \in locks')
       /\ (\A k \in locks' : k[2] = r => l = "insert")
       /\ l = "insert" => locks' = locks
  BY DEF Reg!Unlocked
<1>12. Shapes'
  BY <1>1, <1>2, <1>3, <1>9, <1>11, Begins DEF Shapes
<1>13. \A v \in Reg!Accounts : Reg!Undone(v)' <=> Reg!Undone(v)
  BY <1>2, <1>3 DEF Reg!Undone
<1>14. Stories'
  <2>1. \A q \in RegRequests : PlacedAt(q)'
    BY <1>2, <1>3, <1>1 DEF PlacedAt, Undoes, Stories
  <2>2. \A q \in Reg!Public : PublicAt(q)'
    BY <1>1, <1>2, <1>3 DEF Stories, PublicAt, Reg!Present
  <2>3. \A q \in Reg!WeChat : WeChatAt(q)'
    <3> SUFFICES ASSUME NEW q \in Reg!WeChat PROVE WeChatAt(q)'
      OBVIOUS
    <3>1. q \in RegRequests /\ q \in Reg!Accounts /\ WeChatAt(q)
      BY <1>1, <1>2 DEF Stories
    <3>2. \A v \in Reg!Accounts : Kin(q, v) => Kin(q, v)'
      BY DEF Kin, Reg!Present
    <3>3. Untaken(q) /\ (q # r \/ l = "insert") => Untaken(q)'
      BY <1>11 DEF Untaken, Reg!HasEmail, Reg!PhoneOwners, Reg!LinkedTo, Reg!Present
    <3>4. CASE q = r
      BY <1>2, <1>8, <1>10, <1>3, <1>4, <3>3, <3>4 DEF Kin, s, WeChatAt, i
    <3>5. CASE q # r
      <4>1. run'[q] = run[q] /\ run[q].user \in Reg!Accounts \cup {"none"}
        BY <1>1, <1>3, <3>1, <3>5 DEF Shapes, Runs
      <4>2. Unborn(q) => Unborn(q)'
        BY <1>9, <3>5, <1>2, <1>10, <3>1, <1>3 DEF Unborn, s
      <4> QED
        BY <3>1, <3>2, <3>3, <3>5, <4>1, <4>2 DEF WeChatAt, Reg!Present
    <3> QED
      BY <3>4, <3>5
  <2>4. \A q \in Reg!Verifies : VerifyAt(q)'
    BY <1>1, <1>2, <1>3, <1>13 DEF Stories, VerifyAt
  <2> QED
    BY <2>1, <2>2, <2>3, <2>4 DEF Stories
<1>15. Guarded'
  BY <1>1, <1>2, <1>3, <1>11 DEF Shapes, Guarded
<1>16. RegOwned'
  BY <1>1, <1>13 DEF RegOwned, AccountAt, Reg!Present
<1>17. Intended'
  BY <1>2, <1>3, <1>10, <1>1, <1>9, <1>6, <1>8 DEF Intended, IntentAt, Reg!Present
<1>18. Sweeping'
  BY <1>4, <1>9, <1>1 DEF Unborn, Sweeping, Reg!PendingUser
<1>19. Reg!VerifierKept'
  BY <1>1, <1>2, <1>9 DEF Reg!VerifierKept, Reg!PendingUser, Shapes, Rows, Reg!NoIntent
<1>20. Reg!AuthorityUnique' /\ Reg!ActiveBacked'
  BY <1>1, <1>13 DEF Reg!AuthorityUnique, Reg!ActiveBacked, Reg!Present
<1>21. Claimed'
  BY <1>2, <1>3, <1>4, <1>1 DEF Claimer, Claimed
<1> QED
  BY <1>12, <1>14, <1>15, <1>16, <1>17, <1>18, <1>19, <1>20, <1>21 DEF RegistrationInv

LEMMA ReserveNewKeeps ==
  ASSUME Reg!RegistrationAssumption, RegistrationInv, NEW r \in RegRequests, Reg!ReserveNew(r)
  PROVE  RegistrationInv'
<1>1. /\ Reg!At(r, "fresh") /\ r \in Reg!WeChat /\ WeChatAt(r) /\ PlacedAt(r) /\ r \notin Reg!Public
      /\ UNCHANGED <<user, events, upstream, mailed, token, sweep, spent, proven, unsure, revived>>
      /\ run[r].user = "none" /\ run[r].answer = "none"
  BY Begins, RegKinds DEF Reg!ReserveNew, PlacedAt, WeChatAt, Reg!At, Undoes, Reg!historyVars
<1>2. token' \in [Reg!Creates -> Reg!Accounts \cup {"none"}] /\ spent' \subseteq {Reg!Code(q) : q \in Reg!WeChat}
  BY <1>1, Begins
<1>3. CASE (\E a \in Refusals : Reg!Answer(r, a)) /\ (Reg!Fault \/ Reg!NoFault) /\ locks' = Reg!Unlocked(r) /\ UNCHANGED intent
  BY <1>1, <1>2, <1>3, EndsKeeps DEF Reg!At
<1>4. CASE /\ Reg!Stored(r).form = Reg!Form(r) /\ intent' = [intent EXCEPT ![Reg!Subject(r)] = Reg!Stored(r)]
           /\ Reg!With(r, "insert", Reg!Stored(r).user) /\ UNCHANGED locks /\ Reg!NoFault
  <2>1. Reg!Stored(r).user \in Reg!Accounts \cup {"none"}
    BY <1>1, Begins, RegKinds DEF Reg!Stored, Shapes, RegIntents
  <2>2. Became(r, "insert", Reg!Stored(r).user, "none")
    BY <1>1, <1>4, <2>1, Moves DEF RegistrationInv, Reg!Labels
  <2> QED
    BY <1>1, <1>4, <2>1, <2>2, StoredKeeps DEF Reg!Labels, Reg!Answers
<1>5. CASE /\ Reg!Stored(r).form = Reg!Form(r) /\ intent' = [intent EXCEPT ![Reg!Subject(r)] = Reg!Stored(r)]
           /\ Reg!Answer(r, "failed") /\ locks' = Reg!Unlocked(r) /\ Reg!Fault
  <2>1. Became(r, "done", "none", "failed")
    BY <1>1, <1>5, Moves DEF RegistrationInv, Reg!Answers
  <2> QED
    BY <1>1, <1>5, <2>1, StoredKeeps DEF Reg!Labels, Reg!Answers
<1> QED
  BY <1>3, <1>4, <1>5 DEF Reg!ReserveNew, Refusals

\* The insertion under the locks: the identifier is that of a request of the
\* same identity and form, and nothing of what it takes is in use.
LEMMA InsertedKeeps ==
  ASSUME Reg!RegistrationAssumption, RegistrationInv, NEW r \in Reg!WeChat, Reg!At(r, "insert"), NEW u,
         u = run[r].user,
         user' = [user EXCEPT ![u] = [status |-> "pending", email |-> Reg!Email(r), subject |-> Reg!Subject(r),
                                        phone |-> Reg!Phone(r), linked |-> TRUE]],
         events' = events \cup {<<"reserved", u>>},
         revived' = IF intent[Reg!Subject(r)].old \/ intent[Reg!Subject(r)].user # u THEN revived \cup {u} ELSE revived,
         NEW l \in Reg!Labels, NEW a \in Reg!Answers, Became(r, l, u, a),
         (l = "held" /\ a = "none") \/ (l = "done" /\ a = "failed"),
         locks' = Reg!Unlocked(r), Reg!Fault \/ Reg!NoFault,
         UNCHANGED <<intent, upstream, mailed, token, sweep, spent, proven, unsure>>
  PROVE  RegistrationInv'
<1>1. /\ Shapes /\ Stories /\ Guarded /\ RegOwned /\ Intended /\ Sweeping /\ Claimed
      /\ Reg!AuthorityUnique /\ Reg!ActiveBacked /\ Reg!VerifierKept
  BY DEF RegistrationInv
<1>2. /\ r \in RegRequests /\ r \notin Reg!Public /\ r \notin Reg!Verifies
      /\ Reg!WeChat \subseteq RegRequests
      /\ Reg!WeChat \subseteq Reg!Accounts
      /\ Reg!Subject(r) \in Reg!Subjects /\ Reg!Subject(r) # "none" /\ Reg!Phone(r) # "none" /\ r # "none"
      /\ "none" \notin Reg!Accounts
      /\ Reg!Legacy \in Reg!Accounts /\ Reg!Legacy \notin Reg!WeChat /\ Reg!Public \cap Reg!WeChat = {}
      /\ Reg!Public \subseteq RegRequests \ {r} /\ Reg!Public \subseteq Reg!Accounts
      /\ Reg!Verifies \subseteq RegRequests \ {r}
  BY RegKinds
<1>3. /\ run' \in [RegRequests -> Runs] /\ run'[r].pc = l /\ run'[r].user = u /\ run'[r].answer = a
      /\ \A q \in RegRequests \ {r} : run'[q] = run[q]
  BY DEF Became
<1>4. /\ WeChatAt(r) /\ PlacedAt(r) /\ Untaken(r) /\ run[r].answer = "none" /\ run[r].pc = "insert"
      /\ Claimer(r) /\ u \in Reg!WeChat /\ Kin(r, u)
  BY <1>2, Begins DEF WeChatAt, PlacedAt, Reg!At, Undoes, Claimer
<1>5. Reg!Subject(u) = Reg!Subject(r) /\ Reg!Form(u) = Reg!Form(r) /\ u \in Reg!Accounts /\ u \notin Reg!Public /\ u # Reg!Legacy
  BY <1>2, <1>4 DEF Kin
<1>6. ~Reg!Present(u)
  BY <1>1, <1>5, <1>2, <1>4 DEF RegOwned, AccountAt, Untaken, Reg!LinkedTo
<1>7. /\ user' \in [Reg!Accounts -> Rows] /\ \A v \in Reg!Accounts \ {u} : user'[v] = user[v]
      /\ user'[u].status = "pending" /\ user'[u].email = Reg!Email(r) /\ user'[u].subject = Reg!Subject(r)
      /\ user'[u].phone = Reg!Phone(r) /\ user'[u].linked
  BY <1>2, <1>1, <1>5 DEF Rows, Statuses, Mails, Phones, Reg!Creates, Shapes
<1>8. /\ revived \subseteq revived' /\ revived' \subseteq Reg!Accounts
      /\ intent[Reg!Subject(r)].old \/ intent[Reg!Subject(r)].user # u => u \in revived'
  BY <1>1, <1>5 DEF Shapes
<1>9. /\ locks' \subseteq locks /\ (\A k \in locks : k[2] # r => k \in locks') /\ (\A k \in locks' : k[2] # r)
  BY DEF Reg!Unlocked
<1>10. /\ \A v \in Reg!Accounts : Reg!Undone(v)' <=> Reg!Undone(v)
       /\ \A v \in Reg!Accounts : Reg!Present(v) => Reg!Present(v)'
       /\ \A v \in Reg!Accounts \ {u} : Reg!Present(v)' <=> Reg!Present(v)
       /\ Reg!Present(u)'
  BY <1>2, <1>3, <1>5, <1>7 DEF Reg!Undone, Reg!Present
<1>11. Shapes'
  BY <1>1, <1>5, <1>2, <1>3, <1>7, <1>8, <1>9, Begins DEF Shapes
<1>12. Stories'
  <2>1. \A q \in RegRequests : PlacedAt(q)'
    BY <1>2, <1>3, <1>1 DEF PlacedAt, Undoes, Stories
  <2>2. \A q \in Reg!Public : PublicAt(q)'
    BY <1>1, <1>2, <1>3, <1>5, <1>7 DEF Stories, PublicAt, Reg!Present
  <2>3. \A q \in Reg!WeChat : WeChatAt(q)'
    <3> SUFFICES ASSUME NEW q \in Reg!WeChat PROVE WeChatAt(q)'
      OBVIOUS
    <3>1. q \in RegRequests /\ q \in Reg!Accounts /\ WeChatAt(q)
      BY <1>1, <1>2 DEF Stories
    <3>2. \A v \in Reg!Accounts : Kin(q, v) => Kin(q, v)'
      BY <1>2, <1>5, <1>7 DEF Kin, Reg!Present
    <3>3. CASE q = r
      BY <1>3, <1>4, <1>5, <1>10, <3>2, <3>3, RegKinds DEF WeChatAt
    <3>4. CASE q # r
      <4>1. run'[q] = run[q] /\ run[q].user \in Reg!Accounts \cup {"none"} /\ token[q] \in Reg!Accounts \cup {"none"}
        BY <1>1, <1>3, <3>1, <3>4 DEF Shapes, Runs, Reg!Creates
      <4>2. Unborn(q) => Unborn(q)'
        BY <1>2, <1>3, <1>7, <3>1 DEF Unborn
      <4>3. Untaken(q) => Untaken(q)'
        <5> SUFFICES ASSUME Untaken(q) PROVE Untaken(q)'
          OBVIOUS
        <5>1. Reg!Keys(q) \X {q} \subseteq locks' /\ Reg!Keys(q) \X {q} \subseteq locks
          BY <1>9, <3>4 DEF Untaken
        <5>2. Reg!Keys(q) \cap Reg!Keys(r) = {}
          <6> SUFFICES ASSUME NEW k \in Reg!Keys(q), k \in Reg!Keys(r) PROVE FALSE
            OBVIOUS
          <6>1. <<k, q>> \in locks /\ <<k, r>> \in locks
            BY <1>4, <5>1 DEF Untaken
          <6>2. <<k, q>>[1] = <<k, r>>[1] /\ <<k, q>>[2] = q /\ <<k, r>>[2] = r
            OBVIOUS
          <6> QED
            BY <1>1, <3>4, <6>1, <6>2 DEF Guarded
        <5>3. Reg!Email(q) # Reg!Email(r) /\ Reg!Subject(q) # Reg!Subject(r) /\ Reg!Phone(q) # Reg!Phone(r)
          BY <5>2 DEF Reg!Keys
        <5>4. (~Reg!HasEmail(Reg!Email(q)) /\ Reg!PhoneOwners(Reg!Phone(q)) = {} /\ Reg!LinkedTo(Reg!Subject(q)) = {})'
          BY <1>7, <1>10, <5>3 DEF Untaken, Reg!HasEmail, Reg!PhoneOwners, Reg!LinkedTo
        <5> QED
          BY <5>1, <5>4 DEF Untaken
      <4> QED
        BY <1>10, <3>1, <3>2, <4>1, <4>2, <4>3 DEF WeChatAt
    <3> QED
      BY <3>3, <3>4
  <2>4. \A q \in Reg!Verifies : VerifyAt(q)'
    BY <1>1, <1>2, <1>3, <1>6, <1>7, <1>10 DEF Stories, VerifyAt, Reg!Present
  <2> QED
    BY <2>1, <2>2, <2>3, <2>4 DEF Stories
<1>13. Guarded'
  BY <1>1, <1>2, <1>3, <1>9 DEF Shapes, Guarded
<1>14. RegOwned'
  BY <1>1, <1>2, <1>5, <1>7, <1>10 DEF RegOwned, AccountAt
<1>15. Intended'
  BY <1>2, <1>3, <1>1, <1>5, <1>7 DEF Intended, IntentAt, Reg!Present
<1>16. Sweeping'
  BY <1>1, <1>7, <1>8, <1>4, <1>5 DEF Sweeping, Reg!PendingUser
<1>17. Reg!VerifierKept'
  BY <1>1, <1>7, <1>8 DEF Reg!VerifierKept, Reg!PendingUser
<1>18. Reg!AuthorityUnique'
  BY <1>4, <1>1, <1>7, <1>10 DEF Untaken, Reg!HasEmail, Reg!PhoneOwners, Reg!LinkedTo, Reg!AuthorityUnique
<1>19. Reg!ActiveBacked'
  BY <1>1, <1>7, <1>10 DEF Reg!ActiveBacked
<1>20. Claimed'
  BY <1>2, <1>3, <1>4, <1>1 DEF Claimer, Claimed
<1> QED
  BY <1>11, <1>12, <1>13, <1>14, <1>15, <1>16, <1>17, <1>18, <1>19, <1>20 DEF RegistrationInv

LEMMA InsertReservedKeeps ==
  ASSUME Reg!RegistrationAssumption, RegistrationInv, NEW r \in RegRequests, Reg!InsertReserved(r)
  PROVE  RegistrationInv'
  BY Begins, RegKinds, EndsKeeps, Moves, InsertedKeeps DEF Reg!InsertReserved, PlacedAt, Reg!At, Undoes,
     Refusals, RegistrationInv, Reg!Labels, Reg!Answers

LEMMA FindPendingKeeps ==
  ASSUME Reg!RegistrationAssumption, RegistrationInv, NEW r \in RegRequests, Reg!FindPending(r)
  PROVE  RegistrationInv'
<1>1. /\ r \in Reg!Public /\ PublicAt(r) /\ PlacedAt(r) /\ AccountAt(r) /\ run[r].pc = "undo_user"
      /\ UNCHANGED <<user, events, locks, intent, upstream, mailed, token, sweep, spent, proven, revived>>
      /\ run[r].answer \in Refusals /\ (Reg!NoFault \/ Reg!Fault)
  BY Begins, RegKinds DEF Reg!FindPending, PlacedAt, Reg!At, Undoes, RegOwned
<1>2. \/ Reg!Reserved(r) /\ Reg!To(r, "removing") /\ unsure' = unsure
      \/ ~Reg!Reserved(r) /\ Reg!To(r, "undo_token") /\ unsure' = unsure
      \/ Reg!To(r, "undo_token") /\ unsure' = unsure \cup {r}
  BY DEF Reg!FindPending
<1>3. PICK l \in {"removing", "undo_token"} : Reg!To(r, l) /\ (l = "removing" => unsure' = unsure)
  BY <1>2
<1>4. Became(r, l, run[r].user, run[r].answer)
  BY <1>3, Moves DEF RegistrationInv, Reg!Labels
<1>5. Quiet(r, l, run[r].user, run[r].answer)
  BY <1>1, <1>2, <1>4, Begins DEF Quiet
<1>6. run'[r].pc = l /\ run'[r].answer = run[r].answer
  BY <1>4 DEF Became
<1>7. user[r].status = "pending" => user[r].linked
  BY <1>1 DEF AccountAt, Reg!Present
<1>8. r \notin unsure' => r \notin unsure /\ (l = "undo_token" => user[r].status # "pending")
  BY <1>2, <1>3, <1>6, <1>7, Moves DEF Reg!Reserved, Reg!PendingUser, RegistrationInv, Reg!Labels, Became
<1>9. PlacedAt(r)' /\ PublicAt(r)'
  BY <1>1, <1>3, <1>6, <1>8 DEF PlacedAt, PublicAt, Undoes, Refusals
<1> QED
  BY <1>1, <1>5, <1>9, PublicKeeps

LEMMA DeletePendingKeeps ==
  ASSUME Reg!RegistrationAssumption, RegistrationInv, NEW r \in RegRequests, Reg!DeletePending(r)
  PROVE  RegistrationInv'
<1>1. /\ Shapes /\ Stories /\ Guarded /\ RegOwned /\ Intended /\ Sweeping /\ Claimed
      /\ Reg!AuthorityUnique /\ Reg!ActiveBacked /\ Reg!VerifierKept
  BY DEF RegistrationInv
<1>2. /\ Reg!At(r, "removing") /\ Reg!To(r, "undo_token") /\ r \in Reg!Public /\ PublicAt(r) /\ PlacedAt(r)
      /\ UNCHANGED <<events, locks, intent, upstream, mailed, token, sweep, spent, proven, revived>>
      /\ run[r].answer \in Refusals /\ run[r].pc = "removing"
  BY Begins, RegKinds DEF Reg!DeletePending, PlacedAt, Reg!At, Undoes
<1>3. Became(r, "undo_token", run[r].user, run[r].answer)
  BY <1>1, <1>2, Moves DEF Reg!Labels
<1>4. /\ run' \in [RegRequests -> Runs] /\ run'[r].pc = "undo_token" /\ run'[r].user = run[r].user
      /\ run'[r].answer = run[r].answer /\ \A q \in RegRequests \ {r} : run'[q] = run[q]
  BY <1>3 DEF Became
<1>5. CASE UNCHANGED user /\ unsure' = unsure \cup {r} /\ Reg!Fault
  BY ZenonT(120), <1>2, <1>3, <1>5, Begins, <1>4, PublicKeeps DEF Quiet, Reg!At, PlacedAt, PublicAt, Undoes, Refusals
<1>6. CASE user' = [user EXCEPT ![r] = Reg!Removed(r)] /\ UNCHANGED unsure /\ Reg!NoFault
  <2>1. /\ r \notin Reg!WeChat /\ r \notin Reg!Verifies /\ r \in Reg!Accounts /\ r # Reg!Legacy /\ r # "none"
        /\ Reg!WeChat \subseteq RegRequests \ {r} /\ Reg!Verifies \subseteq RegRequests \ {r}
        /\ Reg!Legacy \in Reg!Accounts \ {r}
        /\ Reg!WeChat \subseteq Reg!Accounts \ {r} /\ Reg!Public \subseteq Reg!Accounts
    BY <1>2, RegKinds
  <2>2. /\ user' \in [Reg!Accounts -> Rows] /\ \A v \in Reg!Accounts \ {r} : user'[v] = user[v]
        /\ \/ Reg!PendingUser(r) /\ user'[r] = Reg!Absent
           \/ /\ ~Reg!PendingUser(r) /\ user'[r].status = user[r].status /\ user'[r].email = user[r].email
              /\ user'[r].subject = user[r].subject /\ user'[r].phone = user[r].phone
    <3>1. user \in [Reg!Accounts -> Rows] /\ Reg!Absent \in Rows
      BY <1>1 DEF Shapes, Reg!Absent, Rows, Statuses, Mails, Phones
    <3>2. CASE Reg!PendingUser(r)
      BY <1>6, <2>1, <3>1, <3>2 DEF Reg!Removed
    <3>3. CASE ~Reg!PendingUser(r)
      <4>1. Reg!Removed(r) = [user[r] EXCEPT !.linked = FALSE]
        BY <3>3 DEF Reg!Removed
      <4>2. /\ Reg!Removed(r) \in Rows /\ Reg!Removed(r).status = user[r].status
            /\ Reg!Removed(r).email = user[r].email
            /\ Reg!Removed(r).subject = user[r].subject /\ Reg!Removed(r).phone = user[r].phone
        BY <2>1, <3>1, <4>1 DEF Rows
      <4> QED
        BY <1>6, <2>1, <3>1, <3>3, <4>2
    <3> QED
      BY <3>2, <3>3
  <2>3. /\ \A v \in Reg!Accounts : Reg!Undone(v)' <=> Reg!Undone(v)
        /\ Reg!Undone(r)
        /\ \A v \in Reg!Accounts : Reg!Present(v)' =>
             /\ Reg!Present(v) /\ user'[v].status = user[v].status /\ user'[v].email = user[v].email
             /\ user'[v].subject = user[v].subject /\ user'[v].phone = user[v].phone
        /\ \A v \in Reg!Accounts \ {r} : Reg!Present(v)' <=> Reg!Present(v)
        /\ \A v \in Reg!Accounts : Reg!PendingUser(v)' => Reg!PendingUser(v) /\ v # r
    BY <1>2, <1>4, <2>1, <2>2, RegKinds DEF Reg!Undone, Reg!Present, Reg!PendingUser, Reg!Absent, Refusals
  <2>4. Shapes'
    BY <1>1, <1>2, <1>4, <1>6, <2>2, Begins DEF Shapes
  <2>5. Stories'
    <3>1. \A q \in RegRequests : PlacedAt(q)'
      BY <1>2, <1>4, <1>1 DEF PlacedAt, Undoes, Stories
    <3>2. \A q \in Reg!Public : PublicAt(q)'
      BY <1>2, <1>4, <1>6, <2>1, <2>3, <1>1, RegKinds, <2>2 DEF PublicAt, Reg!PendingUser, Refusals, Stories,
         Reg!Present
    <3>3. \A q \in Reg!WeChat : WeChatAt(q)'
      <4> SUFFICES ASSUME NEW q \in Reg!WeChat PROVE WeChatAt(q)'
        OBVIOUS
      <4>1. q \in RegRequests \ {r} /\ q \in Reg!Accounts \ {r} /\ WeChatAt(q) /\ run'[q] = run[q]
        BY <1>1, <1>4, <2>1 DEF Stories
      <4>2. Unborn(q) => Unborn(q)'
        BY <1>2, <1>4, <2>2, <4>1 DEF Unborn
      <4>3. Untaken(q) => Untaken(q)'
        BY <1>2, <2>3 DEF Untaken, Reg!HasEmail, Reg!PhoneOwners, Reg!LinkedTo
      <4>4. \A v \in Reg!Accounts : Kin(q, v) => Kin(q, v)' /\ v # r
        BY <1>2, <2>1, <2>2 DEF Kin, Reg!Present
      <4>5. run[q].user \in Reg!Accounts \cup {"none"} /\ token[q] \in Reg!Accounts \cup {"none"}
        BY <1>1, <4>1 DEF Shapes, Runs, Reg!Creates
      <4> QED
        BY <1>2, <2>3, <4>1, <4>2, <4>3, <4>4, <4>5, RegKinds DEF WeChatAt
    <3>4. \A q \in Reg!Verifies : VerifyAt(q)'
      BY <1>1, <1>4, <2>1, <1>2, <2>2, <2>3 DEF Stories, VerifyAt, Reg!PendingUser
    <3> QED
      BY <3>1, <3>2, <3>3, <3>4 DEF Stories
  <2>6. Guarded'
    BY <1>1, <2>1, <1>2, <1>4 DEF Shapes, Guarded
  <2>7. RegOwned'
    BY <1>1, <1>2, <2>1, <2>2, <2>3 DEF RegOwned, AccountAt, Rows, Statuses, Reg!Present, Reg!PendingUser
  <2>8. Intended'
    BY <1>1, <1>2, <1>4, <2>1, <2>2 DEF Intended, IntentAt, Reg!Present
  <2>9. Sweeping'
    BY <1>1, <1>2, <2>3 DEF Sweeping
  <2>10. Reg!AuthorityUnique'
    BY <1>1, <2>3 DEF Reg!AuthorityUnique
  <2>11. Reg!ActiveBacked' /\ Reg!VerifierKept'
    BY <1>1, <1>2, <2>2, <2>3 DEF Reg!ActiveBacked, Reg!VerifierKept, Reg!Absent
  <2>12. Claimed'
    BY <1>1, <1>2, <1>4, <2>1 DEF Claimed, Claimer
  <2> QED
    BY <2>4, <2>5, <2>6, <2>7, <2>8, <2>9, <2>10, <2>11, <2>12 DEF RegistrationInv
<1> QED
  BY <1>5, <1>6 DEF Reg!DeletePending

\* An account that was waiting or active becomes active, having been proven,
\* or is suspended.
LEMMA StatusKeeps ==
  ASSUME Reg!RegistrationAssumption, RegistrationInv, NEW u \in Reg!Accounts,
         NEW now \in {"active", "disabled"},
         user[u].status \in {"pending", "active"}, user' = [user EXCEPT ![u].status = now],
         now = "active" => u \in proven /\ (upstream[u] = "verified" \/ Reg!Undone(u)),
         run' \in [RegRequests -> Runs],
         \A q \in RegRequests : \/ run'[q] = run[q]
                                \/ q \in Reg!Verifies /\ run'[q].user = run[q].user /\ PlacedAt(q)' /\ VerifyAt(q)',
         Reg!Fault \/ Reg!NoFault,
         UNCHANGED <<events, locks, intent, upstream, mailed, token, sweep, spent, proven, unsure, revived>>
  PROVE  RegistrationInv'
<1>1. /\ Shapes /\ Stories /\ Guarded /\ RegOwned /\ Intended /\ Sweeping /\ Claimed
      /\ Reg!AuthorityUnique /\ Reg!ActiveBacked /\ Reg!VerifierKept
  BY DEF RegistrationInv
<1>2. /\ Reg!WeChat \subseteq RegRequests /\ Reg!WeChat \subseteq Reg!Accounts
      /\ Reg!Public \subseteq RegRequests
      /\ Reg!Public \subseteq Reg!Accounts
      /\ Reg!Verifies \subseteq RegRequests /\ Reg!Verifies \cap Reg!WeChat = {}
      /\ Reg!Verifies \cap Reg!Public = {}
      /\ Reg!Legacy \in Reg!Accounts /\ "none" \notin Reg!Accounts
  BY RegKinds
<1>3. \A q \in Reg!WeChat \cup Reg!Public : run'[q] = run[q]
  BY <1>2
<1>4. /\ user' \in [Reg!Accounts -> Rows]
      /\ \A v \in Reg!Accounts \ {u} : user'[v] = user[v]
      /\ user'[u].status = now
      /\ \A v \in Reg!Accounts : /\ user'[v].email = user[v].email /\ user'[v].subject = user[v].subject
                                 /\ user'[v].phone = user[v].phone /\ user'[v].linked = user[v].linked
  BY <1>1 DEF Shapes, Statuses, Rows
<1>5. /\ \A v \in Reg!Accounts : Reg!Undone(v)' <=> Reg!Undone(v)
      /\ \A v \in Reg!Accounts : Reg!Present(v)' <=> Reg!Present(v)
      /\ \A v \in Reg!Accounts : Reg!PendingUser(v)' => Reg!PendingUser(v)
  BY <1>2, <1>3, <1>4 DEF Reg!Undone, Reg!Present, Reg!PendingUser
<1>6. Shapes'
  BY <1>1, <1>4, Begins DEF Shapes, Reg!Fault, Reg!NoFault, Reg!RegistrationAssumption
<1>7. Stories'
  <2>1. \A q \in RegRequests : PlacedAt(q)'
    BY <1>1 DEF Stories, PlacedAt
  <2>2. \A q \in Reg!Public : PublicAt(q)'
    BY <1>1, <1>2, <1>3, <1>4, <1>5 DEF Stories, PublicAt, Reg!Present
  <2>3. \A q \in Reg!WeChat : WeChatAt(q)'
    <3> SUFFICES ASSUME NEW q \in Reg!WeChat PROVE WeChatAt(q)'
      OBVIOUS
    <3>1. q \in RegRequests /\ q \in Reg!Accounts /\ WeChatAt(q) /\ run'[q] = run[q]
      BY <1>1, <1>2, <1>3 DEF Stories
    <3>2. \A v \in Reg!Accounts : Kin(q, v) => Kin(q, v)'
      BY <1>2, <1>4, <1>5 DEF Kin
    <3>3. Unborn(q) => Unborn(q)'
      BY <1>4, <3>1 DEF Unborn
    <3>4. Untaken(q) => Untaken(q)'
      BY <1>4, <1>5 DEF Untaken, Reg!HasEmail, Reg!PhoneOwners, Reg!LinkedTo
    <3>5. run[q].user \in Reg!Accounts \cup {"none"} /\ token[q] \in Reg!Accounts \cup {"none"}
      BY <1>1, <3>1 DEF Shapes, Runs, Reg!Creates
    <3> QED
      BY <1>5, <3>1, <3>2, <3>3, <3>4, <3>5 DEF WeChatAt
  <2>4. \A q \in Reg!Verifies : VerifyAt(q)'
    BY <1>2, <1>1, <1>4, <1>5 DEF Stories, VerifyAt
  <2> QED
    BY <2>1, <2>2, <2>3, <2>4 DEF Stories
<1>8. Guarded'
  BY <1>1, <1>3 DEF Shapes, Guarded
<1>9. RegOwned'
  BY <1>1, <1>4, <1>5 DEF RegOwned, AccountAt
<1>10. Intended'
  BY <1>1, <1>2, <1>3, <1>4, <1>5 DEF Intended, IntentAt
<1>11. Sweeping'
  BY <1>1, <1>5 DEF Sweeping
<1>12. Reg!AuthorityUnique'
  BY <1>1, <1>4, <1>5 DEF Reg!AuthorityUnique
<1>13. Reg!ActiveBacked'
  BY <1>1, <1>4, <1>5 DEF Reg!ActiveBacked
<1>14. Reg!VerifierKept'
  BY <1>1, <1>4, <1>5 DEF Reg!VerifierKept
<1>15. Claimed'
  BY <1>1, <1>3 DEF Claimed, Claimer
<1> QED
  BY <1>6, <1>7, <1>8, <1>9, <1>10, <1>11, <1>12, <1>13, <1>14, <1>15 DEF RegistrationInv

LEMMA SuspendKeeps ==
  ASSUME Reg!RegistrationAssumption, RegistrationInv, NEW u \in Reg!Accounts, Reg!Suspend(u)
  PROVE  RegistrationInv'
  BY StatusKeeps DEF Reg!Suspend, RegistrationInv, Shapes, Reg!historyVars

LEMMA ActivateKeeps ==
  ASSUME Reg!RegistrationAssumption, RegistrationInv, NEW r \in RegRequests, Reg!ActivateVerified(r)
  PROVE  RegistrationInv'
<1> DEFINE u == run[r].user
<1>1. /\ Reg!At(r, "checked") /\ r \in Reg!Verifies /\ VerifyAt(r) /\ PlacedAt(r) /\ r \notin Reg!Public
      /\ r \notin Reg!WeChat
      /\ UNCHANGED <<events, locks, intent, upstream, mailed, token, sweep, spent, proven, unsure, revived>>
      /\ run[r].pc = "checked" /\ run[r].answer = "none" /\ u \in Reg!Accounts
      /\ u \in proven /\ (upstream[u] = "verified" \/ Reg!Undone(u))
  BY Begins, RegKinds DEF Reg!ActivateVerified, PlacedAt, VerifyAt, Reg!At, Undoes, Reg!historyVars
<1>2. token' \in [Reg!Creates -> Reg!Accounts \cup {"none"}] /\ spent' \subseteq {Reg!Code(q) : q \in Reg!WeChat}
  BY <1>1, Begins
<1>3. CASE (\E a \in Refusals : Reg!Answer(r, a)) /\ (Reg!Fault \/ Reg!NoFault) /\ UNCHANGED user
  BY <1>1, <1>2, <1>3, EndsKeeps DEF Reg!At
<1>4. CASE /\ Reg!Activatable(u) /\ user' = [user EXCEPT ![u].status = "active"]
           /\ (Reg!To(r, "clear") /\ Reg!NoFault) \/ (Reg!Answer(r, "failed") /\ Reg!Fault)
  <2>1. (\E l \in {"clear", "done"}, a \in {"none", "failed"} : Became(r, l, u, a) /\ (l = "clear" => a = "none"))
        /\ (Reg!Fault \/ Reg!NoFault)
    BY <1>1, <1>4, Moves DEF RegistrationInv, Reg!Labels, Reg!Answers
  <2>2. PICK l \in {"clear", "done"}, a \in {"none", "failed"} : Became(r, l, u, a) /\ (l = "clear" => a = "none")
    BY <2>1
  <2>3. /\ run' \in [RegRequests -> Runs] /\ run'[r].pc = l /\ run'[r].user = u /\ run'[r].answer = a
        /\ \A q \in RegRequests \ {r} : run'[q] = run[q]
    BY <2>2 DEF Became
  <2>4. user'[u].status = "active"
    BY <1>1, <1>4, Begins DEF Shapes, Rows
  <2>5. PlacedAt(r)' /\ VerifyAt(r)'
    BY <1>1, <2>2, <2>3, <2>4 DEF PlacedAt, VerifyAt, Undoes
  <2>6. \A q \in RegRequests : \/ run'[q] = run[q]
                               \/ q \in Reg!Verifies /\ run'[q].user = run[q].user /\ PlacedAt(q)' /\ VerifyAt(q)'
    BY <1>1, <2>3, <2>5
  <2> QED
    BY <1>1, <1>4, <2>1, <2>3, <2>6, StatusKeeps DEF Reg!Activatable
<1> QED
  BY <1>3, <1>4 DEF Reg!ActivateVerified, Refusals

\* Verifiers that are removed or grow old, and what the cleanup pass notes.
LEMMA IntentsKeep ==
  ASSUME Reg!RegistrationAssumption, RegistrationInv, intent' \in [Reg!Subjects -> RegIntents],
         \A x \in Reg!Subjects :
            /\ \/ intent'[x] = Reg!NoIntent
               \/ /\ intent'[x].user = intent[x].user /\ intent'[x].form = intent[x].form
                  /\ intent[x].old => intent'[x].old
                  /\ intent'[x] = Reg!NoIntent \/ intent'[x].user # "none"
            /\ intent'[x].user = intent[x].user \/ ~Reg!PendingUser(intent[x].user) \/ intent[x].user \in revived,
         sweep' \in [pc : {"idle", "listed", "doomed"}, subject : Reg!Subjects \cup {"none"}, user : Reg!Accounts \cup {"none"}],
         \/ sweep'.user = sweep.user \/ sweep'.user = "none"
         \/ \E x \in Reg!Subjects : sweep'.user = intent[x].user,
         Sweeping',
         run' \in [RegRequests -> Runs],
         \A q \in RegRequests : \/ run'[q] = run[q]
                                \/ q \in Reg!Verifies /\ run'[q].user = run[q].user /\ PlacedAt(q)' /\ VerifyAt(q)',
         Reg!Fault \/ Reg!NoFault,
         UNCHANGED <<user, events, locks, upstream, mailed, token, spent, proven, unsure, revived>>
  PROVE  RegistrationInv'
<1>1. /\ Shapes /\ Stories /\ Guarded /\ RegOwned /\ Intended /\ Claimed
      /\ Reg!AuthorityUnique /\ Reg!ActiveBacked /\ Reg!VerifierKept
  BY DEF RegistrationInv
<1>2. /\ Reg!WeChat \subseteq RegRequests /\ Reg!WeChat \subseteq Reg!Accounts
      /\ Reg!Public \subseteq RegRequests
      /\ Reg!Public \subseteq Reg!Accounts
      /\ Reg!Verifies \subseteq RegRequests /\ Reg!Verifies \cap Reg!WeChat = {}
      /\ Reg!Verifies \cap Reg!Public = {}
      /\ Reg!Legacy \in Reg!Accounts /\ "none" \notin Reg!Accounts /\ Reg!Legacy # "none"
  BY RegKinds
<1>3. \A q \in Reg!WeChat \cup Reg!Public : run'[q] = run[q]
  BY <1>2
<1>4. \A v \in Reg!Accounts : Reg!Undone(v)' <=> Reg!Undone(v)
  BY <1>2, <1>3 DEF Reg!Undone
<1>5. Shapes'
  BY <1>1, Begins DEF Shapes, Reg!Fault, Reg!NoFault, Reg!RegistrationAssumption
<1>6. Stories'
  <2>1. \A q \in RegRequests : PlacedAt(q)'
    BY <1>1 DEF Stories, PlacedAt
  <2>2. \A q \in Reg!Public : PublicAt(q)'
    BY <1>1, <1>2, <1>3 DEF Stories, PublicAt, Reg!Present
  <2>3. \A q \in Reg!WeChat : WeChatAt(q)'
    BY <1>1, <1>2, <1>3 DEF Stories, Kin, Reg!Present, Unborn, Reg!NoIntent, Untaken, Reg!HasEmail,
       Reg!PhoneOwners, Reg!LinkedTo, WeChatAt
  <2>4. \A q \in Reg!Verifies : VerifyAt(q)'
    BY <1>2, <1>1, <1>4 DEF Stories, VerifyAt
  <2> QED
    BY <2>1, <2>2, <2>3, <2>4 DEF Stories
<1>7. Guarded'
  BY <1>1, <1>3 DEF Shapes, Guarded
<1>8. RegOwned'
  BY <1>1, <1>4 DEF RegOwned, AccountAt, Reg!Present
<1>9. Intended'
  BY <1>1, <1>2, <1>3 DEF Reg!NoIntent, Intended, IntentAt, Reg!Present
<1>10. Reg!VerifierKept'
  BY <1>1 DEF Reg!VerifierKept, Reg!PendingUser, Shapes, Rows
<1>11. Reg!AuthorityUnique' /\ Reg!ActiveBacked'
  BY <1>1, <1>4 DEF Reg!AuthorityUnique, Reg!ActiveBacked, Reg!Present
<1>12. Claimed'
  BY <1>1, <1>3 DEF Claimed, Claimer
<1> QED
  BY <1>5, <1>6, <1>7, <1>8, <1>9, <1>10, <1>11, <1>12 DEF RegistrationInv

LEMMA ClearKeeps ==
  ASSUME Reg!RegistrationAssumption, RegistrationInv, NEW r \in RegRequests, Reg!Clear(r)
  PROVE  RegistrationInv'
<1> DEFINE u == run[r].user
<1>1. /\ Reg!At(r, "clear") /\ r \in Reg!Verifies /\ VerifyAt(r) /\ PlacedAt(r) /\ r \notin Reg!Public
      /\ r \notin Reg!WeChat
      /\ UNCHANGED <<user, events, locks, upstream, mailed, token, sweep, spent, proven, unsure, revived>>
      /\ run[r].pc = "clear" /\ u \in Reg!Accounts /\ ~Reg!PendingUser(u)
  BY Begins, RegKinds DEF Reg!Clear, PlacedAt, VerifyAt, Reg!At, Reg!historyVars, Reg!PendingUser
<1>2. /\ Shapes /\ Sweeping /\ Stories
  BY DEF RegistrationInv
<1>3. Became(r, "done", u, "ok")
  BY <1>2, Moves DEF Reg!Clear, Reg!Answers
<1>4. /\ run' \in [RegRequests -> Runs] /\ run'[r].pc = "done" /\ run'[r].user = u /\ run'[r].answer = "ok"
      /\ \A q \in RegRequests \ {r} : run'[q] = run[q]
  BY <1>3 DEF Became
<1>5. PlacedAt(r)' /\ VerifyAt(r)'
  BY <1>4 DEF PlacedAt, VerifyAt, Undoes
<1>6. \A q \in RegRequests : \/ run'[q] = run[q]
                             \/ q \in Reg!Verifies /\ run'[q].user = run[q].user /\ PlacedAt(q)' /\ VerifyAt(q)'
  BY <1>1, <1>4, <1>5
<1>7. /\ intent' \in [Reg!Subjects -> RegIntents]
      /\ \A x \in Reg!Subjects : intent'[x] = intent[x] \/ (intent'[x] = Reg!NoIntent /\ intent[x].user = u)
  <2>1. Reg!NoIntent \in RegIntents /\ intent \in [Reg!Subjects -> RegIntents]
    BY <1>2 DEF Reg!NoIntent, RegIntents, Forms, Shapes
  <2> QED
    BY <2>1 DEF Reg!Clear
<1>8. Reg!NoIntent.user = "none" /\ \A x \in Reg!Subjects : intent[x] = Reg!NoIntent \/ intent[x].user # "none"
  BY DEF RegistrationInv, Intended, IntentAt, Reg!NoIntent
<1>9. Sweeping'
  BY <1>2, RegKinds, <1>1, <1>7, <1>8 DEF Sweeping, Reg!PendingUser
<1>10. Reg!Fault \/ Reg!NoFault
  BY DEF Reg!Clear
<1>11. sweep' \in [pc : {"idle", "listed", "doomed"}, subject : Reg!Subjects \cup {"none"}, user : Reg!Accounts \cup {"none"}]
       /\ sweep'.user = sweep.user
  BY <1>1, <1>2 DEF Shapes
<1> QED
  BY <1>1, <1>4, <1>6, <1>7, <1>8, <1>9, <1>10, <1>11, IntentsKeep

LEMMA SweepKeeps ==
  ASSUME Reg!RegistrationAssumption, RegistrationInv, Reg!CleanupCompleted
  PROVE  RegistrationInv'
<1>1. /\ Shapes /\ Sweeping /\ Intended
  BY DEF RegistrationInv
<1>2. /\ UNCHANGED <<user, events, locks, upstream, mailed, token, run, spent, proven, unsure, revived>>
      /\ Reg!Fault \/ Reg!NoFault
  BY DEF Reg!CleanupCompleted, Reg!ListIntents, Reg!ReadAuthority, Reg!DeleteIntent, Reg!historyVars
<1>3. /\ run' \in [RegRequests -> Runs] /\ \A q \in RegRequests : run'[q] = run[q]
  BY <1>1, <1>2 DEF Shapes
<1>4. /\ intent \in [Reg!Subjects -> RegIntents] /\ Reg!NoIntent \in RegIntents /\ Reg!NoIntent.user = "none"
      /\ Reg!NoIntent.old = FALSE
      /\ \A x \in Reg!Subjects : intent[x] = Reg!NoIntent \/ intent[x].user # "none"
      /\ "none" \notin Reg!Accounts
  BY <1>1, RegKinds DEF Shapes, Reg!NoIntent, RegIntents, Forms, Intended, IntentAt
<1> DEFINE Sweeps == [pc : {"idle", "listed", "doomed"}, subject : Reg!Subjects \cup {"none"}, user : Reg!Accounts \cup {"none"}]
<1>5. CASE Reg!ListIntents
  BY <1>5, <1>4, <1>1, RegKinds, <1>2, <1>3, IntentsKeep DEF Reg!ListIntents, RegIntents, Sweeping, Intended,
     IntentAt
<1>6. CASE Reg!ReadAuthority
  BY <1>6, <1>2, <1>3, <1>4, IntentsKeep, <1>1 DEF Reg!ReadAuthority, Reg!Idle, Sweeping, Shapes,
     Reg!PendingUser, Reg!Kept
<1>7. CASE Reg!DeleteIntent
  BY <1>7, <1>4, <1>1, <1>2, <1>3, IntentsKeep DEF Reg!DeleteIntent, Reg!Idle, Sweeping
<1> QED
  BY <1>5, <1>6, <1>7 DEF Reg!CleanupCompleted

LEMMA GraceKeeps ==
  ASSUME Reg!RegistrationAssumption, RegistrationInv, NEW s \in Reg!Subjects, Reg!GracePasses(s)
  PROVE  RegistrationInv'
<1>1. /\ Shapes /\ Sweeping /\ Intended
  BY DEF RegistrationInv
<1>2. /\ UNCHANGED <<user, events, locks, upstream, mailed, token, sweep, run, spent, proven, unsure, revived>>
      /\ Reg!NoFault /\ intent[s] # Reg!NoIntent /\ intent' = [intent EXCEPT ![s].old = TRUE]
  BY DEF Reg!GracePasses, Reg!historyVars
<1>3. intent[s].user # "none" /\ Reg!NoIntent.user = "none" /\ intent \in [Reg!Subjects -> RegIntents] /\ "none" \notin Reg!Accounts
      /\ \A x \in Reg!Subjects : intent[x] = Reg!NoIntent \/ intent[x].user # "none"
  BY <1>1, <1>2, RegKinds DEF Intended, IntentAt, Reg!NoIntent, Shapes
<1>4. /\ intent' \in [Reg!Subjects -> RegIntents]
      /\ \A x \in Reg!Subjects : /\ intent'[x].user = intent[x].user /\ intent'[x].form = intent[x].form
                                 /\ intent'[x].old <=> intent[x].old \/ x = s
                                 /\ intent'[x] = intent[x] \/ x = s
  BY <1>2, <1>3 DEF RegIntents
<1>5. Sweeping'
  BY <1>1, <1>2, <1>4 DEF Sweeping, Reg!PendingUser
<1>6. /\ run' \in [RegRequests -> Runs] /\ \A q \in RegRequests : run'[q] = run[q]
      /\ sweep' \in [pc : {"idle", "listed", "doomed"}, subject : Reg!Subjects \cup {"none"}, user : Reg!Accounts \cup {"none"}]
      /\ sweep'.user = sweep.user
  BY <1>1, <1>2 DEF Shapes
<1>7. \A x \in Reg!Subjects : /\ intent'[x] = Reg!NoIntent \/ intent'[x].user # "none"
  BY <1>3, <1>4
<1> QED
  BY <1>2, <1>4, <1>5, <1>6, <1>7, IntentsKeep

\* The code that a link in the mail brings back, and one that is sent again.
LEMMA IsPendingKeeps ==
  ASSUME Reg!RegistrationAssumption, RegistrationInv, NEW r \in RegRequests, Reg!IsPending(r)
  PROVE  RegistrationInv'
<1>1. /\ Reg!At(r, "idle") /\ r \in Reg!Verifies /\ r \notin Reg!Public /\ r \notin Reg!WeChat /\ PlacedAt(r)
      /\ run[r].answer = "none"
      /\ UNCHANGED <<user, events, locks, intent, upstream, mailed, token, sweep, spent, proven, unsure, revived>>
      /\ Reg!NoFault
  BY Begins, RegKinds DEF Reg!IsPending, Reg!historyVars, PlacedAt, Reg!At, Undoes
<1>2. token' \in [Reg!Creates -> Reg!Accounts \cup {"none"}] /\ spent' \subseteq {Reg!Code(q) : q \in Reg!WeChat}
  BY <1>1, Begins
<1>3. PICK u \in mailed : (Reg!Reserved(u) /\ Reg!With(r, "asked", u)) \/ (~Reg!Reserved(u) /\ Reg!Answer(r, "invalid"))
  BY DEF Reg!IsPending
<1>4. CASE Reg!With(r, "asked", u)
  <2>1. u \in Reg!Accounts
    BY Begins
  <2>2. Became(r, "asked", u, "none")
    BY <1>1, <1>4, <2>1, Moves DEF RegistrationInv, Reg!Labels
  <2>3. Quiet(r, "asked", u, "none")
    BY <1>1, <1>2, <2>2, Begins DEF Quiet, Reg!At, Refusals
  <2>4. run'[r].pc = "asked" /\ run'[r].user = u /\ run'[r].answer = "none"
    BY <2>2 DEF Became
  <2>5. PlacedAt(r)' /\ VerifyAt(r)'
    BY <1>1, <2>1, <2>4 DEF PlacedAt, VerifyAt, Undoes
  <2> QED
    BY <1>1, <2>3, <2>5, VerifyKeeps
<1>5. CASE Reg!Answer(r, "invalid")
  BY <1>1, <1>2, <1>5, EndsKeeps DEF Reg!At, Refusals
<1> QED
  BY <1>3, <1>4, <1>5

LEMMA ResendKeeps ==
  ASSUME Reg!RegistrationAssumption, RegistrationInv, NEW r \in RegRequests, Reg!ResendEmail(r)
  PROVE  RegistrationInv'
<1>1. /\ Reg!At(r, "idle") /\ r \in Reg!Resends /\ r \notin Reg!Public /\ r \notin Reg!WeChat
      /\ r \notin Reg!Verifies
      /\ PlacedAt(r) /\ run[r].answer = "none"
      /\ UNCHANGED <<user, events, locks, intent, upstream, token, sweep, spent, proven, unsure, revived>>
      /\ Reg!NoFault \/ Reg!Fault
  BY Begins, RegKinds DEF Reg!ResendEmail, Reg!historyVars, PlacedAt, Reg!At, Undoes
<1>2. token' \in [Reg!Creates -> Reg!Accounts \cup {"none"}] /\ spent' \subseteq {Reg!Code(q) : q \in Reg!WeChat}
  BY <1>1, Begins
<1>3. CASE (\E a \in Refusals : Reg!Answer(r, a)) /\ UNCHANGED mailed
  BY <1>1, <1>2, <1>3, EndsKeeps DEF Reg!At
<1>4. CASE /\ token[Reg!Of(r)] # "none" /\ upstream[token[Reg!Of(r)]] = "unverified"
           /\ mailed' = mailed \cup {token[Reg!Of(r)]} /\ Reg!Answer(r, "ok")
  <2>1. Reg!Of(r) \in Reg!Creates /\ token[Reg!Of(r)] \in Reg!Accounts
    BY <1>1, <1>4, Begins DEF Reg!RegistrationAssumption, Reg!Resends
  <2>2. Became(r, "done", run[r].user, "ok")
    BY <1>4, Moves DEF RegistrationInv, Reg!Answers
  <2>3. Quiet(r, "done", run[r].user, "ok")
    BY <1>1, <1>2, <1>4, <2>1, <2>2, Begins DEF Quiet, Reg!At, Refusals
  <2>4. run'[r].pc = "done" /\ run'[r].user = run[r].user /\ run'[r].answer = "ok"
    BY <2>2 DEF Became
  <2>5. PlacedAt(r)' /\ VerifyAt(r)'
    BY <2>4 DEF PlacedAt, VerifyAt, Undoes
  <2> QED
    BY <1>1, <2>3, <2>5, VerifyKeeps
<1> QED
  BY <1>3, <1>4 DEF Reg!ResendEmail, Refusals

LEMMA RegistrationCrashKeeps ==
  ASSUME Reg!RegistrationAssumption, RegistrationInv, NEW r \in RegRequests, Reg!Crash(r)
  PROVE  RegistrationInv'
  BY Begins, EndsKeeps DEF Reg!Crash, Refusals

\* What the provider does for one account: it is created, if it was not there,
\* and its code is mailed, or its address is proven.
LEMMA ProviderKeeps ==
  ASSUME Reg!RegistrationAssumption, RegistrationInv, NEW r \in RegRequests, NEW l, NEW a,
         Became(r, l, run[r].user, a),
         NEW u \in Reg!Accounts, NEW now \in {"unverified", "verified"},
         upstream' = [upstream EXCEPT ![u] = now],
         (u \in Reg!Public /\ u = r) \/ Reg!Present(u) \/ upstream[u] # "none",
         upstream[u] = "verified" => now = "verified",
         mailed' = mailed \cup {u} \/ (mailed' = mailed /\ u \in mailed),
         proven' = proven \cup {u} \/ (proven' = proven /\ (now = "verified" => u \in proven)),
         u \in Reg!Public /\ u # r => upstream[u] # "none",
         run[r].answer = "none", run[r].pc \notin {"fresh", "insert"},
         PlacedAt(r)', r \in Reg!Public => PublicAt(r)', r \in Reg!WeChat => WeChatAt(r)', r \in Reg!Verifies => VerifyAt(r)',
         Claimer(r)' => Claimer(r),
         Reg!Fault \/ Reg!NoFault,
         UNCHANGED <<user, events, locks, intent, token, sweep, spent, unsure, revived>>
  PROVE  RegistrationInv'
<1>1. /\ Shapes /\ Stories /\ Guarded /\ RegOwned /\ Intended /\ Sweeping /\ Claimed
      /\ Reg!AuthorityUnique /\ Reg!ActiveBacked /\ Reg!VerifierKept
  BY DEF RegistrationInv
<1>2. /\ Reg!WeChat \subseteq RegRequests /\ Reg!WeChat \subseteq Reg!Accounts
      /\ Reg!Public \subseteq RegRequests
      /\ Reg!Public \subseteq Reg!Accounts
      /\ Reg!Verifies \subseteq RegRequests /\ Reg!Verifies \cap Reg!WeChat = {}
      /\ Reg!Verifies \cap Reg!Public = {}
      /\ Reg!Legacy \in Reg!Accounts /\ "none" \notin Reg!Accounts
  BY RegKinds
<1>3. /\ run' \in [RegRequests -> Runs] /\ run'[r].pc = l /\ run'[r].user = run[r].user /\ run'[r].answer = a
      /\ \A q \in RegRequests \ {r} : run'[q] = run[q]
      /\ \A q \in RegRequests : run'[q].user = run[q].user
  BY DEF Became
<1>4. /\ upstream' \in [Reg!Accounts -> {"none", "unverified", "verified"}] /\ upstream'[u] = now
      /\ \A v \in Reg!Accounts \ {u} : upstream'[v] = upstream[v]
      /\ \A v \in Reg!Accounts : upstream[v] = "verified" => upstream'[v] = "verified"
      /\ \A v \in Reg!Accounts : upstream[v] # "none" => upstream'[v] # "none"
  BY <1>1 DEF Shapes
<1>5. \A v \in Reg!Accounts : Reg!Undone(v) => Reg!Undone(v)'
  BY <1>2, <1>3 DEF Reg!Undone
<1>6. proven \subseteq proven' /\ proven' \subseteq Reg!Accounts /\ mailed \subseteq mailed' /\ mailed' \subseteq Reg!Accounts
      /\ mailed' \subseteq mailed \cup {u} /\ u \in mailed'
  BY <1>1 DEF Shapes
<1>7. Shapes'
  BY <1>1, <1>3, <1>4, <1>6, Begins DEF Shapes
<1>8. Stories'
  <2>1. \A q \in RegRequests : PlacedAt(q)'
    BY <1>1, <1>3 DEF Stories, PlacedAt
  <2>2. \A q \in Reg!Public : PublicAt(q)'
    BY <1>1, <1>2, <1>3, <1>4 DEF Stories, PublicAt, Reg!Present
  <2>3. \A q \in Reg!WeChat : WeChatAt(q)'
    <3> SUFFICES ASSUME NEW q \in Reg!WeChat, q # r PROVE WeChatAt(q)'
      OBVIOUS
    <3>1. q \in RegRequests \ {r} /\ q \in Reg!Accounts /\ q \in Reg!Creates /\ WeChatAt(q) /\ run'[q] = run[q] /\ q \notin Reg!Public
      BY <1>1, <1>2, <1>3, RegKinds DEF Stories
    <3>2. \A v : Kin(q, v) => Kin(q, v)'
      BY DEF Kin, Reg!Present
    <3>3. Unborn(q) => Unborn(q)'
      BY <3>1, <1>3, <1>4 DEF Unborn, Reg!Present
    <3>4. Untaken(q) => Untaken(q)'
      BY DEF Untaken, Reg!HasEmail, Reg!PhoneOwners, Reg!LinkedTo, Reg!Present
    <3>5. run[q].user \in Reg!Accounts \cup {"none"} /\ token[q] \in Reg!Accounts \cup {"none"}
      BY <1>1, <3>1 DEF Shapes, Runs
    <3> QED
      BY <1>4, <3>1, <3>2, <3>3, <3>4, <3>5 DEF WeChatAt, Reg!Present
  <2>4. \A q \in Reg!Verifies : VerifyAt(q)'
    BY <1>1, <1>2, <1>3, <1>4, <1>5, <1>6 DEF Stories, VerifyAt
  <2> QED
    BY <2>1, <2>2, <2>3, <2>4 DEF Stories
<1>9. Guarded'
  BY <1>1, <1>2, <1>3 DEF Shapes, Guarded
<1>10. RegOwned'
  BY <1>1, <1>4, <1>5, <1>6 DEF RegOwned, AccountAt, Reg!Present
<1>11. Intended'
  BY <1>1, <1>2, <1>3 DEF Intended, IntentAt, Reg!Present
<1>12. Sweeping' /\ Reg!AuthorityUnique' /\ Reg!VerifierKept'
  BY <1>1 DEF Sweeping, Reg!AuthorityUnique, Reg!VerifierKept, Reg!PendingUser, Reg!Present
<1>13. Reg!ActiveBacked'
  BY <1>1, <1>4, <1>5, <1>6 DEF Reg!ActiveBacked
<1>14. Claimed'
  BY <1>2, <1>3, <1>1 DEF Claimer, Claimed
<1> QED
  BY <1>7, <1>8, <1>9, <1>10, <1>11, <1>12, <1>13, <1>14 DEF RegistrationInv

LEMMA CreateProviderKeeps ==
  ASSUME Reg!RegistrationAssumption, RegistrationInv, NEW r \in RegRequests, Reg!CreateProviderUser(r)
  PROVE  RegistrationInv'
<1>1. /\ Reg!At(r, "reserved") /\ r \in Reg!Public /\ PublicAt(r) /\ PlacedAt(r) /\ r \notin Reg!WeChat
      /\ r \notin Reg!Verifies
      /\ UNCHANGED <<user, events, locks, intent, token, sweep, spent, proven, unsure, revived>>
      /\ run[r].pc = "reserved" /\ run[r].answer = "none" /\ Reg!Present(r) /\ token[r] = r
      /\ r \in Reg!Accounts
      /\ Shapes
  BY Begins, RegKinds DEF Reg!CreateProviderUser, PlacedAt, PublicAt, Reg!At, Undoes, Reg!historyVars
<1>2. CASE (\E a \in Refusals : Reg!Undoing(r, "undo_provider", a)) /\ UNCHANGED <<upstream, mailed>> /\ Reg!Fault
  <2>1. PICK a \in Refusals : Reg!Undoing(r, "undo_provider", a)
    BY <1>2
  <2>2. Became(r, "undo_provider", run[r].user, a)
    BY <2>1, Moves DEF RegistrationInv, Refusals, Reg!Answers, Reg!Labels
  <2>3. Quiet(r, "undo_provider", run[r].user, a)
    BY <1>1, <1>2, <2>1, <2>2, Begins DEF Quiet, Reg!At
  <2>4. run'[r].pc = "undo_provider" /\ run'[r].answer = a
    BY <2>2 DEF Became
  <2>5. PlacedAt(r)' /\ PublicAt(r)'
    BY <1>1, <2>1, <2>4 DEF PlacedAt, PublicAt, Undoes, Refusals
  <2> QED
    BY <1>1, <2>3, <2>5, PublicKeeps
<1>3. CASE Reg!AddHumanUser(r) /\ ((Reg!Answer(r, "ok") /\ Reg!NoFault) \/ (Reg!Undoing(r, "undo_provider", "failed") /\ Reg!Fault))
  <2> DEFINE now == IF upstream[r] = "none" THEN "unverified" ELSE upstream[r]
  <2>1. now \in {"unverified", "verified"} /\ (upstream[r] = "verified" => now = "verified")
        /\ (now = "verified" => upstream[r] = "verified")
    BY <1>1 DEF Shapes
  <2>2. upstream' = [upstream EXCEPT ![r] = now] /\ mailed' = mailed \cup {r} /\ (Reg!Fault \/ Reg!NoFault)
    BY <1>3 DEF Reg!AddHumanUser
  <2> HIDE DEF now
  <2>3. upstream'[r] = now
    BY <1>1, <2>2 DEF Shapes
  <2>4. now = "verified" => r \in proven
    BY <1>1, <2>1 DEF RegistrationInv, RegOwned, AccountAt
  <2>5. CASE Reg!Answer(r, "ok")
    <3>1. Became(r, "done", run[r].user, "ok")
      BY <2>5, Moves DEF RegistrationInv, Reg!Answers
    <3>2. run'[r].pc = "done" /\ run'[r].answer = "ok"
      BY <3>1 DEF Became
    <3>3. PlacedAt(r)' /\ PublicAt(r)'
      BY <1>1, <2>1, <2>3, <3>2 DEF PlacedAt, PublicAt, Reg!Present, Undoes, Refusals
    <3>4. Claimer(r)' => Claimer(r)
      BY <3>1 DEF Claimer, Became
    <3> QED
      BY <1>1, <2>1, <2>2, <2>4, <3>1, <3>3, <3>4, ProviderKeeps
  <2>6. CASE Reg!Undoing(r, "undo_provider", "failed")
    <3>1. Became(r, "undo_provider", run[r].user, "failed")
      BY <2>6, Moves DEF RegistrationInv, Reg!Answers, Reg!Labels
    <3>2. run'[r].pc = "undo_provider" /\ run'[r].answer = "failed"
      BY <3>1 DEF Became
    <3>3. PlacedAt(r)' /\ PublicAt(r)'
      BY <1>1, <2>1, <2>3, <3>2 DEF PlacedAt, PublicAt, Reg!Present, Undoes, Refusals
    <3>4. Claimer(r)' => Claimer(r)
      BY <3>1 DEF Claimer, Became
    <3> QED
      BY <1>1, <2>1, <2>2, <2>4, <3>1, <3>3, <3>4, ProviderKeeps
  <2> QED
    BY <1>3, <2>5, <2>6
<1>4. Reg!CreateUser(r, r, Reg!Answer(r, "ok"), LAMBDA x : Reg!Undoing(r, "undo_provider", x))
  BY Zenon DEF Reg!CreateProviderUser
<1>5. \/ Reg!AddHumanUser(r) /\ Reg!Answer(r, "ok") /\ Reg!NoFault
      \/ Reg!AddHumanUser(r) /\ Reg!Undoing(r, "undo_provider", "failed") /\ Reg!Fault
      \/ \E x \in {"failed", "conflict", "invalid"} :
            Reg!Undoing(r, "undo_provider", x) /\ UNCHANGED <<upstream, mailed>> /\ Reg!Fault
  BY <1>4, Zenon DEF Reg!CreateUser
<1> QED
  BY <1>2, <1>3, <1>5 DEF Refusals

LEMMA CreateReservedKeeps ==
  ASSUME Reg!RegistrationAssumption, RegistrationInv, NEW r \in RegRequests, Reg!CreateReservedUser(r)
  PROVE  RegistrationInv'
<1> DEFINE u == run[r].user
<1>1. /\ Reg!At(r, "held") /\ r \in Reg!WeChat /\ WeChatAt(r) /\ PlacedAt(r) /\ r \notin Reg!Public
      /\ r \notin Reg!Verifies
      /\ UNCHANGED <<user, events, locks, intent, token, sweep, spent, proven, unsure, revived>>
      /\ run[r].pc = "held" /\ run[r].answer = "none" /\ Reg!Present(u) /\ u \in Reg!Accounts /\ u # "none"
      /\ Kin(r, u)
      /\ Shapes /\ u \notin Reg!Public /\ Claimer(r)
  BY Begins, RegKinds DEF Reg!CreateReservedUser, PlacedAt, WeChatAt, Reg!At, Undoes, Reg!historyVars, Kin,
                          Claimer
<1>2. token' \in [Reg!Creates -> Reg!Accounts \cup {"none"}] /\ spent' \subseteq {Reg!Code(q) : q \in Reg!WeChat}
  BY <1>1, Begins
<1>3. CASE (\E a \in Refusals : Reg!Answer(r, a)) /\ UNCHANGED <<upstream, mailed>> /\ Reg!Fault
  BY <1>1, <1>2, <1>3, EndsKeeps DEF Reg!At
<1>4. CASE Reg!AddHumanUser(u) /\ ((Reg!To(r, "made") /\ Reg!NoFault) \/ (Reg!Answer(r, "failed") /\ Reg!Fault))
  <2> DEFINE now == IF upstream[u] = "none" THEN "unverified" ELSE upstream[u]
  <2>1. now \in {"unverified", "verified"} /\ (upstream[u] = "verified" => now = "verified")
        /\ (now = "verified" => upstream[u] = "verified")
    BY <1>1 DEF Shapes
  <2>2. upstream' = [upstream EXCEPT ![u] = now] /\ mailed' = mailed \cup {u} /\ (Reg!Fault \/ Reg!NoFault)
    BY <1>4 DEF Reg!AddHumanUser
  <2> HIDE DEF now
  <2>3. upstream'[u] = now
    BY <1>1, <2>2 DEF Shapes
  <2>4. now = "verified" => u \in proven
    BY <1>1, <2>1 DEF RegistrationInv, RegOwned, AccountAt
  <2>5. \E l \in {"made", "done"}, a \in {"none", "failed"} : Became(r, l, u, a) /\ (l = "made" => a = "none")
    BY <1>1, <1>4, Moves DEF RegistrationInv, Reg!Answers, Reg!Labels
  <2>6. PICK l \in {"made", "done"}, a \in {"none", "failed"} : Became(r, l, u, a) /\ (l = "made" => a = "none")
    BY <2>5
  <2>7. run'[r].pc = l /\ run'[r].answer = a /\ run'[r].user = u
    BY <2>6 DEF Became
  <2>8. PlacedAt(r)'
    BY <1>1, <2>6, <2>7 DEF PlacedAt, Undoes
  <2>9. WeChatAt(r)'
    BY <1>1, <2>7, <2>1, <2>3, <2>6 DEF Kin, Reg!Present, WeChatAt
  <2> QED
    BY <1>1, <2>1, <2>2, <2>4, <2>6, <2>8, <2>9, ProviderKeeps
<1>5. Reg!CreateUser(r, u, Reg!To(r, "made"), LAMBDA x : Reg!Answer(r, x))
  BY Zenon DEF Reg!CreateReservedUser
<1>6. \/ Reg!AddHumanUser(u) /\ Reg!To(r, "made") /\ Reg!NoFault
      \/ Reg!AddHumanUser(u) /\ Reg!Answer(r, "failed") /\ Reg!Fault
      \/ \E x \in {"failed", "conflict", "invalid"} : Reg!Answer(r, x) /\ UNCHANGED <<upstream, mailed>> /\ Reg!Fault
  BY <1>5, Zenon DEF Reg!CreateUser
<1> QED
  BY <1>3, <1>4, <1>6 DEF Refusals

LEMMA VerifyProviderKeeps ==
  ASSUME Reg!RegistrationAssumption, RegistrationInv, NEW r \in RegRequests, Reg!VerifyProviderEmail(r)
  PROVE  RegistrationInv'
<1> DEFINE u == run[r].user
<1>1. /\ Reg!At(r, "asked") /\ r \in Reg!Verifies /\ VerifyAt(r) /\ PlacedAt(r) /\ r \notin Reg!Public
      /\ r \notin Reg!WeChat
      /\ UNCHANGED <<user, events, locks, intent, mailed, token, sweep, spent, unsure, revived>>
      /\ run[r].pc = "asked" /\ run[r].answer = "none" /\ u \in Reg!Accounts /\ Shapes
  BY Begins, RegKinds DEF Reg!VerifyProviderEmail, PlacedAt, VerifyAt, Reg!At, Undoes
<1>2. token' \in [Reg!Creates -> Reg!Accounts \cup {"none"}] /\ spent' \subseteq {Reg!Code(q) : q \in Reg!WeChat}
  BY <1>1, Begins
<1>3. CASE (\E a \in Refusals : Reg!Answer(r, a)) /\ UNCHANGED <<upstream, proven>> /\ (Reg!Fault \/ Reg!NoFault)
  BY <1>1, <1>2, <1>3, EndsKeeps DEF Reg!At
<1>4. CASE Reg!ReadBack(u) /\ Reg!To(r, "checked") /\ UNCHANGED <<upstream, proven>> /\ Reg!NoFault
  <2>1. Became(r, "checked", u, "none")
    BY <1>1, <1>4, Moves DEF RegistrationInv, Reg!Labels
  <2>2. Quiet(r, "checked", u, "none")
    BY <1>1, <1>2, <1>4, <2>1, Begins DEF Quiet, Refusals
  <2>3. run'[r].pc = "checked" /\ run'[r].answer = "none" /\ run'[r].user = u
    BY <2>1 DEF Became
  <2>4. u \in proven
    BY <1>1, <1>4 DEF RegistrationInv, RegOwned, AccountAt, Reg!ReadBack
  <2>5. PlacedAt(r)' /\ VerifyAt(r)'
    BY <1>1, <1>4, <2>3, <2>4 DEF PlacedAt, VerifyAt, Reg!ReadBack, Undoes
  <2> QED
    BY <1>1, <2>2, <2>5, VerifyKeeps
<1>5. CASE /\ upstream[u] = "unverified" /\ u \in mailed
           /\ upstream' = [upstream EXCEPT ![u] = "verified"] /\ proven' = proven \cup {u}
           /\ (Reg!To(r, "checked") /\ Reg!NoFault) \/ (Reg!Answer(r, "failed") /\ Reg!Fault)
  <2>1. \E l \in {"checked", "done"}, a \in {"none", "failed"} : Became(r, l, u, a) /\ (l = "checked" => a = "none")
    BY <1>1, <1>5, Moves DEF RegistrationInv, Reg!Answers, Reg!Labels
  <2>2. PICK l \in {"checked", "done"}, a \in {"none", "failed"} : Became(r, l, u, a) /\ (l = "checked" => a = "none")
    BY <2>1
  <2>3. run'[r].pc = l /\ run'[r].answer = a /\ run'[r].user = u
    BY <2>2 DEF Became
  <2>4. upstream'[u] = "verified"
    BY <1>1, <1>5 DEF Shapes
  <2>5. PlacedAt(r)' /\ VerifyAt(r)' /\ (Claimer(r)' => Claimer(r))
    BY <1>1, <1>5, <2>2, <2>3, <2>4 DEF PlacedAt, VerifyAt, Claimer, Undoes
  <2> QED
    BY <1>1, <1>5, <2>2, <2>5, ProviderKeeps
<1> QED
  BY <1>3, <1>4, <1>5 DEF Reg!VerifyProviderEmail, Refusals

LEMMA DeleteProviderKeeps ==
  ASSUME Reg!RegistrationAssumption, RegistrationInv, NEW r \in RegRequests, Reg!DeleteProviderUser(r)
  PROVE  RegistrationInv'
<1>1. /\ Shapes /\ Stories /\ Guarded /\ RegOwned /\ Intended /\ Sweeping /\ Claimed
      /\ Reg!AuthorityUnique /\ Reg!ActiveBacked /\ Reg!VerifierKept
  BY DEF RegistrationInv
<1>2. /\ Reg!At(r, "undo_provider") /\ Reg!To(r, "undo_user") /\ r \in Reg!Public /\ PublicAt(r)
      /\ PlacedAt(r)
      /\ UNCHANGED <<user, events, locks, intent, token, sweep, spent, proven, revived>>
      /\ run[r].answer \in Refusals /\ run[r].pc = "undo_provider"
  BY Begins, RegKinds DEF Reg!DeleteProviderUser, PlacedAt, Reg!At, Undoes
<1>3. Became(r, "undo_user", run[r].user, run[r].answer)
  BY <1>1, <1>2, Moves DEF Reg!Labels
<1>4. /\ run' \in [RegRequests -> Runs] /\ run'[r].pc = "undo_user" /\ run'[r].user = run[r].user
      /\ run'[r].answer = run[r].answer /\ \A q \in RegRequests \ {r} : run'[q] = run[q]
  BY <1>3 DEF Became
<1>5. CASE UNCHANGED <<upstream, mailed>> /\ unsure' = unsure \cup {r} /\ Reg!Fault
  BY <1>2, <1>3, <1>5, Begins, <1>4, PublicKeeps DEF Quiet, Reg!At, PlacedAt, PublicAt, Undoes, Refusals
<1>6. CASE /\ upstream' = [upstream EXCEPT ![r] = "none"] /\ mailed' = mailed \ {r}
           /\ UNCHANGED unsure /\ Reg!NoFault
  <2>1. /\ r \notin Reg!WeChat /\ r \notin Reg!Verifies /\ r \in Reg!Accounts /\ r # Reg!Legacy /\ r # "none"
        /\ Reg!WeChat \subseteq RegRequests \ {r} /\ Reg!Verifies \subseteq RegRequests \ {r}
        /\ Reg!Legacy \in Reg!Accounts \ {r}
        /\ Reg!WeChat \subseteq Reg!Accounts \ {r} /\ Reg!Public \subseteq Reg!Accounts
    BY <1>2, RegKinds
  <2>2. /\ upstream' \in [Reg!Accounts -> {"none", "unverified", "verified"}] /\ upstream'[r] = "none"
        /\ \A v \in Reg!Accounts \ {r} : upstream'[v] = upstream[v]
    BY <1>1, <1>6, <2>1 DEF Shapes
  <2>3. Reg!Undone(r) /\ Reg!Undone(r)' /\ \A v \in Reg!Accounts : Reg!Undone(v)' <=> Reg!Undone(v)
    BY <1>2, <1>4, <2>1, RegKinds DEF Reg!Undone, Refusals
  <2>4. Shapes'
    BY <1>1, <1>2, <1>4, <1>6, <2>2, Begins DEF Shapes
  <2>5. Stories'
    <3>1. \A q \in RegRequests : PlacedAt(q)'
      BY <1>2, <1>4, <1>1 DEF PlacedAt, Undoes, Stories
    <3>2. \A q \in Reg!Public : PublicAt(q)'
      BY <1>2, <1>4, <1>6, <2>1, <2>2, <1>1, RegKinds DEF PublicAt, Refusals, Stories, Reg!Present
    <3>3. \A q \in Reg!WeChat : WeChatAt(q)'
      <4> SUFFICES ASSUME NEW q \in Reg!WeChat PROVE WeChatAt(q)'
        OBVIOUS
      <4>1. q \in RegRequests \ {r} /\ q \in Reg!Accounts \ {r} /\ q \in Reg!Creates /\ WeChatAt(q) /\ run'[q] = run[q]
        BY <1>1, <1>4, <2>1, RegKinds DEF Stories
      <4>2. Unborn(q) => Unborn(q)'
        BY <1>2, <1>4, <2>2, <4>1 DEF Unborn
      <4>3. Untaken(q) => Untaken(q)'
        BY <1>2 DEF Untaken, Reg!HasEmail, Reg!PhoneOwners, Reg!LinkedTo, Reg!Present
      <4>4. \A v \in Reg!Accounts : Kin(q, v) => Kin(q, v)' /\ v # r
        BY <1>2, <2>1 DEF Kin, Reg!Present
      <4>5. run[q].user \in Reg!Accounts \cup {"none"} /\ token[q] \in Reg!Accounts \cup {"none"}
        BY <1>1, <4>1 DEF Shapes, Runs
      <4> QED
        BY <1>2, <2>2, <4>1, <4>2, <4>3, <4>4, <4>5, RegKinds DEF WeChatAt, Reg!Present
    <3>4. \A q \in Reg!Verifies : VerifyAt(q)'
      BY <1>1, <1>4, <2>1, <1>2, <2>2, <2>3 DEF Stories, VerifyAt
    <3> QED
      BY <3>1, <3>2, <3>3, <3>4 DEF Stories
  <2>6. Guarded'
    BY <1>1, <2>1, <1>2, <1>4 DEF Shapes, Guarded
  <2>7. RegOwned'
    BY <1>1, <1>2, <1>6, <2>1, <2>2, <2>3 DEF RegOwned, AccountAt, Reg!Present
  <2>8. Intended'
    BY <1>1, <1>2, <1>4, <2>1 DEF Intended, IntentAt, Reg!Present
  <2>9. Sweeping' /\ Reg!AuthorityUnique' /\ Reg!VerifierKept'
    BY <1>1, <1>2 DEF Sweeping, Reg!AuthorityUnique, Reg!VerifierKept, Reg!Present, Reg!PendingUser
  <2>10. Reg!ActiveBacked'
    BY <1>1, <1>2, <2>2, <2>3 DEF Reg!ActiveBacked
  <2>11. Claimed'
    BY <1>1, <1>2, <1>4, <2>1 DEF Claimed, Claimer
  <2> QED
    BY <2>4, <2>5, <2>6, <2>7, <2>8, <2>9, <2>10, <2>11 DEF RegistrationInv
<1> QED
  BY <1>5, <1>6 DEF Reg!DeleteProviderUser

LEMMA RegistrationNext == Reg!RegistrationAssumption /\ RegistrationInv /\ [Reg!Next]_(Reg!registrationVars) => RegistrationInv'
<1> SUFFICES ASSUME Reg!RegistrationAssumption, RegistrationInv, [Reg!Next]_(Reg!registrationVars) PROVE RegistrationInv'
  OBVIOUS
<1>1. ASSUME NEW r \in RegRequests, Reg!Create(r) PROVE RegistrationInv'
  BY <1>1, CreateTokenKeeps, CreatePendingKeeps, CreateProviderKeeps, DeleteProviderKeeps, FindPendingKeeps,
     DeletePendingKeeps, DeleteTokenKeeps DEF Reg!Create
<1>2. ASSUME NEW r \in RegRequests, Reg!CreateVerified(r) PROVE RegistrationInv'
  BY <1>2, ClaimKeeps, VerifyRegistrationKeeps, ReservePendingKeeps, ReserveNewKeeps, InsertReservedKeeps,
     CreateReservedKeeps, IssueTokenKeeps DEF Reg!CreateVerified
<1>3. ASSUME NEW r \in RegRequests, Reg!Verify(r) PROVE RegistrationInv'
  BY <1>3, IsPendingKeeps, VerifyProviderKeeps, ActivateKeeps, ClearKeeps DEF Reg!Verify
<1>4. ASSUME NEW r \in RegRequests, Reg!ResendEmail(r) \/ Reg!Crash(r) PROVE RegistrationInv'
  BY <1>4, ResendKeeps, RegistrationCrashKeeps
<1>5. CASE UNCHANGED Reg!registrationVars
  BY <1>5
     DEF Reg!registrationVars, RegistrationInv, Shapes, Stories, Guarded, RegOwned, Intended, Sweeping,
         Claimed, Claimer,
         Reg!AuthorityUnique, Reg!ActiveBacked, Reg!VerifierKept, PlacedAt, PublicAt, WeChatAt, VerifyAt, Unborn, Kin, Untaken,
         AccountAt, IntentAt, Reg!Present, Reg!PendingUser, Reg!HasEmail, Reg!LinkedTo, Reg!PhoneOwners,
         Reg!Undone
<1> QED
  BY <1>1, <1>2, <1>3, <1>4, <1>5, SweepKeeps, GraceKeeps, SuspendKeeps DEF Reg!Next

\* The whole story: what each account, verifier and request is, whatever was
\* interrupted on the way.
THEOREM RegistrationInvariant == Reg!RegistrationAssumption => (Reg!Spec => []RegistrationInv)
<1> SUFFICES ASSUME Reg!RegistrationAssumption PROVE Reg!Spec => []RegistrationInv
  OBVIOUS
<1> QED
  BY RegistrationInit, RegistrationNext, PTL DEF Reg!Spec

THEOREM RegistrationTypes == Reg!RegistrationAssumption => (Reg!Spec => []Reg!TypeOK)
<1> SUFFICES ASSUME Reg!RegistrationAssumption PROVE Reg!Spec => []Reg!TypeOK
  OBVIOUS
<1>1. RegistrationInv => Reg!TypeOK
  BY DEF RegistrationInv, Shapes, Guarded, RegOwned, AccountAt, Reg!TypeOK, Rows, Statuses, RegIntents, Runs
<1> QED
  BY <1>1, RegistrationInvariant, PTL

\* An address, a WeChat identity and a phone belong to one account.
THEOREM OneAuthority == Reg!RegistrationAssumption => (Reg!Spec => []Reg!AuthorityUnique)
<1>1. RegistrationInv => Reg!AuthorityUnique
  BY DEF RegistrationInv
<1> QED
  BY <1>1, RegistrationInvariant, PTL

\* An account is active only after its address was proven at the provider.
THEOREM ActiveProven == Reg!RegistrationAssumption => (Reg!Spec => []Reg!ActiveBacked)
<1>1. RegistrationInv => Reg!ActiveBacked
  BY DEF RegistrationInv
<1> QED
  BY <1>1, RegistrationInvariant, PTL

\* A pending reservation keeps the verifier that makes it retryable.
THEOREM VerifierStays == Reg!RegistrationAssumption => (Reg!Spec => []Reg!VerifierKept)
<1>1. RegistrationInv => Reg!VerifierKept
  BY DEF RegistrationInv
<1> QED
  BY <1>1, RegistrationInvariant, PTL

\* A refused public registration leaves no reservation behind, unless undoing
\* it failed as well, and no other account loses its provider link by it.
THEOREM NothingLeft == Reg!RegistrationAssumption => (Reg!Spec => []Reg!RefusedLeavesNothing)
<1> SUFFICES ASSUME Reg!RegistrationAssumption PROVE Reg!Spec => []Reg!RefusedLeavesNothing
  OBVIOUS
<1>1. RegistrationInv => Reg!RefusedLeavesNothing
  BY Begins, RegKinds DEF Reg!RefusedLeavesNothing, RegistrationInv, PublicAt, Reg!Refused, Reg!Undone,
     Reg!At, Refusals, Reg!ActiveBacked, RegOwned, AccountAt
<1> QED
  BY <1>1, RegistrationInvariant, PTL

\* A registration that succeeded names an account that waits for, or has
\* passed, its verification.
THEOREM SuccessBacked == Reg!RegistrationAssumption => (Reg!Spec => []Reg!AnswerBacked)
<1> SUFFICES ASSUME Reg!RegistrationAssumption PROVE Reg!Spec => []Reg!AnswerBacked
  OBVIOUS
<1>1. RegistrationInv => Reg!AnswerBacked
  BY RegKinds, Begins DEF Reg!AnswerBacked, PublicAt, WeChatAt
<1> QED
  BY <1>1, RegistrationInvariant, PTL

\* However often it is retried, an identity has one account at the provider.
THEOREM SingleUpstream == Reg!RegistrationAssumption => (Reg!Spec => []Reg!OneUpstream)
<1> SUFFICES ASSUME Reg!RegistrationAssumption PROVE Reg!Spec => []Reg!OneUpstream
  OBVIOUS
<1>1. RegistrationInv => Reg!OneUpstream
  BY Begins, RegKinds DEF Reg!OneUpstream, RegistrationInv, WeChatAt, Kin, RegOwned, AccountAt,
     Reg!AuthorityUnique, Intended
<1> QED
  BY <1>1, RegistrationInvariant, PTL

\* A WeChat code serves one registration.
THEOREM CodeServesOne == Reg!RegistrationAssumption => (Reg!Spec => []Reg!CodeOnce)
<1>1. RegistrationInv => Reg!CodeOnce
  BY DEF RegistrationInv, Claimed, Claimer, Reg!CodeOnce
<1> QED
  BY <1>1, RegistrationInvariant, PTL

\* A verification under way never revives a suspended account.
THEOREM SuspendedStays == Reg!RegistrationAssumption => (Reg!Spec => [][Reg!SuspendedKept]_(Reg!registrationVars))
<1> SUFFICES ASSUME Reg!RegistrationAssumption PROVE Reg!Spec => [][Reg!SuspendedKept]_(Reg!registrationVars)
  OBVIOUS
<1>1. ASSUME RegistrationInv, [Reg!Next]_(Reg!registrationVars)
      PROVE  [Reg!SuspendedKept]_(Reg!registrationVars)
  <2> SUFFICES ASSUME Reg!Next, NEW u \in Reg!Accounts, user[u].status = "disabled"
               PROVE  user'[u].status = "disabled"
    BY <1>1 DEF Reg!SuspendedKept
  <2>1. user \in [Reg!Accounts -> Rows]
    BY <1>1 DEF RegistrationInv, Shapes
  <2>2. ASSUME NEW r \in RegRequests, Reg!Create(r)
        PROVE  user'[u].status = "disabled"
    <3>1. CASE Reg!CreatePending(r)
      BY <1>1, <3>1, Begins, <2>1 DEF Reg!CreatePending, Reg!At, PlacedAt, PublicAt
    <3>2. CASE Reg!DeletePending(r)
      BY <3>2, <2>1 DEF Reg!DeletePending, Reg!Removed, Reg!PendingUser, Rows
    <3> QED
      BY <2>2, <3>1, <3>2 DEF Reg!Create, Reg!CreateToken, Reg!CreateProviderUser, Reg!DeleteProviderUser,
                              Reg!FindPending, Reg!DeleteToken
  <2>3. ASSUME NEW r \in RegRequests, Reg!CreateVerified(r)
        PROVE  user'[u].status = "disabled"
    <3>1. CASE Reg!ReservePendingWithWeChat(r)
      <4>1. CASE Reg!Reserve(r)
        BY <4>1 DEF Reg!Reserve
      <4>2. ASSUME NEW v \in Reg!Accounts, Reg!Resume(r, v)
            PROVE  user'[u].status = "disabled"
        <5> DEFINE row == [user[v] EXCEPT !.phone = Reg!Phone(r), !.linked = TRUE]
        <5>1. user' = user \/ user' = [user EXCEPT ![v] = row]
          BY Zenon, <4>2 DEF Reg!Resume
        <5>2. row.status = user[v].status
          BY <2>1 DEF Rows
        <5> QED
          BY <2>1, <5>1, <5>2
      <4> QED
        BY <3>1, <4>1, <4>2 DEF Reg!ReservePendingWithWeChat
    <3>2. CASE Reg!InsertReserved(r)
      <4> DEFINE v == run[r].user
      <4>1. r \in Reg!WeChat /\ WeChatAt(r) /\ run[r].pc = "insert" /\ RegOwned
        BY <1>1, <3>2, Begins DEF Reg!InsertReserved, Reg!At, PlacedAt
      <4>2. v \in Reg!WeChat /\ Reg!Subject(v) = Reg!Subject(r) /\ v \in Reg!Accounts /\ Reg!LinkedTo(Reg!Subject(r)) = {}
        BY <1>1, <4>1, RegKinds DEF WeChatAt, Kin, Untaken
      <4>3. ~Reg!Present(v)
        BY <4>1, <4>2 DEF RegOwned, AccountAt, Reg!LinkedTo
      <4>4. \/ user' = user
            \/ user' = [user EXCEPT ![v] = [status |-> "pending", email |-> Reg!Email(r), subject |-> Reg!Subject(r),
                                            phone |-> Reg!Phone(r), linked |-> TRUE]]
        BY <3>2 DEF Reg!InsertReserved
      <4> QED
        BY <2>1, <4>3, <4>4 DEF Reg!Present
    <3> QED
      BY <2>3, <3>1, <3>2 DEF Reg!CreateVerified, Reg!ClaimProofs, Reg!VerifyRegistration, Reg!ReserveNew,
                              Reg!CreateReservedUser, Reg!IssueToken
  <2>4. ASSUME NEW r \in RegRequests, Reg!Verify(r)
        PROVE  user'[u].status = "disabled"
    BY <2>1, <2>4 DEF Reg!ActivateVerified, Reg!Activatable, Rows, Reg!Verify, Reg!IsPending,
       Reg!VerifyProviderEmail, Reg!Clear
  <2>5. ASSUME NEW r \in RegRequests, Reg!ResendEmail(r) \/ Reg!Crash(r)
        PROVE  user'[u].status = "disabled"
    BY <2>5 DEF Reg!ResendEmail, Reg!Crash
  <2>6. ASSUME Reg!CleanupCompleted \/ \E s \in Reg!Subjects : Reg!GracePasses(s)
        PROVE  user'[u].status = "disabled"
    BY <2>6 DEF Reg!CleanupCompleted, Reg!ListIntents, Reg!ReadAuthority, Reg!DeleteIntent, Reg!GracePasses
  <2>7. ASSUME NEW v \in Reg!Accounts, Reg!Suspend(v)
        PROVE  user'[u].status = "disabled"
    BY <2>1, <2>7 DEF Reg!Suspend, Rows
  <2> QED
    BY <2>2, <2>3, <2>4, <2>5, <2>6, <2>7 DEF Reg!Next
<1> QED
  BY <1>1, RegistrationInvariant, PTL DEF Reg!Spec

-----------------------------------------------------------------------------
(***************************************************************************)
(* Theorems about AccountRecovery.  A ticket has its effect through the    *)
(* one request that took it out of the store; what that request found is   *)
(* what was asked for and approved, and it stays with the request until    *)
(* the effect.                                                             *)
(***************************************************************************)
CONSTANTS
  Users,        \* the accounts
  RecRequests,  \* the HTTP requests that may arrive, each once
  RecInputs,    \* what each of them carries
  RecBatches,   \* model bound: the requests of a run
  RecFaults     \* model bound: failures, lost answers, crashes, suspensions

VARIABLES
  account,    \* database: status, phone and verified address of each account
  secret,     \* provider: the request that last set each password
  live,       \* Redis: the sessions, each with what made it and its account
  ticket,     \* Redis: the record of each ticket
  audits,     \* database: the mandatory audit rows of QR sign-in
  given,      \* the tickets and codes that reached a person
  errand,     \* what each request is doing
  redeemed,   \* history: the tickets that had their effect, and through whom
  approvals,  \* history: the accounts that approved a challenge
  confirmed,  \* history: the addresses the provider has verified for an account
  outrun,     \* history: accounts whose mirror was written after a newer change began
  mishaps     \* how many failures so far

Rec == INSTANCE AccountRecovery WITH Requests <- RecRequests, InputOf <- RecInputs, Batches <- RecBatches, MaxFaults <- RecFaults

\* The recovery counts as the standard modules do.
LEMMA RecCounts ==
  \A S : Rec!Cardinality(S) = Cardinality(S) /\ (Rec!IsFiniteSet(S) <=> IsFiniteSet(S))
BY DEF Rec!Cardinality, Rec!IsFiniteSet, Cardinality, IsFiniteSet

Contacts == {<<"old", u>> : u \in Users} \cup {Rec!Target(r) : r \in RecRequests}
Errands  == [pc : Rec!Labels, found : Users \cup {"open", "none"} \cup Contacts, answer : Rec!Answers]

RecShapes ==
  /\ account \in [Users -> [status : {"active", "disabled"}, phone : Contacts, email : Contacts]]
  /\ upstream \in [Users -> [email : Contacts, verified : BOOLEAN, code : Rec!Addresses \cup {"none"}]]
  /\ secret \in [Users -> Rec!Doing("reset") \cup {"initial"}]
  /\ live \subseteq (Rec!Doing("consume") \cup {"before"}) \X Users
  /\ ticket \in [Rec!Tickets -> Rec!Records]
  /\ audits \subseteq {"approval_requested", "receiver_verified"} \X Rec!Doing("qr") \X Users
  /\ given \subseteq Rec!Tickets \cup Rec!Addresses
  /\ errand \in [RecRequests -> Errands]
  /\ redeemed \subseteq Rec!Tickets \X Rec!Redeems
  /\ approvals \subseteq Rec!Doing("qr") \X Users
  /\ confirmed \subseteq Users \X Contacts
  /\ outrun \subseteq Users
  /\ mishaps \in 0 .. RecFaults

\* A request that has not answered has no answer, and the ticket of one that
\* has not begun is not there.
RecFresh ==
  \A r \in RecRequests :
    /\ ~Rec!At(r, "done") => errand[r].answer = "none"
    /\ Rec!At(r, "idle") /\ r \in Rec!Tickets => ticket[r] = "unused"

\* What the records of the tickets stand for.
Recorded ==
  /\ \A t \in Rec!Doing("forgot") :
       /\ ticket[t] \in {"unused", "gone"} \cup Users
       /\ ticket[t] \in Users => <<ticket[t], Rec!Target(t)>> \in confirmed
  /\ \A t \in Rec!Doing("qr") : ticket[t] \in Users => <<t, ticket[t]>> \in approvals
  /\ \A x \in approvals : <<"approval_requested", x[1], x[2]>> \in audits

\* What a request that took a ticket, or asked the provider, carries with it.
CarriedBy(r) ==
  /\ Rec!Op(r) = "reset" /\ errand[r].pc \in {"spent", "set"} =>
       errand[r].found \in Users /\ <<errand[r].found, Rec!Target(Rec!Of(r))>> \in confirmed
  /\ Rec!Op(r) = "phone" /\ Rec!At(r, "spent") => Rec!Right(r)
  /\ Rec!Op(r) = "approve" /\ Rec!At(r, "audited")
     => <<"approval_requested", Rec!Of(r), Rec!By(r)>> \in audits
  /\ Rec!Op(r) = "consume" /\ errand[r].pc \in {"spent", "usable", "recorded"} =>
       errand[r].found \in Users /\ <<Rec!Of(r), errand[r].found>> \in approvals /\ Rec!Right(r)
  /\ Rec!Op(r) = "consume" /\ Rec!At(r, "recorded")
     => <<"receiver_verified", Rec!Of(r), errand[r].found>> \in audits
  /\ Rec!Op(r) = "confirm" /\ Rec!At(r, "read") => <<Rec!By(r), errand[r].found>> \in confirmed

RecCarried == \A r \in RecRequests : CarriedBy(r)

\* The request through which a ticket has, or will have, its effect.
Taking   == {"spent", "set", "usable", "recorded"}
Taker(r) == errand[r].pc \in Taking \/ <<Rec!Of(r), r>> \in redeemed

RecSole ==
  /\ \A x \in redeemed : x[1] = Rec!Of(x[2])
  /\ \A r \in Rec!Redeems : Taker(r) => ticket[Rec!Of(r)] = "gone"
  /\ \A r, q \in Rec!Redeems : Taker(r) /\ Taker(q) /\ Rec!Of(r) = Rec!Of(q) => r = q

\* An address the provider calls verified was verified for that account.
Verified == \A u \in Users : upstream[u].verified => <<u, upstream[u].email>> \in confirmed

RecoveryInv ==
  /\ RecShapes /\ RecFresh /\ Recorded /\ RecCarried /\ RecSole
  /\ Rec!SessionApproved /\ Verified /\ Rec!ContactProven /\ Rec!ContactsUnique /\ Rec!MirrorAccounted

LEMMA RecoveryInit == Rec!RecoveryAssumption /\ Rec!Init => RecoveryInv
<1> SUFFICES ASSUME Rec!RecoveryAssumption, Rec!Init PROVE RecoveryInv
  OBVIOUS
<1>1. RecShapes
  BY DEF Rec!RecoveryAssumption, Rec!Init, RecShapes, Contacts, Errands, Rec!Labels, Rec!Answers, Rec!Records
<1>2. RecFresh /\ Recorded /\ RecCarried
  BY DEF Rec!Init, RecFresh, Recorded, RecCarried, CarriedBy, Rec!At, Rec!Tickets, Rec!Doing,
         Rec!RecoveryAssumption
<1>3. Verified /\ Rec!MirrorAccounted
  BY DEF Rec!Init, Verified, Rec!MirrorAccounted
<1>6. RecSole
  BY DEF Rec!Init, RecSole, Taker, Taking, Rec!Redeems, Rec!Doing
<1>4. Rec!SessionApproved
  BY DEF Rec!Init, Rec!SessionApproved, Rec!RecoveryAssumption, Rec!Doing
<1>5. Rec!ContactProven /\ Rec!ContactsUnique
  BY DEF Rec!Init, Rec!ContactProven, Rec!ContactsUnique
<1> QED
  BY <1>1, <1>2, <1>3, <1>4, <1>5, <1>6 DEF RecoveryInv

\* What a request becomes by a step of its own.
RecBecame(r, l, x, a) ==
  /\ errand' \in [RecRequests -> Errands]
  /\ errand'[r].pc = l /\ errand'[r].found = x /\ errand'[r].answer = a
  /\ \A q \in RecRequests \ {r} : errand'[q] = errand[q]

LEMMA RecMoves ==
  ASSUME RecShapes, NEW r \in RecRequests
  PROVE  /\ \A l \in Rec!Labels : Rec!To(r, l) => RecBecame(r, l, errand[r].found, errand[r].answer)
         /\ \A l \in Rec!Labels, x \in Users \cup {"open", "none"} \cup Contacts :
              Rec!With(r, l, x) => RecBecame(r, l, x, errand[r].answer)
         /\ \A a \in Rec!Answers : Rec!Answer(r, a) => RecBecame(r, "done", errand[r].found, a)
<1>1. errand \in [RecRequests -> Errands]
  BY DEF RecShapes
<1>2. ASSUME NEW l \in Rec!Labels, Rec!To(r, l)
      PROVE  RecBecame(r, l, errand[r].found, errand[r].answer)
  BY <1>1, <1>2 DEF Rec!To, Errands, RecBecame
<1>3. ASSUME NEW l \in Rec!Labels, NEW x \in Users \cup {"open", "none"} \cup Contacts, Rec!With(r, l, x)
      PROVE  RecBecame(r, l, x, errand[r].answer)
  BY <1>1, <1>3 DEF Rec!With, Errands, RecBecame
<1>4. ASSUME NEW a \in Rec!Answers, Rec!Answer(r, a)
      PROVE  RecBecame(r, "done", errand[r].found, a)
  BY <1>1, <1>4 DEF Rec!Answer, Errands, Rec!Labels, RecBecame
<1> QED
  BY <1>2, <1>3, <1>4

\* A step that has no effect but on the request itself, on what is written in
\* the audit and on what a person has been given; sessions may end.
LEMMA RecQuietKeeps ==
  ASSUME Rec!RecoveryAssumption, RecoveryInv, NEW r \in RecRequests, NEW l, NEW x, NEW a,
         RecBecame(r, l, x, a), errand[r].pc # "done", l # "idle", l # "done" => a = "none",
         CarriedBy(r)', l \in Taking => errand[r].pc \in Taking,
         Rec!Op(r) = "confirm" /\ errand[r].pc \in {"asked", "read"} =>
           l \in {"asked", "read"} \/ a = "failed" \/ ~upstream[Rec!By(r)].verified,
         UNCHANGED <<Rec!accountVars, ticket, Rec!historyVars>>,
         live' \subseteq live, audits \subseteq audits',
         audits' \subseteq {"approval_requested", "receiver_verified"} \X Rec!Doing("qr") \X Users,
         given' \subseteq Rec!Tickets \cup Rec!Addresses, mishaps' \in 0 .. RecFaults
  PROVE  RecoveryInv'
<1> USE DEF RecBecame, Rec!accountVars, Rec!historyVars
<1>1. RecShapes'
  BY DEF RecoveryInv, RecShapes
<1>2. RecFresh'
  BY DEF RecoveryInv, RecFresh, Rec!At
<1>3. Recorded'
  BY DEF RecoveryInv, Recorded
<1>4. RecCarried'
  BY DEF RecoveryInv, RecCarried, CarriedBy, Rec!At
<1>5. RecSole'
  BY DEF RecoveryInv, RecSole, Taker, Rec!Redeems, Rec!Doing
<1>6. Rec!SessionApproved'
  BY DEF RecoveryInv, Rec!SessionApproved
<1>7. Verified' /\ Rec!ContactProven' /\ Rec!ContactsUnique'
  BY DEF RecoveryInv, Verified, Rec!ContactProven, Rec!ContactsUnique
<1>8. Rec!MirrorAccounted'
  BY DEF RecoveryInv, Rec!MirrorAccounted, Rec!At, RecFresh, Rec!Doing
<1> QED
  BY <1>1, <1>2, <1>3, <1>4, <1>5, <1>6, <1>7, <1>8 DEF RecoveryInv

\* What keeps a failure within its bound.
LEMMA Faults ==
  ASSUME Rec!RecoveryAssumption, RecShapes, Rec!Smooth \/ Rec!Mishap
  PROVE  mishaps' \in 0 .. RecFaults
  BY DEF Rec!RecoveryAssumption, RecShapes, Rec!Smooth, Rec!Mishap

\* A request that does not act on what it found, or has failed.
LEMMA RecEndsKeeps ==
  ASSUME Rec!RecoveryAssumption, RecoveryInv, NEW r \in RecRequests, NEW a \in Rec!Answers, Rec!Answer(r, a),
         errand[r].pc # "done",
         Rec!Op(r) = "confirm" /\ errand[r].pc \in {"asked", "read"} =>
           a = "failed" \/ ~upstream[Rec!By(r)].verified,
         UNCHANGED <<Rec!accountVars, ticket, Rec!historyVars>>,
         live' \subseteq live, audits \subseteq audits',
         audits' \subseteq {"approval_requested", "receiver_verified"} \X Rec!Doing("qr") \X Users,
         given' \subseteq Rec!Tickets \cup Rec!Addresses, Rec!Smooth \/ Rec!Mishap
  PROVE  RecoveryInv'
  BY ZenonT(120), RecMoves, Faults, RecQuietKeeps DEF RecoveryInv, RecBecame, CarriedBy, Rec!At, Taking

\* A ticket is issued: the first step of its own request, which stores it.
LEMMA IssueKeeps ==
  ASSUME Rec!RecoveryAssumption, RecoveryInv, NEW r \in Rec!Tickets, NEW v \in {"open"} \cup Users,
         ticket' = Rec!Stored(r, v), errand[r].pc = "idle",
         Rec!Op(r) = "forgot" => v \in Users /\ <<v, Rec!Target(r)>> \in confirmed,
         Rec!Op(r) = "qr" => v = "open",
         NEW l \in {"stored", "done"}, NEW a,
         RecBecame(r, l, errand[r].found, a), l # "done" => a = "none",
         UNCHANGED <<Rec!accountVars, live, audits, Rec!historyVars>>,
         given' \subseteq Rec!Tickets \cup Rec!Addresses, Rec!Smooth \/ Rec!Mishap
  PROVE  RecoveryInv'
<1>1. /\ ticket' \in [Rec!Tickets -> Rec!Records] /\ ticket'[r] = v /\ ticket[r] = "unused"
      /\ \A t \in Rec!Tickets \ {r} : ticket'[t] = ticket[t]
  BY DEF Rec!Stored, Rec!Records, RecoveryInv, RecShapes, RecFresh, Rec!At, Rec!Tickets, Rec!Doing
<1>2. r \in RecRequests
  BY DEF Rec!Tickets, Rec!Doing
<1> USE DEF RecBecame, Rec!accountVars, Rec!historyVars
<1>3. RecShapes'
  BY <1>1, Faults DEF RecoveryInv, RecShapes
<1>4. RecFresh'
  BY <1>1, <1>2 DEF RecoveryInv, RecFresh, Rec!At
<1>5. Recorded'
  BY <1>1 DEF Rec!Doing, RecoveryInv, Recorded, Rec!RecoveryAssumption, Rec!Tickets
<1>6. RecCarried'
  BY <1>2 DEF RecoveryInv, RecCarried, CarriedBy, Rec!At
<1>7. RecSole'
  BY <1>1, <1>2 DEF RecoveryInv, RecSole, Taker, Taking, Rec!Redeems, Rec!Doing, Rec!RecoveryAssumption,
     Rec!Tickets, Rec!Addresses
<1>8. Rec!SessionApproved'
  BY DEF RecoveryInv, Rec!SessionApproved
<1>9. Verified' /\ Rec!ContactProven' /\ Rec!ContactsUnique'
  BY DEF RecoveryInv, Verified, Rec!ContactProven, Rec!ContactsUnique
<1>10. Rec!MirrorAccounted'
  BY DEF RecoveryInv, Rec!MirrorAccounted, Rec!At, Rec!Tickets, Rec!Doing
<1> QED
  BY <1>3, <1>4, <1>5, <1>6, <1>7, <1>8, <1>9, <1>10 DEF RecoveryInv

\* A ticket is taken out of the store, by the request that will redeem it, by
\* one that presented it wrongly or that failed, or because its time is over.
LEMMA RecTakeKeeps ==
  ASSUME Rec!RecoveryAssumption, RecoveryInv, NEW r \in Rec!Redeems, NEW l \in {"spent", "done"}, NEW x,
         NEW a,
         Rec!Present(Rec!Of(r)), ticket' = Rec!Taken(Rec!Of(r)), errand[r].pc = "idle",
         RecBecame(r, l, x, a), l # "done" => a = "none", CarriedBy(r)',
         UNCHANGED <<Rec!accountVars, live, audits, given, Rec!historyVars>>, Rec!Smooth \/ Rec!Mishap
  PROVE  RecoveryInv'
<1> DEFINE t == Rec!Of(r)
<1>1. r \in RecRequests /\ t \in Rec!Tickets /\ Rec!Op(r) # "confirm"
  BY DEF Rec!RecoveryAssumption, Rec!Redeems, Rec!Tickets, Rec!Doing, Rec!Addresses
<1>2. /\ ticket' \in [Rec!Tickets -> Rec!Records] /\ ticket'[t] = "gone" /\ ticket[t] # "gone"
      /\ ticket[t] # "unused"
      /\ \A q \in Rec!Tickets \ {t} : ticket'[q] = ticket[q]
  BY <1>1 DEF Rec!Taken, Rec!Present, Rec!Records, RecoveryInv, RecShapes, Rec!RecoveryAssumption
<1> USE DEF RecBecame, Rec!accountVars, Rec!historyVars
<1>3. RecShapes'
  BY <1>2, Faults DEF RecoveryInv, RecShapes
<1>4. RecFresh'
  BY <1>1, <1>2 DEF RecoveryInv, RecFresh, Rec!At
<1>5. Recorded'
  BY <1>2 DEF RecoveryInv, Recorded, Rec!RecoveryAssumption, Rec!Tickets
<1>6. RecCarried'
  BY <1>1 DEF RecoveryInv, RecCarried, CarriedBy, Rec!At
<1>7. RecSole'
  BY <1>1, <1>2 DEF Rec!RecoveryAssumption, Rec!Redeems, Rec!Tickets, Rec!Doing, Rec!Addresses, Taker,
     RecoveryInv, RecSole
<1>8. Rec!SessionApproved'
  BY DEF RecoveryInv, Rec!SessionApproved
<1>9. Verified' /\ Rec!ContactProven' /\ Rec!ContactsUnique'
  BY DEF RecoveryInv, Verified, Rec!ContactProven, Rec!ContactsUnique
<1>10. Rec!MirrorAccounted'
  BY <1>1 DEF RecoveryInv, Rec!MirrorAccounted, Rec!At, Rec!Doing
<1> QED
  BY <1>3, <1>4, <1>5, <1>6, <1>7, <1>8, <1>9, <1>10 DEF RecoveryInv

LEMMA LimitedKeeps ==
  ASSUME Rec!RecoveryAssumption, RecoveryInv, NEW r \in RecRequests, Rec!Limited(r)
  PROVE  RecoveryInv'
  BY RecEndsKeeps DEF Rec!Limited, Rec!At, Rec!Answers, RecoveryInv, RecShapes

\* The requests that issue a ticket.
LEMMA IssuesKeep ==
  ASSUME Rec!RecoveryAssumption, RecoveryInv, NEW r \in RecRequests,
         Rec!RequestReset(r) \/ Rec!RequestPhoneChange(r) \/ Rec!BeginQR(r)
  PROVE  RecoveryInv'
<1>1. /\ r \in Rec!Tickets /\ errand[r].pc = "idle" /\ errand[r].answer = "none" /\ (Rec!Smooth \/ Rec!Mishap)
      /\ UNCHANGED <<Rec!accountVars, live, audits, Rec!historyVars>>
      /\ given' \subseteq Rec!Tickets \cup Rec!Addresses
  BY DEF Rec!RequestReset, Rec!RequestPhoneChange, Rec!BeginQR, Rec!At, Rec!Tickets, Rec!Doing, RecoveryInv,
         RecFresh, RecShapes
<1>2. ASSUME NEW v \in {"open"} \cup Users, Rec!Op(r) = "qr" => v = "open",
             Rec!Op(r) = "forgot" => v \in Users /\ <<v, Rec!Target(r)>> \in confirmed,
             ticket' = Rec!Stored(r, v), Rec!To(r, "stored") \/ Rec!Answer(r, "failed") \/ Rec!Answer(r, "ok")
      PROVE  RecoveryInv'
  BY <1>1, <1>2, RecMoves, IssueKeeps DEF RecoveryInv, Rec!Labels, Rec!Answers
<1>3. ASSUME NEW a \in Rec!Answers, Rec!Answer(r, a), UNCHANGED ticket
      PROVE  RecoveryInv'
  BY <1>1, <1>3, RecEndsKeeps DEF RecoveryInv, RecShapes
<1>4. \A u \in Users : Rec!Holds(u, r) => <<u, Rec!Target(r)>> \in confirmed
  BY DEF RecoveryInv, Rec!ContactProven, Rec!Holds
<1>5. CASE Rec!RequestReset(r)
  <2>1. ASSUME NEW u \in Users, Rec!Holds(u, r), ticket' = Rec!Stored(r, u),
               Rec!To(r, "stored") \/ Rec!Answer(r, "failed")
        PROVE  RecoveryInv'
    BY <1>2, <1>4, <1>5, <2>1 DEF Rec!RequestReset
  <2> QED
    BY <1>3, <1>5, <2>1 DEF Rec!RequestReset, Rec!Answers
<1>6. CASE Rec!RequestPhoneChange(r)
  BY <1>2, <1>3, <1>6 DEF Rec!RequestPhoneChange, Rec!Answers
<1>7. CASE Rec!BeginQR(r)
  BY <1>2, <1>3, <1>7 DEF Rec!BeginQR, Rec!Answers
<1> QED
  BY <1>5, <1>6, <1>7

\* A mail or a text is sent.
LEMMA SendsKeep ==
  ASSUME Rec!RecoveryAssumption, RecoveryInv, NEW r \in RecRequests, Rec!SendMail(r) \/ Rec!SendCode(r)
  PROVE  RecoveryInv'
  BY RecEndsKeeps DEF Rec!SendMail, Rec!SendCode, Rec!At, RecoveryInv, RecShapes, Rec!Tickets, Rec!Doing,
     Rec!Answers

\* The requests that take a ticket.
LEMMA TakesKeep ==
  ASSUME Rec!RecoveryAssumption, RecoveryInv, NEW r \in RecRequests,
         Rec!ConsumeResetToken(r) \/ Rec!ConsumePhoneCode(r) \/ Rec!ConsumeChallenge(r)
  PROVE  RecoveryInv'
<1> DEFINE t == Rec!Of(r)
<1>1. /\ r \in Rec!Redeems /\ errand[r].pc = "idle" /\ errand[r].answer = "none" /\ (Rec!Smooth \/ Rec!Mishap)
      /\ UNCHANGED <<Rec!accountVars, live, audits, given, Rec!historyVars>>
  BY DEF Rec!ConsumeResetToken, Rec!ConsumePhoneCode, Rec!ConsumeChallenge, Rec!At, Rec!Redeems, Rec!Doing,
         RecoveryInv, RecFresh
<1>2. ASSUME NEW a \in Rec!Answers, Rec!Answer(r, a), UNCHANGED ticket
      PROVE  RecoveryInv'
  BY <1>1, <1>2, RecEndsKeeps DEF RecoveryInv, RecShapes
<1>3. ASSUME NEW a \in Rec!Answers, Rec!Answer(r, a), Rec!Present(t), ticket' = Rec!Taken(t)
      PROVE  RecoveryInv'
  BY <1>3, RecMoves, <1>1, RecTakeKeeps DEF RecoveryInv, RecBecame, CarriedBy, Rec!At
<1>4. CASE Rec!ConsumeResetToken(r)
  <2>1. ASSUME Rec!Present(t), ticket' = Rec!Taken(t), Rec!With(r, "spent", ticket[t])
        PROVE  RecoveryInv'
    <3>1. t \in Rec!Doing("forgot") /\ Rec!Op(r) = "reset"
      BY <1>4 DEF Rec!ConsumeResetToken, Rec!RecoveryAssumption, Rec!Tickets, Rec!Addresses, Rec!Doing
    <3>2. ticket[t] \in Users /\ <<ticket[t], Rec!Target(t)>> \in confirmed /\ UNCHANGED confirmed
      BY <1>1, <2>1, <3>1 DEF Rec!Present, RecoveryInv, Recorded, Rec!historyVars
    <3>3. RecBecame(r, "spent", ticket[t], "none")
      BY <1>1, <2>1, <3>2, RecMoves DEF RecoveryInv, Rec!Labels
    <3>4. CarriedBy(r)'
      BY <3>1, <3>2, <3>3 DEF RecBecame, CarriedBy, Rec!At
    <3> QED
      BY <1>1, <2>1, <3>3, <3>4, RecTakeKeeps
  <2> QED
    BY <1>2, <1>3, <1>4, <2>1 DEF Rec!ConsumeResetToken, Rec!Perhaps, Rec!Answers
<1>5. CASE Rec!ConsumePhoneCode(r)
  <2>1. ASSUME Rec!Present(t), Rec!Guessed(r), ticket' = Rec!Taken(t), Rec!To(r, "spent")
        PROVE  RecoveryInv'
    BY <1>1, <1>5, <2>1, RecMoves, RecTakeKeeps DEF RecoveryInv, Rec!Labels, Rec!ConsumePhoneCode, RecBecame,
       CarriedBy, Rec!At, Rec!Guessed
  <2> QED
    BY <1>2, <1>3, <1>5, <2>1 DEF Rec!ConsumePhoneCode, Rec!Perhaps, Rec!Answers
<1>6. CASE Rec!ConsumeChallenge(r)
  <2>1. Rec!Receivable(r) => Rec!Present(t)
    BY DEF Rec!Receivable, Rec!Present
  <2>2. ASSUME Rec!Receivable(r), ticket' = Rec!Taken(t), Rec!With(r, "spent", ticket[t])
        PROVE  RecoveryInv'
    <3>1. t \in Rec!Doing("qr") /\ Rec!Op(r) = "consume"
      BY <1>6 DEF Rec!ConsumeChallenge, Rec!RecoveryAssumption, Rec!Tickets, Rec!Addresses, Rec!Doing
    <3>2. ticket[t] \in Users /\ <<t, ticket[t]>> \in approvals /\ Rec!Right(r) /\ UNCHANGED approvals
      BY <1>1, <2>2, <3>1 DEF Rec!Receivable, RecoveryInv, Recorded, Rec!historyVars
    <3>3. RecBecame(r, "spent", ticket[t], "none")
      BY <1>1, <2>2, <3>2, RecMoves DEF RecoveryInv, Rec!Labels
    <3>4. CarriedBy(r)'
      BY <3>1, <3>2, <3>3 DEF RecBecame, CarriedBy, Rec!At
    <3> QED
      BY <1>1, <2>1, <2>2, <3>3, <3>4, RecTakeKeeps
  <2> QED
    BY <1>2, <1>3, <1>6, <2>1, <2>2 DEF Rec!ConsumeChallenge, Rec!Answers
<1> QED
  BY <1>4, <1>5, <1>6

\* A ticket has its effect: it is noted of the one request that took it.
LEMMA RedeemedStays ==
  ASSUME Rec!RecoveryAssumption, RecoveryInv, NEW r \in Rec!Redeems, errand[r].pc \in Taking,
         redeemed' = redeemed \cup {<<Rec!Of(r), r>>}, UNCHANGED ticket,
         NEW l, NEW x, NEW a, RecBecame(r, l, x, a)
  PROVE  redeemed' \subseteq Rec!Tickets \X Rec!Redeems /\ RecSole'
  BY DEF Rec!RecoveryAssumption, Rec!Redeems, Rec!Tickets, Rec!Doing, Rec!Addresses, RecoveryInv, RecShapes,
     Taker, RecBecame, RecSole

LEMMA SetPasswordKeeps ==
  ASSUME Rec!RecoveryAssumption, RecoveryInv, NEW r \in RecRequests, Rec!SetPassword(r)
  PROVE  RecoveryInv'
<1> DEFINE u == errand[r].found
<1>1. /\ r \in Rec!Redeems /\ r \in Rec!Doing("reset") /\ errand[r].pc = "spent" /\ errand[r].answer = "none"
      /\ (Rec!Smooth \/ Rec!Mishap) /\ u \in Users /\ <<u, Rec!Target(Rec!Of(r))>> \in confirmed
      /\ UNCHANGED <<account, upstream, live, ticket, audits, given, approvals, confirmed, outrun>>
  BY DEF Rec!SetPassword, Rec!At, Rec!Redeems, Rec!Doing, RecoveryInv, RecFresh, RecCarried, CarriedBy
<1>2. CASE secret' = [secret EXCEPT ![u] = r] /\ redeemed' = redeemed \cup {<<Rec!Of(r), r>>}
           /\ (Rec!To(r, "set") \/ Rec!Answer(r, "failed"))
  <2>1. RecBecame(r, "set", u, "none") \/ RecBecame(r, "done", u, "failed")
    BY <1>1, <1>2, RecMoves DEF RecoveryInv, Rec!Labels, Rec!Answers
  <2>2. redeemed' \subseteq Rec!Tickets \X Rec!Redeems /\ RecSole'
    BY <1>1, <1>2, <2>1, RedeemedStays DEF Taking
  <2>3. /\ secret' \in [Users -> Rec!Doing("reset") \cup {"initial"}] /\ secret'[u] = r
        /\ \A v \in Users \ {u} : secret'[v] = secret[v]
    BY <1>1, <1>2 DEF RecoveryInv, RecShapes
  <2> USE DEF RecBecame
  <2>11. RecShapes'
    BY <1>1, <2>1, <2>2, <2>3, Faults DEF RecoveryInv, RecShapes
  <2>4. RecFresh' /\ Recorded'
    BY <1>1, <2>1 DEF RecoveryInv, RecFresh, Recorded, Rec!At, Rec!Tickets
  <2>5. RecCarried'
    BY <1>1, <2>1 DEF RecoveryInv, RecCarried, CarriedBy, Rec!At, Rec!Doing
  <2>6. Rec!SessionApproved' /\ Verified' /\ Rec!ContactsUnique'
    BY <1>1 DEF RecoveryInv, Rec!SessionApproved, Verified, Rec!ContactsUnique
  <2>7. Rec!ContactProven'
    BY <1>1, <1>2, <2>3 DEF RecoveryInv, Rec!ContactProven
  <2>8. Rec!MirrorAccounted'
    BY <1>1, <2>1 DEF RecoveryInv, Rec!MirrorAccounted, Rec!At, Rec!Doing
  <2> QED
    BY <2>2, <2>4, <2>5, <2>6, <2>7, <2>8, <2>11 DEF RecoveryInv
<1>3. CASE Rec!Answer(r, "failed") /\ UNCHANGED <<secret, redeemed>>
  BY <1>1, <1>3, RecEndsKeeps DEF RecoveryInv, RecShapes, Rec!Answers, Rec!accountVars, Rec!historyVars,
                                  Rec!Doing
<1> QED
  BY <1>2, <1>3 DEF Rec!SetPassword

LEMMA RevokeSessionsKeeps ==
  ASSUME Rec!RecoveryAssumption, RecoveryInv, NEW r \in RecRequests, Rec!RevokeSessions(r)
  PROVE  RecoveryInv'
  BY RecEndsKeeps DEF Rec!RevokeSessions, Rec!At, RecoveryInv, RecShapes, Rec!Answers

LEMMA UpdatePhoneKeeps ==
  ASSUME Rec!RecoveryAssumption, RecoveryInv, NEW r \in RecRequests, Rec!UpdatePhone(r)
  PROVE  RecoveryInv'
<1> DEFINE u == Rec!By(r)
           p == Rec!Target(Rec!Of(r))
<1>1. /\ r \in Rec!Redeems /\ Rec!Op(r) = "phone" /\ errand[r].pc = "spent" /\ Rec!Right(r) /\ u \in Users
      /\ Rec!Smooth \/ Rec!Mishap
      /\ UNCHANGED <<upstream, secret, live, ticket, audits, given, approvals, confirmed, outrun>>
  BY DEF Rec!UpdatePhone, Rec!At, Rec!Redeems, Rec!Doing, RecoveryInv, RecCarried, CarriedBy,
         Rec!RecoveryAssumption
<1>2. CASE Rec!PhoneFree(r) /\ account' = [account EXCEPT ![u].phone = p]
           /\ redeemed' = redeemed \cup {<<Rec!Of(r), r>>} /\ (Rec!Answer(r, "ok") \/ Rec!Answer(r, "failed"))
  <2>1. RecBecame(r, "done", errand[r].found, "ok") \/ RecBecame(r, "done", errand[r].found, "failed")
    BY <1>2, RecMoves DEF RecoveryInv, Rec!Answers
  <2>2. redeemed' \subseteq Rec!Tickets \X Rec!Redeems /\ RecSole'
    BY <1>1, <1>2, <2>1, RedeemedStays DEF Taking
  <2>3. p \in Contacts
    BY <1>1 DEF Contacts, Rec!RecoveryAssumption, Rec!Doing, Rec!Tickets, Rec!Addresses
  <2>4. /\ account' \in [Users -> [status : {"active", "disabled"}, phone : Contacts, email : Contacts]]
        /\ account'[u].phone = p /\ account'[u].email = account[u].email
        /\ account'[u].status = account[u].status
        /\ \A v \in Users \ {u} : account'[v] = account[v]
    BY <1>1, <1>2, <2>3 DEF RecoveryInv, RecShapes
  <2> USE DEF RecBecame
  <2>5. RecShapes' /\ RecFresh' /\ Recorded'
    <3>1. RecShapes'
      BY <1>1, <2>1, <2>2, <2>4, Faults DEF RecoveryInv, RecShapes
    <3> QED
      BY <1>1, <2>1, <3>1 DEF RecoveryInv, RecFresh, Recorded, Rec!At, Rec!Tickets
  <2>6. RecCarried'
    BY <1>1, <2>1 DEF RecoveryInv, RecCarried, CarriedBy, Rec!At
  <2>7. Rec!SessionApproved' /\ Verified'
    BY <1>1 DEF RecoveryInv, Rec!SessionApproved, Verified
  <2>8. Rec!ContactsUnique'
    BY <1>1, <1>2, <2>4 DEF RecoveryInv, Rec!ContactsUnique, Rec!PhoneFree
  <2>9. Rec!ContactProven'
    <3>1. ASSUME NEW v \in Users, v # u
          PROVE  \/ account'[v].phone = <<"old", v>>
                 \/ \E x \in redeemed' : /\ Rec!Op(x[2]) = "phone" /\ Rec!By(x[2]) = v /\ Rec!Right(x[2])
                                         /\ account'[v].phone = Rec!Target(x[1])
      BY <1>2, <2>4, <3>1 DEF RecoveryInv, Rec!ContactProven
    <3>2. \E x \in redeemed' : /\ Rec!Op(x[2]) = "phone" /\ Rec!By(x[2]) = u /\ Rec!Right(x[2])
                               /\ account'[u].phone = Rec!Target(x[1])
      <4>1. <<Rec!Of(r), r>> \in redeemed' /\ <<Rec!Of(r), r>>[1] = Rec!Of(r) /\ <<Rec!Of(r), r>>[2] = r
        BY <1>2
      <4> QED
        BY <1>1, <2>4, <4>1
    <3>3. \A v \in Users : <<v, account'[v].email>> \in confirmed' /\ (secret'[v] # "initial" => <<v, Rec!Target(Rec!Of(secret'[v]))>> \in confirmed')
      BY <1>1, <2>4 DEF RecoveryInv, Rec!ContactProven
    <3> QED
      BY ZenonT(120), <3>1, <3>2, <3>3 DEF Rec!ContactProven
  <2>10. Rec!MirrorAccounted'
    BY <1>1, <2>1, <2>4 DEF RecoveryInv, Rec!MirrorAccounted, Rec!At, Rec!Doing
  <2> QED
    BY <2>2, <2>5, <2>6, <2>7, <2>8, <2>9, <2>10 DEF RecoveryInv
<1>3. CASE \E a \in {"invalid", "conflict", "failed"} : Rec!Answer(r, a) /\ UNCHANGED <<account, redeemed>>
  BY <1>1, <1>3, RecEndsKeeps DEF RecoveryInv, RecShapes, Rec!Answers, Rec!accountVars, Rec!historyVars
<1> QED
  BY <1>2, <1>3 DEF Rec!UpdatePhone

\* The audit of a QR sign-in.
LEMMA AuditsKeep ==
  ASSUME Rec!RecoveryAssumption, RecoveryInv, NEW r \in RecRequests,
         Rec!AuditApproval(r) \/ Rec!AuditReceiver(r)
  PROVE  RecoveryInv'
<1> DEFINE Events == {"approval_requested", "receiver_verified"} \X Rec!Doing("qr") \X Users
<1>1. /\ (Rec!Smooth \/ Rec!Mishap) /\ UNCHANGED <<Rec!accountVars, live, ticket, given, Rec!historyVars>>
      /\ errand[r].answer = "none" /\ errand[r].pc \notin {"done", "asked", "read"}
      /\ Rec!Of(r) \in Rec!Doing("qr")
      /\ Rec!Op(r) \in {"approve", "consume"}
  BY DEF Rec!AuditApproval, Rec!AuditReceiver, Rec!At, RecoveryInv, RecFresh, Rec!RecoveryAssumption,
         Rec!Tickets, Rec!Addresses, Rec!Doing
<1>2. audits \subseteq Events /\ given \subseteq Rec!Tickets \cup Rec!Addresses
  BY DEF RecoveryInv, RecShapes
<1>3. ASSUME Rec!Answer(r, "failed"), audits \subseteq audits', audits' \subseteq Events
      PROVE  RecoveryInv'
  BY <1>1, <1>2, <1>3, RecEndsKeeps DEF Rec!Answers
<1>4. CASE Rec!AuditApproval(r)
  <2>1. Rec!Op(r) = "approve" /\ Rec!By(r) \in Users
    BY <1>4 DEF Rec!AuditApproval, Rec!RecoveryAssumption
  <2>2. ASSUME Rec!Noted("approval_requested", r, Rec!By(r))
        PROVE  audits \subseteq audits' /\ audits' \subseteq Events /\ <<"approval_requested", Rec!Of(r), Rec!By(r)>> \in audits'
    BY <1>1, <1>2, <2>1, <2>2 DEF Rec!Noted
  <2>3. ASSUME Rec!Noted("approval_requested", r, Rec!By(r)), Rec!To(r, "audited")
        PROVE  RecoveryInv'
    <3>1. RecBecame(r, "audited", errand[r].found, "none")
      BY <1>1, <2>3, RecMoves DEF RecoveryInv, Rec!Labels
    <3>2. CarriedBy(r)'
      BY <2>1, <2>2, <2>3, <3>1 DEF RecBecame, CarriedBy, Rec!At
    <3> QED
      BY <1>1, <1>2, <2>2, <2>3, <3>1, <3>2, Faults, RecQuietKeeps DEF Taking, RecoveryInv
  <2> QED
    BY <1>2, <1>3, <1>4, <2>2, <2>3 DEF Rec!AuditApproval
<1>5. CASE Rec!AuditReceiver(r)
  <2> DEFINE u == errand[r].found
  <2>1. /\ Rec!Op(r) = "consume" /\ u \in Users /\ errand[r].pc = "usable"
        /\ <<Rec!Of(r), u>> \in approvals' /\ Rec!Right(r)
    BY <1>1, <1>5 DEF Rec!AuditReceiver, RecoveryInv, RecCarried, CarriedBy, Rec!At, Rec!historyVars
  <2>2. ASSUME Rec!Noted("receiver_verified", r, u)
        PROVE  audits \subseteq audits' /\ audits' \subseteq Events /\ <<"receiver_verified", Rec!Of(r), u>> \in audits'
    BY <1>1, <1>2, <2>1, <2>2 DEF Rec!Noted
  <2>3. ASSUME Rec!Noted("receiver_verified", r, u), Rec!To(r, "recorded")
        PROVE  RecoveryInv'
    <3>1. RecBecame(r, "recorded", u, "none")
      BY <1>1, <2>3, RecMoves DEF RecoveryInv, Rec!Labels
    <3>2. CarriedBy(r)'
      BY <2>1, <2>2, <2>3, <3>1 DEF RecBecame, CarriedBy, Rec!At
    <3> QED
      BY <1>1, <1>2, <2>1, <2>2, <2>3, <3>1, <3>2, Faults, RecQuietKeeps DEF Taking, RecoveryInv
  <2> QED
    BY <1>2, <1>3, <1>5, <2>2, <2>3 DEF Rec!AuditReceiver
<1> QED
  BY <1>4, <1>5

LEMMA ApproveKeeps ==
  ASSUME Rec!RecoveryAssumption, RecoveryInv, NEW r \in RecRequests, Rec!Approve(r)
  PROVE  RecoveryInv'
<1> DEFINE t == Rec!Of(r)
           u == Rec!By(r)
<1>1. /\ t \in Rec!Doing("qr") /\ t \in Rec!Tickets /\ u \in Users /\ Rec!Op(r) = "approve"
      /\ errand[r].pc = "audited"
      /\ <<"approval_requested", t, u>> \in audits /\ (Rec!Smooth \/ Rec!Mishap)
      /\ UNCHANGED <<Rec!accountVars, live, audits, given, redeemed, confirmed, outrun>>
  BY DEF Rec!Approve, Rec!At, RecoveryInv, RecCarried, CarriedBy, Rec!RecoveryAssumption, Rec!Tickets,
         Rec!Addresses, Rec!Doing
<1>2. CASE Rec!Approvable(t) /\ ticket' = [ticket EXCEPT ![t] = u] /\ approvals' = approvals \cup {<<t, u>>}
           /\ (Rec!Answer(r, "ok") \/ Rec!Answer(r, "failed"))
  <2>1. RecBecame(r, "done", errand[r].found, "ok") \/ RecBecame(r, "done", errand[r].found, "failed")
    BY <1>2, RecMoves DEF RecoveryInv, Rec!Answers
  <2>2. /\ ticket' \in [Rec!Tickets -> Rec!Records] /\ ticket'[t] = u /\ ticket[t] = "open"
        /\ \A q \in Rec!Tickets \ {t} : ticket'[q] = ticket[q]
    BY <1>1, <1>2 DEF Rec!Approvable, RecoveryInv, RecShapes, Rec!Records
  <2> USE DEF RecBecame, Rec!accountVars
  <2>3. RecShapes'
    BY <1>1, <1>2, <2>1, <2>2, Faults DEF RecoveryInv, RecShapes
  <2>4. RecFresh'
    BY <1>1, <2>1, <2>2 DEF RecoveryInv, RecFresh, Rec!At
  <2>5. Recorded'
    BY <1>1, <1>2, <2>2 DEF Rec!Doing, Rec!Tickets, RecoveryInv, Recorded
  <2>6. RecCarried'
    BY <1>1, <1>2, <2>1 DEF RecoveryInv, RecCarried, CarriedBy, Rec!At
  <2>7. RecSole'
    BY <1>1, <2>1, <2>2 DEF Rec!RecoveryAssumption, Rec!Redeems, Rec!Tickets, Rec!Doing, Rec!Addresses,
       RecoveryInv, RecSole, Taker
  <2>8. Rec!SessionApproved' /\ Verified' /\ Rec!ContactProven' /\ Rec!ContactsUnique'
    BY <1>1, <1>2 DEF RecoveryInv, Rec!SessionApproved, Verified, Rec!ContactProven, Rec!ContactsUnique
  <2>9. Rec!MirrorAccounted'
    BY <1>1, <2>1 DEF RecoveryInv, Rec!MirrorAccounted, Rec!At, Rec!Doing
  <2> QED
    BY <2>3, <2>4, <2>5, <2>6, <2>7, <2>8, <2>9 DEF RecoveryInv
<1>3. CASE \E a \in {"invalid", "failed"} : Rec!Answer(r, a) /\ UNCHANGED <<ticket, approvals>>
  BY <1>1, <1>3, RecEndsKeeps DEF RecoveryInv, RecShapes, Rec!Answers, Rec!historyVars
<1> QED
  BY <1>2, <1>3 DEF Rec!Approve

LEMMA CanUseSessionKeeps ==
  ASSUME Rec!RecoveryAssumption, RecoveryInv, NEW r \in RecRequests, Rec!CanUseSession(r)
  PROVE  RecoveryInv'
<1>1. /\ Rec!Op(r) = "consume" /\ errand[r].pc = "spent" /\ errand[r].answer = "none"
      /\ (Rec!Smooth \/ Rec!Mishap)
      /\ UNCHANGED <<Rec!accountVars, live, ticket, audits, given, Rec!historyVars>>
  BY DEF Rec!CanUseSession, Rec!At, RecoveryInv, RecFresh
<1>2. given \subseteq Rec!Tickets \cup Rec!Addresses
      /\ audits \subseteq {"approval_requested", "receiver_verified"} \X Rec!Doing("qr") \X Users
  BY DEF RecoveryInv, RecShapes
<1>3. CASE Rec!To(r, "usable")
  <2>1. RecBecame(r, "usable", errand[r].found, "none")
    BY <1>1, <1>3, RecMoves DEF RecoveryInv, Rec!Labels
  <2>2. CarriedBy(r)'
    BY <1>1, <2>1 DEF RecoveryInv, RecCarried, RecBecame, CarriedBy, Rec!At, Rec!historyVars
  <2> QED
    BY <1>1, <1>2, <2>1, <2>2, Faults, RecQuietKeeps DEF Taking, RecoveryInv
<1>4. CASE Rec!Answer(r, "invalid")
  BY <1>1, <1>2, <1>4, RecEndsKeeps DEF Rec!Answers
<1> QED
  BY <1>3, <1>4 DEF Rec!CanUseSession

LEMMA CreateSessionKeeps ==
  ASSUME Rec!RecoveryAssumption, RecoveryInv, NEW r \in RecRequests, Rec!CreateSession(r)
  PROVE  RecoveryInv'
<1> DEFINE u == errand[r].found
<1>1. /\ r \in Rec!Redeems /\ r \in Rec!Doing("consume") /\ errand[r].pc = "recorded"
      /\ Rec!Of(r) \in Rec!Doing("qr")
      /\ u \in Users /\ <<Rec!Of(r), u>> \in approvals /\ Rec!Right(r)
      /\ <<"receiver_verified", Rec!Of(r), u>> \in audits /\ (Rec!Smooth \/ Rec!Mishap)
      /\ UNCHANGED <<Rec!accountVars, ticket, audits, given, approvals, confirmed, outrun>>
  BY DEF Rec!CreateSession, Rec!At, Rec!Redeems, Rec!Doing, RecoveryInv, RecCarried, CarriedBy,
         Rec!RecoveryAssumption, Rec!Tickets, Rec!Addresses
<1>2. <<"approval_requested", Rec!Of(r), u>> \in audits
  BY <1>1 DEF RecoveryInv, Recorded
<1>3. CASE live' = live \cup {<<r, u>>} /\ redeemed' = redeemed \cup {<<Rec!Of(r), r>>}
           /\ (Rec!Answer(r, "ok") \/ Rec!Answer(r, "failed"))
  <2>1. RecBecame(r, "done", u, "ok") \/ RecBecame(r, "done", u, "failed")
    BY <1>3, RecMoves DEF RecoveryInv, Rec!Answers
  <2>2. redeemed' \subseteq Rec!Tickets \X Rec!Redeems /\ RecSole'
    BY <1>1, <1>3, <2>1, RedeemedStays DEF Taking
  <2> USE DEF RecBecame, Rec!accountVars
  <2>3. RecShapes' /\ RecFresh' /\ Recorded'
    <3>1. live' \subseteq (Rec!Doing("consume") \cup {"before"}) \X Users /\ mishaps' \in 0 .. RecFaults
      BY <1>1, <1>3, Faults DEF RecoveryInv, RecShapes
    <3>2. RecShapes'
      BY <1>1, <2>1, <2>2, <3>1 DEF RecoveryInv, RecShapes
    <3> QED
      BY <1>1, <2>1, <3>2 DEF RecoveryInv, RecFresh, Recorded, Rec!At, Rec!Tickets
  <2>4. RecCarried'
    BY <1>1, <2>1 DEF RecoveryInv, RecCarried, CarriedBy, Rec!At
  <2>5. Rec!SessionApproved'
    BY <1>1, <1>2, <1>3 DEF RecoveryInv, Rec!SessionApproved
  <2>6. Verified' /\ Rec!ContactsUnique' /\ Rec!ContactProven'
    BY <1>1, <1>3 DEF RecoveryInv, Verified, Rec!ContactsUnique, Rec!ContactProven
  <2>7. Rec!MirrorAccounted'
    BY <1>1, <2>1 DEF RecoveryInv, Rec!MirrorAccounted, Rec!At, Rec!Doing
  <2> QED
    BY <2>2, <2>3, <2>4, <2>5, <2>6, <2>7 DEF RecoveryInv
<1>4. CASE Rec!Answer(r, "failed") /\ UNCHANGED <<live, redeemed>>
  BY <1>1, <1>4, RecEndsKeeps DEF RecoveryInv, RecShapes, Rec!Answers, Rec!historyVars, Rec!Doing
<1> QED
  BY <1>3, <1>4 DEF Rec!CreateSession

LEMMA BeginEmailChangeKeeps ==
  ASSUME Rec!RecoveryAssumption, RecoveryInv, NEW r \in RecRequests, Rec!BeginEmailChange(r)
  PROVE  RecoveryInv'
<1> DEFINE u == Rec!By(r)
<1>1. /\ r \in Rec!Addresses /\ Rec!Op(r) = "address" /\ errand[r].pc = "idle" /\ u \in Users
      /\ (Rec!Smooth \/ Rec!Mishap)
      /\ Rec!Target(r) \in Contacts
      /\ UNCHANGED <<account, secret, live, ticket, audits, Rec!historyVars>>
  BY DEF Rec!BeginEmailChange, Rec!At, Rec!Addresses, Rec!Doing, Rec!RecoveryAssumption, Contacts
<1>2. CASE Rec!Unowned(r) /\ given' = given \cup {r} /\ upstream' = Rec!SetEmail(r) /\ (Rec!Answer(r, "ok") \/ Rec!Answer(r, "failed"))
  <2>1. RecBecame(r, "done", errand[r].found, "ok") \/ RecBecame(r, "done", errand[r].found, "failed")
    BY <1>2, RecMoves DEF RecoveryInv, Rec!Answers
  <2>2. /\ upstream' \in [Users -> [email : Contacts, verified : BOOLEAN, code : Rec!Addresses \cup {"none"}]]
        /\ upstream'[u].email = Rec!Target(r) /\ upstream'[u].verified = FALSE
        /\ \A v \in Users \ {u} : upstream'[v] = upstream[v]
    BY <1>1, <1>2 DEF Rec!SetEmail, RecoveryInv, RecShapes
  <2> USE DEF RecBecame, Rec!historyVars
  <2>8. RecShapes'
    BY <1>1, <1>2, <2>1, <2>2, Faults DEF RecoveryInv, RecShapes
  <2>3. RecFresh' /\ Recorded'
    BY <1>1, <1>2, <2>1 DEF RecoveryInv, RecFresh, Recorded, Rec!At, Rec!Tickets
  <2>4. RecCarried'
    BY <1>1, <2>1 DEF RecoveryInv, RecCarried, CarriedBy, Rec!At
  <2>5. RecSole'
    BY <1>1, <2>1 DEF RecoveryInv, RecSole, Taker, Rec!Redeems, Rec!Doing
  <2>6. Rec!SessionApproved' /\ Verified' /\ Rec!ContactProven'
    BY <1>1, <2>2 DEF RecoveryInv, Rec!SessionApproved, Verified, Rec!ContactProven
  <2>9. \A v, w \in Users : v # w => upstream'[v].email # upstream'[w].email
    BY <1>2, <2>2 DEF RecoveryInv, Rec!ContactsUnique, Rec!Unowned
  <2>10. Rec!ContactsUnique'
    BY <1>1, <2>9 DEF RecoveryInv, Rec!ContactsUnique
  <2>7. Rec!MirrorAccounted'
    BY <1>1, <2>1, <2>2 DEF RecoveryInv, Rec!MirrorAccounted, Rec!At, Rec!Doing
  <2> QED
    BY <2>3, <2>4, <2>5, <2>6, <2>7, <2>8, <2>10 DEF RecoveryInv
<1>3. CASE \E a \in {"conflict", "failed"} : Rec!Answer(r, a) /\ UNCHANGED <<upstream, given>>
  BY <1>1, <1>3, RecEndsKeeps DEF RecoveryInv, RecShapes, Rec!Answers, Rec!accountVars
<1> QED
  BY <1>2, <1>3 DEF Rec!BeginEmailChange

LEMMA VerifyEmailKeeps ==
  ASSUME Rec!RecoveryAssumption, RecoveryInv, NEW r \in RecRequests, Rec!VerifyEmail(r)
  PROVE  RecoveryInv'
<1> DEFINE u == Rec!By(r)
<1>1. /\ r \in Rec!Doing("confirm") /\ Rec!Op(r) = "confirm" /\ errand[r].pc = "idle"
      /\ errand[r].answer = "none"
      /\ u \in Users
      /\ RecBecame(r, "asked", errand[r].found, "none") /\ (Rec!Smooth \/ Rec!Mishap)
      /\ UNCHANGED <<account, secret, live, ticket, audits, given, redeemed, approvals, outrun>>
  BY RecMoves DEF Rec!VerifyEmail, Rec!At, Rec!Doing, Rec!RecoveryAssumption, RecoveryInv, RecFresh, Rec!Labels
<1>2. CASE /\ upstream' = [upstream EXCEPT ![u].verified = TRUE, ![u].code = "none"]
           /\ confirmed' = confirmed \cup {<<u, upstream[u].email>>}
  <2>1. /\ upstream' \in [Users -> [email : Contacts, verified : BOOLEAN, code : Rec!Addresses \cup {"none"}]]
        /\ upstream'[u].email = upstream[u].email /\ \A v \in Users \ {u} : upstream'[v] = upstream[v]
    <3>1. upstream[u] \in [email : Contacts, verified : BOOLEAN, code : Rec!Addresses \cup {"none"}]
      BY <1>1 DEF RecoveryInv, RecShapes
    <3> DEFINE now == [[upstream[u] EXCEPT !.verified = TRUE] EXCEPT !.code = "none"]
    <3>2. upstream' = [upstream EXCEPT ![u] = now]
      BY <1>2 DEF RecoveryInv, RecShapes
    <3>3. now \in [email : Contacts, verified : BOOLEAN, code : Rec!Addresses \cup {"none"}] /\ now.email = upstream[u].email
      BY <3>1
    <3> HIDE DEF now
    <3> QED
      BY <1>1, <3>2, <3>3 DEF RecoveryInv, RecShapes
  <2>9. upstream[u].email \in Contacts
    BY <1>1 DEF RecoveryInv, RecShapes
  <2>2. confirmed' \subseteq Users \X Contacts /\ confirmed \subseteq confirmed' /\ <<u, upstream[u].email>> \in confirmed'
    BY <1>1, <1>2, <2>9 DEF RecoveryInv, RecShapes
  <2> USE DEF RecBecame
  <2>10. RecShapes'
    BY <1>1, <2>1, <2>2, Faults DEF RecoveryInv, RecShapes
  <2>3. RecFresh' /\ Recorded'
    BY <1>1, <2>2 DEF RecoveryInv, RecFresh, Recorded, Rec!At, Rec!Tickets
  <2>4. RecCarried'
    BY <1>1, <2>2 DEF RecoveryInv, RecCarried, CarriedBy, Rec!At
  <2>5. RecSole'
    BY <1>1 DEF RecoveryInv, RecSole, Taker, Taking, Rec!Redeems, Rec!Doing
  <2>6. Rec!SessionApproved' /\ Rec!ContactProven'
    BY <1>1, <2>2 DEF RecoveryInv, Rec!SessionApproved, Rec!ContactProven
  <2>11. \A v \in Users : upstream'[v].email = upstream[v].email
    BY <2>1
  <2>12. Rec!ContactsUnique'
    BY <1>1, <2>11 DEF RecoveryInv, Rec!ContactsUnique
  <2>7. Verified'
    BY <2>1, <2>2 DEF RecoveryInv, Verified
  <2>8. Rec!MirrorAccounted'
    BY <1>1, <2>1 DEF RecoveryInv, Rec!MirrorAccounted, Rec!At, Rec!Doing
  <2> QED
    BY <2>3, <2>4, <2>5, <2>6, <2>7, <2>8, <2>10, <2>12 DEF RecoveryInv
<1>3. CASE UNCHANGED <<upstream, confirmed>>
  BY <1>1, <1>3, Faults, RecQuietKeeps DEF RecBecame, CarriedBy, Rec!At, RecoveryInv, RecShapes, Taking,
     Rec!accountVars, Rec!historyVars
<1> QED
  BY <1>2, <1>3 DEF Rec!VerifyEmail

LEMMA ReadEmailKeeps ==
  ASSUME Rec!RecoveryAssumption, RecoveryInv, NEW r \in RecRequests, Rec!ReadEmail(r)
  PROVE  RecoveryInv'
<1> DEFINE u == Rec!By(r)
<1>1. /\ Rec!Op(r) = "confirm" /\ errand[r].pc = "asked" /\ errand[r].answer = "none" /\ u \in Users
      /\ (Rec!Smooth \/ Rec!Mishap)
      /\ UNCHANGED <<Rec!accountVars, live, ticket, audits, given, Rec!historyVars>>
  BY DEF Rec!ReadEmail, Rec!At, Rec!RecoveryAssumption, RecoveryInv, RecFresh
<1>2. /\ given \subseteq Rec!Tickets \cup Rec!Addresses
      /\ audits \subseteq {"approval_requested", "receiver_verified"} \X Rec!Doing("qr") \X Users
  BY DEF RecoveryInv, RecShapes
<1>3. CASE Rec!Believed(u) /\ Rec!With(r, "read", upstream[u].email)
  <2>1. RecBecame(r, "read", upstream[u].email, "none")
    BY <1>1, <1>3, RecMoves DEF RecoveryInv, Rec!Labels, RecShapes
  <2>2. CarriedBy(r)'
    BY <1>1, <1>3, <2>1 DEF RecoveryInv, Verified, Rec!Believed, RecBecame, CarriedBy, Rec!At, Rec!historyVars
  <2> QED
    BY <1>1, <1>2, <2>1, <2>2, Faults, RecQuietKeeps DEF Taking, RecoveryInv
<1>4. CASE ~Rec!Believed(u) /\ Rec!Answer(r, "invalid")
  BY <1>1, <1>2, <1>4, RecEndsKeeps DEF Rec!Answers, Rec!Believed
<1>5. CASE Rec!Answer(r, "failed")
  BY <1>1, <1>2, <1>5, RecEndsKeeps DEF Rec!Answers
<1> QED
  BY <1>3, <1>4, <1>5 DEF Rec!ReadEmail

LEMMA UpdateVerifiedEmailKeeps ==
  ASSUME Rec!RecoveryAssumption, RecoveryInv, NEW r \in RecRequests, Rec!UpdateVerifiedEmail(r)
  PROVE  RecoveryInv'
<1> DEFINE u == Rec!By(r)
           e == errand[r].found
<1>1. /\ r \in Rec!Doing("confirm") /\ Rec!Op(r) = "confirm" /\ errand[r].pc = "read" /\ u \in Users
      /\ (Rec!Smooth \/ Rec!Mishap)
      /\ <<u, e>> \in confirmed /\ e \in Contacts
      /\ UNCHANGED <<upstream, secret, live, ticket, audits, given, redeemed, approvals, confirmed>>
  BY ZenonT(120) DEF Rec!UpdateVerifiedEmail, Rec!At, Rec!Doing, Rec!RecoveryAssumption, RecoveryInv, RecShapes,
         RecCarried, CarriedBy
<1>2. CASE /\ account' = [account EXCEPT ![u].email = e]
           /\ outrun' = IF upstream[u].email # e THEN outrun \cup {u} ELSE outrun \ {u}
           /\ Rec!Answer(r, "ok") \/ Rec!Answer(r, "failed")
  <2>1. RecBecame(r, "done", e, "ok") \/ RecBecame(r, "done", e, "failed")
    BY <1>2, RecMoves DEF RecoveryInv, Rec!Answers
  <2>2. /\ account' \in [Users -> [status : {"active", "disabled"}, phone : Contacts, email : Contacts]]
        /\ account'[u].email = e /\ account'[u].phone = account[u].phone
        /\ \A v \in Users \ {u} : account'[v] = account[v]
    <3>1. account \in [Users -> [status : {"active", "disabled"}, phone : Contacts, email : Contacts]]
      BY DEF RecoveryInv, RecShapes
    <3>2. account' = [account EXCEPT ![u].email = e]
      BY <1>2
    <3> QED
      BY <1>1, <3>1, <3>2
  <2>3. outrun' \subseteq Users /\ (upstream[u].email # e => u \in outrun') /\ \A v \in Users \ {u} : v \in outrun => v \in outrun'
    BY <1>1, <1>2 DEF RecoveryInv, RecShapes
  <2> USE DEF RecBecame
  <2>11. RecShapes'
    BY <1>1, <2>1, <2>2, <2>3, Faults DEF RecoveryInv, RecShapes
  <2>4. RecFresh' /\ Recorded'
    BY <1>1, <2>1 DEF RecoveryInv, RecFresh, Recorded, Rec!At, Rec!Tickets
  <2>5. RecCarried'
    BY <1>1, <2>1 DEF RecoveryInv, RecCarried, CarriedBy, Rec!At
  <2>6. RecSole'
    BY <1>1, <2>1 DEF RecoveryInv, RecSole, Taker, Taking, Rec!Redeems, Rec!Doing
  <2>7. Rec!SessionApproved' /\ Verified'
    BY <1>1 DEF RecoveryInv, Rec!SessionApproved, Verified
  <2>8. Rec!ContactsUnique'
    BY <1>1, <2>2 DEF RecoveryInv, Rec!ContactsUnique
  <2>9. Rec!ContactProven'
    <3>1. /\ \A v \in Users : account'[v].phone = account[v].phone
          /\ \A v \in Users : account'[v].email = account[v].email \/ (v = u /\ account'[v].email = e)
      BY <2>2
    <3> SUFFICES ASSUME NEW v \in Users
                 PROVE  /\ \/ account'[v].phone = <<"old", v>>
                           \/ \E x \in redeemed : /\ Rec!Op(x[2]) = "phone" /\ Rec!By(x[2]) = v /\ Rec!Right(x[2])
                                                  /\ account'[v].phone = Rec!Target(x[1])
                        /\ <<v, account'[v].email>> \in confirmed
                        /\ (secret[v] # "initial" => <<v, Rec!Target(Rec!Of(secret[v]))>> \in confirmed)
      BY ZenonT(120), <1>1 DEF Rec!ContactProven
    <3>2. <<v, account[v].email>> \in confirmed /\ (secret[v] # "initial" => <<v, Rec!Target(Rec!Of(secret[v]))>> \in confirmed)
      BY DEF RecoveryInv, Rec!ContactProven
    <3>3. <<v, account'[v].email>> \in confirmed
      BY <1>1, <3>1, <3>2
    <3>4. \/ account[v].phone = <<"old", v>>
          \/ \E x \in redeemed : /\ Rec!Op(x[2]) = "phone" /\ Rec!By(x[2]) = v /\ Rec!Right(x[2])
                                 /\ account[v].phone = Rec!Target(x[1])
      BY DEF RecoveryInv, Rec!ContactProven
    <3> QED
      BY <3>1, <3>2, <3>3, <3>4
  <2>10. Rec!MirrorAccounted'
    BY <1>1, <2>1, <2>2, <2>3 DEF RecoveryInv, Rec!MirrorAccounted, Rec!At, Rec!Doing
  <2> QED
    BY <2>4, <2>5, <2>6, <2>7, <2>8, <2>9, <2>10, <2>11 DEF RecoveryInv
<1>3. CASE Rec!Answer(r, "failed") /\ UNCHANGED <<account, outrun>>
  BY <1>1, <1>3, RecEndsKeeps DEF RecoveryInv, RecShapes, Rec!Answers, Rec!accountVars, Rec!historyVars
<1> QED
  BY <1>2, <1>3 DEF Rec!UpdateVerifiedEmail, Rec!Mirrored

LEMMA CrashKeeps ==
  ASSUME Rec!RecoveryAssumption, RecoveryInv, NEW r \in RecRequests, Rec!Crash(r)
  PROVE  RecoveryInv'
  BY RecEndsKeeps DEF Rec!Crash, Rec!Answers, RecoveryInv, RecShapes

\* The time of a ticket is over, or an account is suspended.
LEMMA ExpireKeeps ==
  ASSUME Rec!RecoveryAssumption, RecoveryInv, NEW t \in Rec!Tickets, Rec!Expire(t)
  PROVE  RecoveryInv'
<1>1. /\ ticket' \in [Rec!Tickets -> Rec!Records] /\ ticket'[t] = "gone" /\ ticket[t] # "unused"
      /\ \A q \in Rec!Tickets \ {t} : ticket'[q] = ticket[q]
      /\ UNCHANGED <<account, upstream, secret, live, audits, given, errand, redeemed, approvals, confirmed, outrun, mishaps>>
  BY DEF Rec!Expire, Rec!Present, Rec!Taken, Rec!Records, Rec!Smooth, Rec!accountVars, Rec!historyVars,
         RecoveryInv, RecShapes, Rec!RecoveryAssumption
<1>2. RecShapes' /\ RecFresh'
  BY <1>1 DEF RecoveryInv, RecShapes, RecFresh, Rec!At
<1>3. Recorded'
  BY <1>1 DEF RecoveryInv, Recorded, Rec!RecoveryAssumption, Rec!Tickets
<1>4. RecCarried'
  BY <1>1 DEF RecoveryInv, RecCarried, CarriedBy, Rec!At
<1>5. RecSole'
  BY <1>1 DEF Rec!RecoveryAssumption, Rec!Redeems, Rec!Tickets, Rec!Doing, Rec!Addresses, RecoveryInv,
     RecSole, Taker
<1>6. Rec!SessionApproved' /\ Verified' /\ Rec!ContactProven' /\ Rec!ContactsUnique'
  BY <1>1 DEF RecoveryInv, Rec!SessionApproved, Verified, Rec!ContactProven, Rec!ContactsUnique
<1>7. Rec!MirrorAccounted'
  BY <1>1 DEF RecoveryInv, Rec!MirrorAccounted, Rec!At
<1> QED
  BY <1>2, <1>3, <1>4, <1>5, <1>6, <1>7 DEF RecoveryInv

LEMMA RecSuspendKeeps ==
  ASSUME Rec!RecoveryAssumption, RecoveryInv, NEW u \in Users, Rec!Suspend(u)
  PROVE  RecoveryInv'
<1>1. /\ account' \in [Users -> [status : {"active", "disabled"}, phone : Contacts, email : Contacts]]
      /\ \A v \in Users : account'[v].phone = account[v].phone /\ account'[v].email = account[v].email
      /\ UNCHANGED <<upstream, secret, live, ticket, audits, given, errand, redeemed, approvals, confirmed, outrun>>
      /\ mishaps' \in 0 .. RecFaults
  BY Faults DEF Rec!Suspend, RecoveryInv, RecShapes, Rec!historyVars
<1>2. RecShapes' /\ RecFresh' /\ Recorded' /\ RecCarried'
  BY <1>1 DEF RecoveryInv, RecShapes, RecFresh, Recorded, RecCarried, CarriedBy, Rec!At
<1>3. RecSole'
  BY <1>1 DEF RecoveryInv, RecSole, Taker
<1>4. Rec!SessionApproved' /\ Verified' /\ Rec!ContactProven' /\ Rec!ContactsUnique'
  BY <1>1 DEF RecoveryInv, Rec!SessionApproved, Verified, Rec!ContactProven, Rec!ContactsUnique
<1>5. Rec!MirrorAccounted'
  BY <1>1 DEF RecoveryInv, Rec!MirrorAccounted, Rec!At
<1> QED
  BY <1>2, <1>3, <1>4, <1>5 DEF RecoveryInv

LEMMA RecoveryNext == Rec!RecoveryAssumption /\ RecoveryInv /\ [Rec!Next]_(Rec!recoveryVars) => RecoveryInv'
<1> SUFFICES ASSUME Rec!RecoveryAssumption, RecoveryInv, [Rec!Next]_(Rec!recoveryVars) PROVE RecoveryInv'
  OBVIOUS
<1>1. ASSUME NEW r \in RecRequests, Rec!Limited(r) \/ Rec!ResetPassword(r) \/ Rec!ChangePhone(r)
      PROVE  RecoveryInv'
  BY <1>1, LimitedKeeps, IssuesKeep, SendsKeep, TakesKeep, SetPasswordKeeps, RevokeSessionsKeeps,
     UpdatePhoneKeeps
     DEF Rec!ResetPassword, Rec!ChangePhone
<1>2. ASSUME NEW r \in RecRequests, Rec!SignIn(r) \/ Rec!ChangeEmail(r) \/ Rec!Crash(r)
      PROVE  RecoveryInv'
  BY <1>2, IssuesKeep, TakesKeep, AuditsKeep, ApproveKeeps, CanUseSessionKeeps, CreateSessionKeeps,
     BeginEmailChangeKeeps, VerifyEmailKeeps, ReadEmailKeeps, UpdateVerifiedEmailKeeps, CrashKeeps
     DEF Rec!SignIn, Rec!ChangeEmail
<1>3. CASE UNCHANGED Rec!recoveryVars
  <2> USE <1>3 DEF Rec!recoveryVars
  <2>1. RecShapes' /\ RecFresh' /\ Recorded' /\ RecCarried' /\ RecSole'
    BY DEF RecoveryInv, RecShapes, RecFresh, Recorded, RecCarried, CarriedBy, RecSole, Taker, Rec!At
  <2>2. Rec!SessionApproved' /\ Verified' /\ Rec!ContactProven' /\ Rec!ContactsUnique' /\ Rec!MirrorAccounted'
    BY DEF RecoveryInv, Rec!SessionApproved, Verified, Rec!ContactProven, Rec!ContactsUnique,
           Rec!MirrorAccounted, Rec!At
  <2> QED
    BY <2>1, <2>2 DEF RecoveryInv
<1> QED
  BY <1>1, <1>2, <1>3, ExpireKeeps, RecSuspendKeeps DEF Rec!Next

\* The invariant behind the theorems on tickets, codes and contacts.
THEOREM RecoveryInvariant == ASSUME Rec!RecoveryAssumption PROVE Rec!Spec => []RecoveryInv
<1>1. Rec!Init => RecoveryInv
  BY RecoveryInit
<1>2. RecoveryInv /\ [Rec!Next]_(Rec!recoveryVars) => RecoveryInv'
  BY RecoveryNext
<1> QED
  BY <1>1, <1>2, PTL DEF Rec!Spec

\* The rows, tickets and codes keep the shape their stores can hold.
THEOREM RecoveryTypes == ASSUME Rec!RecoveryAssumption PROVE Rec!Spec => []Rec!TypeOK
<1>1. RecoveryInv => Rec!TypeOK
  BY DEF RecoveryInv, RecShapes, Errands, Rec!TypeOK
<1> QED
  BY <1>1, RecoveryInvariant, PTL

\* A mailed link sets one password, a texted code binds one number and a QR
\* approval opens one session (the scripts that read and delete a ticket).
THEOREM OneRedemption == ASSUME Rec!RecoveryAssumption PROVE Rec!Spec => []Rec!RedeemedOnce
<1>1. RecoveryInv => Rec!RedeemedOnce
  <2> USE RecCounts
  <2> SUFFICES ASSUME RecoveryInv, NEW t \in Rec!Tickets
               PROVE  Cardinality({x \in redeemed : x[1] = t}) <= 1
    BY DEF Rec!RedeemedOnce
  <2> DEFINE S == {x \in redeemed : x[1] = t}
  <2>1. ASSUME NEW x \in S, NEW y \in S
        PROVE  x = y
    BY <2>1 DEF RecoveryInv, RecShapes, RecSole, Taker
  <2>2. CASE S = {}
    BY <2>2, FS_EmptySet
  <2>3. CASE S # {}
    BY <2>3, <2>1, FS_Singleton
  <2> QED
    BY <2>2, <2>3
<1> QED
  BY <1>1, RecoveryInvariant, PTL

\* A session from a QR code belongs to the account that approved it, and both
\* halves are in the audit before it opens.
THEOREM SessionsApproved == ASSUME Rec!RecoveryAssumption PROVE Rec!Spec => []Rec!SessionApproved
<1>1. RecoveryInv => Rec!SessionApproved
  BY DEF RecoveryInv
<1> QED
  BY <1>1, RecoveryInvariant, PTL

\* A number or address on an account was proven for it, and its password was set
\* through a link to an address that was.
THEOREM ContactsProven == ASSUME Rec!RecoveryAssumption PROVE Rec!Spec => []Rec!ContactProven
<1>1. RecoveryInv => Rec!ContactProven
  BY DEF RecoveryInv
<1> QED
  BY <1>1, RecoveryInvariant, PTL

\* No two accounts share a number, nor an address at the provider; of two that
\* show one address one has changed its own since.
THEOREM UniqueContacts == ASSUME Rec!RecoveryAssumption PROVE Rec!Spec => []Rec!ContactsUnique
<1>1. RecoveryInv => Rec!ContactsUnique
  BY DEF RecoveryInv
<1> QED
  BY <1>1, RecoveryInvariant, PTL

\* An address verified at the provider and not shown by the account is known
\* to a request, or was overtaken by a newer change.
THEOREM MirrorsAccounted == ASSUME Rec!RecoveryAssumption PROVE Rec!Spec => []Rec!MirrorAccounted
<1>1. RecoveryInv => Rec!MirrorAccounted
  BY DEF RecoveryInv
<1> QED
  BY <1>1, RecoveryInvariant, PTL

\* A ticket that was redeemed or ran out never comes back, and an approval is
\* not taken over by another account.
THEOREM TicketsStay == ASSUME Rec!RecoveryAssumption PROVE Rec!Spec => [][Rec!TicketKept]_(Rec!recoveryVars)
<1>1. RecoveryInv /\ [Rec!Next]_(Rec!recoveryVars) => [Rec!TicketKept]_(Rec!recoveryVars)
  <2> SUFFICES ASSUME RecoveryInv, Rec!Next
               PROVE  Rec!TicketKept
    OBVIOUS
  <2>1. ticket \in [Rec!Tickets -> Rec!Records]
    BY DEF RecoveryInv, RecShapes
  <2>2. ASSUME NEW r \in Rec!Tickets, NEW v, errand[r].pc = "idle", ticket' = Rec!Stored(r, v)
        PROVE  Rec!TicketKept
    BY <2>2, <2>1 DEF RecoveryInv, RecFresh, Rec!At, Rec!Tickets, Rec!Doing, Rec!Stored, Rec!TicketKept,
       Rec!RecoveryAssumption
  <2>3. ASSUME NEW t, ticket' = Rec!Taken(t)
        PROVE  Rec!TicketKept
    BY <2>1, <2>3 DEF Rec!Taken, Rec!TicketKept
  <2>4. ASSUME UNCHANGED ticket
        PROVE  Rec!TicketKept
    BY <2>1, <2>4 DEF Rec!TicketKept
  <2>5. ASSUME NEW r \in RecRequests, Rec!RequestReset(r) \/ Rec!RequestPhoneChange(r) \/ Rec!BeginQR(r)
        PROVE  Rec!TicketKept
    BY <2>2, <2>4, <2>5 DEF Rec!RequestReset, Rec!RequestPhoneChange, Rec!BeginQR, Rec!At, Rec!Tickets,
                            Rec!Doing
  <2>6. ASSUME NEW r \in RecRequests,
               Rec!ConsumeResetToken(r) \/ Rec!ConsumePhoneCode(r) \/ Rec!ConsumeChallenge(r)
        PROVE  Rec!TicketKept
    BY <2>3, <2>4, <2>6 DEF Rec!ConsumeResetToken, Rec!ConsumePhoneCode, Rec!ConsumeChallenge, Rec!Perhaps
  <2>7. ASSUME NEW r \in RecRequests, Rec!Approve(r)
        PROVE  Rec!TicketKept
    BY <2>1, <2>4, <2>7 DEF Rec!Approvable, Rec!TicketKept, Rec!RecoveryAssumption, Rec!Approve
  <2>8. ASSUME NEW r \in RecRequests,
               \/ Rec!Limited(r) \/ Rec!SendMail(r) \/ Rec!SetPassword(r) \/ Rec!RevokeSessions(r)
               \/ Rec!SendCode(r)
               \/ Rec!UpdatePhone(r)
               \/ Rec!AuditApproval(r) \/ Rec!CanUseSession(r) \/ Rec!AuditReceiver(r) \/ Rec!CreateSession(r)
               \/ Rec!ChangeEmail(r) \/ Rec!Crash(r)
        PROVE  Rec!TicketKept
    BY <2>4, <2>8
       DEF Rec!Limited, Rec!SendMail, Rec!SetPassword, Rec!RevokeSessions, Rec!SendCode, Rec!UpdatePhone,
           Rec!AuditApproval, Rec!CanUseSession,
           Rec!AuditReceiver, Rec!CreateSession, Rec!ChangeEmail, Rec!BeginEmailChange, Rec!VerifyEmail,
           Rec!ReadEmail,
           Rec!UpdateVerifiedEmail, Rec!Crash
  <2> QED
    BY <2>3, <2>4, <2>5, <2>6, <2>7, <2>8 DEF Rec!Next, Rec!ResetPassword, Rec!ChangePhone, Rec!SignIn,
                                        Rec!Expire, Rec!Suspend
<1> QED
  BY <1>1, RecoveryInvariant, PTL DEF Rec!Spec

-----------------------------------------------------------------------------
(***************************************************************************)
(* Theorems about Notifications.  The advisory lock makes one worker the   *)
(* only one between the second look at a notification and its terminal     *)
(* event; so what the mail server accepted is what the records of it say,  *)
(* and what is not in a record is a record that was lost.                  *)
(***************************************************************************)
CONSTANTS
  Target,    \* the account each is about
  Accounts,
  Age,       \* when each operation occurred
  Batch,     \* notifications a pass takes on
  Workers,   \* one per API instance
  Notices    \* the notifications, one per operation

VARIABLES
  status,   \* database: the accounts
  event,    \* database: the last event of each notification
  holder,   \* database: the worker whose transaction locks the notification
  worker,   \* what each worker is doing
  outbox,   \* mail server: how often each message was accepted
  clock,    \* history: status of the target when each message was accepted
  doubled   \* history: how often a terminal event was lost after the mail

Mail == INSTANCE Notifications WITH Notes <- Notices

Holding == {"locked", "ready", "failing", "sent"}
Passes  == [pc : {"idle", "pass"} \cup Holding, batch : SUBSET Notices, note : Notices \cup {"none"},
            seen : {"none", "active"}]

MailShapes ==
  /\ status \in [Accounts -> {"pending", "active", "disabled", "missing"}]
  /\ event \in [Notices -> {"none", "pending"} \cup Mail!Terminal]
  /\ holder \in [Notices -> Workers \cup {"none"}]
  /\ worker \in [Workers -> Passes]
  /\ outbox \in [Notices -> Nat] /\ doubled \in [Notices -> Nat]
  /\ clock \in [Notices -> {"none", "active"}]
  /\ faults \in 0 .. MaxFaults

\* The lock of a notification and the pass of its worker know each other, and
\* a notification under way has not come to its end.
Locked ==
  /\ \A w \in Workers : worker[w].pc \in Holding => worker[w].note \in Notices /\ holder[worker[w].note] = w
  /\ \A n \in Notices : holder[n] # "none" =>
       worker[holder[n]].note = n /\ worker[holder[n]].pc \in Holding /\ event[n] = "pending"

\* What is about to go out goes to an account that was found active.
Checked == \A w \in Workers : worker[w].pc = "ready" => worker[w].seen = "active"

\* The worker that holds the notification has sent it.
OnItsWay(n) == holder[n] # "none" /\ worker[holder[n]].pc = "sent"

\* One message is accepted for each record of it, made or about to be, and for
\* each record that was lost.
Tallied ==
  \A n \in Notices :
    outbox[n] = doubled[n] + (IF event[n] = "delivered" \/ OnItsWay(n) THEN 1 ELSE 0)

Dated == \A n \in Notices : outbox[n] > 0 => clock[n] = "active"

NotesInv == MailShapes /\ Locked /\ Checked /\ Tallied /\ Dated

LEMMA NotesInit == Mail!NotificationAssumption /\ Mail!Init => NotesInv
  BY DEF Mail!NotificationAssumption, Mail!Init, NotesInv, MailShapes, Locked, Checked, Tallied, Dated,
         OnItsWay,
         Mail!Idle, Passes, Holding, Mail!Terminal

\* What the steps that end the work on a notification have in common.
LEMMA Leaves ==
  ASSUME Mail!NotificationAssumption, NotesInv, NEW w \in Workers, NEW n \in Notices, Mail!Next1(w, n)
  PROVE  /\ worker' \in [Workers -> Passes]
         /\ worker'[w].pc \in {"idle", "pass"} /\ worker'[w].note = "none"
         /\ \A v \in Workers \ {w} : worker'[v] = worker[v]
<1> DEFINE after == IF worker[w].batch \ {n} = {} THEN "idle" ELSE "pass"
           left == worker[w].batch \ {n}
<1>1. worker' = [worker EXCEPT ![w].pc = after, ![w].batch = left, ![w].note = "none", ![w].seen = "none"]
  BY Zenon DEF Mail!Next1
<1>2. worker \in [Workers -> Passes] /\ after \in {"idle", "pass"} /\ left \in SUBSET Notices
  BY DEF NotesInv, MailShapes, Passes
<1> HIDE DEF after, left
<1> DEFINE now == [worker[w] EXCEPT !.pc = after, !.batch = left, !.note = "none", !.seen = "none"]
<1>4. worker' = [worker EXCEPT ![w] = now]
  BY <1>1, <1>2
<1>5. now \in Passes /\ now.pc = after /\ now.note = "none"
  BY <1>2 DEF Passes
<1> HIDE DEF now
<1> QED
  BY <1>2, <1>4, <1>5

\* A change of authority is recorded once.
LEMMA RecordKeeps ==
  ASSUME Mail!NotificationAssumption, NotesInv, NEW n \in Notices, Mail!RecordTx(n)
  PROVE  NotesInv'
  BY DEF Mail!RecordTx, Mail!Recorded, NotesInv, MailShapes, Mail!NoFault, Locked, Checked, Tallied, Dated,
     OnItsWay, Mail!Terminal

LEMMA ListKeeps ==
  ASSUME Mail!NotificationAssumption, NotesInv, NEW w \in Workers, Mail!ListPending(w)
  PROVE  NotesInv'
<1>1. Mail!Oldest \subseteq Notices
  BY DEF Mail!Oldest
<1>2. /\ worker' \in [Workers -> Passes] /\ worker'[w].pc = "pass" /\ worker[w].pc = "idle"
      /\ \A v \in Workers \ {w} : worker'[v] = worker[v]
  BY ZenonT(120), <1>1 DEF Mail!ListPending, Mail!At, NotesInv, MailShapes, Passes
<1>3. UNCHANGED <<status, event, holder, outbox, clock, doubled, faults>>
  BY DEF Mail!ListPending, Mail!NoFault
<1> QED
  BY <1>2, <1>3 DEF NotesInv, MailShapes, Locked, Checked, Tallied, Dated, OnItsWay, Holding

LEMMA LockKeeps ==
  ASSUME Mail!NotificationAssumption, NotesInv, NEW w \in Workers, NEW n \in Notices, Mail!Lock(w, n)
  PROVE  NotesInv'
<1>1. UNCHANGED <<status, event, outbox, clock, doubled>> /\ faults' \in 0 .. MaxFaults
  BY DEF Mail!Lock, Mail!NoFault, Mail!Fault, NotesInv, MailShapes, Mail!NotificationAssumption
<1>2. CASE /\ holder[n] = "none" /\ Mail!Recheck(n)
           /\ holder' = [holder EXCEPT ![n] = w]
           /\ worker' = [worker EXCEPT ![w].pc = "locked", ![w].note = n]
  <2>1. /\ worker' \in [Workers -> Passes] /\ worker'[w].pc = "locked" /\ worker'[w].note = n
        /\ \A v \in Workers \ {w} : worker'[v] = worker[v]
    BY ZenonT(120), <1>2 DEF NotesInv, MailShapes, Passes, Holding
  <2>2. /\ holder' \in [Notices -> Workers \cup {"none"}] /\ holder'[n] = w
        /\ \A m \in Notices \ {n} : holder'[m] = holder[m]
    BY <1>2 DEF NotesInv, MailShapes
  <2>3. \A m \in Notices : holder[m] # w
    BY DEF Mail!Lock, Mail!At, NotesInv, Locked, Holding, Mail!NotificationAssumption
  <2> QED
    BY <1>1, <1>2, <2>1, <2>2, <2>3
       DEF NotesInv, MailShapes, Locked, Checked, Tallied, Dated, OnItsWay, Holding, Mail!Recheck, Mail!Pending,
           Mail!NotificationAssumption
<1>3. CASE Mail!Next1(w, n) /\ UNCHANGED holder
  <2>1. \A m \in Notices : holder[m] # w
    BY DEF Mail!Lock, Mail!At, NotesInv, Locked, Holding, Mail!NotificationAssumption
  <2> QED
    BY <1>1, <1>3, <2>1, Leaves
       DEF NotesInv, MailShapes, Locked, Checked, Tallied, Dated, OnItsWay, Holding
<1> QED
  BY <1>2, <1>3 DEF Mail!Lock

\* A worker that gives the lock back without a record.
LEMMA ReleaseKeeps ==
  ASSUME Mail!NotificationAssumption, NotesInv, NEW w \in Workers, worker[w].pc \in Holding,
         Mail!Next1(w, Mail!Note(w)), Mail!Released(w), UNCHANGED status,
         event' = event \/ event' = [event EXCEPT ![Mail!Note(w)] = Mail!Outcome(w)],
         faults' \in 0 .. MaxFaults,
         outbox' \in [Notices -> Nat], doubled' \in [Notices -> Nat], clock' \in [Notices -> {"none", "active"}],
         \A m \in Notices : outbox'[m] > 0 => clock'[m] = "active",
         \A m \in Notices \ {Mail!Note(w)} : outbox'[m] = outbox[m] /\ doubled'[m] = doubled[m],
         outbox'[Mail!Note(w)] = doubled'[Mail!Note(w)] + (IF event'[Mail!Note(w)] = "delivered" THEN 1 ELSE 0)
  PROVE  NotesInv'
<1>1. Mail!Note(w) \in Notices /\ holder[Mail!Note(w)] = w
  BY DEF NotesInv, Locked, Mail!Note
<1>2. /\ event' \in [Notices -> {"none", "pending"} \cup Mail!Terminal]
      /\ \A m \in Notices \ {Mail!Note(w)} : event'[m] = event[m]
  BY <1>1 DEF Mail!Outcome, Mail!Terminal, NotesInv, MailShapes
<1>3. /\ holder' \in [Notices -> Workers \cup {"none"}] /\ holder'[Mail!Note(w)] = "none"
      /\ \A m \in Notices \ {Mail!Note(w)} : holder'[m] = holder[m] /\ holder[m] # w
  BY <1>1 DEF Mail!Released, NotesInv, MailShapes, Locked, Mail!Note, Mail!NotificationAssumption
<1>4. MailShapes' /\ Checked' /\ Dated'
  BY <1>1, <1>2, <1>3, Leaves DEF NotesInv, MailShapes, Checked, Dated, Passes
<1>5. Locked'
  BY <1>1, <1>2, <1>3, Leaves DEF NotesInv, MailShapes, Locked, Holding
<1>6. ASSUME NEW m \in Notices
      PROVE  (outbox[m] = doubled[m] + (IF event[m] = "delivered" \/ OnItsWay(m) THEN 1 ELSE 0))'
  BY <1>6, <1>3, <1>1, Leaves, <1>2 DEF OnItsWay, NotesInv, MailShapes, Tallied
<1> QED
  BY <1>4, <1>5, <1>6 DEF NotesInv, Tallied

\* A worker that goes on with the notification it holds.
LEMMA MailMoveKeeps ==
  ASSUME Mail!NotificationAssumption, NotesInv, NEW w \in Workers, worker[w].pc \in Holding,
         NEW p \in Holding, NEW s \in {"none", "active"}, p = "ready" => s = "active",
         worker' \in [Workers -> Passes], worker'[w].pc = p, worker'[w].seen = s,
         worker'[w].note = worker[w].note, \A v \in Workers \ {w} : worker'[v] = worker[v],
         UNCHANGED <<status, event, holder, doubled>>, faults' \in 0 .. MaxFaults,
         \/ p # "sent" /\ worker[w].pc # "sent" /\ UNCHANGED <<outbox, clock>>
         \/ p = "sent" /\ worker[w].pc # "sent" /\ Mail!Accepted(Mail!Note(w), "active")
  PROVE  NotesInv'
  BY DEF NotesInv, Locked, Mail!Note, MailShapes, Checked, Holding, Mail!Accepted, Dated, OnItsWay,
     Mail!NotificationAssumption, Tallied

\* A notification that is held and not yet sent has no message that is not
\* accounted for by a lost record.
LEMMA Unsent ==
  ASSUME Mail!NotificationAssumption, NotesInv, NEW w \in Workers, worker[w].pc \in Holding
  PROVE  /\ Mail!Note(w) \in Notices /\ holder[Mail!Note(w)] = w /\ event[Mail!Note(w)] = "pending"
         /\ outbox[Mail!Note(w)] \in Nat /\ doubled[Mail!Note(w)] \in Nat
         /\ worker[w].pc # "sent" => outbox[Mail!Note(w)] = doubled[Mail!Note(w)]
         /\ worker[w].pc = "sent" => outbox[Mail!Note(w)] = doubled[Mail!Note(w)] + 1
  BY DEF NotesInv, Locked, Mail!Note, MailShapes, Tallied, OnItsWay, Mail!NotificationAssumption

LEMMA ReadKeeps ==
  ASSUME Mail!NotificationAssumption, NotesInv, NEW w \in Workers, Mail!ReadTarget(w)
  PROVE  NotesInv'
<1> DEFINE s == status[Target[Mail!Note(w)]]
<1>1. /\ worker[w].pc = "locked" /\ worker[w].pc \in Holding
      /\ UNCHANGED <<status, event, outbox, clock, doubled>> /\ faults' \in 0 .. MaxFaults
  BY DEF Mail!ReadTarget, Mail!At, Mail!NoFault, Mail!Fault, Holding, NotesInv, MailShapes,
         Mail!NotificationAssumption
<1>2. CASE Mail!Ready(s) /\ worker' = [worker EXCEPT ![w].pc = "ready", ![w].seen = s] /\ UNCHANGED holder
  <2>1. /\ worker' \in [Workers -> Passes] /\ worker'[w].pc = "ready" /\ worker'[w].seen = "active"
        /\ worker'[w].note = worker[w].note /\ \A v \in Workers \ {w} : worker'[v] = worker[v]
    BY ZenonT(120), <1>2 DEF Mail!Ready, NotesInv, MailShapes, Passes, Holding
  <2> QED
    BY <1>1, <1>2, <2>1, MailMoveKeeps DEF Holding
<1>3. CASE worker' = [worker EXCEPT ![w].pc = "failing"] /\ UNCHANGED holder
  BY SMTT(40), <1>3, <1>1, MailMoveKeeps DEF NotesInv, MailShapes, Passes, Holding
<1>4. CASE Mail!Next1(w, Mail!Note(w)) /\ Mail!Released(w)
  BY <1>1, <1>4, Unsent, ReleaseKeeps DEF NotesInv, MailShapes, Dated
<1> QED
  BY <1>1, <1>2, <1>3, <1>4 DEF Mail!ReadTarget

LEMMA SendKeeps ==
  ASSUME Mail!NotificationAssumption, NotesInv, NEW w \in Workers, Mail!Send(w)
  PROVE  NotesInv'
<1> DEFINE n == Mail!Note(w)
<1>1. /\ worker[w].pc = "ready" /\ worker[w].pc \in Holding /\ worker[w].seen = "active"
      /\ UNCHANGED <<status, event>> /\ faults' \in 0 .. MaxFaults
  BY DEF Mail!Send, Mail!At, Mail!NoFault, Mail!Fault, Holding, NotesInv, Checked, MailShapes,
         Mail!NotificationAssumption
<1>2. ASSUME NEW p \in {"sent", "failing"}, worker' = [worker EXCEPT ![w].pc = p]
      PROVE  /\ worker' \in [Workers -> Passes] /\ worker'[w].pc = p /\ worker'[w].seen = "active"
             /\ worker'[w].note = worker[w].note /\ \A v \in Workers \ {w} : worker'[v] = worker[v]
  BY ZenonT(120), <1>1, <1>2 DEF NotesInv, MailShapes, Passes, Holding
<1>3. CASE Mail!Accepted(n, worker[w].seen) /\ worker' = [worker EXCEPT ![w].pc = "sent"]
           /\ UNCHANGED <<holder, doubled>>
  BY <1>1, <1>3, <1>2, MailMoveKeeps DEF Holding
<1>4. CASE Mail!Accepted(n, worker[w].seen) /\ Mail!Next1(w, n) /\ Mail!Released(w)
           /\ doubled' = [doubled EXCEPT ![n] = @ + 1]
  BY <1>1, <1>4, Unsent, ReleaseKeeps DEF Mail!Accepted, NotesInv, MailShapes, Dated
<1>5. CASE worker' = [worker EXCEPT ![w].pc = "failing"] /\ UNCHANGED <<holder, outbox, clock, doubled>>
  BY <1>2, <1>5, <1>1, MailMoveKeeps DEF Holding
<1>6. CASE Mail!Next1(w, n) /\ Mail!Released(w) /\ UNCHANGED <<outbox, clock, doubled>>
  BY <1>1, <1>6, Unsent, ReleaseKeeps DEF NotesInv, MailShapes, Dated
<1> QED
  BY <1>3, <1>4, <1>5, <1>6 DEF Mail!Send

LEMMA AppendKeeps ==
  ASSUME Mail!NotificationAssumption, NotesInv, NEW w \in Workers, Mail!AppendTerminal(w)
  PROVE  NotesInv'
<1> DEFINE n == Mail!Note(w)
<1>1. /\ worker[w].pc \in {"sent", "failing"} /\ worker[w].pc \in Holding
      /\ Mail!Next1(w, n) /\ Mail!Released(w)
      /\ UNCHANGED <<status, outbox, clock>> /\ faults' \in 0 .. MaxFaults
  BY DEF Mail!AppendTerminal, Mail!NoFault, Mail!Fault, Holding, NotesInv, MailShapes,
         Mail!NotificationAssumption
<1>2. /\ outbox' \in [Notices -> Nat] /\ clock' \in [Notices -> {"none", "active"}]
      /\ \A m \in Notices : outbox'[m] > 0 => clock'[m] = "active"
  BY <1>1 DEF NotesInv, MailShapes, Dated
<1>3. CASE event' = [event EXCEPT ![n] = Mail!Outcome(w)] /\ UNCHANGED doubled
  <2>1. event'[n] = Mail!Outcome(w)
    BY <1>1, <1>3, Unsent DEF NotesInv, MailShapes
  <2>2. outbox'[n] = doubled'[n] + (IF event'[n] = "delivered" THEN 1 ELSE 0)
    BY <1>1, <1>3, <2>1, Unsent DEF Mail!Outcome, Mail!At
  <2>3. doubled' \in [Notices -> Nat]
    BY <1>3 DEF NotesInv, MailShapes
  <2> QED
    BY <1>1, <1>2, <1>3, <2>2, <2>3, ReleaseKeeps
<1>4. CASE UNCHANGED event /\ doubled' = [doubled EXCEPT ![n] = IF Mail!At(w, "sent") THEN @ + 1 ELSE @]
  BY <1>1, <1>4, Unsent, <1>2, ReleaseKeeps DEF Mail!At, NotesInv, MailShapes
<1> QED
  BY <1>3, <1>4 DEF Mail!AppendTerminal

LEMMA MailCrashKeeps ==
  ASSUME Mail!NotificationAssumption, NotesInv, NEW w \in Workers, Mail!CrashWorker(w)
  PROVE  NotesInv'
<1>1. /\ worker' = [worker EXCEPT ![w] = Mail!Idle] /\ faults' \in 0 .. MaxFaults
      /\ holder' = [n \in Notices |-> IF holder[n] = w THEN "none" ELSE holder[n]]
      /\ doubled' = [n \in Notices |-> IF Mail!At(w, "sent") /\ n = Mail!Note(w) THEN doubled[n] + 1 ELSE doubled[n]]
      /\ UNCHANGED <<status, event, outbox, clock>>
  BY DEF Mail!CrashWorker, Mail!Fault, NotesInv, MailShapes, Mail!NotificationAssumption
<1>2. /\ worker' \in [Workers -> Passes] /\ worker'[w].pc = "idle"
      /\ \A v \in Workers \ {w} : worker'[v] = worker[v]
  BY <1>1 DEF NotesInv, MailShapes, Passes, Mail!Idle
<1>3. /\ doubled' \in [Notices -> Nat] /\ holder' \in [Notices -> Workers \cup {"none"}]
  BY <1>1 DEF NotesInv, MailShapes
<1>4. MailShapes' /\ Checked' /\ Dated'
  BY <1>1, <1>2, <1>3 DEF NotesInv, MailShapes, Checked, Dated
<1>5. Locked'
  BY <1>1, <1>2, <1>3 DEF NotesInv, MailShapes, Locked, Holding, Mail!NotificationAssumption
<1>6. ASSUME NEW m \in Notices
      PROVE  (outbox[m] = doubled[m] + (IF event[m] = "delivered" \/ OnItsWay(m) THEN 1 ELSE 0))'
  BY <1>6, <1>1, Unsent, <1>2 DEF NotesInv, Locked, Mail!Note, OnItsWay, Mail!NotificationAssumption, Mail!At,
     MailShapes, Holding, Tallied
<1> QED
  BY <1>4, <1>5, <1>6 DEF NotesInv, Tallied

\* Every step keeps the invariant.
LEMMA NotesStep == Mail!NotificationAssumption /\ NotesInv /\ [Mail!Next]_(Mail!notificationVars) => NotesInv'
<1> SUFFICES ASSUME Mail!NotificationAssumption, NotesInv, [Mail!Next]_(Mail!notificationVars) PROVE NotesInv'
  OBVIOUS
<1>1. ASSUME NEW n \in Notices, Mail!RecordTx(n) PROVE NotesInv'
  BY <1>1, RecordKeeps
<1>2. ASSUME NEW w \in Workers, Mail!RunOnce(w) PROVE NotesInv'
  BY <1>2, ListKeeps, LockKeeps, ReadKeeps, SendKeeps, AppendKeeps DEF Mail!RunOnce, Mail!Dispatch
<1>3. ASSUME NEW w \in Workers, Mail!CrashWorker(w) PROVE NotesInv'
  BY <1>3, MailCrashKeeps
<1>4. ASSUME NEW a \in Accounts, Mail!StatusChange(a) PROVE NotesInv'
  BY <1>4 DEF Mail!StatusChange, Mail!NoFault, NotesInv, MailShapes, Locked, Checked, Tallied, Dated, OnItsWay
<1>5. CASE UNCHANGED Mail!notificationVars
  BY <1>5 DEF Mail!notificationVars, NotesInv, MailShapes, Locked, Checked, Tallied, Dated, OnItsWay
<1> QED
  BY <1>1, <1>2, <1>3, <1>4, <1>5 DEF Mail!Next

THEOREM NotesInvariant == ASSUME Mail!NotificationAssumption PROVE Mail!Spec => []NotesInv
<1>1. Mail!Init => NotesInv
  BY NotesInit
<1>2. NotesInv /\ [Mail!Next]_(Mail!notificationVars) => NotesInv'
  BY NotesStep
<1> QED BY <1>1, <1>2, PTL DEF Mail!Spec

\* Accounts, events, locks and passes keep their form.
THEOREM NoteTypes == ASSUME Mail!NotificationAssumption PROVE Mail!Spec => []Mail!TypeOK
<1>1. NotesInv => Mail!TypeOK
  BY DEF NotesInv, MailShapes, Locked, Mail!TypeOK, Passes, Holding
<1> QED BY <1>1, NotesInvariant, PTL

\* A message goes out once more only when the record of an earlier sending was
\* lost, however many workers have it on their lists (the advisory lock and the
\* second look of the dispatcher).
THEOREM MailedOnce == ASSUME Mail!NotificationAssumption PROVE Mail!Spec => []Mail!SentOnce
<1>1. NotesInv => Mail!SentOnce
  BY DEF NotesInv, MailShapes, Tallied, Mail!SentOnce
<1> QED BY <1>1, NotesInvariant, PTL

\* Delivered is said of what was accepted for an active account, and failed of
\* nothing whose sending is on record.
THEOREM DeliveredTrue == ASSUME Mail!NotificationAssumption PROVE Mail!Spec => []Mail!DeliveredWasSent
<1>1. NotesInv => Mail!DeliveredWasSent
  BY DEF NotesInv, MailShapes, Locked, Tallied, Dated, OnItsWay, Mail!DeliveredWasSent
<1> QED BY <1>1, NotesInvariant, PTL

\* A terminal event is the last one: a replay of the operation finds its row,
\* and only the worker with the lock appends.
THEOREM TerminalStays == ASSUME Mail!NotificationAssumption PROVE Mail!Spec => [][Mail!TerminalKept]_(Mail!notificationVars)
<1>1. ASSUME NotesInv, [Mail!Next]_(Mail!notificationVars) PROVE [Mail!TerminalKept]_(Mail!notificationVars)
  <2>1. ASSUME NEW n \in Notices, Mail!RecordTx(n) PROVE Mail!TerminalKept
    BY <1>1, <2>1 DEF Mail!RecordTx, Mail!Recorded, Mail!TerminalKept, Mail!Final, Mail!Terminal, NotesInv,
                      MailShapes
  <2>2. ASSUME NEW w \in Workers, Mail!AppendTerminal(w) PROVE Mail!TerminalKept
    BY <1>1, <2>2, Unsent DEF Mail!AppendTerminal, Holding, Mail!TerminalKept, Mail!Final, Mail!Terminal,
       NotesInv, MailShapes
  <2>3. ASSUME UNCHANGED event PROVE Mail!TerminalKept
    BY <2>3 DEF Mail!TerminalKept, Mail!Final
  <2>4. CASE UNCHANGED Mail!notificationVars
    BY <2>4
  <2> QED
    BY <1>1, <2>1, <2>2, <2>3, <2>4
       DEF Mail!Next, Mail!RunOnce, Mail!Dispatch, Mail!ListPending, Mail!Lock, Mail!ReadTarget, Mail!Send,
           Mail!CrashWorker, Mail!StatusChange
<1> QED BY <1>1, NotesInvariant, PTL DEF Mail!Spec
=============================================================================
