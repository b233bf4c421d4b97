----------------------------- MODULE AdminStepUp -----------------------------
(***************************************************************************)
(* The security question of one administrator: enrolment, verification and *)
(* rotation.  Each is a serializable transaction that also keeps a receipt *)
(* under the caller's idempotency key, so that a retry repeats the answer  *)
(* and not the effect.  A verification writes the session's proof and, for *)
(* a high-risk action, a one-shot grant in Redis before it commits.        *)
(***************************************************************************)
EXTENDS Naturals, FiniteSets

CONSTANTS
  Requests,   \* HTTP requests, each run once
  InputOf,    \* what each request asks for
  KeyOf,      \* its idempotency key
  Sessions,   \* browser sessions of the administrator
  MaxFailures, \* wrong answers that lock the question
  MaxTries,   \* answers the rate limiter lets through
  MaxActive,  \* model bound: requests that arrive in one run
  MaxFaults   \* model bound: failures and lost commits

Inputs == [kind : {"enroll", "verify", "rotate"}, answer : Nat, session : Sessions,
           risk : {"low", "high"}, rotates : BOOLEAN, mfa : BOOLEAN]

StepUpAssumption ==
  /\ InputOf \in [Requests -> Inputs]
  /\ MaxFailures \in Nat \ {0} /\ {MaxTries, MaxActive, MaxFaults} \subseteq Nat

VARIABLES
  cred,     \* admin_challenges: the row of this administrator
  receipts, \* local operation receipts, by idempotency key
  proofs,   \* admin_step_up_state: the active proofs
  grants,   \* one-shot grants in Redis
  tries,    \* the rate limiter's counter
  counted,  \* the keys whose wrong answer is in the failure count
  req,      \* what each request is doing
  faults    \* failures so far

stepupVars == <<cred, receipts, proofs, grants, tries, counted, req, faults>>

-----------------------------------------------------------------------------
(* Types *)

Keys    == {KeyOf[r] : r \in Requests}
NoRow   == [status |-> "absent", must |-> FALSE, gen |-> 0, version |-> 0, failures |-> 0,
            window |-> FALSE, locked |-> FALSE]
Results == {"enrolled", "rotated", "verified", "rejected", "locked"}
Refusals == {"disabled", "conflict", "unavailable", "limited", "unenrolled", "must_rotate"}
NoTx    == [cred |-> NoRow, proofs |-> {}, right |-> FALSE]

Labels  == {"idle", "open", "grant", "commit", "done"}

Row     == [status: {"absent", "active", "recovery"}, must: BOOLEAN, gen: Nat, version: Nat,
            failures: 0 .. MaxFailures, window: BOOLEAN, locked: BOOLEAN]
Proofs  == [by: Requests, session: Sessions, gen: Nat]
Receipt == [result: Results \cup {"none"}, input: SUBSET [input: Inputs, seen: Nat]]

TypeOK ==
  /\ cred \in Row
  /\ receipts \in [Keys -> Receipt]
  /\ proofs \subseteq Proofs
  /\ grants \subseteq [by: Requests, gen: Nat]
  /\ tries \in 0 .. MaxTries + 1 /\ counted \subseteq Keys
  /\ req \in [Requests -> [pc: Labels, seen: Nat, ran: BOOLEAN,
                           tx: [cred: Row, proofs: SUBSET Proofs, right: BOOLEAN],
                           answer: Results \cup Refusals \cup {"none"}]]
  /\ faults \in 0 .. MaxFaults

\* The bootstrap command leaves a credential that must be rotated, a rotation
\* an active one; an operator may have put one into recovery.
Init ==
  /\ cred \in {NoRow,
               [NoRow EXCEPT !.status = "active", !.must = TRUE, !.gen = 1, !.version = 1],
               [NoRow EXCEPT !.status = "active", !.gen = 1, !.version = 1],
               [NoRow EXCEPT !.status = "recovery", !.gen = 1, !.version = 1]}
  /\ receipts = [k \in Keys |-> [result |-> "none", input |-> {}]]
  /\ proofs = {} /\ grants = {} /\ tries = 0 /\ counted = {}
  /\ \E active \in SUBSET Requests :
       /\ Cardinality(active) = MaxActive
       /\ req = [r \in Requests |-> [pc |-> IF r \in active THEN "idle" ELSE "done", seen |-> 0,
                                     tx |-> NoTx, ran |-> FALSE, answer |-> "none"]]
  /\ faults = 0

-----------------------------------------------------------------------------
(* Steps *)

At(r, label) == req[r].pc = label
NoFault      == UNCHANGED faults
Fault        == faults < MaxFaults /\ faults' = faults + 1
Answer(r, a) == req' = [req EXCEPT ![r].pc = "done", ![r].tx = NoTx, ![r].answer = a]
Input(r)     == InputOf[r]

\* The optimistic version travels with the request: the browser read it
\* before.
View(r) == req[r].seen
Fingerprint(r) == [input |-> Input(r), seen |-> View(r)]

-----------------------------------------------------------------------------
(* The challenge row *)

\* A new credential forgets the failures of the one before.
PutCredential_FailuresKept(x) ==
  [x EXCEPT !.status = "active", !.must = FALSE, !.gen = @ + 1, !.version = @ + 1,
            !.window = FALSE, !.locked = FALSE]
PutCredential(x) ==
  [x EXCEPT !.status = "active", !.must = FALSE, !.gen = @ + 1, !.version = @ + 1,
            !.failures = 0, !.window = FALSE, !.locked = FALSE]

\* The count restarts with its window, and locks the row at the limit.
RecordFailure(x) ==
  LET n == IF x.window THEN x.failures + 1 ELSE 1 IN
  [x EXCEPT !.failures = n, !.window = TRUE, !.locked = @ \/ n >= MaxFailures, !.version = @ + 1]

\* A session has one active proof: the new one replaces it.
PutStepUp_Added(r, x) ==
  proofs \cup {[by |-> r, session |-> Input(r).session, gen |-> x.gen]}
PutStepUp(r, x) ==
  {p \in proofs : p.session # Input(r).session}
    \cup {[by |-> r, session |-> Input(r).session, gen |-> x.gen]}

-----------------------------------------------------------------------------
(* A request *)

\* A session without multi-factor proof may enrol only the first credential.
InitialEnrollmentAllowed == cred.status = "absent"
AllowEnrollment(r) == Input(r).mfa \/ InitialEnrollmentAllowed

\* The role is looked up before the transaction, and the version a rotation
\* expects was read earlier still.  A role may be taken away at any time.
RequireBinding(r) ==
  /\ At(r, "idle")
  /\ \/ /\ Input(r).kind = "enroll" => AllowEnrollment(r)
        /\ req' = [req EXCEPT ![r].pc = "open", ![r].seen = cred.version] /\ NoFault
     \/ Answer(r, "disabled") /\ NoFault
     \/ Answer(r, "unavailable") /\ Fault
  /\ UNCHANGED <<cred, receipts, proofs, grants, tries, counted>>

\* What the receipt of the same key says, if there is one.
Replay(r) ==
  LET old == receipts[KeyOf[r]] IN
  /\ old.result # "none"
  /\ Answer(r, IF Fingerprint(r) \in old.input THEN old.result ELSE "conflict")
  /\ UNCHANGED tries

\* The refusals that the first reads of the transaction give: they roll the
\* receipt back, and the same key may try again.
Refused(r) ==
  LET in == Input(r) IN
  IF in.kind = "enroll" THEN IF cred.status = "active" THEN "conflict" ELSE "none"
  ELSE IF cred.status # "active" THEN "unenrolled"
  ELSE IF in.kind = "rotate" /\ cred.version # View(r) THEN "conflict"
  ELSE IF in.kind = "verify" /\ cred.must /\ ~in.rotates THEN "must_rotate"
  ELSE IF cred.locked THEN "locked" ELSE "none"

\* The limiter counts every answer, also those it turns down; no rollback
\* takes the count back.
LimiterCheck(r) == tries' = IF tries > MaxTries THEN tries ELSE tries + 1

\* The snapshot the transaction reads, and whether the answer fits.
Proceed(r) ==
  LET in == Input(r) IN
  /\ LimiterCheck(r)
  /\ IF tries >= MaxTries THEN Answer(r, "limited")
     ELSE req' = [req EXCEPT ![r].pc = IF in.kind = "verify" /\ in.risk = "high"
                                          /\ in.answer = cred.gen THEN "grant" ELSE "commit",
                             ![r].tx = [cred |-> cred, proofs |-> proofs,
                                        right |-> in.answer = cred.gen]]

EnrollReads(r) ==
  /\ req' = [req EXCEPT ![r].pc = "commit", ![r].tx = [cred |-> cred, proofs |-> proofs,
                                                       right |-> TRUE]]
  /\ UNCHANGED tries

Open(r) ==
  /\ At(r, "open")
  /\ \/ Replay(r) /\ NoFault
     \/ /\ receipts[KeyOf[r]].result = "none" /\ NoFault
        /\ IF Refused(r) # "none" THEN Answer(r, Refused(r)) /\ UNCHANGED tries
           ELSE IF Input(r).kind = "enroll" THEN EnrollReads(r) ELSE Proceed(r)
     \/ Answer(r, "unavailable") /\ UNCHANGED tries /\ Fault
  /\ UNCHANGED <<cred, receipts, proofs, grants, counted>>

\* The grant is created outside the transaction and before it commits.
CreateGrant(r) ==
  /\ At(r, "grant")
  /\ \/ /\ grants' = grants \cup {[by |-> r, gen |-> req[r].tx.cred.gen]}
        /\ req' = [req EXCEPT ![r].pc = "commit"] /\ NoFault
     \/ UNCHANGED grants /\ Answer(r, "unavailable") /\ Fault
  /\ UNCHANGED <<cred, receipts, proofs, tries, counted>>

-----------------------------------------------------------------------------
(* Commit *)

\* What the isolation level refuses: a receipt of the same key that another
\* transaction committed, a row it wrote that this one writes too, and the
\* cycle of a rotation and a verification that did not see each other.
NoCycle_ReadCommitted(r) == TRUE
NoCycle(r) ==
  LET tx == req[r].tx  kind == Input(r).kind IN
  /\ tx.right /\ kind = "verify" =>
       /\ tx.cred.gen = cred.gen
       /\ \A p \in proofs \ tx.proofs : p.session # Input(r).session
  /\ kind = "rotate" /\ tx.right => proofs \subseteq tx.proofs

\* Failures and new credentials are conditional on the version read.
SameVersion_Blind(r) == TRUE
SameVersion(r) ==
  cred.version # req[r].tx.cred.version => req[r].tx.right /\ Input(r).kind = "verify"

Committable_KeyReused(r) == SameVersion(r) /\ NoCycle(r)
Committable(r) ==
  /\ receipts[KeyOf[r]].result = "none"
  /\ SameVersion(r) /\ NoCycle(r)

Outcome(r) ==
  IF Input(r).kind = "enroll" THEN "enrolled"
  ELSE IF ~req[r].tx.right THEN IF RecordFailure(cred).locked THEN "locked" ELSE "rejected"
  ELSE IF Input(r).kind = "rotate" THEN "rotated" ELSE "verified"

CompleteLocal(r) ==
  receipts' = [receipts EXCEPT ![KeyOf[r]] = [result |-> Outcome(r), input |-> {Fingerprint(r)}]]

\* A rotation revokes every proof of the old credential.
Rotate_ProofsKept(r) == cred' = PutCredential(cred) /\ counted' = {} /\ UNCHANGED proofs
Rotate(r) == cred' = PutCredential(cred) /\ counted' = {} /\ proofs' = {}
Enroll(r) == cred' = PutCredential(cred) /\ counted' = {} /\ UNCHANGED proofs
Reject(r) ==
  /\ cred' = RecordFailure(cred) /\ UNCHANGED proofs
  /\ counted' = (IF cred.window THEN counted ELSE {}) \cup {KeyOf[r]}
Verify(r) == proofs' = PutStepUp(r, req[r].tx.cred) /\ UNCHANGED <<cred, counted>>

Effect(r) ==
  CASE Outcome(r) = "enrolled" -> Enroll(r)
    [] Outcome(r) = "rotated"  -> Rotate(r)
    [] Outcome(r) = "verified" -> Verify(r)
    [] OTHER                   -> Reject(r)

\* The bearer of the grant leaves the server only with a committed answer.
Commit_AnswerFirst(r) ==
  /\ At(r, "commit")
  /\ \/ /\ Committable(r) /\ Effect(r) /\ CompleteLocal(r) /\ NoFault
        /\ req' = [req EXCEPT ![r].pc = "done", ![r].tx = NoTx, ![r].ran = TRUE,
                              ![r].answer = Outcome(r)]
     \/ /\ ~Committable(r) /\ UNCHANGED <<cred, receipts, proofs, counted>>
        /\ Answer(r, Outcome(r)) /\ NoFault
     \/ UNCHANGED <<cred, receipts, proofs, counted>> /\ Answer(r, Outcome(r)) /\ Fault
  /\ UNCHANGED <<grants, tries>>

Commit(r) ==
  /\ At(r, "commit")
  /\ \/ /\ Committable(r) /\ Effect(r) /\ CompleteLocal(r) /\ NoFault
        /\ req' = [req EXCEPT ![r].pc = "done", ![r].tx = NoTx, ![r].ran = TRUE,
                              ![r].answer = Outcome(r)]
     \/ /\ ~Committable(r) /\ UNCHANGED <<cred, receipts, proofs, counted>>
        /\ Answer(r, "conflict") /\ NoFault
     \/ /\ UNCHANGED <<cred, receipts, proofs, counted>> /\ Answer(r, "unavailable") /\ Fault
     \/ /\ Committable(r) /\ Effect(r) /\ CompleteLocal(r) /\ Fault
        /\ req' = [req EXCEPT ![r].pc = "done", ![r].tx = NoTx, ![r].ran = TRUE,
                              ![r].answer = "unavailable"]
  /\ UNCHANGED <<grants, tries>>

-----------------------------------------------------------------------------
(* Time *)

\* The window of 15 minutes has gone by when the lock of 30 ends.
WindowEnds ==
  /\ cred.window /\ cred' = [cred EXCEPT !.window = FALSE]
  /\ UNCHANGED <<receipts, proofs, grants, tries, counted, req, faults>>
LockEnds ==
  /\ cred.locked /\ ~cred.window /\ cred' = [cred EXCEPT !.locked = FALSE]
  /\ UNCHANGED <<receipts, proofs, grants, tries, counted, req, faults>>
TriesEnd ==
  /\ tries > 0 /\ tries' = 0
  /\ UNCHANGED <<cred, receipts, proofs, grants, counted, req, faults>>
ProofExpires ==
  /\ \E p \in proofs : proofs' = proofs \ {p}
  /\ UNCHANGED <<cred, receipts, grants, tries, counted, req, faults>>

StepUp(r) == RequireBinding(r) \/ Open(r) \/ CreateGrant(r) \/ Commit(r)

Next == (\E r \in Requests : StepUp(r)) \/ WindowEnds \/ LockEnds \/ TriesEnd
        \/ ProofExpires

Spec == Init /\ [][Next]_stepupVars

-----------------------------------------------------------------------------
(* Properties *)

\* No wrong answer that was told to its caller is missing from the failure
\* count, and none is in it twice.
WrongAnswersCounted ==
  cred.failures = Cardinality(counted)

\* The operation of an idempotency key takes effect once, also when the first
\* answer was lost.
OneEffect == \A r, s \in Requests : req[r].ran /\ req[s].ran /\ KeyOf[r] = KeyOf[s] => r = s

\* A definite answer tells what the receipt of its key tells.
AnswerRecorded ==
  \A r \in Requests : req[r].answer \in Results \ {"locked"} =>
    receipts[KeyOf[r]].result = req[r].answer

\* A proof never outlives the credential it was given for.
ProofsOfThisCredential == \A p \in proofs : p.gen = cred.gen

\* A session has one proof.
OneProof == \A p, q \in proofs : p.session = q.session => p = q

=============================================================================
