-------------------------- MODULE AdminProofs --------------------------
(***************************************************************************)
(* What an administrator's requests rest on, proved for any numbers of     *)
(* requests, keys, tokens and failures: the security question              *)
(* (AdminStepUp), the requests for identities and roles (IdentityAccess)   *)
(* and the ledger of mutations (MutationLedger), one after the other.  The *)
(* components share no step here, only names: each has its own Spec, and   *)
(* its assumption on the constants is a hypothesis of each theorem.        *)
(***************************************************************************)
EXTENDS AdminStepUp, FiniteSetTheorems, TLAPS

Kind(r) == Input(r).kind

-----------------------------------------------------------------------------
(* Inductive invariants *)

\* What ran has a receipt, and so has a wrong answer that is counted.
Filed ==
  /\ \A r \in Requests : req[r].ran => receipts[KeyOf[r]].result # "none"
  /\ \A k \in counted : receipts[k].result # "none"

\* A snapshot is of this version or an older one; one of this version is of
\* this credential, which has not been locked since.
Snapshot(r) ==
  LET read == req[r].tx.cred IN
  req[r].pc \in {"grant", "commit"} =>
    /\ read.version <= cred.version
    /\ read.version = cred.version =>
         /\ read.gen = cred.gen /\ read.status = cred.status
         /\ cred.locked => read.locked
    /\ IF Kind(r) = "enroll" THEN read.status # "active" /\ req[r].tx.right
       ELSE read.status = "active" /\ cred.status = "active" /\ ~read.locked
    /\ req[r].pc = "grant" => Kind(r) = "verify"
Snapshots == \A r \in Requests : Snapshot(r)

\* Only an active credential has proofs.
Dormant == cred.status # "active" => proofs = {}

\* The count stays below the limit until the row is locked.
Counting ==
  /\ IsFiniteSet(counted) /\ WrongAnswersCounted
  /\ cred.window /\ ~cred.locked => cred.failures < MaxFailures

StepUpInv ==
  /\ TypeOK /\ Filed /\ Snapshots /\ Dormant /\ Counting
  /\ OneEffect /\ AnswerRecorded /\ ProofsOfThisCredential /\ OneProof

-----------------------------------------------------------------------------
(* Helpers *)

Asked == [pc: Labels, seen: Nat, ran: BOOLEAN,
          tx: [cred: Row, proofs: SUBSET Proofs, right: BOOLEAN],
          answer: Results \cup Refusals \cup {"none"}]

LEMMA InputTypes ==
  ASSUME StepUpAssumption, NEW r \in Requests
  PROVE  /\ KeyOf[r] \in Keys /\ Input(r) \in Inputs /\ Kind(r) \in {"enroll", "verify", "rotate"}
         /\ Input(r).session \in Sessions
BY DEF StepUpAssumption, Keys, Input, Inputs, Kind

LEMMA NoRowTypes ==
  ASSUME StepUpAssumption
  PROVE  NoRow \in Row /\ NoTx \in [cred: Row, proofs: SUBSET Proofs, right: BOOLEAN]
BY DEF StepUpAssumption, NoRow, Row, NoTx

\* A new credential, and a failure of one that is not at its limit.
LEMMA CredentialTypes ==
  ASSUME StepUpAssumption, NEW x \in Row
  PROVE  /\ PutCredential(x) \in Row
         /\ PutCredential(x).version = x.version + 1 /\ PutCredential(x).status = "active"
         /\ PutCredential(x).failures = 0 /\ PutCredential(x).window = FALSE
<1>1. x.gen + 1 \in Nat /\ x.version + 1 \in Nat /\ 0 \in 0 .. MaxFailures
  BY DEF StepUpAssumption, Row
<1>2. PutCredential(x) = [x EXCEPT !.status = "active", !.must = FALSE, !.gen = x.gen + 1,
                            !.version = x.version + 1, !.failures = 0, !.window = FALSE,
                            !.locked = FALSE]
  BY DEF PutCredential
<1> QED BY <1>1, <1>2 DEF Row

LEMMA FailureTypes ==
  ASSUME StepUpAssumption, NEW x \in Row, x.window => x.failures < MaxFailures
  PROVE  LET y == RecordFailure(x) IN
         /\ y \in Row /\ y.version = x.version + 1 /\ y.status = x.status /\ y.gen = x.gen
         /\ y.failures = (IF x.window THEN x.failures + 1 ELSE 1)
         /\ ~y.locked => y.failures < MaxFailures
<1> DEFINE n == IF x.window THEN x.failures + 1 ELSE 1
<1>1. n \in 0 .. MaxFailures /\ (n >= MaxFailures) \in BOOLEAN
  BY DEF StepUpAssumption, Row
<1>2. RecordFailure(x) = [x EXCEPT !.failures = n, !.window = TRUE,
                            !.locked = x.locked \/ n >= MaxFailures, !.version = x.version + 1]
  BY DEF RecordFailure
<1>3. x.version + 1 \in Nat /\ (x.locked \/ n >= MaxFailures) \in BOOLEAN
  BY <1>1 DEF Row
<1>4. RecordFailure(x) \in Row
  BY <1>1, <1>2, <1>3 DEF Row
<1>5. LET y == RecordFailure(x) IN
      /\ y.version = x.version + 1 /\ y.status = x.status /\ y.gen = x.gen /\ y.failures = n
      /\ y.locked = (x.locked \/ n >= MaxFailures)
  BY <1>2 DEF Row
<1>6. (x.locked \/ n >= MaxFailures) = FALSE => n < MaxFailures
  BY <1>1 DEF StepUpAssumption
<1> QED BY <1>4, <1>5, <1>6

\* What a step that leaves the tables alone must keep.
Quiet(r) ==
  /\ UNCHANGED <<cred, receipts, proofs, counted>>
  /\ \A s \in Requests : s # r => req'[s] = req[s]
  /\ req'[r].ran = req[r].ran
  /\ \/ req'[r].answer = req[r].answer
     \/ req'[r].answer \in Refusals \cup {"locked"}
     \/ req'[r].answer = receipts[KeyOf[r]].result

LEMMA QuietKeeps ==
  ASSUME StepUpAssumption, StepUpInv, TypeOK', NEW r \in Requests, Quiet(r), Snapshot(r)'
  PROVE  StepUpInv'
<1>1. Filed' /\ OneEffect'
  BY DEF StepUpInv, Quiet, Filed, OneEffect
<1>2. Snapshots'
  BY DEF StepUpInv, Quiet, Snapshots, Snapshot
<1>3. Dormant' /\ Counting' /\ ProofsOfThisCredential' /\ OneProof'
  BY DEF StepUpInv, Quiet, Dormant, Counting, WrongAnswersCounted, ProofsOfThisCredential, OneProof
<1>4. Refusals \cap Results = {}
  BY DEF Refusals, Results
<1>5. AnswerRecorded'
  BY <1>4 DEF StepUpInv, Quiet, AnswerRecorded
<1> QED BY <1>1, <1>2, <1>3, <1>5 DEF StepUpInv

LEMMA AskTypes ==
  ASSUME StepUpAssumption, TypeOK, NEW r \in Requests,
         NEW a \in Results \cup Refusals \cup {"none"}, Answer(r, a)
  PROVE  /\ req' \in [Requests -> Asked] /\ req'[r].pc = "done" /\ req'[r].ran = req[r].ran
         /\ req'[r].answer = a
         /\ \A s \in Requests : s # r => req'[s] = req[s]
<1>1. req \in [Requests -> Asked] /\ req[r] \in Asked
  BY DEF TypeOK, Asked
<1>2. [req[r] EXCEPT !.pc = "done", !.tx = NoTx, !.answer = a] \in Asked
  BY <1>1, NoRowTypes DEF Asked, Labels
<1> QED BY <1>1, <1>2 DEF Answer, Asked

\* A request that ends with a refusal, or with what its key has on record,
\* leaves everything in order.
LEMMA AnswerKeeps ==
  ASSUME StepUpAssumption, StepUpInv, TypeOK', NEW r \in Requests,
         NEW a \in Results \cup Refusals \cup {"none"}, Answer(r, a),
         UNCHANGED <<cred, receipts, proofs, counted>>,
         a \in Refusals \cup {"locked"} \/ a = receipts[KeyOf[r]].result
  PROVE  StepUpInv'
<1>1. Quiet(r) /\ req'[r].pc = "done"
  BY AskTypes DEF Quiet, StepUpInv
<1> QED BY <1>1, QuietKeeps DEF Snapshot

-----------------------------------------------------------------------------
(* The steps of a request *)

LEMMA RequireKeeps ==
  ASSUME StepUpAssumption, StepUpInv, NEW r \in Requests, RequireBinding(r)
  PROVE  StepUpInv'
<1>1. TypeOK /\ req \in [Requests -> Asked] /\ req[r] \in Asked /\ cred \in Row
  BY DEF StepUpInv, TypeOK, Asked
<1>2. UNCHANGED <<cred, receipts, proofs, grants, tries, counted>> /\ faults' \in 0 .. MaxFaults
  BY <1>1 DEF StepUpAssumption, RequireBinding, NoFault, Fault, TypeOK
<1>3. CASE req' = [req EXCEPT ![r].pc = "open", ![r].seen = cred.version]
  <2>1. [req[r] EXCEPT !.pc = "open", !.seen = cred.version] \in Asked
    BY <1>1 DEF Asked, Labels, Row
  <2>2. req' \in [Requests -> Asked]
    BY <1>1, <1>3, <2>1
  <2>3. Quiet(r) /\ req'[r].pc = "open"
    BY <1>1, <1>2, <1>3 DEF Quiet, Asked
  <2>4. TypeOK'
    BY <1>1, <1>2, <2>2 DEF TypeOK, Asked
  <2> QED BY <2>3, <2>4, QuietKeeps DEF Snapshot
<1>4. ASSUME NEW a \in {"disabled", "unavailable"}, Answer(r, a)
      PROVE  StepUpInv'
  <2>1. a \in Refusals
    BY DEF Refusals
  <2>2. TypeOK'
    BY <1>1, <1>2, <1>4, <2>1, AskTypes DEF TypeOK, Asked
  <2> QED BY <1>2, <1>4, <2>1, <2>2, AnswerKeeps
<1> QED BY <1>3, <1>4 DEF RequireBinding

\* The transaction that goes on has read the credential of this moment.
LEMMA OpenKeeps ==
  ASSUME StepUpAssumption, StepUpInv, NEW r \in Requests, Open(r)
  PROVE  StepUpInv'
<1>1. TypeOK /\ req \in [Requests -> Asked] /\ req[r] \in Asked /\ cred \in Row
      /\ proofs \in SUBSET Proofs /\ tries \in 0 .. MaxTries + 1 /\ receipts[KeyOf[r]] \in Receipt
  BY InputTypes DEF StepUpInv, TypeOK, Asked
<1>2. UNCHANGED <<cred, receipts, proofs, grants, counted>> /\ faults' \in 0 .. MaxFaults
  BY <1>1 DEF StepUpAssumption, Open, NoFault, Fault, TypeOK
<1>3. tries' \in 0 .. MaxTries + 1
  BY <1>1 DEF StepUpAssumption, Open, Replay, EnrollReads, Proceed, LimiterCheck
<1>4. ASSUME NEW a \in Results \cup Refusals \cup {"none"}, Answer(r, a),
             a \in Refusals \cup {"locked"} \/ a = receipts[KeyOf[r]].result
      PROVE  StepUpInv'
  <2>1. TypeOK'
    BY <1>1, <1>2, <1>3, <1>4, AskTypes DEF TypeOK, Asked
  <2> QED BY <1>2, <1>4, <2>1, AnswerKeeps
<1>5. ASSUME NEW pc \in {"grant", "commit"}, NEW right \in BOOLEAN,
             Refused(r) = "none", pc = "grant" => Kind(r) = "verify",
             Kind(r) = "enroll" => right,
             req' = [req EXCEPT ![r].pc = pc,
                                ![r].tx = [cred |-> cred, proofs |-> proofs, right |-> right]]
      PROVE  StepUpInv'
  <2>1. [req[r] EXCEPT !.pc = pc, !.tx = [cred |-> cred, proofs |-> proofs, right |-> right]] \in Asked
    BY <1>1 DEF Asked, Labels
  <2>2. TypeOK'
    BY <1>1, <1>2, <1>3, <1>5, <2>1 DEF TypeOK, Asked
  <2>3. Quiet(r)
    BY <1>1, <1>2, <1>5 DEF Quiet, Asked
  <2>4. /\ Kind(r) = "enroll" => cred.status # "active"
        /\ Kind(r) # "enroll" => cred.status = "active" /\ ~cred.locked
    BY <1>5 DEF Refused, Kind
  <2>5. /\ req'[r].tx.cred = cred /\ req'[r].tx.right = right /\ req'[r].pc = pc /\ cred' = cred
        /\ cred.version <= cred.version
    BY <1>1, <1>2, <1>5 DEF Asked, Row
  <2>6. Snapshot(r)'
    BY <2>4, <2>5, <1>5 DEF Snapshot, Kind, Input
  <2> QED BY <2>2, <2>3, <2>6, QuietKeeps
<1>6. CASE Replay(r)
  <2>1. receipts[KeyOf[r]].result \in Results \cup {"none"} /\ "conflict" \in Refusals
    BY <1>1 DEF Receipt, Refusals
  <2> QED BY <1>4, <1>6, <2>1 DEF Replay
<1>7. CASE Refused(r) # "none" /\ Answer(r, Refused(r))
  <2>1. Refused(r) \in Refusals \cup {"locked"}
    BY <1>7 DEF Refused, Refusals
  <2>2. Refused(r) \in Results \cup Refusals
    BY <2>1 DEF Results
  <2> QED BY <1>4, <1>7, <2>1, <2>2
<1>8. CASE Refused(r) = "none" /\ Kind(r) = "enroll" /\ EnrollReads(r)
  BY <1>5, <1>8 DEF EnrollReads
<1>9. CASE Refused(r) = "none" /\ Kind(r) # "enroll" /\ Proceed(r)
  <2>1. (Input(r).answer = cred.gen) \in BOOLEAN /\ "limited" \in Refusals
    BY DEF Refusals
  <2>2. \/ Answer(r, "limited")
        \/ \E pc \in {"grant", "commit"} :
             /\ pc = "grant" => Kind(r) = "verify"
             /\ req' = [req EXCEPT ![r].pc = pc,
                                   ![r].tx = [cred |-> cred, proofs |-> proofs,
                                              right |-> Input(r).answer = cred.gen]]
    BY <1>9 DEF Proceed, Kind
  <2> QED BY <1>4, <1>5, <1>9, <2>1, <2>2
<1>10. CASE Answer(r, "unavailable")
  BY <1>4, <1>10 DEF Refusals
<1> QED BY <1>6, <1>7, <1>8, <1>9, <1>10 DEF Open, Kind

LEMMA CreateGrantKeeps ==
  ASSUME StepUpAssumption, StepUpInv, NEW r \in Requests, CreateGrant(r)
  PROVE  StepUpInv'
<1>1. TypeOK /\ req \in [Requests -> Asked] /\ req[r] \in Asked /\ Snapshot(r) /\ req[r].pc = "grant"
  BY DEF StepUpInv, TypeOK, Asked, Snapshots, CreateGrant, At
<1>2. UNCHANGED <<cred, receipts, proofs, tries, counted>> /\ faults' \in 0 .. MaxFaults
  BY <1>1 DEF StepUpAssumption, CreateGrant, NoFault, Fault, TypeOK
<1>3. grants' \subseteq [by: Requests, gen: Nat]
  <2>1. req[r].tx.cred.gen \in Nat
    BY <1>1 DEF Asked, Row
  <2> QED BY <2>1, <1>1 DEF CreateGrant, TypeOK
<1>4. CASE req' = [req EXCEPT ![r].pc = "commit"]
  <2>1. [req[r] EXCEPT !.pc = "commit"] \in Asked
    BY <1>1 DEF Asked, Labels
  <2>2. TypeOK'
    BY <1>1, <1>2, <1>3, <1>4, <2>1 DEF TypeOK, Asked
  <2>3. Quiet(r) /\ req'[r].pc = "commit" /\ req'[r].tx = req[r].tx /\ cred' = cred
    BY <1>1, <1>2, <1>4 DEF Quiet, Asked
  <2>4. Snapshot(r)'
    BY <1>1, <2>3 DEF Snapshot, Kind, Input
  <2> QED BY <2>2, <2>3, <2>4, QuietKeeps
<1>5. CASE Answer(r, "unavailable")
  <2>1. "unavailable" \in Refusals
    BY DEF Refusals
  <2>2. TypeOK'
    BY <1>1, <1>2, <1>3, <1>5, <2>1, AskTypes DEF TypeOK, Asked
  <2> QED BY <1>2, <1>5, <2>1, <2>2, AnswerKeeps
<1> QED BY <1>4, <1>5 DEF CreateGrant

-----------------------------------------------------------------------------
(* Commit *)

\* What a credential may become: a new version, or the same with less of a
\* lock.
Aged ==
  /\ cred'.version \in Nat /\ cred'.version >= cred.version
  /\ cred'.version = cred.version =>
       /\ cred'.gen = cred.gen /\ cred'.status = cred.status
       /\ cred'.locked => cred.locked
  /\ cred.status = "active" => cred'.status = "active"

\* The snapshots of the requests that do not move stay as good as they were.
LEMMA SnapshotsAge ==
  ASSUME StepUpAssumption, StepUpInv, Aged, NEW s \in Requests, req'[s] = req[s]
  PROVE  Snapshot(s)'
<1>1. Snapshot(s) /\ req[s].tx.cred.version \in Nat /\ cred.version \in Nat
  BY DEF StepUpInv, Snapshots, TypeOK, Row
<1> QED BY <1>1 DEF Aged, Snapshot, Kind, Input

\* A transaction that may commit has read the credential as it is, but for a
\* verification, which has read its generation.
LEMMA CommittedRead ==
  ASSUME StepUpAssumption, StepUpInv, NEW r \in Requests, At(r, "commit"), Committable(r)
  PROVE  /\ Outcome(r) \in Results /\ receipts[KeyOf[r]].result = "none"
         /\ Outcome(r) = "enrolled" => cred.status # "active"
         /\ Outcome(r) = "verified" => cred.status = "active" /\ req[r].tx.cred.gen = cred.gen
         /\ Outcome(r) \in {"rejected", "locked"} => cred.status = "active" /\ ~cred.locked
<1>1. /\ Snapshot(r) /\ Kind(r) \in {"enroll", "verify", "rotate"} /\ cred \in Row
      /\ req[r].tx \in [cred: Row, proofs: SUBSET Proofs, right: BOOLEAN]
  BY InputTypes DEF StepUpInv, Snapshots, TypeOK
<1>2. req[r].pc = "commit" /\ receipts[KeyOf[r]].result = "none" /\ SameVersion(r) /\ NoCycle(r)
  BY DEF At, Committable
<1>3. Kind(r) = "enroll" => Outcome(r) = "enrolled" /\ cred.status # "active"
  BY <1>1, <1>2 DEF Snapshot, SameVersion, Outcome, Kind
<1>4. Kind(r) # "enroll" /\ ~req[r].tx.right =>
        Outcome(r) \in {"rejected", "locked"} /\ cred.status = "active" /\ ~cred.locked
  <2> SUFFICES ASSUME Kind(r) # "enroll", ~req[r].tx.right
               PROVE  /\ Outcome(r) \in {"rejected", "locked"}
                      /\ cred.status = "active" /\ ~cred.locked
    OBVIOUS
  <2>1. Input(r).kind # "enroll" /\ req[r].tx.right = FALSE
    BY <1>1 DEF Kind
  <2>2. Outcome(r) \in {"rejected", "locked"}
    <3>1. CASE RecordFailure(cred).locked
      BY <2>1, <3>1 DEF Outcome
    <3>2. CASE ~RecordFailure(cred).locked
      BY <2>1, <3>2 DEF Outcome
    <3> QED BY <3>1, <3>2
  <2>3. cred.version = req[r].tx.cred.version
    BY <1>2 DEF SameVersion
  <2>4. cred.status = "active" /\ ~cred.locked
    BY <1>1, <1>2, <2>3 DEF Snapshot
  <2> QED BY <2>2, <2>4
<1>5. Kind(r) = "rotate" /\ req[r].tx.right => Outcome(r) = "rotated"
  BY DEF Outcome, Kind
<1>6. Kind(r) = "verify" /\ req[r].tx.right =>
        Outcome(r) = "verified" /\ cred.status = "active" /\ req[r].tx.cred.gen = cred.gen
  BY <1>1, <1>2 DEF Snapshot, NoCycle, Outcome, Kind
<1> QED BY <1>1, <1>2, <1>3, <1>4, <1>5, <1>6 DEF Results

\* The effect of each outcome on the credential, the proofs and the count.
LEMMA EffectKeeps ==
  ASSUME StepUpAssumption, StepUpInv, NEW r \in Requests,
         At(r, "commit"), Committable(r), Effect(r)
  PROVE  /\ cred' \in Row /\ proofs' \subseteq Proofs /\ counted' \subseteq counted \cup {KeyOf[r]}
         /\ Aged /\ Dormant' /\ ProofsOfThisCredential' /\ OneProof' /\ Counting'
<1>1. /\ cred \in Row /\ proofs \subseteq Proofs /\ counted \subseteq Keys
      /\ cred.version \in Nat /\ cred.failures \in Nat
  BY DEF StepUpInv, TypeOK, Row
<1>2. Dormant /\ ProofsOfThisCredential /\ OneProof /\ Counting /\ Filed
  BY DEF StepUpInv
<1>3. CASE Outcome(r) \in {"enrolled", "rotated"}
  <2>1. cred' = PutCredential(cred) /\ counted' = {} /\ proofs' = {}
    BY <1>2, <1>3, CommittedRead DEF Effect, Enroll, Rotate, Dormant
  <2>2. /\ cred' \in Row /\ cred'.version = cred.version + 1 /\ cred'.status = "active"
        /\ cred'.failures = 0 /\ cred'.window = FALSE
    BY <1>1, <2>1, CredentialTypes
  <2>4. Aged
    BY <1>1, <2>2 DEF Aged
  <2>3. Counting'
    BY <2>1, <2>2, FS_EmptySet DEF Counting, WrongAnswersCounted
  <2> QED BY <2>1, <2>2, <2>3, <2>4 DEF Dormant, ProofsOfThisCredential, OneProof
<1>4. CASE Outcome(r) = "verified"
  <2> DEFINE p == [by |-> r, session |-> Input(r).session, gen |-> cred.gen]
  <2>1. /\ cred' = cred /\ counted' = counted
        /\ proofs' = {q \in proofs : q.session # Input(r).session} \cup {p}
    BY <1>4, CommittedRead DEF Effect, Verify, PutStepUp
  <2>2. p \in Proofs /\ cred.status = "active"
    BY <1>1, <1>4, CommittedRead, InputTypes DEF Proofs, Row
  <2>3. Aged
    BY <1>1, <2>1 DEF Aged
  <2>4. ProofsOfThisCredential' /\ OneProof'
    BY <1>2, <2>1 DEF ProofsOfThisCredential, OneProof
  <2>5. Counting'
    BY <1>2, <2>1 DEF Counting, WrongAnswersCounted
  <2> QED BY <1>1, <2>1, <2>2, <2>3, <2>4, <2>5 DEF Dormant
<1>5. CASE Outcome(r) \in {"rejected", "locked"}
  <2>1. /\ cred' = RecordFailure(cred) /\ proofs' = proofs
        /\ counted' = (IF cred.window THEN counted ELSE {}) \cup {KeyOf[r]}
    BY <1>5 DEF Effect, Reject
  <2>2. cred.status = "active" /\ (cred.window => cred.failures < MaxFailures)
    BY <1>2, <1>5, CommittedRead DEF Counting
  <2>3. /\ cred' \in Row /\ cred'.version = cred.version + 1
        /\ cred'.status = cred.status /\ cred'.gen = cred.gen
        /\ cred'.failures = (IF cred.window THEN cred.failures + 1 ELSE 1)
        /\ ~cred'.locked => cred'.failures < MaxFailures
    BY <1>1, <2>1, <2>2, FailureTypes
  <2>4. Aged
    BY <1>1, <2>3 DEF Aged
  <2>5. KeyOf[r] \notin counted
    BY <1>2, CommittedRead DEF Filed
  <2>6. ASSUME cred.window
        PROVE  Counting'
    <3>1. IsFiniteSet(counted') /\ Cardinality(counted') = Cardinality(counted) + 1
      BY <1>2, <2>1, <2>5, <2>6, FS_AddElement DEF Counting
    <3>2. cred'.failures = Cardinality(counted')
      <4>1. cred'.failures = cred.failures + 1 /\ cred.failures = Cardinality(counted)
        BY <1>2, <2>3, <2>6 DEF Counting, WrongAnswersCounted
      <4> QED BY <3>1, <4>1
    <3> QED BY <2>3, <3>1, <3>2 DEF Counting, WrongAnswersCounted
  <2>7. ASSUME ~cred.window
        PROVE  Counting'
    <3>1. counted' = {KeyOf[r]}
      BY <2>1, <2>7
    <3>2. IsFiniteSet(counted') /\ Cardinality(counted') = 1
      BY <3>1, FS_Singleton
    <3>3. cred'.failures = 1
      BY <2>3, <2>7
    <3> QED BY <2>3, <3>2, <3>3 DEF Counting, WrongAnswersCounted
  <2>8. Counting'
    BY <2>6, <2>7
  <2>9. ProofsOfThisCredential' /\ OneProof' /\ Dormant'
    BY <1>2, <2>1, <2>3 DEF ProofsOfThisCredential, OneProof, Dormant
  <2> QED BY <1>1, <2>1, <2>3, <2>4, <2>8, <2>9
<1> QED BY <1>3, <1>4, <1>5, CommittedRead DEF Results

\* A commit, whether its answer arrives or not.
LEMMA DoneKeeps ==
  ASSUME StepUpAssumption, StepUpInv, NEW r \in Requests,
         At(r, "commit"), Committable(r), Effect(r),
         CompleteLocal(r), UNCHANGED <<grants, tries>>, faults' \in 0 .. MaxFaults,
         NEW a \in {Outcome(r), "unavailable"},
         req' = [req EXCEPT ![r].pc = "done", ![r].tx = NoTx, ![r].ran = TRUE, ![r].answer = a]
  PROVE  StepUpInv'
<1> DEFINE k == KeyOf[r]
<1>1. TypeOK /\ req \in [Requests -> Asked] /\ req[r] \in Asked /\ k \in Keys
      /\ receipts \in [Keys -> Receipt]
  BY InputTypes DEF StepUpInv, TypeOK, Asked
<1>2. Outcome(r) \in Results /\ "unavailable" \in Refusals
  BY CommittedRead DEF Refusals
<1>3. [req[r] EXCEPT !.pc = "done", !.tx = NoTx, !.ran = TRUE, !.answer = a] \in Asked
  BY <1>1, <1>2, NoRowTypes DEF Asked, Labels
<1>4. /\ req' \in [Requests -> Asked] /\ req'[r].pc = "done" /\ req'[r].ran /\ req'[r].answer = a
      /\ \A s \in Requests : s # r => req'[s] = req[s]
  BY <1>1, <1>3 DEF Asked
<1>5. [result |-> Outcome(r), input |-> {Fingerprint(r)}] \in Receipt
  BY <1>1, <1>2, InputTypes DEF Receipt, Fingerprint, View, Asked
<1>6. /\ receipts' \in [Keys -> Receipt] /\ receipts'[k].result = Outcome(r)
      /\ \A j \in Keys : j # k => receipts'[j] = receipts[j]
  BY <1>1, <1>5 DEF CompleteLocal
<1>7. TypeOK'
  BY <1>1, <1>4, <1>6, EffectKeeps DEF TypeOK, Asked
<1>8. \A s \in Requests : s # r /\ KeyOf[s] = k => ~req[s].ran /\ req[s].answer \notin Results \ {"locked"}
  BY CommittedRead, <1>1 DEF StepUpInv, Filed, AnswerRecorded, Results
<1>9. Filed'
  <2>1. Filed /\ Outcome(r) # "none" /\ counted' \subseteq counted \cup {k} /\ counted \subseteq Keys
    BY <1>1, <1>2, EffectKeeps DEF StepUpInv, TypeOK, Results
  <2>2. \A j \in Keys : receipts[j].result # "none" => receipts'[j].result # "none"
    BY <1>6, <2>1
  <2>3. \A j \in counted' : receipts'[j].result # "none"
    BY <1>6, <2>1, <2>2 DEF Filed
  <2>4. \A s \in Requests : req'[s].ran => receipts'[KeyOf[s]].result # "none"
    BY <1>4, <1>6, <2>1, <2>2, InputTypes DEF Filed
  <2> QED BY <2>3, <2>4 DEF Filed
<1>10. OneEffect'
  BY <1>4, <1>8 DEF StepUpInv, OneEffect
<1>11. AnswerRecorded'
  <2> SUFFICES ASSUME NEW s \in Requests, req'[s].answer \in Results \ {"locked"}
               PROVE  receipts'[KeyOf[s]].result = req'[s].answer
    BY DEF AnswerRecorded
  <2>1. CASE s = r
    BY <1>2, <1>4, <1>6, <2>1 DEF Results, Refusals
  <2>2. CASE s # r
    BY <1>4, <1>6, <1>8, <2>2, InputTypes DEF StepUpInv, AnswerRecorded
  <2> QED BY <2>1, <2>2
<1>12. Snapshots'
  <2>1. Snapshot(r)'
    BY <1>4 DEF Snapshot
  <2> QED BY <1>4, <2>1, EffectKeeps, SnapshotsAge DEF Snapshots
<1> QED BY <1>7, <1>9, <1>10, <1>11, <1>12, EffectKeeps DEF StepUpInv

LEMMA CommitKeeps ==
  ASSUME StepUpAssumption, StepUpInv, NEW r \in Requests, Commit(r)
  PROVE  StepUpInv'
<1>1. At(r, "commit") /\ UNCHANGED <<grants, tries>> /\ faults' \in 0 .. MaxFaults
  BY DEF StepUpAssumption, Commit, NoFault, Fault, StepUpInv, TypeOK
<1>2. ASSUME NEW a \in {"conflict", "unavailable"}, Answer(r, a),
             UNCHANGED <<cred, receipts, proofs, counted>>
      PROVE  StepUpInv'
  <2>1. a \in Refusals
    BY DEF Refusals
  <2>2. TypeOK'
    BY <1>1, <1>2, <2>1, AskTypes DEF StepUpInv, TypeOK, Asked
  <2> QED BY <1>2, <2>1, <2>2, AnswerKeeps
<1>3. \/ /\ Committable(r) /\ Effect(r) /\ CompleteLocal(r)
         /\ \E a \in {Outcome(r), "unavailable"} :
              req' = [req EXCEPT ![r].pc = "done", ![r].tx = NoTx, ![r].ran = TRUE, ![r].answer = a]
      \/ /\ UNCHANGED <<cred, receipts, proofs, counted>>
         /\ \E a \in {"conflict", "unavailable"} : Answer(r, a)
  BY DEF Commit
<1> QED BY ZenonT(120), <1>1, <1>2, <1>3, DoneKeeps

-----------------------------------------------------------------------------
(* Time *)

LEMMA TimeKeeps ==
  ASSUME StepUpAssumption, StepUpInv, WindowEnds \/ LockEnds \/ TriesEnd \/ ProofExpires
  PROVE  StepUpInv'
<1>1. /\ UNCHANGED <<receipts, grants, counted, req, faults>> /\ proofs' \subseteq proofs
      /\ \/ cred' = cred
         \/ cred' = [cred EXCEPT !.window = FALSE]
         \/ ~cred.window /\ cred' = [cred EXCEPT !.locked = FALSE]
      /\ tries' \in {tries, 0}
  BY DEF WindowEnds, LockEnds, TriesEnd, ProofExpires
<1>2. TypeOK /\ cred \in Row
  BY DEF StepUpInv, TypeOK
<1>3. /\ cred' \in Row /\ cred'.version = cred.version /\ cred'.gen = cred.gen
      /\ cred'.status = cred.status /\ cred'.failures = cred.failures
      /\ cred'.locked => cred.locked
      /\ cred'.window => cred.window /\ cred'.locked = cred.locked
  BY <1>1, <1>2 DEF Row
<1>4. TypeOK'
  BY <1>1, <1>2, <1>3 DEF StepUpAssumption, TypeOK
<1>5. Aged
  BY <1>2, <1>3 DEF Aged, Row
<1>6. Snapshots'
  BY <1>1, <1>5, SnapshotsAge DEF Snapshots
<1>7. Counting' /\ Filed' /\ OneEffect' /\ AnswerRecorded'
  BY <1>1, <1>3 DEF StepUpInv, Counting, WrongAnswersCounted, Filed, OneEffect, AnswerRecorded
<1>8. Dormant' /\ ProofsOfThisCredential' /\ OneProof'
  BY <1>1, <1>3 DEF StepUpInv, Dormant, ProofsOfThisCredential, OneProof
<1> QED BY <1>4, <1>6, <1>7, <1>8 DEF StepUpInv

-----------------------------------------------------------------------------
(* The invariant *)

LEMMA StepUpInit ==
  ASSUME StepUpAssumption PROVE Init => StepUpInv
<1> SUFFICES ASSUME Init
             PROVE  StepUpInv
  OBVIOUS
<1>1. /\ cred \in Row /\ cred.failures = 0 /\ cred.window = FALSE
  <2>1. NoRow \in Row /\ NoRow.failures = 0 /\ NoRow.window = FALSE
    BY NoRowTypes DEF NoRow
  <2>2. \/ cred = NoRow
        \/ cred = [NoRow EXCEPT !.status = "active", !.must = TRUE, !.gen = 1, !.version = 1]
        \/ cred = [NoRow EXCEPT !.status = "active", !.gen = 1, !.version = 1]
        \/ cred = [NoRow EXCEPT !.status = "recovery", !.gen = 1, !.version = 1]
    BY DEF Init
  <2>3. ASSUME NEW status \in {"active", "recovery"}, NEW must \in BOOLEAN
        PROVE  LET x == [NoRow EXCEPT !.status = status, !.must = must, !.gen = 1, !.version = 1] IN
               x \in Row /\ x.failures = 0 /\ x.window = FALSE
    BY <2>1 DEF Row
  <2>4. NoRow.must = FALSE
    BY DEF NoRow
  <2>5. [NoRow EXCEPT !.status = "active", !.gen = 1, !.version = 1]
          = [NoRow EXCEPT !.status = "active", !.must = FALSE, !.gen = 1, !.version = 1]
    BY <2>1, <2>4 DEF Row
  <2>6. [NoRow EXCEPT !.status = "recovery", !.gen = 1, !.version = 1]
          = [NoRow EXCEPT !.status = "recovery", !.must = FALSE, !.gen = 1, !.version = 1]
    BY <2>1, <2>4 DEF Row
  <2>7. \/ cred = NoRow
        \/ \E status \in {"active", "recovery"}, must \in BOOLEAN :
             cred = [NoRow EXCEPT !.status = status, !.must = must, !.gen = 1, !.version = 1]
    BY <2>2, <2>5, <2>6
  <2> QED BY ZenonT(120), <2>1, <2>3, <2>7
<1>2. /\ proofs = {} /\ grants = {} /\ tries = 0 /\ counted = {} /\ faults = 0
      /\ receipts = [k \in Keys |-> [result |-> "none", input |-> {}]]
  BY DEF Init
<1>3. PICK active \in SUBSET Requests :
        req = [r \in Requests |-> [pc |-> IF r \in active THEN "idle" ELSE "done", seen |-> 0,
                                   tx |-> NoTx, ran |-> FALSE, answer |-> "none"]]
  BY DEF Init
<1>4. req \in [Requests -> Asked]
  BY <1>3, NoRowTypes DEF Asked, Labels
<1>5. \A r \in Requests : req[r].pc \in {"idle", "done"} /\ ~req[r].ran /\ req[r].answer = "none"
  BY <1>3
<1>6. receipts \in [Keys -> Receipt]
  BY <1>2 DEF Receipt
<1>7. TypeOK
  BY <1>1, <1>2, <1>4, <1>6 DEF StepUpAssumption, TypeOK, Asked
<1>8. Filed /\ Snapshots /\ Dormant /\ OneEffect /\ AnswerRecorded /\ ProofsOfThisCredential
      /\ OneProof
  BY <1>2, <1>5 DEF Filed, Snapshots, Snapshot, Dormant, OneEffect, AnswerRecorded, Results,
                    ProofsOfThisCredential, OneProof
<1>9. Counting
  BY <1>1, <1>2, FS_EmptySet DEF Counting, WrongAnswersCounted
<1> QED BY <1>7, <1>8, <1>9 DEF StepUpInv

LEMMA StepUpKept ==
  ASSUME StepUpAssumption PROVE StepUpInv /\ [Next]_stepupVars => StepUpInv'
<1>1. ASSUME StepUpInv, Next
      PROVE  StepUpInv'
  BY <1>1, RequireKeeps, OpenKeeps, CreateGrantKeeps, CommitKeeps, TimeKeeps DEF Next, StepUp
<1>2. ASSUME StepUpInv, UNCHANGED stepupVars
      PROVE  StepUpInv'
  BY <1>2 DEF stepupVars, StepUpInv, TypeOK, Filed, Snapshots, Snapshot, Kind, Input, Dormant,
              Counting, WrongAnswersCounted, OneEffect, AnswerRecorded, ProofsOfThisCredential,
              OneProof
<1> QED BY <1>1, <1>2

-----------------------------------------------------------------------------
(* Theorems *)

\* The invariant of the security question under every interleaving of its
\* serializable transactions (AdminUnitOfWork.WithinStepUpMutation).
THEOREM StepUpInvariant ==
  ASSUME StepUpAssumption PROVE Spec => []StepUpInv
BY StepUpInit, StepUpKept, PTL DEF Spec

\* Rows, receipts, proofs and requests keep their types; in particular the
\* failure count never passes its limit (admin_challenges.failure_count).
THEOREM TypeCorrect ==
  ASSUME StepUpAssumption PROVE Spec => []TypeOK
<1>1. StepUpInv => TypeOK
  BY DEF StepUpInv
<1> QED BY <1>1, StepUpInvariant, PTL

\* Every wrong answer whose transaction committed is in the failure count of
\* its window, once, also when several arrive at the same time (RecordFailure).
THEOREM EveryFailureCounted ==
  ASSUME StepUpAssumption PROVE Spec => []WrongAnswersCounted
<1>1. StepUpInv => WrongAnswersCounted
  BY DEF StepUpInv, Counting
<1> QED BY <1>1, StepUpInvariant, PTL

\* The operation of an idempotency key takes effect once, whatever answers
\* were lost (CreateOrReplay, CompleteLocal).
THEOREM KeyEffectOnce ==
  ASSUME StepUpAssumption PROVE Spec => []OneEffect
<1>1. StepUpInv => OneEffect
  BY DEF StepUpInv
<1> QED BY <1>1, StepUpInvariant, PTL

\* A definite answer, first or replayed, is the one on record
\* (decodeVerifyReplay).
THEOREM AnswersOnRecord ==
  ASSUME StepUpAssumption PROVE Spec => []AnswerRecorded
<1>1. StepUpInv => AnswerRecorded
  BY DEF StepUpInv
<1> QED BY <1>1, StepUpInvariant, PTL

\* No proof outlives the credential it was given for: neither the proofs a
\* rotation revokes, nor one that a verification in flight would add after it.
THEOREM ProofsCurrent ==
  ASSUME StepUpAssumption PROVE Spec => []ProofsOfThisCredential
<1>1. StepUpInv => ProofsOfThisCredential
  BY DEF StepUpInv
<1> QED BY <1>1, StepUpInvariant, PTL

\* A session holds one active proof (PutStepUp).
THEOREM ProofSingle ==
  ASSUME StepUpAssumption PROVE Spec => []OneProof
<1>1. StepUpInv => OneProof
  BY DEF StepUpInv
<1> QED BY <1>1, StepUpInvariant, PTL

-----------------------------------------------------------------------------
(***************************************************************************)
(* Requests for identities and the roles behind them.  A decision, a claim *)
(* and a settlement commit on what they read under the locks of their      *)
(* transaction; the invariants tie every ask to its binding, its evidence  *)
(* and the version of the question it was asked under.                     *)
(***************************************************************************)
CONSTANTS
  Ops,       \* the requests that may arrive, each once
  OpOf,      \* what each of them asks for
  Asks,      \* identifiers of identity-access requests
  Tokens,    \* one-shot step-up tokens of the approver
  FirstAsk,  \* the ask that may exist at the start
  Batches    \* model bound: the sets of requests that arrive in one run

VARIABLES
  binding,  \* admin_role_bindings: the row in force of each actor
  account,  \* whether each actor's account is active
  asks,     \* identity_access_requests
  tokens,   \* step-up tokens in Redis
  reasons,  \* protected reasons that are used up
  op        \* what each request is doing

Access == INSTANCE IdentityAccess

Decides(o) == Access!Kind(o) \in {"approve", "reject"}

-----------------------------------------------------------------------------
(* Inductive invariants *)

\* The version of a row says how far it came.
Versioned ==
  \A k \in Asks : /\ asks[k].status = "pending" => asks[k].version = 1
                  /\ grants[k].status = "active" => grants[k].version = 1
                  /\ grants[k].status = "claimed" => grants[k].version = 2

\* The ask of a creation is not there before the creation.
Unasked == \A o \in Ops : Access!Kind(o) = "create" /\ ~op[o].ran => asks[Access!Ask(o)].status = "none"

\* What ran is over, and left its receipt, its used reason and its proof.
AccessFiled ==
  \A o \in Ops : op[o].ran =>
    /\ op[o].pc = "done"
    /\ receipts[OpOf[o].key] = [result |-> Access!ResultOf(o), kind |-> Access!Kind(o)]
    /\ Access!Kind(o) \in Access!RoleKinds => OpOf[o].reason \in reasons
    /\ Decides(o) => op[o].proof # Access!NoProof

\* A token that was consumed is gone, and one request holds what it proved.
HeldOnce ==
  \A o \in Ops : op[o].proof # Access!NoProof =>
    /\ Decides(o) /\ tokens[OpOf[o].token] = Access!NoProof
    /\ \A p \in Ops : Decides(p) /\ OpOf[p].token = OpOf[o].token /\ p # o =>
                        op[p].proof = Access!NoProof

\* The rows show what ran.
Shown(o) ==
  /\ Access!Kind(o) = "create"  => asks[Access!Ask(o)].status # "none"
  /\ Access!Kind(o) = "approve" => asks[Access!Ask(o)].status = "approved"
  /\ Access!Kind(o) = "reject"  => asks[Access!Ask(o)].status = "rejected"
  /\ Access!Kind(o) = "claim"   => grants[Access!Ask(o)].status \in {"claimed", "settled", "revoked"}
  /\ Access!Kind(o) = "settle"  => grants[Access!Ask(o)].status = "settled"
Recorded == \A o \in Ops : op[o].ran => Shown(o)

AccessInv == /\ Access!TypeOK /\ Versioned /\ Unasked /\ AccessFiled /\ HeldOnce /\ Recorded
             /\ Access!OneEffect /\ Access!RotationRevokes

-----------------------------------------------------------------------------
(* Steps *)

\* Asks and grants only move forward.
Forward ==
  \A k \in Asks :
    /\ \/ asks'[k].status = asks[k].status
       \/ asks[k].status = "none" /\ asks'[k].status = "pending"
       \/ asks[k].status = "pending" /\ asks'[k].status \in {"approved", "rejected", "revoked"}
    /\ \/ grants'[k].status = grants[k].status
       \/ grants[k].status = "none" /\ grants'[k].status = "active"
       \/ grants[k].status = "active" /\ grants'[k].status = "claimed"
       \/ grants[k].status = "claimed" /\ grants'[k].status = "settled"
       \/ grants[k].status \in {"active", "claimed"} /\ grants'[k].status = "revoked"

\* A row loses at most its freshness or its lease.
AccessAged ==
  \A k \in Asks :
    /\ asks'[k] = [asks[k] EXCEPT !.fresh = asks'[k].fresh]
    /\ grants'[k] = [grants[k] EXCEPT !.fresh = grants'[k].fresh, !.lease = grants'[k].lease]

\* Nothing runs in this step.
Calm ==
  /\ AccessAged /\ UNCHANGED <<cred, reasons, receipts>>
  /\ \A o \in Ops : /\ op'[o].ran = op[o].ran
                    /\ op[o].ran => op'[o].pc = op[o].pc /\ op'[o].proof = op[o].proof

\* No token changes hands.
Kept == UNCHANGED tokens /\ \A o \in Ops : op'[o].proof = op[o].proof

LEMMA KindTypes ==
  ASSUME Access!IdentityAccessAssumption, NEW o \in Ops
  PROVE  /\ Access!Kind(o) \in Access!Kinds /\ Access!Ask(o) \in Asks /\ Access!ActorOf(o) \in Access!Actors
         /\ OpOf[o].key \in Access!Keys /\ Access!ResultOf(o) \in Access!Results
         /\ Decides(o) => OpOf[o].token \in Tokens /\ Access!ActorOf(o) = Access!Super
         /\ OpOf[o].reason \in {OpOf[p].reason : p \in Ops}
<1>1. Access!Kind(o) \in Access!Kinds /\ Access!Ask(o) \in Asks
  BY DEF Access!IdentityAccessAssumption, Access!Kind, Access!Ask
<1>2. Access!ActorOf(o) \in Access!Actors
  BY DEF Access!ActorOf, Access!Actors
<1>3. OpOf[o].key \in Access!Keys
  BY DEF Access!Keys
<1>4. Access!ResultOf(o) \in Access!Results
  BY <1>1 DEF Access!ResultOf, Access!Results, Access!Kinds, Access!RoleKinds
<1>5. Decides(o) => OpOf[o].token \in Tokens /\ Access!ActorOf(o) = Access!Super
  BY DEF Access!IdentityAccessAssumption, Decides, Access!ActorOf, Access!Kind
<1> QED BY <1>1, <1>2, <1>3, <1>4, <1>5

LEMMA CalmKeeps ==
  ASSUME Access!IdentityAccessAssumption, AccessInv, Access!TypeOK', HeldOnce', Calm
  PROVE  AccessInv' /\ Forward
<1>t. Access!TypeOK
  BY DEF AccessInv
<1>1. \A k \in Asks : /\ asks'[k].status = asks[k].status /\ asks'[k].version = asks[k].version
                      /\ grants'[k].status = grants[k].status
                      /\ grants'[k].version = grants[k].version /\ grants'[k].cred = grants[k].cred
  <2> SUFFICES ASSUME NEW k \in Asks
               PROVE  /\ asks'[k].status = asks[k].status /\ asks'[k].version = asks[k].version
                      /\ grants'[k].status = grants[k].status
                      /\ grants'[k].version = grants[k].version /\ grants'[k].cred = grants[k].cred
    OBVIOUS
  <2>1. asks[k] \in Access!AskRow /\ grants[k] \in Access!GrantRow
    BY <1>t DEF Access!TypeOK
  <2>2. /\ asks'[k] = [asks[k] EXCEPT !.fresh = asks'[k].fresh]
        /\ grants'[k] = [grants[k] EXCEPT !.fresh = grants'[k].fresh, !.lease = grants'[k].lease]
    BY DEF Calm, AccessAged
  <2> QED BY <2>1, <2>2 DEF Access!AskRow, Access!GrantRow
<1>2. Versioned' /\ Access!RotationRevokes'
  BY <1>1 DEF AccessInv, Versioned, Access!RotationRevokes, Calm
<1>3. Unasked' /\ Recorded'
  BY <1>1, KindTypes DEF AccessInv, Unasked, Recorded, Shown, Calm, Access!Kind, Access!Ask
<1>4. AccessFiled'
  BY DEF AccessInv, AccessFiled, Calm, Decides, Access!Kind, Access!NoProof, Access!ResultOf
<1>5. Access!OneEffect'
  BY DEF AccessInv, Access!OneEffect, Calm, Access!Shared, Access!Kind
<1> QED BY <1>1, <1>2, <1>3, <1>4, <1>5 DEF AccessInv, Forward

LEMMA KeptHeld ==
  ASSUME HeldOnce, Kept
  PROVE  HeldOnce'
BY DEF HeldOnce, Kept, Decides, Access!Kind, Access!NoProof

LEMMA ConsumeKeeps ==
  ASSUME Access!IdentityAccessAssumption, AccessInv, NEW o \in Ops, Access!ConsumeStepUp(o)
  PROVE  AccessInv' /\ Forward
<1>t. Access!TypeOK
  BY DEF AccessInv
<1>1. Decides(o) /\ OpOf[o].token \in Tokens /\ op[o].pc = "idle" /\ ~op[o].ran
  BY KindTypes DEF Access!ConsumeStepUp, Decides, Access!At, AccessInv, AccessFiled
<1>2. Access!NoProof \in Access!Proof /\ tokens[OpOf[o].token] \in Access!Proof /\ op[o] \in Access!Request
  BY <1>t, <1>1 DEF Access!TypeOK, Access!NoProof, Access!Proof
<1>c. UNCHANGED <<binding, cred, account, asks, grants, reasons, receipts>>
  BY DEF Access!ConsumeStepUp
<1>a. AccessAged
  <2>1. \A k \in Asks : asks[k] \in Access!AskRow /\ grants[k] \in Access!GrantRow
    BY <1>t DEF Access!TypeOK
  <2> QED BY <2>1, <1>c DEF AccessAged, Access!AskRow, Access!GrantRow
<1>3. CASE /\ op' = [op EXCEPT ![o].pc = "authorize", ![o].proof = tokens[OpOf[o].token]]
           /\ tokens' = [tokens EXCEPT ![OpOf[o].token] = Access!NoProof] /\ Access!NoFault
  <2>1. [op[o] EXCEPT !.pc = "authorize", !.proof = tokens[OpOf[o].token]] \in Access!Request
    BY <1>2 DEF Access!Request
  <2>2. /\ op'[o].ran = op[o].ran /\ op'[o].proof = tokens[OpOf[o].token]
        /\ \A p \in Ops \ {o} : op'[p] = op[p]
    BY <1>3, <1>2, <1>t DEF Access!TypeOK, Access!Request
  <2>3. Access!TypeOK'
    BY <1>3, <2>1, <1>1, <1>2, <1>c, <1>t DEF Access!TypeOK, Access!NoFault
  <2>4. HeldOnce'
    <3>1. /\ tokens'[OpOf[o].token] = Access!NoProof
          /\ \A t \in Tokens : tokens[t] = Access!NoProof => tokens'[t] = Access!NoProof
      BY <1>3, <1>1, <1>t DEF Access!TypeOK
    <3>2. ASSUME NEW p \in Ops, op'[p].proof # Access!NoProof
          PROVE  /\ Decides(p) /\ tokens'[OpOf[p].token] = Access!NoProof
                 /\ \A q \in Ops : Decides(q) /\ OpOf[q].token = OpOf[p].token /\ q # p =>
                                     op'[q].proof = Access!NoProof
      <4>1. CASE p = o
        BY <4>1, <3>1, <3>2, <2>2, <1>1 DEF AccessInv, HeldOnce
      <4>2. CASE p # o
        <5>1. Decides(p) /\ tokens[OpOf[p].token] = Access!NoProof
          BY <4>2, <3>2, <2>2 DEF AccessInv, HeldOnce
        <5> QED BY <5>1, <4>2, <3>1, <3>2, <2>2, KindTypes DEF AccessInv, HeldOnce
      <4> QED BY <4>1, <4>2
    <3> QED BY <3>2 DEF HeldOnce, Decides, Access!Kind, Access!NoProof
  <2>5. Calm
    BY <1>a, <1>c, <1>1, <2>2 DEF Calm
  <2> QED BY <2>3, <2>4, <2>5, CalmKeeps
<1>4. CASE op' = [op EXCEPT ![o].pc = "authorize"] /\ UNCHANGED tokens /\ Access!Fault
  <2>1. [op[o] EXCEPT !.pc = "authorize"] \in Access!Request
    BY <1>2 DEF Access!Request
  <2>2. /\ op'[o].ran = op[o].ran /\ op'[o].proof = op[o].proof
        /\ \A p \in Ops \ {o} : op'[p] = op[p]
    BY <1>4, <1>2, <1>t DEF Access!TypeOK, Access!Request
  <2>3. Access!TypeOK'
    BY <1>4, <2>1, <1>c, <1>t DEF Access!TypeOK, Access!Fault, Access!IdentityAccessAssumption
  <2>4. HeldOnce'
    BY <1>4, <2>2, KeptHeld DEF Kept, AccessInv
  <2>5. Calm
    BY <1>a, <1>c, <1>1, <2>2 DEF Calm
  <2> QED BY <2>3, <2>4, <2>5, CalmKeeps
<1> QED BY <1>3, <1>4 DEF Access!ConsumeStepUp

\* A step that only moves the request o on, without running it.
LEMMA PausedKeeps ==
  ASSUME Access!IdentityAccessAssumption, AccessInv, NEW o \in Ops, ~op[o].ran,
         NEW x \in Access!Request, x.ran = op[o].ran, x.proof = op[o].proof,
         op' = [op EXCEPT ![o] = x], Access!NoFault \/ Access!Fault,
         UNCHANGED <<binding, cred, account, asks, grants, tokens, reasons, receipts>>
  PROVE  AccessInv' /\ Forward
<1>t. Access!TypeOK
  BY DEF AccessInv
<1>1. \A k \in Asks : asks[k] \in Access!AskRow /\ grants[k] \in Access!GrantRow
  BY <1>t DEF Access!TypeOK
<1>2. AccessAged
  BY <1>1 DEF AccessAged, Access!AskRow, Access!GrantRow
<1>3. Access!TypeOK'
  BY <1>t DEF Access!TypeOK, Access!Fault, Access!NoFault, Access!IdentityAccessAssumption
<1>4. Calm /\ Kept
  BY <1>2, <1>t DEF Calm, Kept, Access!TypeOK
<1> QED BY <1>3, <1>4, KeptHeld, CalmKeeps DEF AccessInv

LEMMA AccessAnswerKeeps ==
  ASSUME Access!IdentityAccessAssumption, AccessInv, NEW o \in Ops, op[o].pc # "done",
         NEW a \in Access!Results \cup Access!Refusals \cup {"none"}, Access!Answer(o, a),
         Access!NoFault \/ Access!Fault,
         UNCHANGED <<binding, cred, account, asks, grants, tokens, reasons, receipts>>
  PROVE  AccessInv' /\ Forward
<1> DEFINE x == [op[o] EXCEPT !.pc = "done", !.answer = a]
<1>1. op[o] \in Access!Request /\ op \in [Ops -> Access!Request]
  BY DEF AccessInv, Access!TypeOK
<1>2. x \in Access!Request /\ x.ran = op[o].ran /\ x.proof = op[o].proof
  BY <1>1 DEF Access!Request
<1>3. op' = [op EXCEPT ![o] = x]
  BY <1>1 DEF Access!Answer
<1>4. ~op[o].ran
  BY <1>1 DEF AccessInv, AccessFiled, Access!Request
<1> HIDE DEF x
<1> QED BY <1>2, <1>3, <1>4, PausedKeeps

LEMMA AuthorizeKeeps ==
  ASSUME Access!IdentityAccessAssumption, AccessInv, NEW o \in Ops, Access!Authorize(o)
  PROVE  AccessInv' /\ Forward
<1>t. Access!TypeOK /\ Access!ActorOf(o) \in Access!Actors /\ Access!Kind(o) \in Access!Kinds
  BY KindTypes DEF AccessInv
<1>1. op[o] \in Access!Request /\ op \in [Ops -> Access!Request] /\ op[o].pc # "done"
  BY <1>t DEF Access!TypeOK, Access!Authorize, Access!At
<1>c. UNCHANGED <<binding, cred, account, asks, grants, tokens, reasons, receipts>>
  BY DEF Access!Authorize
<1>2. CASE Access!NoFault /\ op' = [op EXCEPT ![o].pc = "commit", ![o].seen = Access!VersionSeen(o),
                                             ![o].evidence = Access!Evidence(Access!ActorOf(o))]
  <2> DEFINE x == [op[o] EXCEPT !.pc = "commit", !.seen = Access!VersionSeen(o),
                                !.evidence = Access!Evidence(Access!ActorOf(o))]
  <2>1. binding[Access!ActorOf(o)] \in Access!Binding /\ binding[Access!Senior] \in Access!Binding
        /\ cred[Access!ActorOf(o)] \in Nat
    BY <1>t DEF Access!TypeOK, Access!Actors
  <2>2. Access!VersionSeen(o) \in Nat
    BY <2>1, <1>t DEF Access!VersionSeen, Access!Binding, Access!Kinds, Access!RoleKinds
  <2>3. Access!Evidence(Access!ActorOf(o)) \in [id: Nat, version: Nat, role: Access!Roles \cup {"none"}, cred: Nat]
    BY <2>1 DEF Access!Evidence, Access!Binding
  <2>4. x \in Access!Request /\ x.ran = op[o].ran /\ x.proof = op[o].proof
    BY <1>1, <2>2, <2>3 DEF Access!Request
  <2>5. op' = [op EXCEPT ![o] = x]
    BY <1>1, <1>2
  <2>6. ~op[o].ran
    BY <1>1 DEF AccessInv, AccessFiled, Access!Request
  <2> HIDE DEF x
  <2> QED BY <1>2, <1>c, <2>4, <2>5, <2>6, PausedKeeps
<1>3. ASSUME NEW a \in {"reauth", "forbidden", "unavailable"}, Access!Answer(o, a),
             Access!NoFault \/ Access!Fault
      PROVE  AccessInv' /\ Forward
  BY <1>1, <1>c, <1>3, AccessAnswerKeeps DEF Access!Refusals
<1> QED BY <1>2, <1>3 DEF Access!Authorize

\* Suspensions and expiries.
World == (\E a \in Access!Actors : Access!SetAccount(a))
         \/ (\E k \in Asks : Access!AskExpires(k) \/ Access!LeaseEnds(k) \/ Access!GrantExpires(k))

LEMMA WorldKeeps ==
  ASSUME Access!IdentityAccessAssumption, AccessInv, World
  PROVE  AccessInv' /\ Forward
<1>t. Access!TypeOK
  BY DEF AccessInv
<1>1. \A k \in Asks : asks[k] \in Access!AskRow /\ grants[k] \in Access!GrantRow
  BY <1>t DEF Access!TypeOK
<1>2. Access!Fault /\ UNCHANGED <<binding, cred, tokens, reasons, receipts, op>>
  BY DEF World, Access!SetAccount, Access!AskExpires, Access!LeaseEnds, Access!GrantExpires
<1>3. /\ account' \in [Access!Actors -> BOOLEAN] /\ asks' \in [Asks -> Access!AskRow]
      /\ grants' \in [Asks -> Access!GrantRow] /\ AccessAged
  <2>1. ASSUME NEW a \in Access!Actors, Access!SetAccount(a)
        PROVE  /\ account' \in [Access!Actors -> BOOLEAN] /\ asks' \in [Asks -> Access!AskRow]
               /\ grants' \in [Asks -> Access!GrantRow] /\ AccessAged
    <3>1. UNCHANGED <<asks, grants>> /\ account' \in [Access!Actors -> BOOLEAN]
      BY <2>1, <1>t DEF Access!SetAccount, Access!TypeOK
    <3> QED BY ZenonT(120), <3>1, <1>1, <1>t DEF AccessAged, Access!AskRow, Access!GrantRow, Access!TypeOK
  <2>2. ASSUME NEW k \in Asks, Access!AskExpires(k)
        PROVE  /\ UNCHANGED account /\ asks' \in [Asks -> Access!AskRow]
               /\ grants' \in [Asks -> Access!GrantRow] /\ AccessAged
    <3>1. [asks[k] EXCEPT !.fresh = FALSE] \in Access!AskRow
      BY <1>1 DEF Access!AskRow
    <3> QED BY ZenonT(120), <2>2, <3>1, <1>1, <1>t DEF Access!AskExpires, Access!TypeOK, AccessAged, Access!AskRow,
                                        Access!GrantRow
  <2>3. ASSUME NEW k \in Asks, Access!LeaseEnds(k)
        PROVE  /\ UNCHANGED account /\ asks' \in [Asks -> Access!AskRow]
               /\ grants' \in [Asks -> Access!GrantRow] /\ AccessAged
    <3>1. [grants[k] EXCEPT !.lease = FALSE] \in Access!GrantRow
      BY <1>1 DEF Access!GrantRow
    <3>2. grants' \in [Asks -> Access!GrantRow] /\ UNCHANGED <<asks, account>>
      BY <2>3, <3>1, <1>t DEF Access!LeaseEnds, Access!TypeOK
    <3>3. ASSUME NEW j \in Asks
          PROVE  grants'[j] = [grants[j] EXCEPT !.fresh = grants'[j].fresh, !.lease = grants'[j].lease]
      BY ZenonT(120), <2>3, <1>1, <1>t DEF Access!LeaseEnds, Access!TypeOK, Access!GrantRow
    <3> QED BY <3>2, <3>3, <1>1, <1>t DEF AccessAged, Access!AskRow, Access!TypeOK
  <2>4. ASSUME NEW k \in Asks, Access!GrantExpires(k)
        PROVE  /\ UNCHANGED account /\ asks' \in [Asks -> Access!AskRow]
               /\ grants' \in [Asks -> Access!GrantRow] /\ AccessAged
    <3>1. [grants[k] EXCEPT !.fresh = FALSE] \in Access!GrantRow
      BY <1>1 DEF Access!GrantRow
    <3>2. grants' \in [Asks -> Access!GrantRow] /\ UNCHANGED <<asks, account>>
      BY <2>4, <3>1, <1>t DEF Access!GrantExpires, Access!TypeOK
    <3>3. ASSUME NEW j \in Asks
          PROVE  grants'[j] = [grants[j] EXCEPT !.fresh = grants'[j].fresh, !.lease = grants'[j].lease]
      BY ZenonT(120), <2>4, <1>1, <1>t DEF Access!GrantExpires, Access!TypeOK, Access!GrantRow
    <3> QED BY <3>2, <3>3, <1>1, <1>t DEF AccessAged, Access!AskRow, Access!TypeOK
  <2>5. account \in [Access!Actors -> BOOLEAN]
    BY <1>t DEF Access!TypeOK
  <2> QED BY <2>1, <2>2, <2>3, <2>4, <2>5 DEF World
<1>4. \A k \in Asks : /\ asks'[k].status = asks[k].status
                      /\ grants'[k].status = grants[k].status
                      /\ grants'[k].nonce = grants[k].nonce
  <2> SUFFICES ASSUME NEW k \in Asks
               PROVE  /\ asks'[k].status = asks[k].status
                      /\ grants'[k].status = grants[k].status
                      /\ grants'[k].nonce = grants[k].nonce
    OBVIOUS
  <2>1. asks[k] \in Access!AskRow /\ grants[k] \in Access!GrantRow
    BY <1>1
  <2>2. /\ asks'[k] = [asks[k] EXCEPT !.fresh = asks'[k].fresh]
        /\ grants'[k] = [grants[k] EXCEPT !.fresh = grants'[k].fresh, !.lease = grants'[k].lease]
    BY <1>3 DEF AccessAged
  <2> QED BY <2>1, <2>2 DEF Access!AskRow, Access!GrantRow
<1>5. Access!TypeOK'
  <2>1. faults' \in 0 .. MaxFaults
    BY <1>2, <1>t DEF Access!TypeOK, Access!Fault, Access!IdentityAccessAssumption
  <2>2. \A k \in Asks : /\ (grants'[k].status = "claimed") = (grants'[k].nonce # "none")
                        /\ (grants'[k].status # "none") = (asks'[k].status = "approved")
    BY <1>4, <1>t DEF Access!TypeOK
  <2>3. /\ binding' \in [Access!Actors -> Access!Binding] /\ cred' \in [Access!Actors -> Nat]
        /\ tokens' \in [Tokens -> Access!Proof] /\ reasons' \subseteq {OpOf[o].reason : o \in Ops}
        /\ receipts' \in [Access!Keys -> [result: Access!Results \cup {"none"}, kind: Access!Kinds \cup {"none"}]]
        /\ op' \in [Ops -> Access!Request]
    BY <1>2, <1>t DEF Access!TypeOK
  <2> QED BY <2>1, <2>2, <2>3, <1>3 DEF Access!TypeOK
<1>6. Calm /\ Kept
  BY <1>2, <1>3 DEF Calm, Kept
<1> QED BY <1>5, <1>6, KeptHeld, CalmKeeps DEF AccessInv

-----------------------------------------------------------------------------
(* What a transaction writes *)

RowsOK ==
  /\ binding \in [Access!Actors -> Access!Binding] /\ cred \in [Access!Actors -> Nat]
  /\ asks \in [Asks -> Access!AskRow] /\ grants \in [Asks -> Access!GrantRow]
  /\ \A k \in Asks : /\ (grants[k].status = "claimed") = (grants[k].nonce # "none")
                      /\ (grants[k].status # "none") = (asks[k].status = "approved")
  /\ reasons \subseteq {OpOf[o].reason : o \in Ops}

Written(o) ==
  /\ RowsOK' /\ Versioned' /\ Access!RotationRevokes' /\ Forward /\ Shown(o)'
  /\ \A p \in Ops : Access!Kind(p) = "create" /\ p # o /\ asks[Access!Ask(p)].status = "none"
                      => asks'[Access!Ask(p)].status = "none"
  /\ reasons \subseteq reasons'
  /\ Access!Kind(o) \in Access!RoleKinds => OpOf[o].reason \notin reasons /\ OpOf[o].reason \in reasons'

Ready(o) == /\ o \in Ops /\ op[o].pc = "commit" /\ Access!Revalidate(o) /\ Access!Refusal(o) = "none"

LEMMA ReadyTypes ==
  ASSUME Access!IdentityAccessAssumption, AccessInv, NEW o, Ready(o)
  PROVE  /\ RowsOK /\ Versioned /\ Access!RotationRevokes /\ ~op[o].ran
         /\ Access!Kind(o) \in Access!Kinds /\ Access!Ask(o) \in Asks
         /\ asks[Access!Ask(o)] \in Access!AskRow /\ grants[Access!Ask(o)] \in Access!GrantRow
         /\ Access!Kind(o) = "create" => asks[Access!Ask(o)].status = "none"
<1>1. o \in Ops /\ ~op[o].ran
  BY DEF Ready, AccessInv, AccessFiled
<1>2. Access!Kind(o) \in Access!Kinds /\ Access!Ask(o) \in Asks
  BY <1>1, KindTypes
<1>3. RowsOK
  BY DEF AccessInv, Access!TypeOK, RowsOK
<1> QED BY <1>1, <1>2, <1>3 DEF AccessInv, RowsOK, Unasked

\* The rows that a transaction leaves.
Moved(x, status, version) == [x EXCEPT !.status = status, !.version = version]
ClaimedBy(g, o) == [g EXCEPT !.status = "claimed", !.version = 2, !.nonce = o, !.lease = TRUE]
SettledFrom(g)  == [g EXCEPT !.status = "settled", !.version = 3, !.nonce = "none", !.lease = FALSE]
RevokedFrom(g, version) == [Access!Revoked(g) EXCEPT !.version = version]

LEMMA MovedTypes ==
  ASSUME NEW x \in Access!AskRow, NEW v \in 0 .. 2, NEW status \in {"approved", "rejected", "revoked"}
  PROVE  /\ Moved(x, status, v) \in Access!AskRow /\ Moved(x, status, v).status = status
         /\ Moved(x, status, v).version = v
BY DEF Access!AskRow, Moved

LEMMA GrantForTypes ==
  ASSUME NEW o, binding[Access!Senior].id \in Nat, binding[Access!Senior].version \in Nat,
         cred[Access!Senior] \in Nat
  PROVE  /\ Access!GrantFor(o) \in Access!GrantRow /\ Access!GrantFor(o).status = "active"
         /\ Access!GrantFor(o).version = 1 /\ Access!GrantFor(o).cred = cred[Access!Senior]
         /\ Access!GrantFor(o).nonce = "none"
<1>1. 1 \in 0 .. 3 /\ 0 \in 0 .. 3
  OBVIOUS
<1> QED BY <1>1 DEF Access!NoGrant, Access!GrantRow, Access!GrantFor

LEMMA ClaimedTypes ==
  ASSUME NEW g \in Access!GrantRow, NEW o \in Ops
  PROVE  /\ ClaimedBy(g, o) \in Access!GrantRow /\ ClaimedBy(g, o).status = "claimed"
         /\ ClaimedBy(g, o).version = 2 /\ ClaimedBy(g, o).nonce = o
         /\ ClaimedBy(g, o).cred = g.cred
<1>1. 2 \in 0 .. 3
  OBVIOUS
<1> QED BY <1>1 DEF Access!GrantRow, ClaimedBy

LEMMA SettledTypes ==
  ASSUME NEW g \in Access!GrantRow
  PROVE  /\ SettledFrom(g) \in Access!GrantRow /\ SettledFrom(g).status = "settled"
         /\ SettledFrom(g).version = 3 /\ SettledFrom(g).nonce = "none"
<1>1. 3 \in 0 .. 3
  OBVIOUS
<1> QED BY <1>1 DEF Access!GrantRow, SettledFrom

LEMMA RevokedTypes ==
  ASSUME NEW g \in Access!GrantRow, NEW v \in 0 .. 3
  PROVE  /\ RevokedFrom(g, v) \in Access!GrantRow /\ RevokedFrom(g, v).status = "revoked"
         /\ RevokedFrom(g, v).version = v /\ RevokedFrom(g, v).nonce = "none"
BY DEF Access!GrantRow, RevokedFrom, Access!Revoked

LEMMA CreateWrites ==
  ASSUME Access!IdentityAccessAssumption, AccessInv, NEW o, Ready(o), Access!Kind(o) = "create",
         Access!CreateRequest(o)
  PROVE  Written(o)
<1>t. /\ RowsOK /\ Versioned /\ Access!RotationRevokes /\ o \in Ops /\ Access!Ask(o) \in Asks
      /\ asks[Access!Ask(o)].status = "none"
  BY ReadyTypes DEF Ready
<1>1. Access!NewAsk \in Access!AskRow /\ Access!NewAsk.status = "pending" /\ Access!NewAsk.version = 1
  BY DEF Access!NewAsk, Access!AskRow
<1>2. /\ asks' \in [Asks -> Access!AskRow] /\ asks'[Access!Ask(o)] = Access!NewAsk
      /\ \A k \in Asks \ {Access!Ask(o)} : asks'[k] = asks[k]
      /\ UNCHANGED <<binding, cred, grants, reasons>>
  BY <1>t, <1>1 DEF Access!CreateRequest, RowsOK
<1>3. RowsOK'
  BY <1>t, <1>1, <1>2 DEF RowsOK
<1>4. Versioned' /\ Access!RotationRevokes' /\ Forward
  BY <1>t, <1>1, <1>2 DEF Versioned, Access!RotationRevokes, Forward
<1>5. Shown(o)'
  BY <1>1, <1>2 DEF Shown, Access!Kind, Access!Ask
<1>6. \A p \in Ops : Access!Kind(p) = "create" /\ p # o => Access!Ask(p) # Access!Ask(o) /\ Access!Ask(p) \in Asks
  BY <1>t, KindTypes DEF Access!IdentityAccessAssumption, Access!Kind, Access!Ask
<1> QED BY <1>2, <1>3, <1>4, <1>5, <1>6 DEF Written, Access!RoleKinds

LEMMA DecideWrites ==
  ASSUME Access!IdentityAccessAssumption, AccessInv, NEW o, Ready(o), Decides(o), Access!Decide(o)
  PROVE  Written(o)
<1>t. /\ RowsOK /\ Versioned /\ Access!RotationRevokes /\ o \in Ops /\ Access!Ask(o) \in Asks
      /\ asks[Access!Ask(o)] \in Access!AskRow
  BY ReadyTypes DEF Ready
<1>1. Access!Refusal(o) = Access!DecisionRefusal(o)
  BY DEF Access!Refusal, Decides, Access!RoleKinds
<1>2. asks[Access!Ask(o)].status = "pending" /\ asks[Access!Ask(o)].version = 1
  BY <1>t, <1>1 DEF Ready, Access!DecisionRefusal, Access!Pending, Versioned
<1>3. grants[Access!Ask(o)].status = "none"
  BY <1>2, <1>t DEF RowsOK
<1> DEFINE verdict == IF Access!Kind(o) = "approve" THEN "approved" ELSE "rejected"
           a == Moved(asks[Access!Ask(o)], verdict, 2)
<1>8. verdict \in {"approved", "rejected"}
  OBVIOUS
<1>4. a \in Access!AskRow /\ a.status = verdict /\ a.version = 2
  BY <1>8, <1>t, MovedTypes
<1>5. /\ asks' \in [Asks -> Access!AskRow] /\ asks'[Access!Ask(o)] = a
      /\ \A k \in Asks \ {Access!Ask(o)} : asks'[k] = asks[k]
      /\ UNCHANGED <<binding, cred, reasons>>
  <2>1. /\ asks' = [asks EXCEPT ![Access!Ask(o)].status = verdict, ![Access!Ask(o)].version = @ + 1]
        /\ UNCHANGED <<binding, cred, reasons>> /\ asks \in [Asks -> Access!AskRow]
    BY <1>t DEF Access!Decide, RowsOK
  <2>2. asks' = [asks EXCEPT ![Access!Ask(o)] = Moved(asks[Access!Ask(o)], verdict, 2)]
    <3> HIDE DEF verdict, a
    <3> QED BY <2>1, <1>t, <1>2, <1>8 DEF Access!AskRow, Moved
  <2>3. asks' = [asks EXCEPT ![Access!Ask(o)] = a]
    BY <2>2
  <2> HIDE DEF a
  <2> QED BY ZenonT(120), <2>1, <2>3, <1>t, <1>4
<1>6. /\ Access!GrantFor(o) \in Access!GrantRow /\ Access!GrantFor(o).status = "active"
      /\ Access!GrantFor(o).version = 1
      /\ Access!GrantFor(o).cred = cred[Access!Senior] /\ Access!GrantFor(o).nonce = "none"
  <2>1. binding[Access!Senior].id \in Nat /\ binding[Access!Senior].version \in Nat /\ cred[Access!Senior] \in Nat
    BY <1>t DEF RowsOK, Access!Actors, Access!Binding
  <2> QED BY <2>1, GrantForTypes
<1>7. /\ grants' \in [Asks -> Access!GrantRow]
      /\ \A k \in Asks \ {Access!Ask(o)} : grants'[k] = grants[k]
      /\ grants'[Access!Ask(o)] = IF verdict = "approved" THEN Access!GrantFor(o) ELSE grants[Access!Ask(o)]
  BY <1>t, <1>6 DEF Access!Decide, RowsOK
<1>9. Shown(o)'
  BY <1>4, <1>5 DEF Shown, Access!Kind, Access!Ask, Decides
<1> HIDE DEF verdict, a
<1>10. RowsOK'
  <2>1. /\ binding' \in [Access!Actors -> Access!Binding] /\ cred' \in [Access!Actors -> Nat]
        /\ reasons' \subseteq {OpOf[p].reason : p \in Ops}
    BY <1>t, <1>5 DEF RowsOK
  <2>2. ASSUME NEW k \in Asks
        PROVE  /\ (grants'[k].status = "claimed") = (grants'[k].nonce # "none")
               /\ (grants'[k].status # "none") = (asks'[k].status = "approved")
    BY <1>t, <1>3, <1>4, <1>5, <1>6, <1>7, <1>8 DEF RowsOK
  <2> QED BY <2>1, <2>2, <1>5, <1>7 DEF RowsOK
<1>11. Versioned' /\ Access!RotationRevokes' /\ Forward
  BY <1>t, <1>2, <1>3, <1>4, <1>5, <1>6, <1>7, <1>8 DEF Versioned, Access!RotationRevokes, Forward
<1>12. \A p \in Ops : Access!Kind(p) = "create" /\ asks[Access!Ask(p)].status = "none"
                      => asks'[Access!Ask(p)].status = "none"
  BY <1>2, <1>5, KindTypes
<1> QED BY <1>5, <1>9, <1>10, <1>11, <1>12 DEF Written, Access!RoleKinds, Decides

LEMMA ClaimWrites ==
  ASSUME Access!IdentityAccessAssumption, AccessInv, NEW o, Ready(o), Access!Kind(o) = "claim",
         Access!Claim(o)
  PROVE  Written(o)
<1>t. /\ RowsOK /\ Versioned /\ Access!RotationRevokes /\ o \in Ops /\ o # "none" /\ Access!Ask(o) \in Asks
      /\ grants[Access!Ask(o)] \in Access!GrantRow /\ grants \in [Asks -> Access!GrantRow]
  BY ReadyTypes DEF Ready, RowsOK, Access!IdentityAccessAssumption
<1>1. Access!Claimable(o)
  BY DEF Ready, Access!Refusal, Access!Unless, Access!RoleKinds
<1>2. grants[Access!Ask(o)].status = "active" /\ grants[Access!Ask(o)].version = 1
  BY <1>t, <1>1 DEF Access!Claimable, Versioned
<1> DEFINE g == ClaimedBy(grants[Access!Ask(o)], o)
<1>3. /\ g \in Access!GrantRow /\ g.status = "claimed" /\ g.version = 2 /\ g.nonce = o
      /\ g.cred = grants[Access!Ask(o)].cred
  BY <1>t, ClaimedTypes
<1>4. grants' = [grants EXCEPT ![Access!Ask(o)] = g] /\ UNCHANGED <<binding, cred, asks, reasons>>
  BY <1>t, <1>2 DEF Access!Claim, ClaimedBy, Access!GrantRow
<1> HIDE DEF g
<1>5. /\ grants' \in [Asks -> Access!GrantRow] /\ grants'[Access!Ask(o)] = g
      /\ \A k \in Asks \ {Access!Ask(o)} : grants'[k] = grants[k]
  BY <1>t, <1>3, <1>4
<1>6. RowsOK'
  <2>1. ASSUME NEW k \in Asks
        PROVE  /\ (grants'[k].status = "claimed") = (grants'[k].nonce # "none")
               /\ (grants'[k].status # "none") = (asks'[k].status = "approved")
    BY <1>t, <1>2, <1>3, <1>4, <1>5 DEF RowsOK
  <2> QED BY <2>1, <1>4, <1>5, <1>t DEF RowsOK
<1>7. Versioned' /\ Access!RotationRevokes' /\ Forward
  BY <1>t, <1>2, <1>3, <1>4, <1>5 DEF Versioned, Access!RotationRevokes, Forward
<1>8. Shown(o)'
  BY <1>3, <1>5 DEF Shown, Access!Kind, Access!Ask
<1> QED BY <1>4, <1>6, <1>7, <1>8 DEF Written, Access!RoleKinds

LEMMA SettleWrites ==
  ASSUME Access!IdentityAccessAssumption, AccessInv, NEW o, Ready(o), Access!Kind(o) = "settle",
         Access!Settle(o)
  PROVE  Written(o)
<1>t. /\ RowsOK /\ Versioned /\ Access!RotationRevokes /\ o \in Ops /\ Access!Ask(o) \in Asks
      /\ grants[Access!Ask(o)] \in Access!GrantRow /\ grants \in [Asks -> Access!GrantRow]
  BY ReadyTypes DEF Ready, RowsOK
<1>1. Access!Settleable(o)
  BY DEF Ready, Access!Refusal, Access!Unless, Access!RoleKinds
<1>2. grants[Access!Ask(o)].status = "claimed" /\ grants[Access!Ask(o)].version = 2
  BY <1>t, <1>1 DEF Access!Settleable, Versioned
<1> DEFINE g == SettledFrom(grants[Access!Ask(o)])
<1>3. g \in Access!GrantRow /\ g.status = "settled" /\ g.version = 3 /\ g.nonce = "none"
  BY <1>t, SettledTypes
<1>4. grants' = [grants EXCEPT ![Access!Ask(o)] = g] /\ UNCHANGED <<binding, cred, asks, reasons>>
  BY <1>t, <1>2 DEF Access!Settle, SettledFrom, Access!GrantRow
<1> HIDE DEF g
<1>5. /\ grants' \in [Asks -> Access!GrantRow] /\ grants'[Access!Ask(o)] = g
      /\ \A k \in Asks \ {Access!Ask(o)} : grants'[k] = grants[k]
  BY <1>t, <1>3, <1>4
<1>6. RowsOK'
  <2>1. ASSUME NEW k \in Asks
        PROVE  /\ (grants'[k].status = "claimed") = (grants'[k].nonce # "none")
               /\ (grants'[k].status # "none") = (asks'[k].status = "approved")
    BY <1>t, <1>2, <1>3, <1>4, <1>5 DEF RowsOK
  <2> QED BY <2>1, <1>4, <1>5, <1>t DEF RowsOK
<1>7. Versioned' /\ Access!RotationRevokes' /\ Forward
  BY <1>t, <1>2, <1>3, <1>4, <1>5 DEF Versioned, Access!RotationRevokes, Forward
<1>8. Shown(o)'
  BY <1>3, <1>5 DEF Shown, Access!Kind, Access!Ask
<1> QED BY <1>4, <1>6, <1>7, <1>8 DEF Written, Access!RoleKinds

LEMMA RoleWrites ==
  ASSUME Access!IdentityAccessAssumption, AccessInv, NEW o, Ready(o), Access!Kind(o) \in Access!RoleKinds,
         Access!RoleChange(o)
  PROVE  Written(o)
<1>t. /\ RowsOK /\ Versioned /\ Access!RotationRevokes /\ o \in Ops /\ Access!Ask(o) \in Asks
  BY ReadyTypes DEF Ready
<1>1. OpOf[o].reason \notin reasons
  BY DEF Ready, Access!Refusal, Access!RoleRefusal, Access!Unless, Access!RoleKinds
<1>2. reasons' = reasons \cup {OpOf[o].reason} /\ UNCHANGED <<cred, asks, grants>>
  BY DEF Access!RoleChange, Access!ConsumeOwned
<1>3. binding' \in [Access!Actors -> Access!Binding]
  <2>1. binding \in [Access!Actors -> Access!Binding] /\ Access!Senior \in Access!Actors /\ binding[Access!Senior] \in Access!Binding
    BY <1>t DEF RowsOK, Access!Actors
  <2>v. binding[Access!Senior].version + 1 \in Nat
    BY <2>1 DEF Access!Binding
  <2>2. CASE Access!Kind(o) = "create_role"
    <3>1. Access!CreateRole(o)
      BY <2>2 DEF Access!RoleChange
    <3>2. [id |-> binding[Access!Senior].id + 1, version |-> 1, enabled |-> TRUE,
           role |-> "senior_admin"] \in Access!Binding
      BY <2>1 DEF Access!Binding, Access!Roles
    <3> QED BY <2>1, <3>1, <3>2 DEF Access!CreateRole
  <2>3. CASE Access!Kind(o) = "update_role"
    <3>1. Access!UpdateRole(o)
      BY <2>3 DEF Access!RoleChange
    <3>2. \A r \in {"admin", "senior_admin"} :
            [binding[Access!Senior] EXCEPT !.version = binding[Access!Senior].version + 1, !.role = r] \in Access!Binding
      BY <2>1, <2>v DEF Access!Binding, Access!Roles
    <3>3. PICK r \in {"admin", "senior_admin"} :
            binding' = [binding EXCEPT ![Access!Senior] = [binding[Access!Senior] EXCEPT
                          !.version = binding[Access!Senior].version + 1, !.role = r]]
      BY <2>1, <3>1 DEF Access!UpdateRole, Access!Binding
    <3> QED BY <2>1, <3>2, <3>3
  <2>4. CASE Access!Kind(o) = "disable_role"
    <3>1. Access!DisableRole(o)
      BY <2>4 DEF Access!RoleChange
    <3>2. [binding[Access!Senior] EXCEPT !.version = binding[Access!Senior].version + 1, !.enabled = FALSE]
            \in Access!Binding
      BY <2>1, <2>v DEF Access!Binding
    <3>3. binding' = [binding EXCEPT ![Access!Senior] = [binding[Access!Senior] EXCEPT
                        !.version = binding[Access!Senior].version + 1, !.enabled = FALSE]]
      BY <2>1, <3>1 DEF Access!DisableRole, Access!Binding
    <3> QED BY <2>1, <3>2, <3>3
  <2> QED BY <2>2, <2>3, <2>4 DEF Access!RoleKinds
<1>4. RowsOK'
  <2>1. OpOf[o].reason \in {OpOf[p].reason : p \in Ops}
    BY <1>t
  <2> QED BY <1>t, <1>2, <1>3, <2>1 DEF RowsOK
<1>5. Versioned' /\ Access!RotationRevokes' /\ Forward
  BY <1>t, <1>2 DEF Versioned, Access!RotationRevokes, Forward
<1>6. Shown(o)'
  BY DEF Shown, Access!Kind, Access!RoleKinds
<1> QED BY <1>1, <1>2, <1>4, <1>5, <1>6 DEF Written, Access!RoleKinds

LEMMA RotateWrites ==
  ASSUME Access!IdentityAccessAssumption, AccessInv, NEW o, Ready(o),
         Access!Kind(o) \in {"rotate_senior", "rotate_super"}, Access!Rotate(o)
  PROVE  Written(o)
<1>t. /\ RowsOK /\ Versioned /\ Access!RotationRevokes /\ o \in Ops /\ Access!ActorOf(o) \in Access!Actors
      /\ cred \in [Access!Actors -> Nat] /\ asks \in [Asks -> Access!AskRow]
      /\ grants \in [Asks -> Access!GrantRow]
  BY ReadyTypes, KindTypes DEF Ready, RowsOK
<1>1. /\ cred' = [cred EXCEPT ![Access!ActorOf(o)] = @ + 1] /\ UNCHANGED <<binding, reasons>>
      /\ cred' \in [Access!Actors -> Nat]
  BY <1>t DEF Access!Rotate
<1>s. Shown(o)'
  BY DEF Shown, Access!Kind
<1>2. CASE Access!ActorOf(o) # Access!Senior
  <2>1. UNCHANGED <<asks, grants>> /\ cred'[Access!Senior] = cred[Access!Senior]
    BY <1>t, <1>1, <1>2 DEF Access!Rotate, Access!Actors
  <2>2. RowsOK'
    BY <1>1, <2>1, <1>t DEF RowsOK
  <2>3. Versioned' /\ Access!RotationRevokes' /\ Forward
    BY <2>1, <1>t DEF Versioned, Access!RotationRevokes, Forward
  <2> QED BY <1>1, <1>s, <2>1, <2>2, <2>3 DEF Written, Access!RoleKinds
<1>3. CASE Access!ActorOf(o) = Access!Senior
  <2>1. /\ Access!RevokeAsks /\ Access!RevokeGrants({"active", "claimed"})
    BY <1>3 DEF Access!Rotate, Access!RevokeForSecurityRotation
  <2>2. ASSUME NEW k \in Asks
        PROVE  IF asks[k].status = "pending"
               THEN asks'[k] = Moved(asks[k], "revoked", 2) ELSE asks'[k] = asks[k]
    <3>1. CASE asks[k].status = "pending"
      <4>1. asks[k].version = 1 /\ asks[k] \in Access!AskRow
        BY <3>1, <1>t DEF Versioned
      <4>2. asks'[k] = [asks[k] EXCEPT !.status = "revoked", !.version = @ + 1]
        BY <3>1, <2>1 DEF Access!RevokeAsks
      <4> QED BY <3>1, <4>1, <4>2 DEF Moved, Access!AskRow
    <3>2. CASE asks[k].status # "pending"
      BY <3>2, <2>1 DEF Access!RevokeAsks
    <3> QED BY <3>1, <3>2
  <2>3. ASSUME NEW k \in Asks
        PROVE  IF grants[k].status \in {"active", "claimed"}
               THEN grants'[k] = RevokedFrom(grants[k], grants[k].version + 1)
               ELSE grants'[k] = grants[k]
    BY <2>1, <1>t DEF Access!RevokeGrants, RevokedFrom, Access!Revoked, Access!GrantRow
  <2>4. ASSUME NEW k \in Asks
        PROVE  /\ asks'[k] \in Access!AskRow
               /\ IF asks[k].status = "pending" THEN asks'[k].status = "revoked"
                  ELSE asks'[k] = asks[k]
    BY <2>2, <1>t, MovedTypes
  <2>5. ASSUME NEW k \in Asks
        PROVE  /\ grants'[k] \in Access!GrantRow
               /\ IF grants[k].status \in {"active", "claimed"}
                  THEN grants'[k].status = "revoked" /\ grants'[k].nonce = "none"
                  ELSE grants'[k] = grants[k]
    <3>1. CASE grants[k].status \in {"active", "claimed"}
      <4>1. grants[k].version + 1 \in 0 .. 3
        BY <1>t, <3>1 DEF Versioned
      <4> QED BY <3>1, <4>1, <2>3, <1>t, RevokedTypes
    <3>2. CASE grants[k].status \notin {"active", "claimed"}
      BY <3>2, <2>3, <1>t
    <3> QED BY <3>1, <3>2
  <2>6. asks' \in [Asks -> Access!AskRow] /\ grants' \in [Asks -> Access!GrantRow]
    <3>1. DOMAIN asks' = Asks /\ DOMAIN grants' = Asks
      BY <2>1 DEF Access!RevokeAsks, Access!RevokeGrants
    <3>2. asks' = [k \in Asks |-> asks'[k]] /\ grants' = [k \in Asks |-> grants'[k]]
      BY <2>1 DEF Access!RevokeAsks, Access!RevokeGrants
    <3> QED BY <3>2, <2>4, <2>5
  <2>7. RowsOK'
    <3>1. ASSUME NEW k \in Asks
          PROVE  /\ (grants'[k].status = "claimed") = (grants'[k].nonce # "none")
                 /\ (grants'[k].status # "none") = (asks'[k].status = "approved")
      BY <2>4, <2>5, <1>t DEF RowsOK
    <3> QED BY <3>1, <2>6, <1>1, <1>t DEF RowsOK
  <2>8. Versioned' /\ Access!RotationRevokes' /\ Forward
    BY <2>4, <2>5, <1>t DEF Versioned, Access!RotationRevokes, Forward
  <2>9. \A p \in Ops : asks[Access!Ask(p)].status = "none" => asks'[Access!Ask(p)].status = "none"
    BY <2>4, KindTypes
  <2> QED BY <1>1, <1>s, <2>7, <2>8, <2>9 DEF Written, Access!RoleKinds
<1> QED BY <1>2, <1>3

\* Whatever a request that is ready does, its rows are written like that.
LEMMA EffectWrites ==
  ASSUME Access!IdentityAccessAssumption, AccessInv, NEW o, Ready(o), Access!Effect(o)
  PROVE  Written(o)
<1>1. Access!Kind(o) \in Access!Kinds
  BY ReadyTypes
<1>2. CASE Access!Kind(o) = "create"
  BY <1>2, CreateWrites DEF Access!Effect, Access!RoleKinds
<1>3. CASE Decides(o)
  BY <1>3, DecideWrites DEF Access!Effect, Access!RoleKinds, Decides
<1>4. CASE Access!Kind(o) = "claim"
  BY <1>4, ClaimWrites DEF Access!Effect, Access!RoleKinds
<1>5. CASE Access!Kind(o) = "settle"
  BY <1>5, SettleWrites DEF Access!Effect, Access!RoleKinds
<1>6. CASE Access!Kind(o) \in Access!RoleKinds
  BY <1>6, RoleWrites DEF Access!Effect, Access!RoleKinds
<1>7. CASE Access!Kind(o) \in {"rotate_senior", "rotate_super"}
  BY <1>7, RotateWrites DEF Access!Effect, Access!RoleKinds
<1> QED BY <1>1, <1>2, <1>3, <1>4, <1>5, <1>6, <1>7 DEF Access!Kinds, Decides

LEMMA ExecuteKeeps ==
  ASSUME Access!IdentityAccessAssumption, AccessInv, NEW o, Ready(o), Access!CreateOrReplay(o) = "new",
         Access!Execute(o), UNCHANGED <<account, tokens>>
  PROVE  AccessInv' /\ Forward
<1>t. /\ Access!TypeOK /\ o \in Ops /\ op \in [Ops -> Access!Request] /\ op[o] \in Access!Request
      /\ OpOf[o].key \in Access!Keys /\ Access!ResultOf(o) \in Access!Results
      /\ Access!Kind(o) \in Access!Kinds
  BY KindTypes DEF AccessInv, Access!TypeOK, Ready
<1>1. Written(o)
  BY EffectWrites DEF Access!Execute
<1>2. /\ receipts[OpOf[o].key].result = "none"
      /\ receipts' = [receipts EXCEPT ![OpOf[o].key] = [result |-> Access!ResultOf(o), kind |-> Access!Kind(o)]]
      /\ receipts \in [Access!Keys -> [result: Access!Results \cup {"none"}, kind: Access!Kinds \cup {"none"}]]
  BY <1>t DEF Access!CreateOrReplay, Access!Execute, Access!CompleteLocal, Access!TypeOK
<1>3. PICK a \in Access!Results \cup Access!Refusals :
        op' = [op EXCEPT ![o].pc = "done", ![o].ran = TRUE, ![o].answer = a]
  BY <1>t DEF Access!Execute, Access!Refusals
<1>4. /\ op' \in [Ops -> Access!Request] /\ op'[o].pc = "done" /\ op'[o].ran
      /\ op'[o].proof = op[o].proof /\ \A p \in Ops \ {o} : op'[p] = op[p]
  <2> DEFINE x == [op[o] EXCEPT !.pc = "done", !.ran = TRUE, !.answer = a]
  <2>1. x \in Access!Request /\ x.pc = "done" /\ x.ran /\ x.proof = op[o].proof
    BY <1>t, <1>3 DEF Access!Request
  <2>2. op' = [op EXCEPT ![o] = x]
    BY <1>3, <1>t
  <2> HIDE DEF x
  <2> QED BY <2>1, <2>2, <1>t
<1>5. ~op[o].ran
  BY ReadyTypes
<1>6. Access!TypeOK'
  <2>1. receipts' \in [Access!Keys -> [result: Access!Results \cup {"none"}, kind: Access!Kinds \cup {"none"}]]
    BY <1>2, <1>t
  <2>2. faults' \in 0 .. MaxFaults
    BY <1>t DEF Access!Execute, Access!NoFault, Access!Fault, Access!TypeOK, Access!IdentityAccessAssumption
  <2>3. account' \in [Access!Actors -> BOOLEAN] /\ tokens' \in [Tokens -> Access!Proof]
    BY <1>t DEF Access!TypeOK
  <2> QED BY <1>1, <1>4, <2>1, <2>2, <2>3 DEF Access!TypeOK, Written, RowsOK
<1>7. HeldOnce'
  <2>1. HeldOnce /\ Kept
    BY <1>4 DEF Kept, AccessInv
  <2> QED BY <2>1, KeptHeld
<1>8. Decides(o) => op[o].proof # Access!NoProof
  <2>1. ASSUME Decides(o) PROVE op[o].proof # Access!NoProof
    <3>1. Access!DecisionRefusal(o) = "none"
      BY <2>1 DEF Ready, Access!Refusal, Access!RoleKinds, Decides
    <3>2. op[o].proof.actor = Access!Super
      BY <2>1, <3>1 DEF Access!DecisionRefusal, Access!ValidateStepUp, Access!ActorOf, Decides
    <3> QED BY <3>2 DEF Access!NoProof, Access!Super
  <2> QED BY <2>1
<1>9. ASSUME NEW p \in Ops, op[p].ran
      PROVE  /\ p # o /\ op'[p] = op[p] /\ ~Access!Shared(o, p) /\ ~Access!Shared(p, o)
             /\ receipts'[OpOf[p].key] = receipts[OpOf[p].key]
  <2>1. /\ receipts[OpOf[p].key].result # "none" /\ Access!ResultOf(p) \in Access!Results
        /\ Access!Kind(p) \in Access!RoleKinds => OpOf[p].reason \in reasons
        /\ Decides(p) => op[p].proof # Access!NoProof
    <3>1. /\ receipts[OpOf[p].key] = [result |-> Access!ResultOf(p), kind |-> Access!Kind(p)]
          /\ Access!Kind(p) \in Access!RoleKinds => OpOf[p].reason \in reasons
          /\ Decides(p) => op[p].proof # Access!NoProof
      BY <1>9 DEF AccessInv, AccessFiled
    <3>2. Access!ResultOf(p) \in Access!Results
      BY KindTypes
    <3> QED BY <3>1, <3>2 DEF Access!Results
  <2>2. p # o /\ op'[p] = op[p] /\ OpOf[p].key # OpOf[o].key
    BY <2>1, <1>2, <1>4, <1>5, <1>9
  <2>3. Access!Kind(o) \in Access!RoleKinds => OpOf[o].reason \notin reasons
    BY <1>1 DEF Written
  <2>4. ~(Decides(o) /\ Decides(p) /\ OpOf[o].token = OpOf[p].token)
    BY <2>1, <2>2, <1>8, <1>t DEF AccessInv, HeldOnce
  <2>5. ~Access!Shared(o, p) /\ ~Access!Shared(p, o)
    BY <2>1, <2>2, <2>3, <2>4 DEF Access!Shared, Decides
  <2>6. OpOf[p].key \in Access!Keys
    BY KindTypes
  <2> QED BY <2>2, <2>5, <2>6, <1>2, <1>t
<1>10. AccessFiled'
  <2> SUFFICES ASSUME NEW p \in Ops, op'[p].ran
               PROVE  /\ op'[p].pc = "done"
                      /\ receipts'[OpOf[p].key] = [result |-> Access!ResultOf(p), kind |-> Access!Kind(p)]
                      /\ Access!Kind(p) \in Access!RoleKinds => OpOf[p].reason \in reasons'
                      /\ Decides(p) => op'[p].proof # Access!NoProof
    BY DEF AccessFiled, Decides, Access!Kind, Access!NoProof, Access!ResultOf
  <2>1. CASE p = o
    BY <2>1, <1>1, <1>2, <1>4, <1>8, <1>t DEF Written
  <2>2. CASE p # o
    <3>1. op'[p] = op[p] /\ op[p].ran
      BY <2>2, <1>4
    <3>2. receipts'[OpOf[p].key] = receipts[OpOf[p].key]
      BY <3>1, <1>9
    <3> QED BY <3>1, <3>2, <1>1 DEF AccessInv, AccessFiled, Written
  <2> QED BY <2>1, <2>2
<1>11. Access!OneEffect'
  <2> SUFFICES ASSUME NEW p \in Ops, NEW q \in Ops, op'[p].ran, op'[q].ran, Access!Shared(p, q)
               PROVE  p = q
    BY DEF Access!OneEffect, Access!Shared, Access!Kind
  <2>1. CASE p # o /\ q # o
    BY <2>1, <1>4 DEF AccessInv, Access!OneEffect
  <2>2. CASE p # o /\ q = o
    BY <2>2, <1>4, <1>9
  <2>3. CASE p = o /\ q # o
    BY <2>3, <1>4, <1>9
  <2> QED BY <2>1, <2>2, <2>3
<1>12. Recorded'
  <2> SUFFICES ASSUME NEW p \in Ops, op'[p].ran PROVE Shown(p)'
    BY DEF Recorded
  <2>1. CASE p = o
    BY <2>1, <1>1 DEF Written, Shown, Access!Kind, Access!Ask
  <2>2. CASE p # o
    <3>1. op[p].ran /\ Shown(p) /\ Access!Ask(p) \in Asks
      BY <2>2, <1>4, KindTypes DEF AccessInv, Recorded
    <3>2. /\ asks[Access!Ask(p)].status # "none" => asks'[Access!Ask(p)].status # "none"
          /\ \A s \in {"approved", "rejected"} :
               asks[Access!Ask(p)].status = s => asks'[Access!Ask(p)].status = s
          /\ grants[Access!Ask(p)].status \in {"claimed", "settled", "revoked"}
               => grants'[Access!Ask(p)].status \in {"claimed", "settled", "revoked"}
          /\ grants[Access!Ask(p)].status = "settled" => grants'[Access!Ask(p)].status = "settled"
      BY <3>1, <1>1 DEF Written, Forward
    <3> QED BY <3>1, <3>2 DEF Shown, Access!Kind, Access!Ask
  <2> QED BY <2>1, <2>2
<1>13. Unasked'
  <2> SUFFICES ASSUME NEW p \in Ops, Access!Kind(p) = "create", ~op'[p].ran
               PROVE  asks'[Access!Ask(p)].status = "none"
    BY DEF Unasked, Access!Kind, Access!Ask
  <2>1. p # o /\ ~op[p].ran
    BY <1>4
  <2> QED BY <2>1, <1>1 DEF AccessInv, Unasked, Written
<1> QED BY <1>1, <1>6, <1>7, <1>10, <1>11, <1>12, <1>13 DEF AccessInv, Written

LEMMA MutateKeeps ==
  ASSUME Access!IdentityAccessAssumption, AccessInv, NEW o \in Ops, Access!Mutate(o)
  PROVE  AccessInv' /\ Forward
<1>t. Access!TypeOK /\ op[o].pc = "commit" /\ OpOf[o].key \in Access!Keys /\ Access!Kind(o) \in Access!Kinds
  BY KindTypes DEF AccessInv, Access!Mutate, Access!At
<1>1. UNCHANGED <<account, tokens>>
  BY DEF Access!Mutate
<1>2. ASSUME NEW a \in Access!Results \cup Access!Refusals \cup {"none"}, Access!Refuse(o, a),
             Access!NoFault \/ Access!Fault
      PROVE  AccessInv' /\ Forward
  BY <1>t, <1>1, <1>2, AccessAnswerKeeps DEF Access!Refuse
<1>3. \A r \in Access!Refusals : Access!Told(o, r) \in Access!Refusals
  BY DEF Access!Told, Access!Refusals
<1>4. Access!Refusal(o) \in Access!Refusals \cup {"none"}
  <2>1. CASE Access!Kind(o) = "create"
    BY <2>1 DEF Access!Refusal, Access!RoleKinds
  <2>2. CASE Decides(o)
    BY <2>2 DEF Access!Refusal, Access!RoleKinds, Decides, Access!DecisionRefusal, Access!Refusals
  <2>3. CASE Access!Kind(o) = "claim"
    BY <2>3 DEF Access!Refusal, Access!RoleKinds, Access!Unless, Access!Refusals
  <2>4. CASE Access!Kind(o) = "settle"
    BY <2>4 DEF Access!Refusal, Access!RoleKinds, Access!Unless, Access!Refusals
  <2>5. CASE Access!Kind(o) \in Access!RoleKinds
    BY <2>5 DEF Access!Refusal, Access!RoleKinds, Access!RoleRefusal, Access!Unless, Access!Refusals
  <2>6. CASE Access!Kind(o) \in {"rotate_senior", "rotate_super"}
    BY <2>6 DEF Access!Refusal, Access!RoleKinds, Access!Unless, Access!Refusals
  <2> QED BY <1>t, <2>1, <2>2, <2>3, <2>4, <2>5, <2>6 DEF Access!Kinds, Decides
<1>5. CASE Access!Refuse(o, Access!Told(o, "forbidden")) /\ Access!NoFault
  BY <1>2, <1>3, <1>5 DEF Access!Refusals
<1>6. CASE Access!Refuse(o, receipts[OpOf[o].key].result) /\ Access!NoFault
  BY <1>2, <1>6, <1>t DEF Access!TypeOK
<1>7. CASE Access!Refuse(o, Access!Told(o, "conflict")) /\ Access!NoFault
  BY <1>2, <1>3, <1>7 DEF Access!Refusals
<1>8. CASE Access!Refusal(o) # "none" /\ Access!Refuse(o, Access!Told(o, Access!Refusal(o))) /\ Access!NoFault
  BY <1>2, <1>3, <1>4, <1>8
<1>9. CASE Access!Refuse(o, "unavailable") /\ Access!Fault
  BY <1>2, <1>9 DEF Access!Refusals
<1>10. CASE /\ Access!Revalidate(o) /\ Access!CreateOrReplay(o) = "new" /\ Access!Refusal(o) = "none"
            /\ Access!Execute(o)
  BY <1>1, <1>t, <1>10, ExecuteKeeps DEF Ready
<1> QED BY <1>5, <1>6, <1>7, <1>8, <1>9, <1>10 DEF Access!Mutate

-----------------------------------------------------------------------------
(* The invariant *)

LEMMA Steps ==
  ASSUME Access!Next
  PROVE  \/ \E o \in Ops : Access!ConsumeStepUp(o) \/ Access!Authorize(o) \/ Access!Mutate(o)
         \/ World
BY DEF Access!Next, World, Access!Busy, Access!Step, Access!Serve, Access!ServeCreate, Access!ServeDecide,
       Access!ServeClaim, Access!ServeSettle,
       Access!ServeCreateRole, Access!ServeUpdateRole, Access!ServeDisableRole, Access!ServeRotate

LEMMA NextKeeps ==
  ASSUME Access!IdentityAccessAssumption, AccessInv, [Access!Next]_(Access!accessVars)
  PROVE  AccessInv' /\ Forward
<1>1. CASE Access!Next
  BY <1>1, Steps, ConsumeKeeps, AuthorizeKeeps, MutateKeeps, WorldKeeps
<1>2. CASE UNCHANGED Access!accessVars
  <2>1. \A k \in Asks : asks[k] \in Access!AskRow /\ grants[k] \in Access!GrantRow
    BY DEF AccessInv, Access!TypeOK
  <2>2. AccessAged
    BY <1>2, <2>1 DEF AccessAged, Access!AskRow, Access!GrantRow, Access!accessVars
  <2>3. Access!TypeOK' /\ HeldOnce' /\ Calm
    BY <1>2, <2>2 DEF AccessInv, Access!TypeOK, HeldOnce, Calm, Access!accessVars, Decides, Access!Kind,
                      Access!NoProof
  <2> QED BY <2>3, CalmKeeps
<1> QED BY <1>1, <1>2

LEMMA InitHolds ==
  ASSUME Access!IdentityAccessAssumption, Access!Init
  PROVE  AccessInv
<1>1. PICK approved \in BOOLEAN :
        /\ asks = [k \in Asks |-> IF k # FirstAsk THEN Access!NoAsk
                                  ELSE IF approved THEN [Access!NewAsk EXCEPT !.status = "approved",
                                                                       !.version = 2]
                                  ELSE Access!NewAsk]
        /\ grants = [k \in Asks |-> IF k = FirstAsk /\ approved THEN Access!FirstGrant ELSE Access!NoGrant]
  BY DEF Access!Init
<1>2. /\ binding = [a \in Access!Actors |-> [id |-> 1, version |-> 1, enabled |-> TRUE,
                                      role |-> IF a = Access!Senior THEN "senior_admin" ELSE "super_admin"]]
      /\ cred = [a \in Access!Actors |-> 1] /\ account = [a \in Access!Actors |-> TRUE]
      /\ tokens = [t \in Tokens |-> [actor |-> Access!Super, cred |-> 1]] /\ reasons = {}
      /\ receipts = [k \in Access!Keys |-> [result |-> "none", kind |-> "none"]] /\ faults = 0
  BY DEF Access!Init
<1>3. /\ op \in [Ops -> Access!Request] /\ \A o \in Ops : ~op[o].ran /\ op[o].proof = Access!NoProof
  <2>1. PICK active \in Batches :
          op = [o \in Ops |-> [pc |-> IF o \in active THEN "idle" ELSE "done", seen |-> 0,
                               proof |-> Access!NoProof, evidence |-> Access!NoEvidence, ran |-> FALSE,
                               answer |-> "none"]]
    BY DEF Access!Init
  <2>2. Access!NoProof \in Access!Proof
    BY DEF Access!NoProof, Access!Proof
  <2>3. Access!NoEvidence \in [id: Nat, version: Nat, role: Access!Roles \cup {"none"}, cred: Nat]
    BY DEF Access!NoEvidence
  <2>4. \A pc \in {"idle", "done"} :
          [pc |-> pc, seen |-> 0, proof |-> Access!NoProof, evidence |-> Access!NoEvidence, ran |-> FALSE,
           answer |-> "none"] \in Access!Request
    BY <2>2, <2>3 DEF Access!Request
  <2> QED BY <2>1, <2>4
<1>4. /\ Access!NoAsk \in Access!AskRow /\ Access!NoAsk.status = "none"
      /\ Access!NewAsk \in Access!AskRow /\ Access!NewAsk.status = "pending" /\ Access!NewAsk.version = 1
  BY DEF Access!NoAsk, Access!NewAsk, Access!AskRow
<1>5. /\ [Access!NewAsk EXCEPT !.status = "approved", !.version = 2] \in Access!AskRow
      /\ [Access!NewAsk EXCEPT !.status = "approved", !.version = 2].status = "approved"
  <2>1. 2 \in 0 .. 2
    OBVIOUS
  <2>2. /\ Moved(Access!NewAsk, "approved", 2) \in Access!AskRow
        /\ Moved(Access!NewAsk, "approved", 2).status = "approved"
    BY <2>1, <1>4, MovedTypes
  <2> QED BY <2>2 DEF Moved
<1>6. Access!NoGrant \in Access!GrantRow /\ Access!NoGrant.status = "none" /\ Access!NoGrant.nonce = "none"
  BY DEF Access!NoGrant, Access!GrantRow
<1>7. /\ Access!FirstGrant \in Access!GrantRow /\ Access!FirstGrant.status = "active"
      /\ Access!FirstGrant.nonce = "none"
      /\ Access!FirstGrant.version = 1 /\ Access!FirstGrant.cred = 1
  <2>1. 1 \in 0 .. 3 /\ 0 \in 0 .. 3 /\ 1 \in Nat
    OBVIOUS
  <2> QED BY <2>1 DEF Access!FirstGrant, Access!NoGrant, Access!GrantRow
<1>8. asks \in [Asks -> Access!AskRow] /\ grants \in [Asks -> Access!GrantRow]
  BY <1>1, <1>4, <1>5, <1>6, <1>7
<1>9. ASSUME NEW k \in Asks
      PROVE  /\ (grants[k].status = "claimed") = (grants[k].nonce # "none")
             /\ (grants[k].status # "none") = (asks[k].status = "approved")
             /\ asks[k].status = "pending" => asks[k].version = 1
             /\ grants[k].status = "active" => grants[k].version = 1 /\ grants[k].cred = 1
             /\ grants[k].status # "claimed"
             /\ k # FirstAsk => asks[k].status = "none"
  BY <1>1, <1>4, <1>5, <1>6, <1>7
<1>10. Access!TypeOK
  <2>1. binding \in [Access!Actors -> Access!Binding] /\ cred \in [Access!Actors -> Nat]
        /\ account \in [Access!Actors -> BOOLEAN]
    BY <1>2 DEF Access!Binding, Access!Roles
  <2>2. tokens \in [Tokens -> Access!Proof]
    BY <1>2 DEF Access!Proof, Access!Actors
  <2>3. receipts \in [Access!Keys -> [result: Access!Results \cup {"none"}, kind: Access!Kinds \cup {"none"}]]
    BY <1>2
  <2>4. faults \in 0 .. MaxFaults
    BY <1>2 DEF Access!IdentityAccessAssumption
  <2> QED BY <1>2, <1>3, <1>8, <1>9, <2>1, <2>2, <2>3, <2>4 DEF Access!TypeOK
<1>11. Versioned /\ Access!RotationRevokes
  BY <1>2, <1>9 DEF Versioned, Access!RotationRevokes, Access!Actors
<1>12. Unasked
  BY <1>9, KindTypes DEF Unasked, Access!IdentityAccessAssumption, Access!Kind, Access!Ask
<1>13. AccessFiled /\ HeldOnce /\ Recorded /\ Access!OneEffect
  BY <1>3 DEF AccessFiled, HeldOnce, Recorded, Access!OneEffect
<1> QED BY <1>10, <1>11, <1>12, <1>13 DEF AccessInv

THEOREM AccessInvariant ==
  ASSUME Access!IdentityAccessAssumption
  PROVE  Access!Spec => []AccessInv
<1>1. Access!Init => AccessInv
  BY InitHolds
<1>2. AccessInv /\ [Access!Next]_(Access!accessVars) => AccessInv'
  BY NextKeeps
<1> QED BY <1>1, <1>2, PTL DEF Access!Spec

\* Every row, request, token and receipt is well-formed, and an approval and
\* its grant are one: there is a grant exactly where an ask is approved.
THEOREM AccessTypeCorrect ==
  ASSUME Access!IdentityAccessAssumption
  PROVE  Access!Spec => []Access!TypeOK
<1>1. AccessInv => Access!TypeOK
  BY DEF AccessInv
<1> QED BY <1>1, AccessInvariant, PTL

\* The operation of an idempotency key takes effect once, and one reason, and
\* one step-up token, back one operation (CreateOrReplay, ConsumeOwned,
\* ValidateStepUp).
THEOREM EffectOnce ==
  ASSUME Access!IdentityAccessAssumption
  PROVE  Access!Spec => []Access!OneEffect
<1>1. AccessInv => Access!OneEffect
  BY DEF AccessInv
<1> QED BY <1>1, AccessInvariant, PTL

\* What a receipt answers a retry with stays true of the rows it is about.
THEOREM AnswersStayTrue ==
  ASSUME Access!IdentityAccessAssumption
  PROVE  Access!Spec => []Access!ReceiptsHold
<1>1. AccessInv => Access!ReceiptsHold
  BY DEF AccessInv, Recorded, Shown, Access!ReceiptsHold
<1> QED BY <1>1, AccessInvariant, PTL

\* Nothing given under a question outlives it (revokeForSecurityRotation): a
\* grant that can still be used was approved under the question in force.
THEOREM QuestionBinds ==
  ASSUME Access!IdentityAccessAssumption
  PROVE  Access!Spec => []Access!RotationRevokes
<1>1. AccessInv => Access!RotationRevokes
  BY DEF AccessInv
<1> QED BY <1>1, AccessInvariant, PTL

-----------------------------------------------------------------------------
(* What a step may never do *)

\* A decision, a settlement and a revocation are final, whatever two approvers,
\* a claim and a rotation do at once.
THEOREM Finality ==
  ASSUME Access!IdentityAccessAssumption
  PROVE  Access!Spec => Access!DecisionsFinal
<1>1. AccessInv /\ [Access!Next]_(Access!accessVars) => [Access!Final]_(Access!accessVars)
  <2> SUFFICES ASSUME AccessInv, [Access!Next]_(Access!accessVars) PROVE Access!Final
    OBVIOUS
  <2>1. Forward
    BY NextKeeps
  <2> QED BY <2>1 DEF Forward, Access!Final
<1> QED BY <1>1, AccessInvariant, PTL DEF Access!Spec, Access!DecisionsFinal

LEMMA EffectGrants ==
  ASSUME Access!IdentityAccessAssumption, AccessInv, NEW o, Ready(o), Access!Effect(o), NEW k \in Asks
  PROVE  \/ grants'[k] = grants[k]
         \/ grants'[k].status = "revoked"
         \/ Access!Kind(o) = "approve" /\ k = Access!Ask(o) /\ grants'[k].status = "active"
         \/ Access!Kind(o) \in {"claim", "settle"} /\ k = Access!Ask(o)
<1>t. /\ Access!TypeOK /\ o \in Ops /\ Access!Kind(o) \in Access!Kinds /\ Access!Ask(o) \in Asks
      /\ grants \in [Asks -> Access!GrantRow] /\ grants[k] \in Access!GrantRow
  BY ReadyTypes DEF AccessInv, Access!TypeOK, Ready
<1>1. CASE Access!Kind(o) = "create" \/ Access!Kind(o) \in Access!RoleKinds
  BY <1>1 DEF Access!Effect, Access!CreateRequest, Access!RoleChange, Access!RoleKinds
<1>2. CASE Decides(o)
  <2>1. Access!Decide(o)
    BY <1>2 DEF Access!Effect, Access!RoleKinds, Decides
  <2>2. CASE Access!Kind(o) = "approve"
    <3>1. grants' = [grants EXCEPT ![Access!Ask(o)] = Access!GrantFor(o)]
      BY <2>1, <2>2 DEF Access!Decide
    <3>2. Access!GrantFor(o).status = "active"
      <4>1. binding[Access!Senior].id \in Nat /\ binding[Access!Senior].version \in Nat /\ cred[Access!Senior] \in Nat
        BY <1>t DEF Access!TypeOK, Access!Actors, Access!Binding
      <4> QED BY <4>1, GrantForTypes
    <3> QED BY <3>1, <3>2, <2>2, <1>t
  <2>3. CASE Access!Kind(o) = "reject"
    BY <2>1, <2>3 DEF Access!Decide
  <2> QED BY <1>2, <2>2, <2>3 DEF Decides
<1>3. CASE Access!Kind(o) = "claim"
  <2>1. Access!Claim(o)
    BY <1>3 DEF Access!Effect, Access!RoleKinds
  <2>2. k # Access!Ask(o) => grants'[k] = grants[k]
    BY <2>1, <1>t DEF Access!Claim
  <2> QED BY <1>3, <2>2
<1>4. CASE Access!Kind(o) = "settle"
  <2>1. Access!Settle(o)
    BY <1>4 DEF Access!Effect, Access!RoleKinds
  <2>2. k # Access!Ask(o) => grants'[k] = grants[k]
    BY <2>1, <1>t DEF Access!Settle
  <2> QED BY <1>4, <2>2
<1>5. CASE Access!Kind(o) \in {"rotate_senior", "rotate_super"}
  <2>1. Access!Rotate(o)
    BY <1>5 DEF Access!Effect, Access!RoleKinds
  <2>2. CASE UNCHANGED grants
    BY <2>2
  <2>3. CASE Access!RevokeGrants({"active", "claimed"})
    <3>1. CASE grants[k].status \in {"active", "claimed"}
      <4>1. grants'[k] = [Access!Revoked(grants[k]) EXCEPT !.version = @ + 1]
        BY <2>3, <3>1 DEF Access!RevokeGrants
      <4>2. grants'[k].status = "revoked"
        BY <4>1, <1>t DEF Access!Revoked, Access!GrantRow
      <4> QED BY <4>2
    <3>2. CASE grants[k].status \notin {"active", "claimed"}
      BY <2>3, <3>2 DEF Access!RevokeGrants
    <3> QED BY <3>1, <3>2
  <2> QED BY <2>1, <2>2, <2>3 DEF Access!Rotate, Access!RevokeForSecurityRotation
<1> QED BY <1>t, <1>1, <1>2, <1>3, <1>4, <1>5 DEF Access!Kinds, Decides

\* Only a request that is ready changes the status or the version of a grant.
LEMMA GrantSteps ==
  ASSUME Access!IdentityAccessAssumption, AccessInv, [Access!Next]_(Access!accessVars)
  PROVE  \/ \A k \in Asks : /\ grants'[k].status = grants[k].status
                            /\ grants'[k].version = grants[k].version
         \/ \E o \in Ops : Ready(o) /\ Access!Effect(o) /\ op'[o].ran /\ ~op[o].ran
<1>t. op \in [Ops -> Access!Request] /\ grants \in [Asks -> Access!GrantRow]
  BY DEF AccessInv, Access!TypeOK
<1>1. ASSUME NEW o \in Ops, Access!Mutate(o)
      PROVE  UNCHANGED grants \/ (Ready(o) /\ Access!Effect(o) /\ op'[o].ran /\ ~op[o].ran)
  <2>1. CASE UNCHANGED grants
    BY <2>1
  <2>2. CASE Access!Revalidate(o) /\ Access!Refusal(o) = "none" /\ Access!Execute(o)
    <3>1. Ready(o) /\ Access!Effect(o)
      BY <1>1, <2>2 DEF Ready, Access!Mutate, Access!At, Access!Execute
    <3>2. op'[o].ran
      BY <1>t, <2>2 DEF Access!Execute, Access!Request
    <3> QED BY <3>1, <3>2, ReadyTypes
  <2> QED BY <1>1, <2>1, <2>2 DEF Access!Mutate, Access!Refuse
<1>2. ASSUME NEW o \in Ops, Access!ConsumeStepUp(o) \/ Access!Authorize(o) PROVE UNCHANGED grants
  BY <1>2 DEF Access!ConsumeStepUp, Access!Authorize
<1>3. ASSUME NEW k \in Asks, World
      PROVE  grants'[k].status = grants[k].status /\ grants'[k].version = grants[k].version
  <2>1. grants[k] \in Access!GrantRow
    BY <1>t
  <2>2. ASSUME NEW j \in Asks, Access!LeaseEnds(j)
        PROVE  grants'[k].status = grants[k].status /\ grants'[k].version = grants[k].version
    BY <2>1, <2>2, <1>t DEF Access!LeaseEnds, Access!GrantRow
  <2>3. ASSUME NEW j \in Asks, Access!GrantExpires(j)
        PROVE  grants'[k].status = grants[k].status /\ grants'[k].version = grants[k].version
    BY <2>1, <2>3, <1>t DEF Access!GrantExpires, Access!GrantRow
  <2> QED BY <1>3, <2>2, <2>3 DEF World, Access!SetAccount, Access!AskExpires
<1> QED BY <1>1, <1>2, <1>3, Steps DEF Access!accessVars

\* A grant is claimed, or settled, only while its requester has the authority
\* it was approved under: what the transaction revalidates and locks covers
\* every change between the permission check and the use, and between the
\* approval and the use.
THEOREM UseUnderAuthority ==
  ASSUME Access!IdentityAccessAssumption
  PROVE  Access!Spec => Access!UseUnderApprovedAuthority
<1>1. AccessInv /\ [Access!Next]_(Access!accessVars) => [Access!UsedInForce]_(Access!accessVars)
  <2> SUFFICES ASSUME AccessInv, [Access!Next]_(Access!accessVars), NEW k \in Asks,
                      grants'[k].status \in {"claimed", "settled"}, grants'[k] # grants[k],
                      grants'[k].version # grants[k].version
               PROVE  Access!InForce(grants[k])
    BY DEF Access!UsedInForce
  <2>1. PICK o \in Ops : Ready(o) /\ Access!Effect(o)
    BY GrantSteps
  <2>2. Access!Kind(o) \in {"claim", "settle"} /\ k = Access!Ask(o)
    BY <2>1, EffectGrants
  <2>3. Access!ActorOf(o) = Access!Senior
    BY <2>2 DEF Access!ActorOf
  <2>4. Access!SameAuthority(o, grants[k])
    <3>1. CASE Access!Kind(o) = "claim"
      BY <3>1, <2>1, <2>2 DEF Ready, Access!Refusal, Access!RoleKinds, Access!Unless, Access!Claimable
    <3>2. CASE Access!Kind(o) = "settle"
      BY <3>2, <2>1, <2>2 DEF Ready, Access!Refusal, Access!RoleKinds, Access!Unless, Access!Settleable
    <3> QED BY <2>2, <3>1, <3>2
  <2>5. /\ account[Access!Senior] /\ binding[Access!Senior].enabled
        /\ op[o].evidence = Access!Evidence(Access!Senior)
    BY <2>1, <2>2, <2>3 DEF Ready, Access!Revalidate, Access!LockActiveIdentityActor, Access!RoleKinds
  <2>6. /\ op[o].evidence.id = binding[Access!Senior].id
        /\ op[o].evidence.version = binding[Access!Senior].version
        /\ op[o].evidence.cred = cred[Access!Senior]
    BY <2>5 DEF Access!Evidence
  <2> QED BY <2>4, <2>5, <2>6 DEF Access!SameAuthority, Access!InForce
<1> QED BY <1>1, AccessInvariant, PTL DEF Access!Spec, Access!UseUnderApprovedAuthority

\* An approval is made under a step-up of the approver's credential in force,
\* for a requester who could use the grant at that moment, and by an approver
\* whose account is active: all three are read in the transaction that writes
\* the grant.
THEOREM ApprovalProved ==
  ASSUME Access!IdentityAccessAssumption
  PROVE  Access!Spec => Access!ApprovalsProved
<1>1. AccessInv /\ [Access!Next]_(Access!accessVars) => [Access!ApprovedForHolder]_(Access!accessVars)
  <2> SUFFICES ASSUME AccessInv, [Access!Next]_(Access!accessVars), NEW k \in Asks,
                      grants[k].status = "none", grants'[k].status = "active"
               PROVE  /\ account[Access!Senior] /\ binding[Access!Senior].enabled
                      /\ binding[Access!Senior].role = "senior_admin" /\ account[Access!Super]
                      /\ \E o \in Ops : /\ op'[o].ran /\ ~op[o].ran
                                        /\ op[o].proof = [actor |-> Access!Super, cred |-> cred[Access!Super]]
    BY DEF Access!ApprovedForHolder
  <2>1. PICK o \in Ops : Ready(o) /\ Access!Effect(o) /\ op'[o].ran /\ ~op[o].ran
    BY GrantSteps
  <2>2. Access!Kind(o) = "approve" /\ Access!ActorOf(o) = Access!Super
    <3>1. CASE Access!Kind(o) = "approve"
      BY <3>1 DEF Access!ActorOf
    <3>2. CASE Access!Kind(o) \in {"claim", "settle"} /\ k = Access!Ask(o)
      BY <3>2, <2>1 DEF Ready, Access!Refusal, Access!RoleKinds, Access!Unless, Access!Claimable,
                        Access!Settleable
    <3> QED BY <2>1, <3>1, <3>2, EffectGrants
  <2>3. /\ Access!ValidateStepUp(o) /\ Access!CurrentGrantAuthorization
    BY <2>1, <2>2 DEF Ready, Access!Refusal, Access!RoleKinds, Access!DecisionRefusal
  <2>4. account[Access!Super] /\ op[o].evidence = Access!Evidence(Access!Super)
    BY <2>1, <2>2 DEF Ready, Access!Revalidate, Access!LockActiveIdentityActor, Access!RoleKinds
  <2>5. op[o].evidence.cred = cred[Access!Super]
    BY <2>4 DEF Access!Evidence
  <2>6. op[o].proof \in Access!Proof
    BY DEF AccessInv, Access!TypeOK, Access!Request
  <2>7. op[o].proof = [actor |-> Access!Super, cred |-> cred[Access!Super]]
    BY <2>2, <2>3, <2>5, <2>6 DEF Access!ValidateStepUp, Access!Proof
  <2> QED BY <2>1, <2>3, <2>4, <2>7 DEF Access!CurrentGrantAuthorization
<1> QED BY <1>1, AccessInvariant, PTL DEF Access!Spec, Access!ApprovalsProved

-----------------------------------------------------------------------------
(***************************************************************************)
(* The ledger of mutations.  The claim of a row can pass to a reconciler   *)
(* at any time, so what keeps a mutation single is not the fence of the    *)
(* claim: it is that a row is opened once, marked indeterminate in the     *)
(* same transaction, and never marked back while the request that opened   *)
(* it may still send.                                                      *)
(***************************************************************************)
CONSTANTS
  Reconcilers,  \* receipt reconcilers, one per server instance
  LedgerKeys    \* idempotency keys, one ledger row each

VARIABLES
  row,       \* admin_operation_outbox
  old,       \* rows created longer ago than the reconciler's deadline
  upstream,  \* what became of the mutation at DreamUp
  reason,    \* protected_operation_reasons, which restricted identity reads need
  pass       \* what each reconciler is doing

Ledger == INSTANCE MutationLedger WITH Keys <- LedgerKeys

\* A request is at work on its row from the transaction that opened it; a
\* request that has sent stays engaged, also after a crash.
Working(r) == req[r].pc \in {"reason", "renew", "abort", "send", "await", "settle", "fail", "defer"}
Engaged(r) == Working(r) \/ req[r].sent

-----------------------------------------------------------------------------
(* Inductive invariants *)

\* A row is unopened, open with the delivery unknown, or ended.
LedgerOpen(x)  == /\ x.state \in {"pending", "claimed", "needs_operator"}
                  /\ x.phase = "indeterminate" /\ x.code = "pending" /\ x.status = "none"
RowFits(x) ==
  \/ x = Ledger!NoRow
  \/ LedgerOpen(x)
  \/ x.state = "succeeded" /\ x.phase = "sent" /\ x.code = "settled"
  \/ /\ x.state = "failed" /\ x.code = "failed"
     /\ <<x.phase, x.status>> \in {<<"sent", "4xx">>, <<"not_sent", "503">>}
RowsFit == \A k \in LedgerKeys : RowFits(row[k])

\* One request is engaged with a row, and only with one that was opened.
OneEngaged ==
  /\ \A r \in Requests : Engaged(r) => row[KeyOf[r]].state # "absent"
  /\ \A r, s \in Requests : Engaged(r) /\ Engaged(s) /\ KeyOf[r] = KeyOf[s] => r = s

\* What the label of a request says of DreamUp, the reason and the row.
Fits(r) ==
  LET k == KeyOf[r] IN
  /\ req[r].sent => req[r].pc \in {"await", "settle", "fail", "defer", "done", "crashed"}
  /\ req[r].pc = "settle" => upstream[k] = "applied"
  /\ req[r].pc = "fail" => upstream[k] = "refused"
  /\ req[r].pc \in {"renew", "send", "await", "settle", "fail", "defer"} \/ req[r].sent
       => reason[k] # "absent"
  /\ req[r].answer = "ok" => row[k].state = "succeeded"
  /\ req[r].answer = "rejected" => row[k].state = "failed"
RequestsFit == \A r \in Requests : Fits(r)

\* Only a request that was sent moves DreamUp, and nobody is at work on a row
\* that failed.
Backed == \A k \in LedgerKeys : upstream[k] # "untouched" => \E r \in Requests : KeyOf[r] = k /\ req[r].sent
Closed == \A r \in Requests : row[KeyOf[r]].state = "failed" => ~Working(r)

\* A pass that is about to settle a row has seen a receipt.
Witnessed ==
  \A w \in Reconcilers :
    /\ pass[w].verdict # "none" => pass[w].key \in LedgerKeys
    /\ pass[w].verdict = "settle" => upstream[pass[w].key] = "applied"

\* A token is either granted still or held by one request.
Spent == \A r \in Requests : req[r].token \notin grants

LedgerInv ==
  /\ Ledger!TypeOK /\ RowsFit /\ OneEngaged /\ RequestsFit /\ Backed /\ Closed /\ Ledger!LedgerHonest
  /\ Witnessed /\ Spent /\ Ledger!TokenOnce

-----------------------------------------------------------------------------
(* Types *)

LEMMA RowTypes ==
  ASSUME Ledger!LedgerAssumption, NEW x \in Ledger!Row
  PROVE  /\ Ledger!Renewed(x) \in Ledger!Row /\ Ledger!Failed(Ledger!Marked(x, "sent")) \in Ledger!Row
         /\ Ledger!Aborted(x) \in Ledger!Row
         /\ Ledger!Deferred(x) \in Ledger!Row /\ Ledger!ForOperator(x) \in Ledger!Row
         /\ [Ledger!Deferred(x) EXCEPT !.due = TRUE] \in Ledger!Row
         /\ [x EXCEPT !.live = FALSE] \in Ledger!Row /\ [x EXCEPT !.due = TRUE] \in Ledger!Row
         /\ \A status \in {"none", "2xx", "4xx", "503"} : Ledger!Settled(Ledger!Marked(x, "sent"), status) \in Ledger!Row
         /\ \A who \in Ledger!Claimants :
              /\ Ledger!Claimed(x, who) \in Ledger!Row
              /\ Ledger!Marked(Ledger!Claimed(Ledger!CreateOrReplay(x), who), "indeterminate") \in Ledger!Row
<1>1. ASSUME NEW y \in Ledger!Row, NEW state \in {"pending"} \cup Ledger!Terminal
      PROVE  Ledger!Released(y, state) \in Ledger!Row
  BY <1>1 DEF Ledger!Row, Ledger!Released, Ledger!NoRow
<1>2. Ledger!Marked(x, "sent") \in Ledger!Row /\ Ledger!Marked(x, "not_sent") \in Ledger!Row
  BY DEF Ledger!Row, Ledger!Marked
<1>3. Ledger!Deferred(x) \in Ledger!Row /\ Ledger!ForOperator(x) \in Ledger!Row
  BY <1>1 DEF Ledger!Deferred, Ledger!ForOperator, Ledger!Terminal
<1>4. Ledger!Failed(Ledger!Marked(x, "sent")) \in Ledger!Row
  <2>1. Ledger!Released(Ledger!Marked(x, "sent"), "failed") \in Ledger!Row
    BY <1>1, <1>2 DEF Ledger!Terminal
  <2> QED BY ZenonT(120), <2>1 DEF Ledger!Failed, Ledger!Row
<1>5. Ledger!Aborted(x) \in Ledger!Row
  <2>1. Ledger!Released(Ledger!Marked(x, "not_sent"), "failed") \in Ledger!Row
    BY <1>1, <1>2 DEF Ledger!Terminal
  <2> QED BY ZenonT(120), <2>1 DEF Ledger!Aborted, Ledger!Row
<1>6. ASSUME NEW status \in {"none", "2xx", "4xx", "503"}
      PROVE  Ledger!Settled(Ledger!Marked(x, "sent"), status) \in Ledger!Row
  <2>1. Ledger!Released(Ledger!Marked(x, "sent"), "succeeded") \in Ledger!Row
    BY <1>1, <1>2 DEF Ledger!Terminal
  <2> QED BY ZenonT(120), <2>1 DEF Ledger!Settled, Ledger!Row
<1>7. ASSUME NEW who \in Ledger!Claimants
      PROVE  /\ Ledger!Claimed(x, who) \in Ledger!Row
             /\ Ledger!Marked(Ledger!Claimed(Ledger!CreateOrReplay(x), who), "indeterminate") \in Ledger!Row
  <2>1. Ledger!CreateOrReplay(x) \in Ledger!Row
    BY DEF Ledger!CreateOrReplay, Ledger!Row
  <2>2. \A y \in Ledger!Row : Ledger!Claimed(y, who) \in Ledger!Row
    BY DEF Ledger!Claimed, Ledger!Row
  <2>3. \A y \in Ledger!Row : Ledger!Marked(y, "indeterminate") \in Ledger!Row
    BY DEF Ledger!Marked, Ledger!Row
  <2> QED BY <2>1, <2>2, <2>3
<1>8. Ledger!Renewed(x) \in Ledger!Row /\ [x EXCEPT !.live = FALSE] \in Ledger!Row /\ [x EXCEPT !.due = TRUE] \in Ledger!Row
  BY DEF Ledger!Renewed, Ledger!Row
<1>9. [Ledger!Deferred(x) EXCEPT !.due = TRUE] \in Ledger!Row
  BY <1>3 DEF Ledger!Row
<1> QED BY <1>3, <1>4, <1>5, <1>6, <1>7, <1>8, <1>9

\* What a request writes into its record.
LedgerAsked == [pc: Ledger!Labels, token: Tokens \cup {"none"}, renewed: BOOLEAN, sent: BOOLEAN,
          answer: {"none", "ok", "rejected", "denied", "conflict", "unavailable"}]

LEMMA LedgerAskTypes ==
  ASSUME Ledger!LedgerAssumption, NEW q \in LedgerAsked, NEW l \in Ledger!Labels
  PROVE  /\ [q EXCEPT !.pc = l] \in LedgerAsked
         /\ \A t \in Tokens : [q EXCEPT !.pc = l, !.token = t] \in LedgerAsked
         /\ \A a \in {"none", "ok", "rejected", "denied", "conflict", "unavailable"} :
              [q EXCEPT !.pc = l, !.answer = a] \in LedgerAsked
         /\ [q EXCEPT !.pc = l, !.renewed = TRUE] \in LedgerAsked
         /\ [q EXCEPT !.pc = l, !.sent = TRUE] \in LedgerAsked
BY ZenonT(120) DEF LedgerAsked, Ledger!Labels

LEMMA RequestTypes ==
  ASSUME Ledger!LedgerAssumption, Ledger!TypeOK, NEW r \in Requests, Ledger!Proxy(r) \/ Ledger!CrashRequest(r)
  PROVE  Ledger!TypeOK'
<1> DEFINE k == KeyOf[r]
<1>k. k \in LedgerKeys /\ r \in Ledger!Claimants /\ row[k] \in Ledger!Row /\ req[r] \in LedgerAsked
  BY DEF Ledger!LedgerAssumption, Ledger!TypeOK, Ledger!Claimants, LedgerAsked
<1>r. req \in [Requests -> LedgerAsked]
  BY DEF Ledger!TypeOK, LedgerAsked
<1>f. Ledger!Fault \/ Ledger!NoFault => faults' \in 0 .. MaxFaults
  BY DEF Ledger!LedgerAssumption, Ledger!TypeOK, Ledger!Fault, Ledger!NoFault
<1>g. ASSUME NEW l \in Ledger!Labels, Ledger!Goto(r, l)
      PROVE  req' \in [Requests -> LedgerAsked]
  BY ZenonT(120), <1>g, <1>k, <1>r, LedgerAskTypes DEF Ledger!Goto
<1>a. ASSUME NEW a \in {"none", "ok", "rejected", "denied", "conflict", "unavailable"}, Ledger!Answer(r, a)
      PROVE  req' \in [Requests -> LedgerAsked]
  <2>1. [req[r] EXCEPT !.pc = "done", !.answer = a] \in LedgerAsked
    BY ZenonT(120), <1>k, LedgerAskTypes DEF Ledger!Labels
  <2> QED BY <2>1, <1>a, <1>r DEF Ledger!Answer
<1>1. CASE Ledger!Authorize(r)
  <2>1. CASE Ledger!BySession(r)
    BY <2>1, <1>1, <1>g DEF Ledger!Authorize, Ledger!BySession, Ledger!TypeOK, LedgerAsked, Ledger!Labels
  <2>2. CASE Ledger!ByToken(r)
    <3>1. req' \in [Requests -> LedgerAsked]
      <4>1. ASSUME NEW t \in grants, req' = [req EXCEPT ![r].pc = "begin", ![r].token = t]
            PROVE  req' \in [Requests -> LedgerAsked]
        <5>1. t \in Tokens /\ "begin" \in Ledger!Labels
          BY DEF Ledger!TypeOK, Ledger!Labels
        <5>2. [req[r] EXCEPT !.pc = "begin", !.token = t] \in LedgerAsked
          BY ZenonT(120), <5>1, <1>k, LedgerAskTypes
        <5> QED BY <4>1, <5>2, <1>r
      <4> QED BY <2>2, <4>1, <1>a DEF Ledger!ByToken
    <3>2. grants' \subseteq Tokens /\ faults' \in 0 .. MaxFaults
      BY <2>2, <1>f DEF Ledger!ByToken, Ledger!TypeOK
    <3> QED BY <3>1, <3>2, <1>1 DEF Ledger!Authorize, Ledger!TypeOK, LedgerAsked
  <2> QED BY <1>1, <2>1, <2>2 DEF Ledger!Authorize
<1>2. CASE Ledger!BeginMutation(r)
  <2>0. Ledger!Marked(Ledger!Claimed(Ledger!CreateOrReplay(row[k]), r), "indeterminate") \in Ledger!Row
    BY <1>k, RowTypes
  <2>1. row' \in [LedgerKeys -> Ledger!Row] /\ faults' \in 0 .. MaxFaults
    BY <1>2, <1>k, <1>f, <2>0 DEF Ledger!BeginMutation, Ledger!Tx, Ledger!TypeOK
  <2>2. req' \in [Requests -> LedgerAsked]
    BY <1>2, <1>g, <1>a DEF Ledger!BeginMutation, Ledger!Tx, Ledger!Labels
  <2> QED BY <2>1, <2>2, <1>2 DEF Ledger!BeginMutation, Ledger!TypeOK, LedgerAsked
<1>3. CASE Ledger!PersistReviewIdentityReason(r)
  <2>1. reason' \in [LedgerKeys -> {"unneeded", "absent", "terminal", "purged"}] /\ faults' \in 0 .. MaxFaults
    BY <1>3, <1>f DEF Ledger!PersistReviewIdentityReason, Ledger!Tx, Ledger!StoreReason, Ledger!TypeOK
  <2>2. req' \in [Requests -> LedgerAsked]
    BY <1>3, <1>g DEF Ledger!PersistReviewIdentityReason, Ledger!Tx, Ledger!Labels
  <2> QED BY <2>1, <2>2, <1>3 DEF Ledger!PersistReviewIdentityReason, Ledger!TypeOK, LedgerAsked
<1>4. CASE Ledger!RenewClaim(r)
  <2>1. row' \in [LedgerKeys -> Ledger!Row] /\ faults' \in 0 .. MaxFaults
    BY ZenonT(120), <1>4, <1>k, <1>f, RowTypes DEF Ledger!RenewClaim, Ledger!Tx, Ledger!TypeOK
  <2>2. req' \in [Requests -> LedgerAsked]
    BY ZenonT(120), <1>4, <1>g, <1>k, <1>r, LedgerAskTypes DEF Ledger!RenewClaim, Ledger!Tx, Ledger!Labels
  <2> QED BY <2>1, <2>2, <1>4 DEF Ledger!RenewClaim, Ledger!TypeOK, LedgerAsked
<1>5. CASE Ledger!AbortBeforeSend(r)
  <2>1. row' \in [LedgerKeys -> Ledger!Row] /\ faults' \in 0 .. MaxFaults
    BY ZenonT(120), <1>5, <1>k, <1>f, RowTypes DEF Ledger!AbortBeforeSend, Ledger!Tx, Ledger!TypeOK
  <2>2. req' \in [Requests -> LedgerAsked]
    BY <1>5, <1>a DEF Ledger!AbortBeforeSend, Ledger!Tx
  <2> QED BY <2>1, <2>2, <1>5 DEF Ledger!AbortBeforeSend, Ledger!TypeOK, LedgerAsked
<1>6. CASE Ledger!Execute(r)
  <2>1. req' \in [Requests -> LedgerAsked]
    BY ZenonT(120), <1>6, <1>k, <1>r, LedgerAskTypes DEF Ledger!Execute, Ledger!Labels
  <2> QED BY ZenonT(120), <2>1, <1>6 DEF Ledger!Execute, Ledger!TypeOK, LedgerAsked
<1>7. CASE Ledger!Respond(r)
  <2>1. req' \in [Requests -> LedgerAsked]
    BY <1>7, <1>g DEF Ledger!Respond, Ledger!Labels
  <2> QED BY <2>1, <1>7 DEF Ledger!Respond, Ledger!TypeOK, LedgerAsked
<1>8. CASE Ledger!SettleMutation(r)
  <2>1. row' \in [LedgerKeys -> Ledger!Row] /\ faults' \in 0 .. MaxFaults
    BY ZenonT(120), <1>8, <1>k, <1>f, RowTypes DEF Ledger!SettleMutation, Ledger!Tx, Ledger!TypeOK
  <2>2. req' \in [Requests -> LedgerAsked]
    BY <1>8, <1>a DEF Ledger!SettleMutation, Ledger!Tx
  <2> QED BY <2>1, <2>2, <1>8 DEF Ledger!SettleMutation, Ledger!TypeOK, LedgerAsked
<1>9. CASE Ledger!FailMutation(r)
  <2>1. row' \in [LedgerKeys -> Ledger!Row] /\ faults' \in 0 .. MaxFaults
    BY ZenonT(120), <1>9, <1>k, <1>f, RowTypes DEF Ledger!FailMutation, Ledger!Tx, Ledger!TypeOK
  <2>2. req' \in [Requests -> LedgerAsked]
    BY <1>9, <1>a DEF Ledger!FailMutation, Ledger!Tx
  <2> QED BY <2>1, <2>2, <1>9 DEF Ledger!FailMutation, Ledger!TypeOK, LedgerAsked
<1>10. CASE Ledger!DeferReceipt(r)
  <2>1. row' \in [LedgerKeys -> Ledger!Row] /\ faults' \in 0 .. MaxFaults
    BY <1>10, <1>k, <1>f, RowTypes DEF Ledger!DeferReceipt, Ledger!Tx, Ledger!TypeOK
  <2>2. req' \in [Requests -> LedgerAsked]
    BY <1>10, <1>a DEF Ledger!DeferReceipt, Ledger!Tx
  <2> QED BY <2>1, <2>2, <1>10 DEF Ledger!DeferReceipt, Ledger!TypeOK, LedgerAsked
<1>11. CASE Ledger!CrashRequest(r)
  <2>1. req' \in [Requests -> LedgerAsked] /\ faults' \in 0 .. MaxFaults
    BY <1>11, <1>g, <1>f DEF Ledger!CrashRequest, Ledger!Labels
  <2> QED BY <2>1, <1>11 DEF Ledger!CrashRequest, Ledger!TypeOK, LedgerAsked
<1> QED
  BY <1>1, <1>2, <1>3, <1>4, <1>5, <1>6, <1>7, <1>8, <1>9, <1>10, <1>11 DEF Ledger!Proxy

LEMMA PassTypes ==
  ASSUME Ledger!LedgerAssumption, Ledger!TypeOK, Witnessed, NEW w \in Reconcilers,
         Ledger!RunOnce(w) \/ Ledger!CrashPass(w)
  PROVE  Ledger!TypeOK'
<1> DEFINE Walk == [todo: SUBSET LedgerKeys, receipts: SUBSET LedgerKeys, late: SUBSET LedgerKeys,
                    key: LedgerKeys \cup {"none"}, verdict: {"none", "settle", "defer", "operator"}]
<1>p. pass \in [Reconcilers -> Walk] /\ Ledger!NoPass \in Walk /\ w \in Ledger!Claimants /\ pass[w] \in Walk
  BY DEF Ledger!TypeOK, Ledger!NoPass, Ledger!Claimants
<1>f. Ledger!Fault \/ Ledger!NoFault => faults' \in 0 .. MaxFaults
  BY DEF Ledger!LedgerAssumption, Ledger!TypeOK, Ledger!Fault, Ledger!NoFault
<1>1. CASE Ledger!ClaimReceiptsDue(w)
  <2>1. Ledger!ReceiptsDue \in SUBSET LedgerKeys /\ \A k \in LedgerKeys : Ledger!Reclaimed[k] \in Ledger!Row
    BY RowTypes DEF Ledger!LedgerAssumption, Ledger!ReceiptsDue, Ledger!Reclaimed, Ledger!TypeOK,
                    Ledger!Claimants
  <2>2. row' \in [LedgerKeys -> Ledger!Row]
    <3>1. \A k \in LedgerKeys : Ledger!Claimed(Ledger!Reclaimed[k], w) \in Ledger!Row
      BY <1>p, <2>1, RowTypes
    <3>2. [k \in LedgerKeys |-> IF k \in Ledger!ReceiptsDue THEN Ledger!Claimed(Ledger!Reclaimed[k], w) ELSE Ledger!Reclaimed[k]]
            \in [LedgerKeys -> Ledger!Row]
      BY <2>1, <3>1
    <3> QED BY <1>1, <3>2 DEF Ledger!ClaimReceiptsDue, Ledger!Tx, Ledger!TypeOK
  <2>3. [Ledger!NoPass EXCEPT !.todo = Ledger!ReceiptsDue, !.late = old,
                       !.receipts = {k \in LedgerKeys : upstream[k] = "applied"}] \in Walk
    BY <2>1 DEF Ledger!NoPass, Ledger!TypeOK
  <2>4. pass' \in [Reconcilers -> Walk]
    <3> DEFINE start == [Ledger!NoPass EXCEPT !.todo = Ledger!ReceiptsDue, !.late = old,
                                       !.receipts = {k \in LedgerKeys : upstream[k] = "applied"}]
    <3>1. pass' = [pass EXCEPT ![w] = start] \/ pass' = pass
      BY <1>1 DEF Ledger!ClaimReceiptsDue, Ledger!Tx
    <3> HIDE DEF start
    <3>2. start \in Walk
      BY ZenonT(120), <2>3 DEF start
    <3> QED BY <3>1, <3>2, <1>p
  <2>5. faults' \in 0 .. MaxFaults
    BY <1>1, <1>f DEF Ledger!ClaimReceiptsDue, Ledger!Tx
  <2> QED BY <1>1, <2>2, <2>4, <2>5 DEF Ledger!ClaimReceiptsDue, Ledger!TypeOK
<1>2. CASE Ledger!ReadReceipt(w)
  <2>0. PICK k \in pass[w].todo, receipt \in {"none", "own", "foreign"} :
          \E v \in Ledger!Verdicts(w, k, receipt) : pass' = [pass EXCEPT ![w].key = k, ![w].verdict = v]
    BY <1>2 DEF Ledger!ReadReceipt
  <2>1. PICK v \in Ledger!Verdicts(w, k, receipt) : pass' = [pass EXCEPT ![w].key = k, ![w].verdict = v]
    BY <2>0
  <2>2. k \in LedgerKeys /\ v \in {"settle", "defer", "operator"}
    BY <2>1, <1>p DEF Ledger!Verdicts
  <2>3. [pass[w] EXCEPT !.key = k, !.verdict = v] \in Walk
    BY <2>2, <1>p
  <2>4. pass' \in [Reconcilers -> Walk] /\ faults' \in 0 .. MaxFaults
    BY <1>2, <1>f, <1>p, <2>1, <2>3 DEF Ledger!ReadReceipt
  <2> QED BY <1>2, <2>4 DEF Ledger!ReadReceipt, Ledger!TypeOK
<1>3. CASE Ledger!ReconcileOne(w)
  <2>1. pass[w].key \in LedgerKeys /\ pass[w].verdict \in {"settle", "defer", "operator"}
    BY <1>3, <1>p DEF Ledger!ReconcileOne, Witnessed
  <2>2. Ledger!Concluded(row[pass[w].key], pass[w].verdict) \in Ledger!Row
    BY <2>1, <1>p, RowTypes DEF Ledger!Concluded, Ledger!TypeOK
  <2>3. row' \in [LedgerKeys -> Ledger!Row] /\ faults' \in 0 .. MaxFaults
    BY <1>3, <1>f, <2>2 DEF Ledger!ReconcileOne, Ledger!Tx, Ledger!TypeOK
  <2>4. [pass[w] EXCEPT !.todo = pass[w].todo \ {pass[w].key}, !.key = "none",
                        !.verdict = "none"] \in Walk
    BY <1>p
  <2>5. pass' \in [Reconcilers -> Walk]
    BY <1>3, <1>p, <2>4 DEF Ledger!ReconcileOne, Ledger!Tx, Ledger!NextItem
  <2> QED BY <1>3, <2>3, <2>5 DEF Ledger!ReconcileOne, Ledger!TypeOK
<1>4. CASE Ledger!CrashPass(w)
  BY <1>4, <1>p, <1>f DEF Ledger!CrashPass, Ledger!TypeOK
<1> QED
  BY <1>1, <1>2, <1>3, <1>4 DEF Ledger!RunOnce

LEMMA WorldTypes ==
  ASSUME Ledger!LedgerAssumption, Ledger!TypeOK, NEW k \in LedgerKeys,
         Ledger!Upstream(k) \/ Ledger!LeaseEnds(k) \/ Ledger!BecomesDue(k) \/ Ledger!GrowOld(k) \/ Ledger!PurgeExpired(k)
  PROVE  Ledger!TypeOK'
<1>f. Ledger!Fault \/ Ledger!NoFault => faults' \in 0 .. MaxFaults
  BY DEF Ledger!LedgerAssumption, Ledger!TypeOK, Ledger!Fault, Ledger!NoFault
<1>r. row[k] \in Ledger!Row /\ row \in [LedgerKeys -> Ledger!Row]
  BY DEF Ledger!TypeOK
<1>1. CASE Ledger!Upstream(k)
  BY <1>1 DEF Ledger!Upstream, Ledger!TypeOK
<1>2. CASE Ledger!LeaseEnds(k)
  <2>1. [row[k] EXCEPT !.live = FALSE] \in Ledger!Row
    BY <1>r DEF Ledger!Row
  <2>2. row' \in [LedgerKeys -> Ledger!Row] /\ faults' \in 0 .. MaxFaults
    BY <1>2, <1>f, <1>r, <2>1 DEF Ledger!LeaseEnds
  <2> QED BY <1>2, <2>2 DEF Ledger!LeaseEnds, Ledger!TypeOK
<1>3. CASE Ledger!BecomesDue(k)
  <2>1. [row[k] EXCEPT !.due = TRUE] \in Ledger!Row
    BY <1>r DEF Ledger!Row
  <2>2. row' \in [LedgerKeys -> Ledger!Row]
    BY <1>3, <1>r, <2>1 DEF Ledger!BecomesDue
  <2> QED BY <1>3, <2>2 DEF Ledger!BecomesDue, Ledger!TypeOK
<1>4. CASE Ledger!GrowOld(k)
  BY <1>4 DEF Ledger!GrowOld, Ledger!TypeOK
<1>5. CASE Ledger!PurgeExpired(k)
  BY <1>5 DEF Ledger!PurgeExpired, Ledger!TypeOK
<1> QED
  BY <1>1, <1>2, <1>3, <1>4, <1>5

-----------------------------------------------------------------------------
(* What a step does to a row, to DreamUp and to the reason *)

Running(x) == LedgerOpen(x) /\ x.state # "needs_operator"

\* A row opens once, goes on while it is open, and ends in one of two ways;
\* only the request that opened it can fail it, and is done with it then.
LedgerMoved(k) ==
  \/ row'[k] = row[k]
  \/ row[k] = Ledger!NoRow /\ LedgerOpen(row'[k])
  \/ Running(row[k]) /\ LedgerOpen(row'[k])
  \/ Running(row[k]) /\ RowFits(row'[k]) /\ row'[k].state = "succeeded" /\ upstream[k] = "applied"
  \/ /\ Running(row[k]) /\ RowFits(row'[k]) /\ row'[k].state = "failed"
     /\ upstream'[k] = upstream[k]
     /\ \E r \in Requests : KeyOf[r] = k /\ req[r].pc \in {"abort", "fail"} /\ req'[r].pc = "done"
Delivered(k) ==
  \/ upstream'[k] = upstream[k]
  \/ /\ upstream[k] = "untouched"
     /\ \E r \in Requests : KeyOf[r] = k /\ req[r].pc = "send" /\ req'[r].sent
  \/ upstream[k] = "inflight" /\ upstream'[k] \in {"applied", "refused", "lost"}
Explained(k) == reason[k] # "absent" => reason'[k] # "absent"
Moves == \A k \in LedgerKeys : LedgerMoved(k) /\ Delivered(k) /\ Explained(k)

\* A step of a request.
Turn(r) ==
  /\ \A s \in Requests : s # r => req'[s] = req[s]
  /\ pass' = pass
  /\ \/ Working(r)' => Working(r)
     \/ row[KeyOf[r]].state = "absent" /\ row'[KeyOf[r]].state # "absent"
  /\ Engaged(r)' => Working(r)' \/ Engaged(r)
  /\ req[r].sent => req'[r].sent
  /\ req'[r].token = req[r].token \/ req'[r].token \in grants \ grants'
  /\ grants' \subseteq grants
  /\ Fits(r)'

LEMMA RowOps ==
  ASSUME Ledger!LedgerAssumption, NEW x \in Ledger!Row, RowFits(x)
  PROVE  /\ x.state = "claimed" =>
              /\ Running(x) /\ LedgerOpen(Ledger!Renewed(x)) /\ LedgerOpen(Ledger!Deferred(x))
              /\ LedgerOpen(Ledger!ForOperator(x))
              /\ RowFits(Ledger!Failed(Ledger!Marked(x, "sent"))) /\ RowFits(Ledger!Aborted(x))
              /\ Ledger!Failed(Ledger!Marked(x, "sent")).state = "failed"
              /\ Ledger!Aborted(x).state = "failed"
              /\ \A status : /\ RowFits(Ledger!Settled(Ledger!Marked(x, "sent"), status))
                             /\ Ledger!Settled(Ledger!Marked(x, "sent"), status).state = "succeeded"
         /\ x.state = "absent" \/ (x.state = "pending" /\ x.phase = "not_sent") => x = Ledger!NoRow
<1>1. ASSUME x.state = "claimed"
      PROVE  /\ Running(x) /\ LedgerOpen(Ledger!Renewed(x)) /\ LedgerOpen(Ledger!Deferred(x))
             /\ LedgerOpen(Ledger!ForOperator(x))
             /\ RowFits(Ledger!Failed(Ledger!Marked(x, "sent"))) /\ RowFits(Ledger!Aborted(x))
             /\ Ledger!Failed(Ledger!Marked(x, "sent")).state = "failed" /\ Ledger!Aborted(x).state = "failed"
             /\ \A status : /\ RowFits(Ledger!Settled(Ledger!Marked(x, "sent"), status))
                            /\ Ledger!Settled(Ledger!Marked(x, "sent"), status).state = "succeeded"
  <2>1. Running(x)
    BY <1>1 DEF RowFits, Running, LedgerOpen, Ledger!NoRow
  <2>2. LedgerOpen(Ledger!Renewed(x)) /\ LedgerOpen(Ledger!Deferred(x)) /\ LedgerOpen(Ledger!ForOperator(x))
    BY <2>1, <1>1 DEF Running, LedgerOpen, Ledger!Renewed, Ledger!Deferred, Ledger!ForOperator,
                      Ledger!Released, Ledger!NoRow, Ledger!Row
  <2>3. /\ RowFits(Ledger!Failed(Ledger!Marked(x, "sent"))) /\ RowFits(Ledger!Aborted(x))
        /\ Ledger!Failed(Ledger!Marked(x, "sent")).state = "failed" /\ Ledger!Aborted(x).state = "failed"
    BY DEF RowFits, Ledger!Failed, Ledger!Aborted, Ledger!Released, Ledger!Marked, Ledger!NoRow, Ledger!Row
  <2>4. \A status : /\ RowFits(Ledger!Settled(Ledger!Marked(x, "sent"), status))
                    /\ Ledger!Settled(Ledger!Marked(x, "sent"), status).state = "succeeded"
    BY DEF RowFits, Ledger!Settled, Ledger!Released, Ledger!Marked, Ledger!NoRow, Ledger!Row
  <2> QED BY <2>1, <2>2, <2>3, <2>4
<1>2. x.state = "absent" \/ (x.state = "pending" /\ x.phase = "not_sent") => x = Ledger!NoRow
  BY DEF RowFits, LedgerOpen, Ledger!NoRow
<1> QED BY <1>1, <1>2

\* The row that a request has opened.
LEMMA OpenedRow ==
  ASSUME Ledger!LedgerAssumption, NEW who
  PROVE  /\ LedgerOpen(Ledger!Marked(Ledger!Claimed(Ledger!CreateOrReplay(Ledger!NoRow), who), "indeterminate"))
         /\ ~LedgerOpen(Ledger!NoRow) /\ Ledger!NoRow.state = "absent"
BY DEF LedgerOpen, Ledger!Marked, Ledger!Claimed, Ledger!CreateOrReplay, Ledger!NoRow

-----------------------------------------------------------------------------
(* The steps of a request *)

LEMMA AuthorizeMoves ==
  ASSUME Ledger!LedgerAssumption, LedgerInv, NEW r \in Requests, Ledger!Authorize(r)
  PROVE  Turn(r) /\ Moves
<1>1. Fits(r) /\ KeyOf[r] \in LedgerKeys /\ grants \subseteq Tokens /\ req[r] \in LedgerAsked
      /\ req \in [Requests -> LedgerAsked]
  BY DEF Ledger!LedgerAssumption, LedgerInv, RequestsFit, Ledger!TypeOK, LedgerAsked
<1>2. Moves
  BY DEF Ledger!Authorize, Moves, LedgerMoved, Delivered, Explained
<1>3. \/ \E t \in grants : /\ grants' = grants \ {t}
                           /\ req' = [req EXCEPT ![r].pc = "begin", ![r].token = t]
      \/ grants' \subseteq grants /\ Ledger!Answer(r, "denied")
      \/ grants' = grants /\ Ledger!Goto(r, "begin")
  BY DEF Ledger!Authorize, Ledger!ByToken, Ledger!BySession
<1>4. \A s \in Requests : s # r => req'[s] = req[s]
  BY <1>1, <1>3 DEF Ledger!Answer, Ledger!Goto
<1>5. /\ req'[r].sent = req[r].sent /\ req'[r].pc \in {"begin", "done"}
      /\ req'[r].answer \in {req[r].answer, "denied"}
      /\ req'[r].token = req[r].token \/ req'[r].token \in grants \ grants'
      /\ grants' \subseteq grants
  BY <1>1, <1>3 DEF Ledger!Answer, Ledger!Goto, LedgerAsked
<1>6. pass' = pass /\ row' = row /\ upstream' = upstream /\ reason' = reason /\ req[r].pc = "idle"
  BY DEF Ledger!Authorize, Ledger!At
<1> QED BY <1>1, <1>2, <1>4, <1>5, <1>6 DEF Turn, Working, Engaged, Fits

LEMMA BeginMoves ==
  ASSUME Ledger!LedgerAssumption, LedgerInv, NEW r \in Requests, Ledger!BeginMutation(r)
  PROVE  Turn(r) /\ Moves
<1> DEFINE k == KeyOf[r]
<1>1. Fits(r) /\ k \in LedgerKeys /\ row \in [LedgerKeys -> Ledger!Row] /\ req \in [Requests -> LedgerAsked]
      /\ RowFits(row[k]) /\ row[k] \in Ledger!Row
  BY DEF Ledger!LedgerAssumption, LedgerInv, RequestsFit, RowsFit, Ledger!TypeOK, LedgerAsked
<1>2. /\ req[r].pc = "begin" /\ UNCHANGED <<old, upstream, reason, grants, pass>>
      /\ \/ /\ Ledger!Sendable(k)
            /\ row' = [row EXCEPT ![k] = Ledger!Marked(Ledger!Claimed(Ledger!CreateOrReplay(@), r), "indeterminate")]
            /\ Ledger!Goto(r, IF reason[k] = "unneeded" THEN "send" ELSE "reason")
         \/ row' = row /\ Ledger!Answer(r, IF Ledger!Sendable(k) THEN "unavailable" ELSE "conflict")
         \/ /\ Ledger!Sendable(k)
            /\ row' = [row EXCEPT ![k] = Ledger!Marked(Ledger!Claimed(Ledger!CreateOrReplay(@), r), "indeterminate")]
            /\ Ledger!Answer(r, IF Ledger!Sendable(k) THEN "unavailable" ELSE "conflict")
  BY DEF Ledger!BeginMutation, Ledger!Tx, Ledger!At
<1>3. Ledger!Sendable(k) => row[k] = Ledger!NoRow
  BY <1>1, RowOps DEF Ledger!Sendable
<1>4. /\ \A s \in Requests : s # r => req'[s] = req[s]
      /\ req'[r].sent = req[r].sent /\ req'[r].token = req[r].token
      /\ \/ /\ req'[r].pc \in {"send", "reason"} /\ req'[r].answer = req[r].answer
            /\ req'[r].pc = "send" => reason[k] = "unneeded"
            /\ row[k] = Ledger!NoRow /\ LedgerOpen(row'[k])
         \/ req'[r].pc = "done" /\ req'[r].answer \in {"unavailable", "conflict"}
  BY <1>1, <1>2, <1>3, OpenedRow DEF Ledger!Goto, Ledger!Answer, LedgerAsked
<1>5. \A j \in LedgerKeys : row'[j] = row[j] \/ (row[j] = Ledger!NoRow /\ LedgerOpen(row'[j]))
  BY <1>1, <1>2, <1>3, OpenedRow
<1>6. Moves
  BY <1>2, <1>5 DEF Moves, LedgerMoved, Delivered, Explained
<1>7. \A x : LedgerOpen(x) => x.state # "absent" /\ x.state # "succeeded" /\ x.state # "failed"
  BY DEF LedgerOpen
<1>8. row'[k] = row[k] \/ (row[k].state = "absent" /\ LedgerOpen(row'[k]))
  BY <1>1, <1>5, OpenedRow
<1>9. Fits(r)'
  BY <1>1, <1>2, <1>4, <1>7, <1>8 DEF Fits
<1> QED BY <1>1, <1>2, <1>4, <1>6, <1>7, <1>8, <1>9, OpenedRow DEF Turn, Working, Engaged

LEMMA ReasonMoves ==
  ASSUME Ledger!LedgerAssumption, LedgerInv, NEW r \in Requests, Ledger!PersistReviewIdentityReason(r)
  PROVE  Turn(r) /\ Moves
<1> DEFINE k == KeyOf[r]
<1>1. Fits(r) /\ k \in LedgerKeys /\ req \in [Requests -> LedgerAsked] /\ req[r].pc = "reason"
      /\ reason \in [LedgerKeys -> {"unneeded", "absent", "terminal", "purged"}]
  BY DEF Ledger!LedgerAssumption, LedgerInv, RequestsFit, Ledger!TypeOK, LedgerAsked,
         Ledger!PersistReviewIdentityReason, Ledger!At
<1>2. /\ UNCHANGED <<row, upstream, grants, pass>>
      /\ \/ reason' = [reason EXCEPT ![k] = "terminal"] /\ Ledger!Goto(r, "renew")
         \/ reason' \in {reason, [reason EXCEPT ![k] = "terminal"]} /\ Ledger!Goto(r, "abort")
  BY DEF Ledger!PersistReviewIdentityReason, Ledger!Tx, Ledger!StoreReason
<1>3. /\ \A s \in Requests : s # r => req'[s] = req[s]
      /\ req'[r].sent = req[r].sent /\ req'[r].token = req[r].token
      /\ req'[r].answer = req[r].answer /\ req'[r].pc \in {"renew", "abort"}
      /\ req'[r].pc = "renew" => reason'[k] = "terminal"
  BY <1>1, <1>2 DEF Ledger!Goto, LedgerAsked
<1>4. \A j \in LedgerKeys : reason'[j] = reason[j] \/ reason'[j] = "terminal"
  BY <1>1, <1>2
<1>5. Moves
  BY <1>2, <1>4 DEF Moves, LedgerMoved, Delivered, Explained
<1>6. Fits(r)'
  BY <1>1, <1>2, <1>3, <1>4 DEF Fits
<1> QED BY <1>1, <1>2, <1>3, <1>5, <1>6 DEF Turn, Working, Engaged

LEMMA RenewMoves ==
  ASSUME Ledger!LedgerAssumption, LedgerInv, NEW r \in Requests, Ledger!RenewClaim(r)
  PROVE  Turn(r) /\ Moves
<1> DEFINE k == KeyOf[r]
<1>1. Fits(r) /\ k \in LedgerKeys /\ row \in [LedgerKeys -> Ledger!Row] /\ req \in [Requests -> LedgerAsked]
      /\ RowFits(row[k]) /\ row[k] \in Ledger!Row /\ req[r].pc = "renew"
  BY DEF Ledger!LedgerAssumption, LedgerInv, RequestsFit, RowsFit, Ledger!TypeOK, LedgerAsked,
         Ledger!RenewClaim, Ledger!At
<1>2. /\ UNCHANGED <<upstream, reason, grants, pass>>
      /\ \/ row' = row
         \/ row[k].state = "claimed" /\ row' = [row EXCEPT ![k] = Ledger!Renewed(@)]
      /\ req' = [req EXCEPT ![r].pc = "send", ![r].renewed = TRUE] \/ Ledger!Goto(r, "abort")
  BY DEF Ledger!RenewClaim, Ledger!Tx, Ledger!Holds
<1>3. /\ \A s \in Requests : s # r => req'[s] = req[s]
      /\ req'[r].sent = req[r].sent /\ req'[r].token = req[r].token
      /\ req'[r].answer = req[r].answer /\ req'[r].pc \in {"send", "abort"}
  BY <1>1, <1>2 DEF Ledger!Goto, LedgerAsked
<1>4. \A j \in LedgerKeys : row'[j] = row[j] \/ (Running(row[j]) /\ LedgerOpen(row'[j]))
  BY <1>1, <1>2, RowOps
<1>5. Moves
  BY <1>2, <1>4 DEF Moves, LedgerMoved, Delivered, Explained
<1>6. Fits(r)'
  BY <1>1, <1>2, <1>3, <1>4 DEF Fits, Running, LedgerOpen
<1> QED BY <1>1, <1>2, <1>3, <1>5, <1>6 DEF Turn, Working, Engaged

LEMMA AbortMoves ==
  ASSUME Ledger!LedgerAssumption, LedgerInv, NEW r \in Requests, Ledger!AbortBeforeSend(r)
  PROVE  Turn(r) /\ Moves
<1> DEFINE k == KeyOf[r]
<1>1. Fits(r) /\ k \in LedgerKeys /\ row \in [LedgerKeys -> Ledger!Row] /\ req \in [Requests -> LedgerAsked]
      /\ RowFits(row[k]) /\ row[k] \in Ledger!Row /\ req[r].pc = "abort"
  BY DEF Ledger!LedgerAssumption, LedgerInv, RequestsFit, RowsFit, Ledger!TypeOK, LedgerAsked,
         Ledger!AbortBeforeSend, Ledger!At
<1>2. /\ UNCHANGED <<upstream, reason, grants, pass>> /\ Ledger!Answer(r, "unavailable")
      /\ \/ row' = row
         \/ row[k].state = "claimed" /\ row' = [row EXCEPT ![k] = Ledger!Aborted(@)]
  BY DEF Ledger!AbortBeforeSend, Ledger!Tx, Ledger!Holds
<1>3. /\ \A s \in Requests : s # r => req'[s] = req[s]
      /\ req'[r].sent = req[r].sent /\ req'[r].token = req[r].token
      /\ req'[r].answer = "unavailable" /\ req'[r].pc = "done"
  BY <1>1, <1>2 DEF Ledger!Answer, LedgerAsked
<1>4. \A j \in LedgerKeys : \/ row'[j] = row[j]
                            \/ /\ j = k /\ Running(row[j]) /\ RowFits(row'[j])
                               /\ row'[j].state = "failed"
  BY <1>1, <1>2, RowOps
<1>5. Moves
  BY <1>1, <1>2, <1>3, <1>4 DEF Moves, LedgerMoved, Delivered, Explained
<1>6. Fits(r)'
  BY <1>1, <1>2, <1>3, <1>4 DEF Fits, Running, LedgerOpen
<1> QED BY <1>1, <1>2, <1>3, <1>5, <1>6 DEF Turn, Working, Engaged

LEMMA ExecuteMoves ==
  ASSUME Ledger!LedgerAssumption, LedgerInv, NEW r \in Requests, Ledger!Execute(r)
  PROVE  Turn(r) /\ Moves
<1> DEFINE k == KeyOf[r]
<1>1. Fits(r) /\ k \in LedgerKeys /\ req \in [Requests -> LedgerAsked] /\ req[r].pc = "send"
      /\ upstream \in [LedgerKeys -> {"untouched", "inflight", "applied", "refused", "lost"}]
  BY DEF Ledger!LedgerAssumption, LedgerInv, RequestsFit, Ledger!TypeOK, LedgerAsked, Ledger!Execute, Ledger!At
<1>2. /\ UNCHANGED <<row, reason, grants, pass>>
      /\ \A s \in Requests : s # r => req'[s] = req[s]
      /\ req'[r].sent /\ req'[r].token = req[r].token
      /\ req'[r].answer = req[r].answer /\ req'[r].pc = "await"
  BY <1>1 DEF Ledger!Execute, LedgerAsked
<1>3. \A j \in LedgerKeys : upstream'[j] = upstream[j] \/ (j = k /\ upstream[j] = "untouched")
  BY <1>1 DEF Ledger!Execute
<1>4. Moves
  BY <1>1, <1>2, <1>3 DEF Moves, LedgerMoved, Delivered, Explained
<1>5. Fits(r)'
  BY <1>1, <1>2 DEF Fits
<1> QED BY <1>1, <1>2, <1>4, <1>5 DEF Turn, Working, Engaged

LEMMA RespondMoves ==
  ASSUME Ledger!LedgerAssumption, LedgerInv, NEW r \in Requests, Ledger!Respond(r)
  PROVE  Turn(r) /\ Moves
<1> DEFINE k == KeyOf[r]
<1>1. Fits(r) /\ k \in LedgerKeys /\ req \in [Requests -> LedgerAsked] /\ req[r].pc = "await"
  BY DEF Ledger!LedgerAssumption, LedgerInv, RequestsFit, Ledger!TypeOK, LedgerAsked, Ledger!Respond, Ledger!At
<1>2. /\ UNCHANGED <<row, upstream, reason, grants, pass>>
      /\ \A s \in Requests : s # r => req'[s] = req[s]
      /\ req'[r].sent = req[r].sent /\ req'[r].token = req[r].token
      /\ req'[r].answer = req[r].answer /\ req'[r].pc \in {"settle", "fail", "defer"}
      /\ req'[r].pc = "settle" => upstream[k] = "applied"
      /\ req'[r].pc = "fail" => upstream[k] = "refused"
  BY <1>1 DEF Ledger!Respond, Ledger!Goto, Ledger!Deterministic, LedgerAsked
<1>3. Moves
  BY <1>2 DEF Moves, LedgerMoved, Delivered, Explained
<1>4. Fits(r)'
  BY <1>1, <1>2 DEF Fits
<1> QED BY <1>1, <1>2, <1>3, <1>4 DEF Turn, Working, Engaged

LEMMA SettleMoves ==
  ASSUME Ledger!LedgerAssumption, LedgerInv, NEW r \in Requests, Ledger!SettleMutation(r)
  PROVE  Turn(r) /\ Moves
<1> DEFINE k == KeyOf[r]
<1>1. Fits(r) /\ k \in LedgerKeys /\ row \in [LedgerKeys -> Ledger!Row] /\ req \in [Requests -> LedgerAsked]
      /\ RowFits(row[k]) /\ row[k] \in Ledger!Row /\ req[r].pc = "settle"
  BY DEF Ledger!LedgerAssumption, LedgerInv, RequestsFit, RowsFit, Ledger!TypeOK, LedgerAsked,
         Ledger!SettleMutation, Ledger!At
<1>2. /\ UNCHANGED <<upstream, reason, grants, pass>>
      /\ \/ /\ Ledger!Answer(r, "ok") \/ Ledger!Answer(r, "unavailable")
            /\ row[k].state = "claimed"
            /\ row' = [row EXCEPT ![k] = Ledger!Settled(Ledger!Marked(@, "sent"), "2xx")]
         \/ row' = row /\ Ledger!Answer(r, "unavailable")
  BY DEF Ledger!SettleMutation, Ledger!Tx, Ledger!Holds
<1>3. \A j \in LedgerKeys : \/ row'[j] = row[j]
                            \/ /\ j = k /\ Running(row[j]) /\ RowFits(row'[j])
                               /\ row'[j].state = "succeeded"
  BY <1>1, <1>2, RowOps
<1>4. /\ \A s \in Requests : s # r => req'[s] = req[s]
      /\ req'[r].sent = req[r].sent /\ req'[r].token = req[r].token /\ req'[r].pc = "done"
      /\ \/ req'[r].answer = "unavailable"
         \/ req'[r].answer = "ok" /\ row'[k].state = "succeeded"
  BY <1>1, <1>2, RowOps DEF Ledger!Answer, LedgerAsked
<1>5. Moves
  BY <1>1, <1>2, <1>3 DEF Moves, LedgerMoved, Delivered, Explained, Fits
<1>6. Fits(r)'
  BY <1>1, <1>2, <1>3, <1>4 DEF Fits
<1> QED BY <1>1, <1>2, <1>4, <1>5, <1>6 DEF Turn, Working, Engaged

LEMMA FailMoves ==
  ASSUME Ledger!LedgerAssumption, LedgerInv, NEW r \in Requests, Ledger!FailMutation(r)
  PROVE  Turn(r) /\ Moves
<1> DEFINE k == KeyOf[r]
<1>1. Fits(r) /\ k \in LedgerKeys /\ row \in [LedgerKeys -> Ledger!Row] /\ req \in [Requests -> LedgerAsked]
      /\ RowFits(row[k]) /\ row[k] \in Ledger!Row /\ req[r].pc = "fail"
  BY DEF Ledger!LedgerAssumption, LedgerInv, RequestsFit, RowsFit, Ledger!TypeOK, LedgerAsked,
         Ledger!FailMutation, Ledger!At
<1>2. /\ UNCHANGED <<upstream, reason, grants, pass>>
      /\ \/ /\ Ledger!Answer(r, "rejected") \/ Ledger!Answer(r, "unavailable")
            /\ row[k].state = "claimed"
            /\ row' = [row EXCEPT ![k] = Ledger!Failed(Ledger!Marked(@, "sent"))]
         \/ row' = row /\ Ledger!Answer(r, "unavailable")
  BY DEF Ledger!FailMutation, Ledger!Tx, Ledger!Holds
<1>3. \A j \in LedgerKeys : \/ row'[j] = row[j]
                            \/ /\ j = k /\ Running(row[j]) /\ RowFits(row'[j])
                               /\ row'[j].state = "failed"
  BY <1>1, <1>2, RowOps
<1>4. /\ \A s \in Requests : s # r => req'[s] = req[s]
      /\ req'[r].sent = req[r].sent /\ req'[r].token = req[r].token /\ req'[r].pc = "done"
      /\ \/ req'[r].answer = "unavailable"
         \/ req'[r].answer = "rejected" /\ row'[k].state = "failed"
  BY <1>1, <1>2, RowOps DEF Ledger!Answer, LedgerAsked
<1>5. Moves
  BY <1>1, <1>2, <1>3, <1>4 DEF Moves, LedgerMoved, Delivered, Explained
<1>6. Fits(r)'
  BY <1>1, <1>2, <1>3, <1>4 DEF Fits
<1> QED BY <1>1, <1>2, <1>4, <1>5, <1>6 DEF Turn, Working, Engaged

LEMMA DeferMoves ==
  ASSUME Ledger!LedgerAssumption, LedgerInv, NEW r \in Requests, Ledger!DeferReceipt(r)
  PROVE  Turn(r) /\ Moves
<1> DEFINE k == KeyOf[r]
<1>1. Fits(r) /\ k \in LedgerKeys /\ row \in [LedgerKeys -> Ledger!Row] /\ req \in [Requests -> LedgerAsked]
      /\ RowFits(row[k]) /\ row[k] \in Ledger!Row /\ req[r].pc = "defer"
  BY DEF Ledger!LedgerAssumption, LedgerInv, RequestsFit, RowsFit, Ledger!TypeOK, LedgerAsked,
         Ledger!DeferReceipt, Ledger!At
<1>2. /\ UNCHANGED <<upstream, reason, grants, pass>> /\ Ledger!Answer(r, "unavailable")
      /\ \/ row' = row
         \/ row[k].state = "claimed" /\ row' = [row EXCEPT ![k] = Ledger!Deferred(@)]
  BY DEF Ledger!DeferReceipt, Ledger!Tx, Ledger!Holds
<1>3. \A j \in LedgerKeys : row'[j] = row[j] \/ (Running(row[j]) /\ LedgerOpen(row'[j]))
  BY <1>1, <1>2, RowOps
<1>4. /\ \A s \in Requests : s # r => req'[s] = req[s]
      /\ req'[r].sent = req[r].sent /\ req'[r].token = req[r].token /\ req'[r].pc = "done"
      /\ req'[r].answer = "unavailable"
  BY <1>1, <1>2 DEF Ledger!Answer, LedgerAsked
<1>5. Moves
  BY <1>2, <1>3 DEF Moves, LedgerMoved, Delivered, Explained
<1>6. Fits(r)'
  BY <1>1, <1>2, <1>4 DEF Fits
<1> QED BY <1>1, <1>2, <1>4, <1>5, <1>6 DEF Turn, Working, Engaged

LEMMA CrashMoves ==
  ASSUME Ledger!LedgerAssumption, LedgerInv, NEW r \in Requests, Ledger!CrashRequest(r)
  PROVE  Turn(r) /\ Moves
<1> DEFINE k == KeyOf[r]
<1>1. Fits(r) /\ req \in [Requests -> LedgerAsked]
  BY DEF LedgerInv, RequestsFit, Ledger!TypeOK, LedgerAsked
<1>2. /\ UNCHANGED <<row, upstream, reason, grants, pass>>
      /\ \A s \in Requests : s # r => req'[s] = req[s]
      /\ req'[r].sent = req[r].sent /\ req'[r].token = req[r].token
      /\ req'[r].answer = req[r].answer /\ req'[r].pc = "crashed"
  BY <1>1 DEF Ledger!CrashRequest, Ledger!Goto, LedgerAsked
<1>3. Moves
  BY <1>2 DEF Moves, LedgerMoved, Delivered, Explained
<1>4. Fits(r)'
  BY <1>1, <1>2 DEF Fits
<1> QED BY <1>1, <1>2, <1>3, <1>4 DEF Turn, Working, Engaged

LEMMA RequestMoves ==
  ASSUME Ledger!LedgerAssumption, LedgerInv, NEW r \in Requests, Ledger!Proxy(r) \/ Ledger!CrashRequest(r)
  PROVE  Turn(r) /\ Moves
BY AuthorizeMoves, BeginMoves, ReasonMoves, RenewMoves, AbortMoves, ExecuteMoves, RespondMoves,
   SettleMoves, FailMoves, DeferMoves, CrashMoves DEF Ledger!Proxy

-----------------------------------------------------------------------------
(* The steps of a reconciler, of DreamUp and of time *)

\* A step that leaves the requests alone, and the passes honest.
Still == req' = req /\ grants' = grants /\ Witnessed'

LEMMA ClaimMoves ==
  ASSUME Ledger!LedgerAssumption, LedgerInv, NEW w \in Reconcilers, Ledger!ClaimReceiptsDue(w)
  PROVE  Still /\ Moves
<1>1. row \in [LedgerKeys -> Ledger!Row] /\ pass \in [Reconcilers -> [todo: SUBSET LedgerKeys, receipts: SUBSET LedgerKeys,
        late: SUBSET LedgerKeys, key: LedgerKeys \cup {"none"}, verdict: {"none", "settle", "defer", "operator"}]]
      /\ (\A k \in LedgerKeys : RowFits(row[k])) /\ Witnessed
  BY DEF LedgerInv, RowsFit, Ledger!TypeOK
<1>2. /\ UNCHANGED <<upstream, reason, grants, req>>
      /\ \/ row' = row
         \/ row' = [k \in LedgerKeys |-> IF k \in Ledger!ReceiptsDue THEN Ledger!Claimed(Ledger!Reclaimed[k], w)
                                   ELSE Ledger!Reclaimed[k]]
      /\ \/ pass' = pass
         \/ pass' = [pass EXCEPT ![w] = [Ledger!NoPass EXCEPT !.todo = Ledger!ReceiptsDue, !.late = old,
                                           !.receipts = {k \in LedgerKeys : upstream[k] = "applied"}]]
  BY DEF Ledger!ClaimReceiptsDue, Ledger!Tx
<1>3. ASSUME NEW x \in Ledger!Row, RowFits(x)
      PROVE  /\ x.state = "claimed" => LedgerOpen([Ledger!Deferred(x) EXCEPT !.due = TRUE])
             /\ x.state = "pending" => Running(x)
             /\ LedgerOpen(x) => LedgerOpen(Ledger!Claimed(x, w))
  BY <1>3 DEF RowFits, LedgerOpen, Running, Ledger!Deferred, Ledger!Released, Ledger!NoRow, Ledger!Claimed,
              Ledger!Row
<1>4. \A k \in LedgerKeys : \/ Ledger!Reclaimed[k] = row[k]
                            \/ Running(row[k]) /\ LedgerOpen(Ledger!Reclaimed[k]) /\ row[k].state = "claimed"
  BY <1>1, <1>3, RowOps DEF Ledger!Reclaimed, Ledger!Expired
<1>5. \A k \in Ledger!ReceiptsDue : /\ k \in LedgerKeys /\ Running(row[k]) /\ LedgerOpen(Ledger!Reclaimed[k])
                                    /\ LedgerOpen(Ledger!Claimed(Ledger!Reclaimed[k], w))
  <2> TAKE k \in Ledger!ReceiptsDue
  <2>1. k \in LedgerKeys /\ Ledger!Reclaimed[k].state = "pending"
    BY DEF Ledger!ReceiptsDue
  <2>2. Running(row[k]) /\ LedgerOpen(Ledger!Reclaimed[k])
    BY <2>1, <1>1, <1>3, <1>4 DEF Running
  <2>3. Ledger!Reclaimed[k] \in Ledger!Row
    BY <2>1, <1>1, RowTypes DEF Ledger!Reclaimed
  <2> QED BY <2>1, <2>2, <2>3, <1>3 DEF RowFits
<1>6. \A k \in LedgerKeys : row'[k] = row[k] \/ (Running(row[k]) /\ LedgerOpen(row'[k]))
  BY <1>2, <1>4, <1>5
<1>7. Moves
  BY <1>2, <1>6 DEF Moves, LedgerMoved, Delivered, Explained
<1>8. Witnessed'
  BY ZenonT(120), <1>1, <1>2 DEF Witnessed, Ledger!NoPass
<1> QED BY <1>2, <1>7, <1>8 DEF Still

LEMMA ReadMoves ==
  ASSUME Ledger!LedgerAssumption, LedgerInv, NEW w \in Reconcilers, Ledger!ReadReceipt(w)
  PROVE  Still /\ Moves
<1>1. pass \in [Reconcilers -> [todo: SUBSET LedgerKeys, receipts: SUBSET LedgerKeys, late: SUBSET LedgerKeys,
        key: LedgerKeys \cup {"none"}, verdict: {"none", "settle", "defer", "operator"}]] /\ Witnessed
  BY DEF LedgerInv, Ledger!TypeOK
<1>2. PICK k \in pass[w].todo, receipt \in {"none", "own", "foreign"} :
        /\ receipt = "own" => upstream[k] = "applied"
        /\ \E v \in Ledger!Verdicts(w, k, receipt) : pass' = [pass EXCEPT ![w].key = k, ![w].verdict = v]
  BY DEF Ledger!ReadReceipt
<1>3. PICK v \in Ledger!Verdicts(w, k, receipt) : pass' = [pass EXCEPT ![w].key = k, ![w].verdict = v]
  BY <1>2
<1>4. k \in LedgerKeys /\ (v = "settle" => upstream[k] = "applied")
  BY <1>1, <1>2 DEF Ledger!Verdicts, Ledger!ReceiptMatches
<1>5. UNCHANGED <<row, upstream, reason, grants, req>>
  BY DEF Ledger!ReadReceipt
<1>6. Moves
  BY <1>5 DEF Moves, LedgerMoved, Delivered, Explained
<1>7. Witnessed'
  BY <1>1, <1>3, <1>4, <1>5 DEF Witnessed
<1> QED BY <1>5, <1>6, <1>7 DEF Still

LEMMA ReconcileMoves ==
  ASSUME Ledger!LedgerAssumption, LedgerInv, NEW w \in Reconcilers, Ledger!ReconcileOne(w)
  PROVE  Still /\ Moves
<1> DEFINE k == pass[w].key
           v == pass[w].verdict
<1>1. /\ row \in [LedgerKeys -> Ledger!Row] /\ Witnessed /\ k \in LedgerKeys
      /\ v \in {"settle", "defer", "operator"}
      /\ RowFits(row[k]) /\ row[k] \in Ledger!Row /\ (v = "settle" => upstream[k] = "applied")
      /\ pass \in [Reconcilers -> [todo: SUBSET LedgerKeys, receipts: SUBSET LedgerKeys, late: SUBSET LedgerKeys,
           key: LedgerKeys \cup {"none"}, verdict: {"none", "settle", "defer", "operator"}]]
  BY DEF LedgerInv, RowsFit, Ledger!TypeOK, Ledger!ReconcileOne, Witnessed
<1>2. /\ UNCHANGED <<upstream, reason, grants, req>> /\ Ledger!NextItem(w)
      /\ \/ row' = row
         \/ row[k].state = "claimed" /\ row' = [row EXCEPT ![k] = Ledger!Concluded(@, v)]
  BY DEF Ledger!ReconcileOne, Ledger!Tx, Ledger!PassHolds
<1>3. row[k].state = "claimed" =>
        /\ Running(row[k])
        /\ \/ LedgerOpen(Ledger!Concluded(row[k], v))
           \/ /\ RowFits(Ledger!Concluded(row[k], v)) /\ Ledger!Concluded(row[k], v).state = "succeeded"
              /\ upstream[k] = "applied"
  BY <1>1, RowOps DEF Ledger!Concluded
<1>4. \A j \in LedgerKeys : \/ row'[j] = row[j]
                            \/ Running(row[j]) /\ LedgerOpen(row'[j])
                            \/ /\ Running(row[j]) /\ RowFits(row'[j]) /\ row'[j].state = "succeeded"
                               /\ upstream[j] = "applied"
  BY <1>1, <1>2, <1>3
<1>5. Moves
  BY <1>2, <1>4 DEF Moves, LedgerMoved, Delivered, Explained
<1>6. Witnessed'
  BY <1>1, <1>2 DEF Witnessed, Ledger!NextItem, Ledger!NoPass
<1> QED BY <1>2, <1>5, <1>6 DEF Still

LEMMA PassMoves ==
  ASSUME Ledger!LedgerAssumption, LedgerInv, NEW w \in Reconcilers, Ledger!RunOnce(w) \/ Ledger!CrashPass(w)
  PROVE  Still /\ Moves
<1>1. CASE Ledger!CrashPass(w)
  <2>1. UNCHANGED <<row, upstream, reason, grants, req>> /\ pass' = [pass EXCEPT ![w] = Ledger!NoPass]
    BY <1>1 DEF Ledger!CrashPass
  <2>2. Witnessed'
    BY <2>1 DEF LedgerInv, Ledger!TypeOK, Witnessed, Ledger!NoPass
  <2> QED BY <2>1, <2>2 DEF Still, Moves, LedgerMoved, Delivered, Explained
<1> QED BY <1>1, ClaimMoves, ReadMoves, ReconcileMoves DEF Ledger!RunOnce

LEMMA WorldMoves ==
  ASSUME Ledger!LedgerAssumption, LedgerInv, NEW k \in LedgerKeys,
         Ledger!Upstream(k) \/ Ledger!LeaseEnds(k) \/ Ledger!BecomesDue(k) \/ Ledger!GrowOld(k) \/ Ledger!PurgeExpired(k)
  PROVE  Still /\ Moves
<1>1. row \in [LedgerKeys -> Ledger!Row] /\ RowFits(row[k]) /\ row[k] \in Ledger!Row
      /\ upstream \in [LedgerKeys -> {"untouched", "inflight", "applied", "refused", "lost"}]
      /\ reason \in [LedgerKeys -> {"unneeded", "absent", "terminal", "purged"}]
  BY DEF LedgerInv, RowsFit, Ledger!TypeOK
<1>2. UNCHANGED <<grants, req, pass>>
  BY DEF Ledger!Upstream, Ledger!LeaseEnds, Ledger!BecomesDue, Ledger!GrowOld, Ledger!PurgeExpired
<1>3. \A j \in LedgerKeys : LedgerMoved(j)
  <2>1. row[k].state \in {"claimed", "pending"} =>
          /\ Running(row[k])
          /\ LedgerOpen([row[k] EXCEPT !.live = FALSE]) /\ LedgerOpen([row[k] EXCEPT !.due = TRUE])
    BY <1>1 DEF RowFits, LedgerOpen, Running, Ledger!NoRow, Ledger!Row
  <2>2. \A j \in LedgerKeys : row'[j] = row[j] \/ (Running(row[j]) /\ LedgerOpen(row'[j]))
    BY <1>1, <2>1 DEF Ledger!Upstream, Ledger!LeaseEnds, Ledger!BecomesDue, Ledger!GrowOld, Ledger!PurgeExpired
  <2> QED BY <2>2 DEF LedgerMoved
<1>4. \A j \in LedgerKeys : \/ upstream'[j] = upstream[j]
                            \/ upstream[j] = "inflight" /\ upstream'[j] \in {"applied", "refused", "lost"}
  BY <1>1 DEF Ledger!Upstream, Ledger!LeaseEnds, Ledger!BecomesDue, Ledger!GrowOld, Ledger!PurgeExpired
<1>5. \A j \in LedgerKeys : Explained(j)
  BY <1>1 DEF Explained, Ledger!Upstream, Ledger!LeaseEnds, Ledger!BecomesDue, Ledger!GrowOld,
              Ledger!PurgeExpired
<1>6. Witnessed'
  BY <1>2, <1>4 DEF LedgerInv, Witnessed
<1> QED BY <1>2, <1>3, <1>4, <1>5, <1>6 DEF Still, Moves, Delivered

-----------------------------------------------------------------------------
(* The invariant *)

LEMMA TypesKept ==
  ASSUME Ledger!LedgerAssumption, LedgerInv, [Ledger!Next]_(Ledger!vars)
  PROVE  Ledger!TypeOK'
<1>1. CASE Ledger!Next
  BY <1>1, RequestTypes, PassTypes, WorldTypes DEF LedgerInv, Ledger!Next
<1>2. CASE UNCHANGED Ledger!vars
  BY <1>2 DEF LedgerInv, Ledger!TypeOK, Ledger!vars
<1> QED BY <1>1, <1>2

\* Every step is a request's, or leaves the requests alone.
LEMMA StepMoves ==
  ASSUME Ledger!LedgerAssumption, LedgerInv, [Ledger!Next]_(Ledger!vars)
  PROVE  /\ Moves
         /\ \/ \E r \in Requests : Turn(r)
            \/ Still
<1>1. CASE Ledger!Next
  BY <1>1, RequestMoves, PassMoves, WorldMoves DEF Ledger!Next
<1>2. CASE UNCHANGED Ledger!vars
  BY <1>2 DEF Ledger!vars, Still, Moves, LedgerMoved, Delivered, Explained, LedgerInv, Witnessed
<1> QED BY <1>1, <1>2

\* What stays for good, whoever moves.
LEMMA Lasting ==
  ASSUME Ledger!LedgerAssumption, LedgerInv, Moves, NEW k \in LedgerKeys
  PROVE  /\ RowFits(row'[k])
         /\ Ledger!Ended(k) => row'[k] = row[k]
         /\ row[k].state # "absent" => row'[k].state # "absent"
         /\ upstream[k] \in {"applied", "refused"} => upstream'[k] = upstream[k]
         /\ reason[k] # "absent" => reason'[k] # "absent"
<1>1. RowFits(row[k]) /\ LedgerMoved(k) /\ Delivered(k) /\ Explained(k)
  BY DEF LedgerInv, RowsFit, Moves
<1>2. RowFits(row'[k])
  BY <1>1 DEF LedgerMoved, RowFits
<1>3. Ledger!Ended(k) => row'[k] = row[k]
  BY <1>1 DEF LedgerMoved, Ledger!Ended, Ledger!Terminal, Running, LedgerOpen, Ledger!NoRow
<1>4. row[k].state # "absent" => row'[k].state # "absent"
  BY <1>1 DEF LedgerMoved, Running, LedgerOpen, Ledger!NoRow
<1> QED BY <1>1, <1>2, <1>3, <1>4 DEF Delivered, Explained

\* The requests, as the step of one of them leaves them.
LEMMA EngagementKept ==
  ASSUME Ledger!LedgerAssumption, LedgerInv, Moves, (\E r \in Requests : Turn(r)) \/ Still
  PROVE  OneEngaged'
<1>k. \A r \in Requests : KeyOf[r] \in LedgerKeys
  BY DEF Ledger!LedgerAssumption
<1>o. OneEngaged
  BY DEF LedgerInv
<1>1. CASE Still
  <2>1. \A r \in Requests : Engaged(r)' <=> Engaged(r)
    BY <1>1 DEF Still, Engaged, Working
  <2> QED BY <2>1, <1>k, <1>o, Lasting DEF OneEngaged
<1>2. ASSUME NEW r \in Requests, Turn(r)
      PROVE  OneEngaged'
  <2>1. \A s \in Requests : s # r => (Engaged(s)' <=> Engaged(s))
    BY <1>2 DEF Turn, Engaged, Working
  <2>2. \/ Engaged(r)' => Engaged(r)
        \/ row[KeyOf[r]].state = "absent" /\ row'[KeyOf[r]].state # "absent"
    BY <1>2 DEF Turn, Engaged
  <2>3. \A s \in Requests : row[KeyOf[s]].state # "absent" => row'[KeyOf[s]].state # "absent"
    BY <1>k, Lasting
  <2>4. \A s \in Requests : Engaged(s)' => row'[KeyOf[s]].state # "absent"
    BY <2>1, <2>2, <2>3, <1>o DEF OneEngaged
  <2>5. \A s \in Requests : Engaged(r)' /\ Engaged(s)' /\ KeyOf[r] = KeyOf[s] => r = s
    BY <2>1, <2>2, <1>o DEF OneEngaged
  <2>6. \A s, q \in Requests : Engaged(s)' /\ Engaged(q)' /\ KeyOf[s] = KeyOf[q] => s = q
    BY <2>1, <2>5, <1>o DEF OneEngaged
  <2> QED BY <2>4, <2>6 DEF OneEngaged
<1> QED BY <1>1, <1>2

LEMMA RequestsKept ==
  ASSUME Ledger!LedgerAssumption, LedgerInv, Moves, (\E r \in Requests : Turn(r)) \/ Still
  PROVE  RequestsFit'
<1>1. ASSUME NEW s \in Requests, req'[s] = req[s]
      PROVE  Fits(s)'
  <2>1. Fits(s) /\ KeyOf[s] \in LedgerKeys
    BY DEF Ledger!LedgerAssumption, LedgerInv, RequestsFit
  <2> QED BY <1>1, <2>1, Lasting DEF Fits, Ledger!Ended, Ledger!Terminal
<1>2. CASE Still
  BY <1>1, <1>2 DEF Still, RequestsFit
<1>3. ASSUME NEW r \in Requests, Turn(r)
      PROVE  RequestsFit'
  BY <1>1, <1>3 DEF Turn, RequestsFit
<1> QED BY <1>2, <1>3

LEMMA SendersKept ==
  ASSUME Ledger!LedgerAssumption, LedgerInv, Moves, (\E r \in Requests : Turn(r)) \/ Still
  PROVE  Backed' /\ Closed'
<1>k. \A r \in Requests : KeyOf[r] \in LedgerKeys
  BY DEF Ledger!LedgerAssumption
<1>s. \A s \in Requests : req[s].sent => req'[s].sent
  BY DEF Turn, Still
<1>1. Backed'
  BY <1>s DEF LedgerInv, Backed, Moves, Delivered
<1>w. \A s \in Requests : \/ Working(s)' => Working(s)
                          \/ row[KeyOf[s]].state = "absent" /\ row'[KeyOf[s]].state # "absent"
  BY DEF Turn, Still, Working
<1>2. ASSUME NEW s \in Requests, row'[KeyOf[s]].state = "failed", Working(s)'
      PROVE  FALSE
  <2> DEFINE k == KeyOf[s]
  <2>1. LedgerMoved(k) /\ RowFits(row[k]) /\ k \in LedgerKeys
    BY <1>k DEF Moves, LedgerInv, RowsFit
  <2>2. CASE row[k].state = "failed"
    BY <2>2, <1>2, <1>w DEF LedgerInv, Closed
  <2>3. CASE row[k].state # "failed"
    <3>1. PICK r \in Requests : KeyOf[r] = k /\ req[r].pc \in {"abort", "fail"} /\ req'[r].pc = "done"
      BY <2>1, <2>3, <1>2 DEF LedgerMoved, LedgerOpen
    <3>2. Running(row[k])
      BY <2>1, <2>3, <1>2 DEF LedgerMoved, LedgerOpen
    <3>3. Working(s)
      BY <1>2, <1>w, <3>2 DEF Running, LedgerOpen
    <3>4. s = r
      BY <3>1, <3>3 DEF LedgerInv, OneEngaged, Engaged, Working
    <3> QED BY <3>1, <3>4, <1>2 DEF Working
  <2> QED BY <2>2, <2>3
<1>3. Closed'
  BY <1>2 DEF Closed
<1> QED BY <1>1, <1>3

\* A row ends as failed only through the request that had opened it: either
\* nobody has sent, or DreamUp has refused.
LEMMA HonestyKept ==
  ASSUME Ledger!LedgerAssumption, LedgerInv, Moves
  PROVE  Ledger!LedgerHonest'
<1> SUFFICES ASSUME NEW k \in LedgerKeys
             PROVE  /\ row'[k].state = "succeeded" => upstream'[k] = "applied"
                    /\ row'[k].state = "failed" => upstream'[k] \notin {"inflight", "applied"}
  BY DEF Ledger!LedgerHonest
<1>1. /\ LedgerMoved(k) /\ Delivered(k) /\ RowFits(row[k])
      /\ row[k].state = "succeeded" => upstream[k] = "applied"
      /\ row[k].state = "failed" => upstream[k] \notin {"inflight", "applied"}
  BY DEF Moves, LedgerInv, RowsFit, Ledger!LedgerHonest
<1>2. row'[k].state = "succeeded" => upstream'[k] = "applied"
  <2>1. row'[k].state = "succeeded" => upstream[k] = "applied"
    BY <1>1 DEF LedgerMoved, LedgerOpen
  <2> QED BY <2>1, Lasting
<1>3. CASE row'[k].state = "failed" /\ row[k].state = "failed"
  <2>1. \A r \in Requests : KeyOf[r] = k => req[r].pc # "send"
    BY <1>3 DEF LedgerInv, Closed, Working
  <2> QED BY <2>1, <1>1, <1>2, <1>3 DEF Delivered
<1>4. CASE row'[k].state = "failed" /\ row[k].state # "failed"
  <2>1. PICK r \in Requests : KeyOf[r] = k /\ req[r].pc \in {"abort", "fail"} /\ req'[r].pc = "done"
    BY <1>1, <1>4 DEF LedgerMoved, LedgerOpen
  <2>2. upstream'[k] = upstream[k]
    BY <1>1, <1>4 DEF LedgerMoved, LedgerOpen
  <2>3. Fits(r) /\ Engaged(r)
    BY <2>1 DEF LedgerInv, RequestsFit, Engaged, Working
  <2>4. CASE req[r].pc = "fail"
    BY <2>1, <2>2, <2>3, <2>4, <1>4 DEF Fits
  <2>5. CASE req[r].pc = "abort"
    <3>1. \A s \in Requests : KeyOf[s] = k /\ req[s].sent => s = r
      BY <2>1, <2>3 DEF LedgerInv, OneEngaged, Engaged
    <3>2. ~req[r].sent
      BY <2>3, <2>5 DEF Fits
    <3>3. upstream[k] = "untouched"
      BY <3>1, <3>2 DEF LedgerInv, Backed
    <3> QED BY <3>3, <2>2, <1>4
  <2> QED BY <2>1, <2>4, <2>5
<1> QED BY <1>2, <1>3, <1>4

LEMMA TokensKept ==
  ASSUME Ledger!LedgerAssumption, LedgerInv, (\E r \in Requests : Turn(r)) \/ Still
  PROVE  Spent' /\ Ledger!TokenOnce'
<1>1. Spent /\ Ledger!TokenOnce
  BY DEF LedgerInv
<1>2. CASE Still
  BY <1>1, <1>2 DEF Still, Spent, Ledger!TokenOnce
<1>3. ASSUME NEW r \in Requests, Turn(r)
      PROVE  Spent' /\ Ledger!TokenOnce'
  <2>1. /\ \A s \in Requests : s # r => req'[s].token = req[s].token
        /\ req'[r].token = req[r].token \/ req'[r].token \in grants \ grants'
        /\ grants' \subseteq grants
    BY <1>3 DEF Turn
  <2>2. Spent'
    BY <1>1, <2>1 DEF Spent
  <2>3. Ledger!TokenOnce'
    BY <1>1, <2>1 DEF Spent, Ledger!TokenOnce
  <2> QED BY <2>2, <2>3
<1> QED BY <1>2, <1>3

LEMMA LedgerInit ==
  ASSUME Ledger!LedgerAssumption PROVE Ledger!Init => LedgerInv
<1> SUFFICES ASSUME Ledger!Init
             PROVE  LedgerInv
  OBVIOUS
<1>1. Ledger!NoRow \in Ledger!Row
  BY DEF Ledger!NoRow, Ledger!Row
<1>2. Ledger!TypeOK
  BY <1>1 DEF Ledger!LedgerAssumption, Ledger!Init, Ledger!TypeOK, Ledger!NoPass, Ledger!Labels
<1>3. /\ \A k \in LedgerKeys : row[k] = Ledger!NoRow /\ upstream[k] = "untouched"
      /\ \A r \in Requests : req[r] = [pc |-> "idle", token |-> "none", renewed |-> FALSE,
                                       sent |-> FALSE, answer |-> "none"]
      /\ \A w \in Reconcilers : pass[w] = Ledger!NoPass
      /\ grants = Tokens
  BY DEF Ledger!Init
<1>4. RowsFit /\ OneEngaged /\ RequestsFit
  BY <1>3 DEF RowsFit, RowFits, OneEngaged, Engaged, Working, RequestsFit, Fits
<1>5. Backed /\ Closed /\ Ledger!LedgerHonest
  BY <1>3 DEF Ledger!LedgerAssumption, Backed, Closed, Ledger!LedgerHonest, Ledger!NoRow, Working
<1>6. Witnessed /\ Spent /\ Ledger!TokenOnce
  BY <1>3 DEF Ledger!LedgerAssumption, Witnessed, Ledger!NoPass, Spent, Ledger!TokenOnce
<1> QED BY <1>2, <1>4, <1>5, <1>6 DEF LedgerInv

LEMMA LedgerKept ==
  ASSUME Ledger!LedgerAssumption PROVE LedgerInv /\ [Ledger!Next]_(Ledger!vars) => LedgerInv'
<1> SUFFICES ASSUME LedgerInv, [Ledger!Next]_(Ledger!vars)
             PROVE  LedgerInv'
  OBVIOUS
<1>1. Moves /\ ((\E r \in Requests : Turn(r)) \/ Still)
  BY StepMoves
<1>2. Ledger!TypeOK'
  BY TypesKept
<1>3. RowsFit'
  BY <1>1, Lasting DEF RowsFit
<1>4. Witnessed'
  <2>1. CASE Still
    BY <2>1 DEF Still
  <2>2. CASE \E r \in Requests : Turn(r)
    BY <1>1, <2>2, Lasting DEF Turn, LedgerInv, Witnessed
  <2> QED BY <1>1, <2>1, <2>2
<1> QED
  BY <1>1, <1>2, <1>3, <1>4, EngagementKept, RequestsKept, SendersKept, HonestyKept, TokensKept
  DEF LedgerInv

-----------------------------------------------------------------------------
(* Theorems *)

\* No interleaving of requests, reconcilers and failures leaves the invariant
\* of the ledger (Service.Proxy, Reconciler.RunOnce).
THEOREM LedgerInvariant ==
  ASSUME Ledger!LedgerAssumption PROVE Ledger!Spec => []LedgerInv
BY LedgerInit, LedgerKept, PTL DEF Ledger!Spec

\* Rows, requests and passes keep their types: no writer stores a state or an
\* answer that the columns of admin_operation_outbox do not allow.
THEOREM LedgerTypeCorrect ==
  ASSUME Ledger!LedgerAssumption PROVE Ledger!Spec => []Ledger!TypeOK
<1>1. LedgerInv => Ledger!TypeOK
  BY DEF LedgerInv
<1> QED BY <1>1, LedgerInvariant, PTL

\* A mutation is sent at most once per idempotency key, however many requests
\* repeat the key and however claims expire, crash or move (beginMutation).
THEOREM NeverSentTwice ==
  ASSUME Ledger!LedgerAssumption PROVE Ledger!Spec => []Ledger!SentOnce
<1>1. LedgerInv => Ledger!SentOnce
  BY DEF LedgerInv, OneEngaged, Engaged, Ledger!SentOnce
<1> QED BY <1>1, LedgerInvariant, PTL

\* A row says succeeded only of what DreamUp has done, and failed only of what
\* it has not done and never will (settleMutation, failMutation, abort).
THEOREM OutcomesHonest ==
  ASSUME Ledger!LedgerAssumption PROVE Ledger!Spec => []Ledger!LedgerHonest
<1>1. LedgerInv => Ledger!LedgerHonest
  BY DEF LedgerInv
<1> QED BY <1>1, LedgerInvariant, PTL

\* The definite answer a caller was given is the outcome on record.
THEOREM AnswersKept ==
  ASSUME Ledger!LedgerAssumption PROVE Ledger!Spec => []Ledger!AnswerAgrees
<1>1. LedgerInv => Ledger!AnswerAgrees
  BY DEF LedgerInv, RequestsFit, Fits, Ledger!AnswerAgrees
<1> QED BY <1>1, LedgerInvariant, PTL

\* A restricted read is sent only after its reason has been stored
\* (persistReviewIdentityReason).
THEOREM ReasonsStored ==
  ASSUME Ledger!LedgerAssumption PROVE Ledger!Spec => []Ledger!ReasonFirst
<1>1. LedgerInv => Ledger!ReasonFirst
  BY DEF LedgerInv, RequestsFit, Fits, Ledger!ReasonFirst
<1> QED BY <1>1, LedgerInvariant, PTL

\* One reauthentication token authorises one mutation (consumeHighRiskGrant).
THEOREM TokensSpent ==
  ASSUME Ledger!LedgerAssumption PROVE Ledger!Spec => []Ledger!TokenOnce
<1>1. LedgerInv => Ledger!TokenOnce
  BY DEF LedgerInv
<1> QED BY <1>1, LedgerInvariant, PTL

\* Every row can be read back as a status (mutationStatusFromItem).
THEOREM RowsReadable ==
  ASSUME Ledger!LedgerAssumption PROVE Ledger!Spec => []Ledger!StatusAnswers
<1>1. LedgerInv => Ledger!StatusAnswers
  <2> SUFFICES ASSUME NEW k \in LedgerKeys, RowFits(row[k])
               PROVE  Ledger!StatusReadable(k)
    BY DEF LedgerInv, RowsFit, Ledger!StatusAnswers
  <2> QED BY DEF RowFits, LedgerOpen, Ledger!NoRow, Ledger!StatusReadable
<1> QED BY <1>1, LedgerInvariant, PTL

\* An ended row is never written again, by whoever still believes to hold its
\* claim.
THEOREM EndsFinal ==
  ASSUME Ledger!LedgerAssumption PROVE Ledger!Spec => [][Ledger!EndsKept]_(Ledger!vars)
<1>1. LedgerInv /\ [Ledger!Next]_(Ledger!vars) => [Ledger!EndsKept]_(Ledger!vars)
  BY StepMoves, Lasting DEF Ledger!EndsKept
<1> QED BY <1>1, LedgerInvariant, PTL DEF Ledger!Spec
=============================================================================
