------------------------------ MODULE Enrollment ------------------------------
(***************************************************************************)
(* Enrolling a TOTP or a passkey.  A begin request registers a pending     *)
(* factor at the provider and stores a one-shot enrollment in Redis; a     *)
(* confirm or a cancel claims the enrollment, calls the provider and then  *)
(* consumes, abandons or releases it.  A worker removes the registrations  *)
(* of passkeys whose enrollment ended without a settlement.                *)
(***************************************************************************)
EXTENDS Naturals, FiniteSets

CONSTANTS
  Requests,  \* the HTTP requests that may arrive, each once
  InputOf,   \* operation, factor kind, session and enrollment of each
  Workers,   \* passkey cleanup workers
  Batches,   \* model bound: the sets of requests that arrive in one run
  MaxGen,    \* model bound: security generations of the user
  MaxFaults  \* model bound: failures, lost answers, crashes

Op(r)      == InputOf[r].op
Kind(r)    == InputOf[r].kind
Token(r)   == InputOf[r].token
Session(r) == InputOf[r].session
Tokens     == {r \in Requests : Op(r) = "begin"}  \* one enrollment per begin
Passkeys   == {t \in Tokens : Kind(t) = "passkey"}
Slots      == {"totp"} \cup Passkeys
Slot(t)    == IF Kind(t) = "totp" THEN "totp" ELSE t

EnrollmentAssumption ==
  /\ \A r \in Requests : /\ Op(r) \in {"begin", "confirm", "cancel", "remove"}
                         /\ Kind(r) \in {"totp", "passkey"}
                         /\ Token(r) \in Tokens /\ (Op(r) = "begin" => Token(r) = r)
  /\ Requests \cap {"none", "totp"} = {}
  /\ Batches \subseteq SUBSET Requests /\ MaxGen \in Nat \ {0} /\ MaxFaults \in Nat

VARIABLES
  factor,    \* the provider: state of each factor and the begin that registered it
  chal,      \* Redis: the security epoch stamped on each live enrollment, 0 if none
  lock,      \* Redis: who holds the claim lock of each enrollment
  work,      \* Redis: cleanup record and index of each passkey enrollment
  worker,    \* what each cleanup worker is doing
  sec,       \* the security state row of the user
  req,       \* what each request is doing
  unsettled, \* history: enrollments whose settlement, lock or provider answer was lost
  stranded,  \* history: registrations whose begin died before it stored anything
  faults     \* how many of them so far

enrollVars == <<factor, chal, lock, work, worker, sec, req, unsettled, stranded, faults>>

Modes   == {"consume", "abandon", "release"}
Answers == {"ok", "invalid", "already_set", "not_set", "unavailable", "gone", "denied", "internal"}
Absent  == [state |-> "absent", by |-> "none"]
Idle    == [at |-> "idle", token |-> "none"]

TypeOK ==
  /\ \A s \in Slots : /\ factor[s].state \in {"absent", "pending", "active"}
                      /\ (factor[s] = Absent) = (factor[s].by \notin Tokens)
  /\ chal \in [Tokens -> 0 .. MaxGen]
  /\ lock \in [Tokens -> Requests \cup {"none"}]
  /\ work \in [Tokens -> {"none", "due", "leased"}]
  /\ \A t \in Tokens \ Passkeys : work[t] = "none"
  /\ \A w \in Workers : worker[w].at \in {"idle", "list", "remove", "complete"}
  /\ sec.gen \in 1 .. MaxGen /\ sec.intent \in BOOLEAN
  /\ \A r \in Requests :
       /\ req[r].pc \in {"idle", "store", "compensate", "gate", "provider", "cleanup",
                         "finalize", "done"}
       /\ (req[r].pc = "finalize") = (req[r].mode \in Modes)
       /\ req[r].answer \in Answers \cup {"none"}
  /\ unsettled \subseteq Tokens /\ stranded \subseteq Slots
  /\ faults \in 0 .. MaxFaults

Init ==
  /\ factor = [s \in Slots |-> Absent]
  /\ chal = [t \in Tokens |-> 0] /\ lock = [t \in Tokens |-> "none"]
  /\ work = [t \in Tokens |-> "none"] /\ worker = [w \in Workers |-> Idle]
  /\ sec = [gen |-> 1, intent |-> FALSE]
  /\ \E batch \in Batches :
       req = [r \in Requests |-> [pc |-> IF r \in batch THEN "idle" ELSE "done", gen |-> 0,
                                  mode |-> "none", answer |-> "none"]]
  /\ unsettled = {} /\ stranded = {} /\ faults = 0

At(r, label) == req[r].pc = label
NoFault      == UNCHANGED faults
Fault        == faults < MaxFaults /\ faults' = faults + 1
To(r, label) == req' = [req EXCEPT ![r].pc = label]
Answer(r, a) == req' = [req EXCEPT ![r].pc = "done", ![r].mode = "none", ![r].answer = a]
Settle(r, mode, a) ==
  req' = [req EXCEPT ![r].pc = "finalize", ![r].mode = mode, ![r].answer = a]

\* The provider deletes a factor.
Removed(s) == [factor EXCEPT ![s] = Absent]

-----------------------------------------------------------------------------
(* Begin *)

\* The reauthentication grant has been consumed.  A factor that is pending or
\* active already is refused, a lost answer leaves a registration behind.
Register(r) ==
  LET s == Slot(r) IN
  /\ At(r, "idle") /\ Op(r) = "begin"
  /\ \/ /\ factor[s] = Absent
        /\ factor' = [factor EXCEPT ![s] = [state |-> "pending", by |-> r]]
        /\ \/ /\ req' = [req EXCEPT ![r].pc = "store", ![r].gen = sec.gen]
              /\ NoFault /\ UNCHANGED stranded
           \/ Answer(r, "unavailable") /\ Fault /\ stranded' = stranded \cup {s}
     \/ factor[s] # Absent /\ Answer(r, "already_set") /\ NoFault /\ UNCHANGED <<factor, stranded>>
     \/ Answer(r, "unavailable") /\ Fault /\ UNCHANGED <<factor, stranded>>
  /\ UNCHANGED <<chal, lock, work, worker, sec, unsettled>>

\* One script stores the challenge, the cleanup record and its index entry.
CreateEnrollment_EveryKind(r) ==
  chal' = [chal EXCEPT ![r] = req[r].gen] /\ work' = [work EXCEPT ![r] = "due"]
CreateEnrollment(r) ==
  /\ chal' = [chal EXCEPT ![r] = req[r].gen]
  /\ work' = IF r \in Passkeys THEN [work EXCEPT ![r] = "due"] ELSE work

IssueEnrollment(r) ==
  /\ At(r, "store")
  /\ \/ CreateEnrollment(r) /\ Answer(r, "ok") /\ NoFault
     \/ /\ CreateEnrollment(r) \/ UNCHANGED <<chal, work>>
        /\ To(r, "compensate") /\ Fault
  /\ UNCHANGED <<factor, lock, worker, sec, unsettled, stranded>>

\* compensateTOTPBegin, compensatePasskeyBegin: one attempt.
Compensate(r) ==
  /\ At(r, "compensate") /\ Answer(r, "internal")
  /\ \/ factor' = Removed(Slot(r)) /\ NoFault /\ UNCHANGED stranded
     \/ /\ Fault /\ UNCHANGED factor /\ stranded' = stranded \cup {Slot(r)}
  /\ UNCHANGED <<chal, lock, work, worker, sec, unsettled>>

-----------------------------------------------------------------------------
(* Confirm and cancel *)

Held_Never(t) == FALSE
Held(t) == lock[t] # "none"
\* A token that belongs to another session or another factor kind.
Foreign(r) == Session(r) # Session(Token(r)) \/ Kind(r) # Kind(Token(r))
\* How a token ends that must not be presented again.
Rejected_Released(t) == "release"
Rejected(t) == IF Kind(t) = "passkey" THEN "abandon" ELSE "consume"

ClaimEnrollment(r) ==
  LET t == Token(r) IN
  /\ At(r, "idle") /\ Op(r) \in {"confirm", "cancel"}
  /\ req[t].answer = "ok"  \* the browser has been given the token
  /\ \/ (Held(t) \/ chal[t] = 0) /\ Answer(r, "gone") /\ NoFault /\ UNCHANGED lock
     \/ /\ ~Held(t) /\ chal[t] # 0
        /\ lock' = [lock EXCEPT ![t] = r]
        /\ IF Foreign(r) THEN Settle(r, Rejected(t), "denied")
           ELSE req' = [req EXCEPT ![r].pc = "gate", ![r].gen = chal[t]]
        /\ NoFault
     \/ /\ Answer(r, "internal") /\ Fault
        /\ IF Held(t) \/ chal[t] = 0 THEN UNCHANGED lock
           ELSE lock' \in {lock, [lock EXCEPT ![t] = r]}
  /\ UNCHANGED <<factor, chal, work, worker, sec, unsettled, stranded>>

\* AllowSensitiveConsumption: a stale stamp burns the token, an open intent or
\* an unreadable row leaves it for a retry.
Gate(r) ==
  /\ At(r, "gate")
  /\ \/ req[r].gen # sec.gen /\ Settle(r, Rejected(Token(r)), "denied") /\ NoFault
     \/ req[r].gen = sec.gen /\ sec.intent /\ Settle(r, "release", "denied") /\ NoFault
     \/ req[r].gen = sec.gen /\ ~sec.intent /\ To(r, "provider") /\ NoFault
     \/ Settle(r, "release", "denied") /\ Fault
  /\ UNCHANGED <<factor, chal, lock, work, worker, sec, unsettled, stranded>>

ClaimEnrollmentData(r) == ClaimEnrollment(r) \/ Gate(r)

\* What the provider makes of a code or an attestation.
Verdicts(t) ==
  LET f == factor[Slot(t)] IN
  CASE f.state = "absent"                 -> {"not_set"}
    [] f.state = "pending" /\ f.by = t    -> {"ok", "invalid"}
    [] f.state = "pending" /\ f.by # t    -> {"invalid"}
    [] f.state = "active"                 -> {"invalid", "already_set"}

Activated(t) == [factor EXCEPT ![Slot(t)].state = "active"]

\* How the token ends after the provider's answer.
SettleEnrollment_Released(t, verdict) == "release"
SettleEnrollment_Consumed(t, verdict) == "consume"
SettleEnrollment(t, verdict) ==
  IF Kind(t) = "passkey" /\ verdict # "ok" THEN "abandon" ELSE "consume"

\* The answer of the provider is lost: the token is released, and a
\* confirmation may have taken place.
ProviderLost(r, effect) ==
  /\ Settle(r, "release", "unavailable") /\ Fault
  /\ \/ UNCHANGED <<factor, unsettled>>
     \/ factor' = effect /\ unsettled' = unsettled \cup {Token(r)}

Confirm(r) ==
  LET t == Token(r) IN
  /\ At(r, "provider") /\ Op(r) = "confirm"
  /\ \/ \E v \in Verdicts(t) :
          /\ factor' = IF v = "ok" THEN Activated(t) ELSE factor
          /\ IF v = "invalid" /\ Kind(t) = "totp"
             THEN req' = [req EXCEPT ![r].pc = "cleanup", ![r].answer = v]
             ELSE Settle(r, SettleEnrollment(t, v), v)
          /\ NoFault /\ UNCHANGED unsettled
     \/ ProviderLost(r, IF "ok" \in Verdicts(t) THEN Activated(t) ELSE factor)
  /\ UNCHANGED <<chal, lock, work, worker, sec, stranded>>

\* An invalid code ends the ceremony: the pending TOTP goes before the token.
RemovePendingTOTP(r) ==
  /\ At(r, "cleanup")
  /\ \/ factor' = Removed("totp") /\ Settle(r, SettleEnrollment(Token(r), "invalid"), "invalid")
        /\ NoFault /\ UNCHANGED unsettled
     \/ ProviderLost(r, Removed("totp"))
  /\ UNCHANGED <<chal, lock, work, worker, sec, stranded>>

\* A cancel removes the registration; an error of no known class abandons a
\* passkey and releases a TOTP.
Cancel(r) ==
  LET t == Token(r) IN
  /\ At(r, "provider") /\ Op(r) = "cancel"
  /\ \/ factor' = Removed(Slot(t)) /\ Settle(r, "consume", "ok") /\ NoFault /\ UNCHANGED unsettled
     \/ ProviderLost(r, Removed(Slot(t)))
     \/ /\ Kind(t) = "passkey" /\ Settle(r, "abandon", "internal") /\ Fault
        /\ UNCHANGED <<factor, unsettled>>
  /\ UNCHANGED <<chal, lock, work, worker, sec, stranded>>

\* Each of the three scripts acts only while the caller holds the lock.
ReleaseEnrollment(t) == UNCHANGED <<chal, work>>
ConsumeEnrollment(t) ==
  /\ chal' = [chal EXCEPT ![t] = 0]
  /\ work' = [work EXCEPT ![t] = "none"]
AbandonEnrollment(t) ==
  /\ chal' = [chal EXCEPT ![t] = 0]
  /\ work' = IF work[t] = "leased" THEN [work EXCEPT ![t] = "due"] ELSE work

\* finalizeEnrollment: three attempts, detached from the request.  A script
\* that finds the lock in other hands changes nothing.
Finalize(r) ==
  LET t == Token(r) IN
  /\ At(r, "finalize") /\ Answer(r, req[r].answer)
  /\ \/ /\ lock[t] = r /\ lock' = [lock EXCEPT ![t] = "none"]
        /\ CASE req[r].mode = "release" -> ReleaseEnrollment(t)
             [] req[r].mode = "consume" -> ConsumeEnrollment(t)
             [] req[r].mode = "abandon" -> AbandonEnrollment(t)
        /\ NoFault /\ UNCHANGED unsettled
     \/ lock[t] # r /\ NoFault /\ UNCHANGED <<chal, lock, work>> /\ unsettled' = unsettled \cup {t}
     \/ Fault /\ UNCHANGED <<chal, lock, work>> /\ unsettled' = unsettled \cup {t}
  /\ UNCHANGED <<factor, worker, sec, stranded>>

-----------------------------------------------------------------------------
(* Removal with a reauthentication grant *)

Remove(r) ==
  LET s == Slot(Token(r)) IN
  /\ At(r, "idle") /\ Op(r) = "remove"
  /\ \/ /\ factor' = Removed(s) /\ NoFault
        /\ Answer(r, IF factor[s] = Absent THEN "not_set" ELSE "ok")
     \/ factor' \in {factor, Removed(s)} /\ Answer(r, "unavailable") /\ Fault
  /\ UNCHANGED <<chal, lock, work, worker, sec, unsettled, stranded>>

-----------------------------------------------------------------------------
(* The cleanup worker *)

\* A live enrollment or a claim always wins.
Due_ChallengeOnly(t) == work[t] = "due" /\ chal[t] = 0
Due(t) == work[t] = "due" /\ chal[t] = 0 /\ lock[t] = "none"

\* A leased entry stays in the index, so that a crash leaves it to a later sweep.
Leased_Popped(t) == [work EXCEPT ![t] = "none"]
Leased(t) == [work EXCEPT ![t] = "leased"]

ClaimExpiredPasskeyEnrollments(w) ==
  /\ worker[w] = Idle
  /\ \E t \in Passkeys :
       /\ Due(t)
       /\ work' = Leased(t)
       /\ worker' = [worker EXCEPT ![w] = [at |-> "list", token |-> t]]
  /\ UNCHANGED <<factor, chal, lock, sec, req, unsettled, stranded, faults>>

\* requeue: the backoff is only a delay; if it fails too the lease runs out.
Requeue(w) ==
  /\ worker' = [worker EXCEPT ![w] = Idle]
  /\ LET t == worker[w].token
     IN  work' \in {work, [work EXCEPT ![t] = IF @ = "none" THEN @ ELSE "due"]}

\* The active-preservation guard: a key that has become active is kept.
Preserved_Never(t) == FALSE
Preserved(t) == factor[t].state = "active"

ListPasskeys(w) ==
  /\ worker[w].at = "list"
  /\ \/ /\ worker' = [worker EXCEPT ![w].at = IF Preserved(worker[w].token) THEN "complete"
                                              ELSE "remove"]
        /\ NoFault /\ UNCHANGED work
     \/ Requeue(w) /\ Fault
  /\ UNCHANGED <<factor, chal, lock, sec, req, unsettled, stranded>>

RemoveAbandoned(w) ==
  /\ worker[w].at = "remove"
  /\ \/ /\ factor' = Removed(worker[w].token)
        /\ worker' = [worker EXCEPT ![w].at = "complete"] /\ NoFault /\ UNCHANGED work
     \/ factor' \in {factor, Removed(worker[w].token)} /\ Requeue(w) /\ Fault
  /\ UNCHANGED <<chal, lock, sec, req, unsettled, stranded>>

CompletePasskeyEnrollmentCleanup(w) ==
  /\ worker[w].at = "complete"
  /\ \/ /\ work' = [work EXCEPT ![worker[w].token] = "none"]
        /\ worker' = [worker EXCEPT ![w] = Idle] /\ NoFault
     \/ Requeue(w) /\ Fault
  /\ UNCHANGED <<factor, chal, lock, sec, req, unsettled, stranded>>

WorkerStep(w) ==
  \/ ClaimExpiredPasskeyEnrollments(w) \/ ListPasskeys(w) \/ RemoveAbandoned(w)
  \/ CompletePasskeyEnrollmentCleanup(w)

CrashWorker(w) ==
  /\ worker[w] # Idle /\ worker' = [worker EXCEPT ![w] = Idle] /\ Fault
  /\ UNCHANGED <<factor, chal, lock, work, sec, req, unsettled, stranded>>

-----------------------------------------------------------------------------
(* Time, other flows and crashes *)

TokenExpires(t) ==
  /\ chal[t] # 0 /\ chal' = [chal EXCEPT ![t] = 0]
  /\ UNCHANGED <<factor, lock, work, worker, sec, req, unsettled, stranded, faults>>

\* The lock of a request that has ended lapses after a minute.  A passkey
\* request is bounded to less; a TOTP request has no timeout of its own.
LockExpires(t) ==
  /\ Held(t) /\ lock' = [lock EXCEPT ![t] = "none"]
  /\ \/ req[lock[t]].pc = "done" /\ NoFault /\ UNCHANGED unsettled
     \/ req[lock[t]].pc # "done" /\ Kind(t) = "totp" /\ Fault /\ unsettled' = unsettled \cup {t}
  /\ UNCHANGED <<factor, chal, work, worker, sec, req, stranded>>

CleanupLeaseExpires(t) ==
  /\ work[t] = "leased" /\ \A w \in Workers : worker[w].token # t
  /\ work' = [work EXCEPT ![t] = "due"]
  /\ UNCHANGED <<factor, chal, lock, worker, sec, req, unsettled, stranded, faults>>

\* A password change opens an intent, and confirms or abandons it.
SecurityChange ==
  /\ \/ ~sec.intent /\ sec.gen < MaxGen /\ sec' = [sec EXCEPT !.intent = TRUE]
     \/ sec.intent /\ sec' \in {[gen |-> sec.gen, intent |-> FALSE],
                                [gen |-> sec.gen + 1, intent |-> FALSE]}
  /\ UNCHANGED <<factor, chal, lock, work, worker, req, unsettled, stranded, faults>>

\* The process dies.  A begin leaves its registration without a token, a
\* claim that has reached the provider leaves its outcome unsettled.
CrashRequest(r) ==
  /\ req[r].pc \notin {"idle", "done"} /\ Answer(r, "internal") /\ Fault
  /\ stranded' = IF req[r].pc \in {"store", "compensate"} THEN stranded \cup {Slot(r)} ELSE stranded
  /\ unsettled' = IF Op(r) # "begin" THEN unsettled \cup {Token(r)} ELSE unsettled
  /\ UNCHANGED <<factor, chal, lock, work, worker, sec>>

-----------------------------------------------------------------------------
(* The handlers *)

BeginTOTPEnrollment(r) == Kind(r) = "totp" /\ (Register(r) \/ IssueEnrollment(r) \/ Compensate(r))
BeginPasskeyEnrollment(r) ==
  Kind(r) = "passkey" /\ (Register(r) \/ IssueEnrollment(r) \/ Compensate(r))
ConfirmTOTPEnrollment(r) == Kind(r) = "totp" /\ (Confirm(r) \/ RemovePendingTOTP(r))
ConfirmPasskeyEnrollment(r) == Kind(r) = "passkey" /\ Confirm(r)
CancelTOTPEnrollment(r) == Kind(r) = "totp" /\ Cancel(r)
CancelPasskeyEnrollment(r) == Kind(r) = "passkey" /\ Cancel(r)
RemoveTOTP(r) == Kind(r) = "totp" /\ Remove(r)
RemovePasskey(r) == Kind(r) = "passkey" /\ Remove(r)

Serve(r) ==
  \/ BeginTOTPEnrollment(r) \/ BeginPasskeyEnrollment(r) \/ ClaimEnrollmentData(r)
  \/ ConfirmTOTPEnrollment(r) \/ ConfirmPasskeyEnrollment(r)
  \/ CancelTOTPEnrollment(r) \/ CancelPasskeyEnrollment(r)
  \/ Finalize(r) \/ RemoveTOTP(r) \/ RemovePasskey(r)

Next ==
  \/ \E r \in Requests : Serve(r) \/ CrashRequest(r)
  \/ \E w \in Workers : WorkerStep(w) \/ CrashWorker(w)
  \/ \E t \in Tokens : TokenExpires(t) \/ LockExpires(t)
  \/ \E t \in Passkeys : CleanupLeaseExpires(t)
  \/ SecurityChange

Spec == Init /\ [][Next]_enrollVars

-----------------------------------------------------------------------------
(* Properties *)

\* Every pending passkey at the provider can still be settled: its begin is
\* under way, a confirm or cancel is, or its cleanup record exists.  Only a
\* begin that died between the two systems leaves one behind.
PendingCovered ==
  \A t \in Passkeys : factor[t].state = "pending" =>
    \/ At(t, "store") \/ At(t, "compensate")
    \/ work[t] # "none"
    \/ t \in stranded

\* The cleanup worker never removes a passkey that has become active.
WorkerSpares ==
  \A w \in Workers, t \in Passkeys :
    RemoveAbandoned(w) /\ worker[w].token = t /\ factor[t].state = "active" => factor'[t] = factor[t]

\* An active factor is deleted without a fresh reauthentication only by an
\* enrollment whose own settlement was lost, or, for a TOTP, by an enrollment
\* of an earlier registration.
ActiveKept ==
  \A s \in Slots : factor[s].state = "active" /\ factor'[s].state # "active" =>
    \/ \E r \in Requests : Op(r) = "remove" /\ Slot(Token(r)) = s /\ req[r].pc # req'[r].pc
    \/ factor[s].by \in unsettled
    \/ s = "totp" /\ \E t \in Tokens \ {factor[s].by} : Kind(t) = "totp" /\ factor'[s] = Absent
         /\ \E r \in Requests : Token(r) = t /\ req[r].pc # req'[r].pc

\* A passkey enrollment is in the hands of one actor: two requests never call
\* the provider for it at once, nor does the worker while a request does.
OneActor ==
  \A t \in Passkeys :
    LET calling == {r \in Requests : Op(r) # "begin" /\ Token(r) = t /\ At(r, "provider")}
    IN  /\ Cardinality(calling) <= 1
        /\ calling # {} => \A w \in Workers : worker[w].token # t

\* A token presented by a foreign session is burned for its owner too, unless
\* the burning itself was lost.
ForeignBurns ==
  \A r \in Requests : Op(r) # "begin" /\ Foreign(r) /\ req[r].answer = "denied" /\ At(r, "done") =>
    chal[Token(r)] = 0 \/ Token(r) \in unsettled

\* A passkey that is pending with a cleanup record, which should not stay so.
Pending(t) == factor[t].state = "pending"
Kept(t)    == Pending(t) /\ work[t] # "none"
=============================================================================
