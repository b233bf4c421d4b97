--------------------------- MODULE MutationLedger ---------------------------
(***************************************************************************)
(* The durable ledger of administrative mutations that United Pass sends   *)
(* to the DreamUp service.  A request records its intent, claims it and    *)
(* marks the delivery indeterminate in one transaction, sends the mutation *)
(* once, and settles the row afterwards.  What it cannot settle is left to *)
(* the reconciler, which never sends again: it reads DreamUp's receipt.    *)
(* Requests and reconcilers are fenced by a claim token with a lease.      *)
(***************************************************************************)
EXTENDS Naturals, FiniteSets

CONSTANTS
  Keys,        \* idempotency keys, one ledger row each
  Requests,    \* proxied mutations, each run once
  KeyOf,       \* the idempotency key of each request
  Reconcilers, \* receipt reconcilers, one per server instance
  Tokens,      \* one-shot reauthentication tokens
  MaxFaults    \* model bound: failures, lost commits, stalls, crashes

LedgerAssumption ==
  /\ KeyOf \in [Requests -> Keys]
  /\ Requests \cap Reconcilers = {} /\ "none" \notin Requests \cup Reconcilers \cup Tokens
  /\ MaxFaults \in Nat

VARIABLES
  row,       \* admin_operation_outbox
  old,       \* rows created longer ago than the reconciler's deadline
  upstream,  \* what became of the mutation at DreamUp
  reason,    \* protected_operation_reasons, which restricted identity reads need
  grants,    \* reauthentication tokens not yet consumed
  req,       \* what each request is doing
  pass,      \* what each reconciler is doing
  faults     \* failures so far

vars == <<row, old, upstream, reason, grants, req, pass, faults>>

-----------------------------------------------------------------------------
(* Types *)

Claimants == Requests \cup Reconcilers
Terminal  == {"succeeded", "failed", "needs_operator"}
Labels    == {"idle", "begin", "reason", "renew", "abort", "send", "await", "settle",
              "fail", "defer", "done", "crashed"}

\* holder stands for the claim token: every claim mints a new one.  renewed
\* is what the version adds to the token: it tells whether the claim has been
\* renewed, the only write after which a claim goes on.
Row == [state: {"absent", "pending", "claimed"} \cup Terminal,
        phase: {"not_sent", "indeterminate", "sent"},
        holder: Claimants \cup {"none"}, renewed: BOOLEAN, live: BOOLEAN, due: BOOLEAN,
        code: {"pending", "settled", "failed"}, status: {"none", "2xx", "4xx", "503"}]

TypeOK ==
  /\ row \in [Keys -> Row]
  /\ old \subseteq Keys
  /\ upstream \in [Keys -> {"untouched", "inflight", "applied", "refused", "lost"}]
  /\ reason \in [Keys -> {"unneeded", "absent", "terminal", "purged"}]
  /\ grants \subseteq Tokens
  /\ req \in [Requests -> [pc: Labels, token: Tokens \cup {"none"}, renewed: BOOLEAN,
                           sent: BOOLEAN,
                           answer: {"none", "ok", "rejected", "denied", "conflict", "unavailable"}]]
  /\ pass \in [Reconcilers -> [todo: SUBSET Keys, receipts: SUBSET Keys, late: SUBSET Keys,
                               key: Keys \cup {"none"},
                               verdict: {"none", "settle", "defer", "operator"}]]
  /\ faults \in 0 .. MaxFaults

NoRow  == [state |-> "absent", phase |-> "not_sent", holder |-> "none", renewed |-> FALSE,
           live |-> FALSE, due |-> FALSE, code |-> "pending", status |-> "none"]
NoPass == [todo |-> {}, receipts |-> {}, late |-> {}, key |-> "none", verdict |-> "none"]

Init ==
  /\ row = [k \in Keys |-> NoRow] /\ old = {}
  /\ upstream = [k \in Keys |-> "untouched"]
  /\ reason \in [Keys -> {"unneeded", "absent"}]
  /\ grants = Tokens
  /\ req = [r \in Requests |-> [pc |-> "idle", token |-> "none", renewed |-> FALSE,
                                sent |-> FALSE, answer |-> "none"]]
  /\ pass = [w \in Reconcilers |-> NoPass]
  /\ faults = 0

-----------------------------------------------------------------------------
(* Steps *)

At(r, label)    == req[r].pc = label
Goto(r, label)  == req' = [req EXCEPT ![r].pc = label]
Answer(r, a)    == req' = [req EXCEPT ![r].pc = "done", ![r].answer = a]
NoFault         == UNCHANGED faults
Fault           == faults < MaxFaults /\ faults' = faults + 1

\* A transaction on table: it commits, its guard refuses, it fails, or it
\* commits and the answer is lost.
Tx(guard, Write, table, Success, Failure) ==
  \/ guard /\ Write /\ Success /\ NoFault
  \/ ~guard /\ UNCHANGED table /\ Failure /\ NoFault
  \/ UNCHANGED table /\ Failure /\ Fault
  \/ guard /\ Write /\ Failure /\ Fault

-----------------------------------------------------------------------------
(* Store operations: the row they leave.  Each is conditional on the claim. *)

\* The fence of every write to a claimed row.
Holds(r, k) == /\ row[k].state = "claimed" /\ row[k].holder = r
               /\ row[k].renewed = req[r].renewed /\ row[k].live

\* A replay may go on only from a row that was never handed to a sender.
Sendable_AnyPhase(k) == row[k].state \in {"absent", "pending"}
Sendable(k) == row[k].state = "absent" \/ (row[k].state = "pending" /\ row[k].phase = "not_sent")

CreateOrReplay(x) == IF x.state = "absent" THEN [x EXCEPT !.state = "pending"] ELSE x
Claimed(x, who)   == [x EXCEPT !.state = "claimed", !.holder = who, !.live = TRUE, !.due = FALSE]
Marked(x, phase)  == [x EXCEPT !.phase = phase]
Renewed(x)        == [x EXCEPT !.renewed = TRUE, !.live = TRUE]

Released(x, state) == [NoRow EXCEPT !.state = state, !.phase = x.phase]

Settled_NoCode(x, status) == [Released(x, "succeeded") EXCEPT !.status = status]
Settled(x, status) == [Released(x, "succeeded") EXCEPT !.code = "settled", !.status = status]
Failed(x)          == [Released(x, "failed") EXCEPT !.code = "failed", !.status = "4xx"]
Aborted_PhaseKept(x) == [Released(x, "failed") EXCEPT !.code = "failed", !.status = "503"]
Aborted(x)         == [Released(Marked(x, "not_sent"), "failed") EXCEPT !.code = "failed",
                                                                       !.status = "503"]
Deferred(x)        == Released(x, "pending")
ForOperator_Unlisted(x) == Released(x, "abandoned")
ForOperator(x)     == Released(x, "needs_operator")

-----------------------------------------------------------------------------
(* A mutation *)

ByToken_Kept(r) ==
  /\ \E t \in grants : req' = [req EXCEPT ![r].pc = "begin", ![r].token = t]
  /\ UNCHANGED <<grants, faults>>

\* A one-shot token is consumed, also when the answer is lost; one that is
\* gone is never replaced by other proof.
ByToken(r) ==
  \/ \E t \in grants : /\ grants' = grants \ {t}
                       /\ \/ req' = [req EXCEPT ![r].pc = "begin", ![r].token = t] /\ NoFault
                          \/ Answer(r, "denied") /\ Fault
  \/ Tokens \ grants # {} /\ UNCHANGED grants /\ Answer(r, "denied") /\ NoFault

\* Otherwise the login session itself, in its current epoch, is the proof.
BySession(r) == Goto(r, "begin") /\ UNCHANGED <<grants, faults>>

Authorize(r) ==
  /\ At(r, "idle")
  /\ ByToken(r) \/ BySession(r)
  /\ UNCHANGED <<row, old, upstream, reason, pass>>

\* The row is created, claimed and marked in one transaction.
BeginMutation(r) ==
  LET k == KeyOf[r] IN
  /\ At(r, "begin")
  /\ Tx(Sendable(k),
        row' = [row EXCEPT ![k] = Marked(Claimed(CreateOrReplay(@), r), "indeterminate")], row,
        Goto(r, IF reason[k] = "unneeded" THEN "send" ELSE "reason"),
        Answer(r, IF Sendable(k) THEN "unavailable" ELSE "conflict"))
  /\ UNCHANGED <<old, upstream, reason, grants, pass>>

\* A purged reason cannot be verified.
Verifiable(k)  == reason[k] # "purged"
StoreReason(k) == reason' = [reason EXCEPT ![k] = "terminal"]

PersistReviewIdentityReason_BestEffort(r) ==
  LET k == KeyOf[r] IN
  /\ At(r, "reason")
  /\ Tx(Verifiable(k), StoreReason(k), reason, Goto(r, "renew"), Goto(r, "renew"))
  /\ UNCHANGED <<row, old, upstream, grants, pass>>

\* The reason of a restricted read, created and made terminal in one
\* transaction of the authority database.
PersistReviewIdentityReason(r) ==
  LET k == KeyOf[r] IN
  /\ At(r, "reason")
  /\ Tx(Verifiable(k), StoreReason(k), reason, Goto(r, "renew"), Goto(r, "abort"))
  /\ UNCHANGED <<row, old, upstream, grants, pass>>

\* Storing the reason took time: the claim is fenced again before it is used.
RenewClaim(r) ==
  LET k == KeyOf[r] IN
  /\ At(r, "renew")
  /\ Tx(Holds(r, k) /\ row[k].phase = "indeterminate", row' = [row EXCEPT ![k] = Renewed(@)],
        row, req' = [req EXCEPT ![r].pc = "send", ![r].renewed = TRUE], Goto(r, "abort"))
  /\ UNCHANGED <<old, upstream, reason, grants, pass>>

\* The caller proves that nothing was sent.
AbortBeforeSend(r) ==
  LET k == KeyOf[r] IN
  /\ At(r, "abort")
  /\ Tx(Holds(r, k) /\ row[k].phase = "indeterminate", row' = [row EXCEPT ![k] = Aborted(@)],
        row, Answer(r, "unavailable"), Answer(r, "unavailable"))
  /\ UNCHANGED <<old, upstream, reason, grants, pass>>

\* The one HTTP request; nothing in the client repeats it.
Execute(r) ==
  LET k == KeyOf[r] IN
  /\ At(r, "send")
  /\ req' = [req EXCEPT ![r].pc = "await", ![r].sent = TRUE]
  /\ upstream' = [upstream EXCEPT ![k] = IF @ = "untouched" THEN "inflight" ELSE @]
  /\ UNCHANGED <<row, old, reason, grants, pass, faults>>

\* DreamUp performs the request, rejects it, or it never gets there.
Upstream(k) ==
  /\ upstream[k] = "inflight"
  /\ \E o \in {"applied", "refused", "lost"} : upstream' = [upstream EXCEPT ![k] = o]
  /\ UNCHANGED <<row, old, reason, grants, req, pass, faults>>

\* Only an error of the 4xx family tells that nothing was done; time-outs,
\* rate limits, server errors and unreadable answers do not.
Deterministic_Timeouts(k) == upstream[k] # "applied"
Deterministic(k) == upstream[k] = "refused"

Respond(r) ==
  LET k == KeyOf[r] IN
  /\ At(r, "await")
  /\ \/ upstream[k] = "applied" /\ Goto(r, "settle")
     \/ Deterministic(k) /\ Goto(r, "fail")
     \/ Goto(r, "defer")
  /\ UNCHANGED <<row, old, upstream, reason, grants, pass, faults>>

SettleMutation_ErrorIgnored(r) ==
  LET k == KeyOf[r] IN
  /\ At(r, "settle")
  /\ Tx(Holds(r, k) /\ row[k].phase = "indeterminate",
        row' = [row EXCEPT ![k] = Settled(Marked(@, "sent"), "2xx")], row,
        Answer(r, "ok"), Answer(r, "ok"))
  /\ UNCHANGED <<old, upstream, reason, grants, pass>>

\* The marks "sent" and "succeeded" in one transaction.
SettleMutation(r) ==
  LET k == KeyOf[r] IN
  /\ At(r, "settle")
  /\ Tx(Holds(r, k) /\ row[k].phase = "indeterminate",
        row' = [row EXCEPT ![k] = Settled(Marked(@, "sent"), "2xx")], row,
        Answer(r, "ok"), Answer(r, "unavailable"))
  /\ UNCHANGED <<old, upstream, reason, grants, pass>>

FailMutation(r) ==
  LET k == KeyOf[r] IN
  /\ At(r, "fail")
  /\ Tx(Holds(r, k) /\ row[k].phase = "indeterminate",
        row' = [row EXCEPT ![k] = Failed(Marked(@, "sent"))], row,
        Answer(r, "rejected"), Answer(r, "unavailable"))
  /\ UNCHANGED <<old, upstream, reason, grants, pass>>

\* The error of this write is ignored.
DeferReceipt(r) ==
  LET k == KeyOf[r] IN
  /\ At(r, "defer")
  /\ Tx(Holds(r, k) /\ row[k].phase \in {"indeterminate", "sent"},
        row' = [row EXCEPT ![k] = Deferred(@)], row,
        Answer(r, "unavailable"), Answer(r, "unavailable"))
  /\ UNCHANGED <<old, upstream, reason, grants, pass>>

Proxy(r) ==
  \/ Authorize(r) \/ BeginMutation(r) \/ PersistReviewIdentityReason(r) \/ RenewClaim(r)
  \/ AbortBeforeSend(r) \/ Execute(r) \/ Respond(r) \/ SettleMutation(r) \/ FailMutation(r)
  \/ DeferReceipt(r)

CrashRequest(r) ==
  /\ req[r].pc \notin {"idle", "done", "crashed"}
  /\ Goto(r, "crashed") /\ Fault
  /\ UNCHANGED <<row, old, upstream, reason, grants, pass>>

-----------------------------------------------------------------------------
(* The reconciler *)

Expired_Sent(k) == row[k].state = "claimed" /\ ~row[k].live /\ row[k].phase = "sent"
Expired(k) == row[k].state = "claimed" /\ ~row[k].live

\* Every expired claim is due at once, whoever held it.
Reclaimed == [k \in Keys |-> IF Expired(k) THEN [Deferred(row[k]) EXCEPT !.due = TRUE] ELSE row[k]]

ReceiptsDue == {k \in Keys : /\ Reclaimed[k].state = "pending" /\ Reclaimed[k].due = TRUE
                             /\ Reclaimed[k].phase \in {"indeterminate", "sent"}}

\* One transaction reclaims and claims.  The pass keeps its time: the age of
\* the rows and of their receipts is judged by it until the pass ends.
ClaimReceiptsDue(w) ==
  /\ pass[w] = NoPass /\ ReceiptsDue # {}
  /\ Tx(TRUE, row' = [k \in Keys |-> IF k \in ReceiptsDue THEN Claimed(Reclaimed[k], w)
                                     ELSE Reclaimed[k]], row,
        pass' = [pass EXCEPT ![w] = [NoPass EXCEPT !.todo = ReceiptsDue, !.late = old,
                                       !.receipts = {k \in Keys : upstream[k] = "applied"}]],
        UNCHANGED pass)
  /\ UNCHANGED <<old, upstream, reason, grants, req>>

\* A receipt of another operation, or one that is younger than the pass and
\* may seem to come from the future, is not accepted.
ReceiptMatches_Any(receipt) == TRUE
ReceiptMatches(receipt) == receipt = "own"
Verdicts(w, k, receipt) ==
  IF receipt = "none" THEN {IF k \in pass[w].late THEN "operator" ELSE "defer"}
  ELSE IF ~ReceiptMatches(receipt) THEN {"operator"}
  ELSE {"settle"} \cup (IF k \in pass[w].receipts THEN {} ELSE {"operator"})

\* DreamUp has no receipt, or the read fails; it has one; or it answers with
\* something else.
ReadReceipt(w) ==
  /\ pass[w].verdict = "none"
  /\ \E k \in pass[w].todo, receipt \in {"none", "own", "foreign"} :
       /\ receipt = "own" => upstream[k] = "applied"
       /\ IF receipt = "foreign" THEN Fault ELSE NoFault
       /\ \E v \in Verdicts(w, k, receipt) :
            pass' = [pass EXCEPT ![w].key = k, ![w].verdict = v]
  /\ UNCHANGED <<row, old, upstream, reason, grants, req>>

\* The fence of the pass: its clock cannot see its own lease end, so the
\* token alone tells whether another instance has claimed the row since.
PassHolds_Unfenced(w, k) == row[k].state # "absent"
PassHolds(w, k) == row[k].state = "claimed" /\ row[k].holder = w

NextItem(w) ==
  LET left == pass[w].todo \ {pass[w].key} IN
  pass' = [pass EXCEPT ![w] = IF left = {} THEN NoPass
                              ELSE [@ EXCEPT !.todo = left, !.key = "none", !.verdict = "none"]]

Concluded(x, verdict) ==
  CASE verdict = "settle"   -> Settled(Marked(x, "sent"), "none")
    [] verdict = "defer"    -> Deferred(x)
    [] verdict = "operator" -> ForOperator(x)

ReconcileOne(w) ==
  /\ pass[w].verdict # "none"
  /\ LET k == pass[w].key IN
     Tx(PassHolds(w, k), row' = [row EXCEPT ![k] = Concluded(@, pass[w].verdict)], row,
        NextItem(w), NextItem(w))
  /\ UNCHANGED <<old, upstream, reason, grants, req>>

RunOnce(w) == ClaimReceiptsDue(w) \/ ReadReceipt(w) \/ ReconcileOne(w)

CrashPass(w) ==
  /\ pass[w] # NoPass
  /\ pass' = [pass EXCEPT ![w] = NoPass] /\ Fault
  /\ UNCHANGED <<row, old, upstream, reason, grants, req>>

-----------------------------------------------------------------------------
(* Time *)

\* A request may outlive its lease; a pass that does so counts as a failure,
\* since two instances that always did would take the row from each other.
LeaseEnds(k) ==
  /\ row[k].state = "claimed" /\ row[k].live
  /\ row' = [row EXCEPT ![k].live = FALSE]
  /\ IF \E w \in Reconcilers : row[k].holder = w /\ k \in pass[w].todo THEN Fault ELSE NoFault
  /\ UNCHANGED <<old, upstream, reason, grants, req, pass>>

BecomesDue(k) ==
  /\ row[k].state = "pending" /\ ~row[k].due
  /\ row' = [row EXCEPT ![k].due = TRUE]
  /\ UNCHANGED <<old, upstream, reason, grants, req, pass, faults>>

GrowOld(k) ==
  /\ row[k].state # "absent" /\ k \notin old
  /\ old' = old \cup {k}
  /\ UNCHANGED <<row, upstream, reason, grants, req, pass, faults>>

\* The cleanup worker erases a reason two years after it became terminal,
\* when no request that stored it is still running.
PurgeExpired(k) ==
  /\ reason[k] = "terminal"
  /\ \A r \in Requests : KeyOf[r] = k => req[r].pc \in {"idle", "begin", "done", "crashed"}
  /\ reason' = [reason EXCEPT ![k] = "purged"]
  /\ UNCHANGED <<row, old, upstream, grants, req, pass, faults>>

Next ==
  \/ \E r \in Requests : Proxy(r) \/ CrashRequest(r)
  \/ \E w \in Reconcilers : RunOnce(w) \/ CrashPass(w)
  \/ \E k \in Keys : Upstream(k) \/ LeaseEnds(k) \/ BecomesDue(k) \/ GrowOld(k) \/ PurgeExpired(k)

Spec == Init /\ [][Next]_vars

-----------------------------------------------------------------------------
(* Properties *)

Ended(k) == row[k].state \in Terminal

\* What the ledger says of an ended operation is what DreamUp did, and stays
\* so: no failed operation is on its way.
LedgerHonest ==
  \A k \in Keys : /\ row[k].state = "succeeded" => upstream[k] = "applied"
                  /\ row[k].state = "failed" => upstream[k] \notin {"inflight", "applied"}

\* A retry, a second instance or a reconciler never sends a mutation again.
SentOnce == \A r, s \in Requests : req[r].sent /\ req[s].sent /\ KeyOf[r] = KeyOf[s] => r = s

\* A definite answer to the caller is the one the ledger keeps.
AnswerAgrees ==
  \A r \in Requests : /\ req[r].answer = "ok" => row[KeyOf[r]].state = "succeeded"
                      /\ req[r].answer = "rejected" => row[KeyOf[r]].state = "failed"

\* No restricted read reaches DreamUp before its reason is stored.
ReasonFirst ==
  \A r \in Requests : req[r].sent => reason[KeyOf[r]] # "absent"

\* A one-shot token authorises one mutation.
TokenOnce ==
  \A r, s \in Requests : req[r].token = req[s].token /\ req[r].token # "none" => r = s

\* mutationStatusFromItem refuses a row whose columns contradict each other:
\* no interleaving of the writers leaves such a row.
StatusReadable(k) ==
  CASE row[k].state \in {"pending", "claimed"} -> row[k].code = "pending" /\ row[k].status = "none"
    [] row[k].state = "succeeded" -> row[k].code = "settled" /\ row[k].phase = "sent"
    [] row[k].state = "failed" ->
         /\ row[k].code = "failed"
         /\ <<row[k].phase, row[k].status>> \in {<<"sent", "4xx">>, <<"not_sent", "503">>}
    [] row[k].state = "needs_operator" ->
         /\ row[k].code = "pending" /\ row[k].status = "none"
         /\ row[k].phase \in {"indeterminate", "sent"}
    [] OTHER -> TRUE
StatusAnswers == \A k \in Keys : StatusReadable(k)

\* An ended operation never opens again, whoever still holds an old claim.
EndsKept == \A k \in Keys : Ended(k) => row'[k] = row[k]

=============================================================================
