------------------------------ MODULE Privacy ------------------------------
(***************************************************************************)
(* The rights of a person over the own data, and the workers that serve    *)
(* them: the export of personal data (and of the audit log, which works    *)
(* the same way), and the deletion of the account, which rests for a       *)
(* cooling time in which it can be cancelled, then removes the account at  *)
(* the provider, ends its sessions and at last makes the local rows        *)
(* anonymous.  Rows are claimed by age: a worker that is slow, or waits    *)
(* behind others of its batch, may find its row in other hands.            *)
(***************************************************************************)
EXTENDS Naturals, FiniteSets

CONSTANTS
  Users,        \* accounts
  Exports,      \* identifiers of exports
  KindOf,       \* of an export: "personal" or "audit"
  OwnerOf,      \* of an export: who asks for it
  Workers,      \* workers of the privacy service, one per instance
  Auditors,     \* workers of the audit service
  Budgets,      \* what is asked for in a behaviour: exports, and deletions per account
  MaxAttempts,  \* attempts after which a deletion fails (10 in the code)
  MaxFaults     \* store errors, provider errors and crashes to explore

PrivacyAssumption ==
  /\ KindOf \in [Exports -> {"personal", "audit"}]
  /\ OwnerOf \in [Exports -> Users]
  /\ Workers \cap Auditors = {}
  /\ \A b \in Budgets : b.exports \subseteq Exports /\ b.deletions \in Nat
  /\ MaxAttempts \in Nat \ {0} /\ MaxFaults \in Nat

VARIABLES
  deletion,   \* account_deletion_requests: one row for an account
  account,    \* of an account: does the provider have it?
  person,     \* of an account: "active", or "anonymous" and disabled
  session,    \* of an account: "none", "early", or "late": made after the provider's removal
  signing,    \* accounts of sign-ins that the provider accepted and that have no session yet
  export,     \* personal_data_export_jobs and audit_export_jobs
  told,       \* exports whose owner was given a link
  overrun,    \* exports claimed again while another worker held them
  exhausted,  \* accounts of which a deletion failed for good
  worker,     \* of a worker: where it is, what it claimed, what it works on
  budget,     \* what is asked for in this behaviour
  faults      \* faults so far

privacyVars == <<deletion, account, person, session, signing, export, told, overrun, exhausted,
                 worker, budget, faults>>

NoDeletion == [id |-> 0, status |-> "none", due |-> FALSE, attempts |-> 0, aged |-> FALSE]
NoExport   == [status |-> "none", content |-> "none", aged |-> FALSE, expired |-> FALSE]
NoJob      == [key |-> "none", id |-> 0, status |-> "none", doc |-> "none"]

Everybody == Workers \cup Auditors

\* The exports a worker serves: those of its own service.
Serves(w, e) == KindOf[e] = IF w \in Workers THEN "personal" ELSE "audit"

At(w, l) == worker[w].pc = l

Goto(w, l)  == worker' = [worker EXCEPT ![w].pc = l]

\* A job is done: on to the next one of the batch, then to l.
NextJob(w, batch, l) ==
  worker' = [worker EXCEPT ![w].pc = IF worker[w].todo = {} THEN l ELSE batch, ![w].job = NoJob]

\* What follows the exports in the round of a worker.
AfterExports(w) == IF w \in Workers THEN "due" ELSE "idle"

\* A call fails: a store error or a timeout.
Fault == faults < MaxFaults /\ faults' = faults + 1

DataVars == <<account, person, session, signing>>

\* What the workers still owe: a deletion that was asked for, an export.
Owed(u)     == deletion[u].status \in {"pending", "processing", "provider_deleted"}
Building(e) == export[e].status \in {"pending", "processing"}

-----------------------------------------------------------------------------
(* What a person asks for *)

Queued(e) ==
  /\ e \in budget.exports /\ export[e] = NoExport
  /\ export' = [export EXCEPT ![e] = [NoExport EXCEPT !.status = "pending"]]
  /\ budget' = [budget EXCEPT !.exports = @ \ {e}]
  /\ UNCHANGED <<deletion, told, overrun, exhausted, worker, faults>> /\ UNCHANGED DataVars

\* A person has one export of the personal data under way.
BeginExport(e) ==
  /\ KindOf[e] = "personal"
  /\ \A f \in Exports : OwnerOf[f] = OwnerOf[e] /\ KindOf[f] = "personal" => ~Building(f)
  /\ Queued(e)

\* Of the audit log an administrator may ask for several.
CreateExport(e) == KindOf[e] = "audit" /\ Queued(e)

Downloadable(e) == export[e].status = "completed" /\ ~export[e].expired

\* The status of an export, with a link while it can be downloaded.
GetExport(e) ==
  /\ Downloadable(e) /\ e \notin told
  /\ told' = told \cup {e}
  /\ UNCHANGED <<deletion, export, overrun, exhausted, worker, budget, faults>>
  /\ UNCHANGED DataVars

Download(e) == Downloadable(e) /\ export[e].content # "none"

\* The request of a deletion; a row that was cancelled or failed is used again
\* under a new identifier.
RequestDeletion(u) ==
  /\ deletion[u].id < budget.deletions
  /\ person[u] = "active"
  /\ deletion[u].status \in {"none", "cancelled", "failed"}
  /\ deletion' = [deletion EXCEPT ![u] =
                    [NoDeletion EXCEPT !.id = deletion[u].id + 1, !.status = "pending"]]
  /\ UNCHANGED <<export, told, overrun, exhausted, worker, budget, faults>> /\ UNCHANGED DataVars

CancelDeletion_Late(u) ==
  /\ deletion[u].status = "pending"
  /\ deletion' = [deletion EXCEPT ![u].status = "cancelled"]
  /\ UNCHANGED <<export, told, overrun, exhausted, worker, budget, faults>> /\ UNCHANGED DataVars

\* A deletion is cancelled while it rests, not after.
CancelDeletion(u) ==
  /\ deletion[u].status = "pending" /\ ~deletion[u].due
  /\ deletion' = [deletion EXCEPT ![u].status = "cancelled"]
  /\ UNCHANGED <<export, told, overrun, exhausted, worker, budget, faults>> /\ UNCHANGED DataVars

\* A sign-in: the provider accepts it, later the session is written for an
\* active account.
SignIn(u) ==
  /\ \/ /\ u \notin signing /\ account[u] /\ session[u] = "none"
        /\ signing' = signing \cup {u} /\ UNCHANGED session
     \/ /\ u \in signing /\ person[u] = "active"
        /\ signing' = signing \ {u}
        /\ session' = [session EXCEPT ![u] = IF account[u] THEN "early" ELSE "late"]
  /\ UNCHANGED <<deletion, account, person, export, told, overrun, exhausted, worker, budget,
                 faults>>

-----------------------------------------------------------------------------
(* Exports *)

\* Metadata older than 30 days goes, and so does what has expired.
Purged(w, e) ==
  IF ~Serves(w, e) THEN export[e]
  ELSE IF KindOf[e] = "personal" /\ export[e].status \in {"completed", "failed"} /\ export[e].aged
       THEN NoExport
  ELSE IF export[e].status = "completed" /\ export[e].expired
       THEN [export[e] EXCEPT !.content = "none", !.aged = FALSE]
  ELSE export[e]

Claimable(w, e) ==
  /\ Serves(w, e)
  /\ \/ export[e].status = "pending"
     \/ export[e].status = "processing" /\ export[e].aged

\* Does a worker hold the row, claimed or at work?
Holds(w, k) == \E j \in worker[w].todo \cup {worker[w].job} : j.key = k

ClaimExports(w) ==
  /\ At(w, "idle")
  /\ LET jobs == {e \in Exports : Claimable(w, e)}
     IN  /\ export' = [e \in Exports |-> IF e \in jobs
                         THEN [export[e] EXCEPT !.status = "processing", !.aged = FALSE]
                         ELSE Purged(w, e)]
         /\ worker' = [worker EXCEPT ![w] =
              [pc |-> IF jobs = {} THEN AfterExports(w) ELSE "exports",
               todo |-> {[NoJob EXCEPT !.key = e] : e \in jobs}, job |-> NoJob]]
         /\ overrun' = overrun \cup {e \in jobs : \E v \in Everybody \ {w} : Holds(v, e)}
         /\ told' = {e \in told : export'[e] # NoExport}
  /\ UNCHANGED <<deletion, exhausted, budget, faults>> /\ UNCHANGED DataVars

\* The reads of a document, one after the other; the first one decides whether
\* it holds what is personal.
BuildExportDocument(u) == IF person[u] = "active" THEN "personal" ELSE "anonymous"

ListForExport == "events"

BuildDocument(w) ==
  /\ At(w, "exports")
  /\ \E j \in worker[w].todo :
       LET e == j.key
           doc == IF KindOf[e] = "audit" THEN ListForExport ELSE BuildExportDocument(OwnerOf[e])
       IN  \/ /\ worker' = [worker EXCEPT ![w] =
                    [pc |-> "built", todo |-> @.todo \ {j}, job |-> [j EXCEPT !.doc = doc]]]
              /\ UNCHANGED faults
           \/ /\ Fault
              /\ worker' = [worker EXCEPT ![w] =
                    [pc |-> "unbuilt", todo |-> @.todo \ {j}, job |-> j]]
  /\ UNCHANGED <<deletion, export, told, overrun, exhausted, budget>> /\ UNCHANGED DataVars

Stored(w) ==
  LET e == worker[w].job.key
  IN  /\ export[e].status = "processing"
      /\ export' = [export EXCEPT ![e] =
           [NoExport EXCEPT !.status = "completed", !.content = worker[w].job.doc]]

CompleteExport_FailOnError(w) ==
  /\ At(w, "built")
  /\ \/ Stored(w) /\ UNCHANGED faults /\ NextJob(w, "exports", AfterExports(w))
     \/ (Stored(w) \/ UNCHANGED export) /\ Fault /\ Goto(w, "unbuilt")
  /\ UNCHANGED <<deletion, told, overrun, exhausted, budget>> /\ UNCHANGED DataVars

\* The document is stored if the row is still being processed; after an error
\* the row is left as it is, to be claimed again unless it was stored after all.
CompleteExport(w) ==
  /\ At(w, "built")
  /\ \/ Stored(w) /\ UNCHANGED faults
     \/ export[worker[w].job.key].status # "processing" /\ UNCHANGED <<export, faults>>
     \/ (Stored(w) \/ UNCHANGED export) /\ Fault
  /\ NextJob(w, "exports", AfterExports(w))
  /\ UNCHANGED <<deletion, told, overrun, exhausted, budget>> /\ UNCHANGED DataVars

\* The failure of a document is written whatever the row has become since.
FailExport(w) ==
  /\ At(w, "unbuilt")
  /\ LET e == worker[w].job.key
     IN  \/ /\ export' = [export EXCEPT ![e] = IF @ = NoExport THEN @
                            ELSE [@ EXCEPT !.status = "failed", !.aged = FALSE]]
            /\ UNCHANGED faults
         \/ Fault /\ UNCHANGED export
  /\ NextJob(w, "exports", AfterExports(w))
  /\ UNCHANGED <<deletion, told, overrun, exhausted, budget>> /\ UNCHANGED DataVars

-----------------------------------------------------------------------------
(* Deletions *)

\* What is due: what rests no longer, and waited a minute after a failure;
\* what was taken five minutes ago; what the provider has removed.
DueNow(u) ==
  \/ /\ deletion[u].status = "pending" /\ deletion[u].due
     /\ deletion[u].attempts = 0 \/ deletion[u].aged
  \/ deletion[u].status \in {"processing", "provider_deleted"} /\ deletion[u].aged

\* The attempts are counted up to their limit.
OneMore(n) == IF n < MaxAttempts THEN n + 1 ELSE n

ClaimDeletions(w) ==
  /\ At(w, "due")
  /\ LET jobs == {u \in Users : DueNow(u)}
     IN  /\ deletion' = [u \in Users |->
              IF u \in jobs /\ deletion[u].status # "provider_deleted"
              THEN [deletion[u] EXCEPT
                      !.status = "processing", !.attempts = OneMore(@), !.aged = FALSE]
              ELSE deletion[u]]
         /\ worker' = [worker EXCEPT ![w] =
              [pc |-> IF jobs = {} THEN "idle" ELSE "deletions",
               todo |-> {[NoJob EXCEPT !.key = u, !.id = deletion[u].id,
                                       !.status = deletion'[u].status] : u \in jobs},
               job |-> NoJob]]
  /\ UNCHANGED <<export, told, overrun, exhausted, budget, faults>> /\ UNCHANGED DataVars

\* The next job: at the provider first, unless it has removed the account.
runDeletion(w) ==
  /\ At(w, "deletions")
  /\ \E j \in worker[w].todo :
       worker' = [worker EXCEPT ![w] =
         [pc |-> IF j.status = "provider_deleted" THEN "marked" ELSE "claimed",
          todo |-> @.todo \ {j}, job |-> j]]
  /\ UNCHANGED <<deletion, export, told, overrun, exhausted, budget, faults>> /\ UNCHANGED DataVars

\* The account is removed at the provider, which may have forgotten it already;
\* an error may hide a removal.
DeleteProviderUser(w) ==
  /\ At(w, "claimed")
  /\ LET u == worker[w].job.key
     IN  \/ /\ account' = [account EXCEPT ![u] = FALSE]
            /\ Goto(w, "removed") /\ UNCHANGED faults
         \/ /\ Fault
            /\ account' \in {account, [account EXCEPT ![u] = FALSE]}
            /\ Goto(w, "failing")
  /\ UNCHANGED <<deletion, person, session, signing, export, told, overrun, exhausted, budget>>

\* The row of the job, if it is still the same request in one of these states.
Row(w, statuses) == LET j == worker[w].job
                    IN  deletion[j.key].id = j.id /\ deletion[j.key].status \in statuses

\* The removal is recorded; if it cannot be, the row waits to be claimed again.
MarkProviderDeleted(w) ==
  /\ At(w, "removed")
  /\ LET u == worker[w].job.key
     IN  \/ /\ Row(w, {"processing", "provider_deleted"})
            /\ deletion' = [deletion EXCEPT ![u].status = "provider_deleted", ![u].aged = FALSE]
            /\ Goto(w, "marked") /\ UNCHANGED faults
         \/ /\ ~Row(w, {"processing", "provider_deleted"})
            /\ NextJob(w, "deletions", "idle") /\ UNCHANGED <<deletion, faults>>
         \/ Fault /\ NextJob(w, "deletions", "idle") /\ UNCHANGED deletion
  /\ UNCHANGED <<export, told, overrun, exhausted, budget>> /\ UNCHANGED DataVars

RevokeAllUserSessions_BestEffort(w) ==
  /\ At(w, "marked")
  /\ LET u == worker[w].job.key
     IN  \/ session' = [session EXCEPT ![u] = "none"] /\ UNCHANGED faults
         \/ Fault /\ UNCHANGED session
  /\ Goto(w, "purged")
  /\ UNCHANGED <<deletion, account, person, signing, export, told, overrun, exhausted, budget>>

\* All sessions are ended, also those left from an attempt that went this far.
RevokeAllUserSessions(w) ==
  /\ At(w, "marked")
  /\ LET u == worker[w].job.key
     IN  \/ /\ session' = [session EXCEPT ![u] = "none"]
            /\ Goto(w, "purged") /\ UNCHANGED faults
         \/ Fault /\ Goto(w, "failing") /\ UNCHANGED session
  /\ UNCHANGED <<deletion, account, person, signing, export, told, overrun, exhausted, budget>>

Completed_KeepExports(u) ==
  /\ deletion' = [deletion EXCEPT ![u].status = "completed"]
  /\ person' = [person EXCEPT ![u] = "anonymous"]
  /\ UNCHANGED <<export, told>>

\* The transaction that ends a deletion: links, grants, exports and profile go,
\* the account is disabled and anonymous.
Completed(u) ==
  /\ deletion' = [deletion EXCEPT ![u].status = "completed"]
  /\ person' = [person EXCEPT ![u] = "anonymous"]
  /\ export' = [e \in Exports |->
                  IF OwnerOf[e] = u /\ KindOf[e] = "personal" THEN NoExport ELSE export[e]]
  /\ told' = {e \in told : export'[e] # NoExport}

CompleteDeletion(w) ==
  /\ At(w, "purged")
  /\ LET u == worker[w].job.key
     IN  \/ /\ Row(w, {"provider_deleted"}) /\ Completed(u)
            /\ \/ NextJob(w, "deletions", "idle") /\ UNCHANGED faults
               \/ Goto(w, "failing") /\ Fault   \* the answer of the commit is lost
         \/ /\ ~Row(w, {"provider_deleted"}) /\ Goto(w, "failing")
            /\ UNCHANGED <<deletion, person, export, told, faults>>
         \/ Goto(w, "failing") /\ Fault /\ UNCHANGED <<deletion, person, export, told>>
  /\ UNCHANGED <<account, session, signing, overrun, exhausted, budget>>

FailDeletionAttempt_AnyStatus(w) ==
  /\ At(w, "failing")
  /\ LET u == worker[w].job.key
     IN  /\ deletion[u].id = worker[w].job.id
         /\ deletion' = [deletion EXCEPT ![u].status =
              CASE @ # "processing" -> "provider_deleted"
                [] @ = "processing" /\ deletion[u].attempts < MaxAttempts -> "pending"
                [] OTHER -> "failed", ![u].aged = FALSE]
  /\ UNCHANGED <<exhausted, faults>> /\ NextJob(w, "deletions", "idle")
  /\ UNCHANGED <<export, told, overrun, budget>> /\ UNCHANGED DataVars

\* A failed attempt is tried again, from the start or from the removal at the
\* provider on; the last one ends the request.
FailDeletionAttempt(w) ==
  /\ At(w, "failing")
  /\ LET u == worker[w].job.key
         last == deletion[u].status = "processing" /\ deletion[u].attempts >= MaxAttempts
     IN  \/ /\ Row(w, {"processing", "provider_deleted"})
            /\ deletion' = [deletion EXCEPT
                 ![u].status = IF last THEN "failed"
                               ELSE IF @ = "processing" THEN "pending" ELSE "provider_deleted",
                 ![u].aged = FALSE]
            /\ exhausted' = IF last THEN exhausted \cup {u} ELSE exhausted
            /\ UNCHANGED faults
         \/ ~Row(w, {"processing", "provider_deleted"}) /\ UNCHANGED <<deletion, exhausted, faults>>
         \/ Fault /\ UNCHANGED <<deletion, exhausted>>
  /\ NextJob(w, "deletions", "idle")
  /\ UNCHANGED <<export, told, overrun, budget>> /\ UNCHANGED DataVars

-----------------------------------------------------------------------------
(* Time and crashes *)

CoolingEnds(u) ==
  /\ deletion[u].status \in {"pending", "cancelled"} /\ ~deletion[u].due
  /\ deletion' = [deletion EXCEPT ![u].due = TRUE]
  /\ UNCHANGED <<export, told, overrun, exhausted, worker, budget, faults>> /\ UNCHANGED DataVars

DeletionAges(u) ==
  /\ deletion[u].status \in {"pending", "processing", "provider_deleted"} /\ ~deletion[u].aged
  /\ deletion[u].status = "pending" => deletion[u].attempts > 0
  /\ deletion' = [deletion EXCEPT ![u].aged = TRUE]
  /\ UNCHANGED <<export, told, overrun, exhausted, worker, budget, faults>> /\ UNCHANGED DataVars

ExportAges(e) ==
  /\ export[e].status \in {"processing", "completed", "failed"} /\ ~export[e].aged
  /\ export[e].status = "completed" => export[e].expired
  /\ export' = [export EXCEPT ![e].aged = TRUE]
  /\ UNCHANGED <<deletion, told, overrun, exhausted, worker, budget, faults>> /\ UNCHANGED DataVars

ExportExpires(e) ==
  /\ export[e].status = "completed" /\ ~export[e].expired
  /\ export' = [export EXCEPT ![e].expired = TRUE]
  /\ UNCHANGED <<deletion, told, overrun, exhausted, worker, budget, faults>> /\ UNCHANGED DataVars

Crash(w) ==
  /\ ~At(w, "idle") /\ Fault
  /\ worker' = [worker EXCEPT ![w] = [pc |-> "idle", todo |-> {}, job |-> NoJob]]
  /\ UNCHANGED <<deletion, export, told, overrun, exhausted, budget>> /\ UNCHANGED DataVars

-----------------------------------------------------------------------------

Init ==
  /\ deletion = [u \in Users |-> NoDeletion]
  /\ account = [u \in Users |-> TRUE]
  /\ person = [u \in Users |-> "active"]
  /\ session = [u \in Users |-> "early"]
  /\ signing = {}
  /\ export = [e \in Exports |-> NoExport]
  /\ told = {} /\ overrun = {} /\ exhausted = {}
  /\ worker = [w \in Everybody |-> [pc |-> "idle", todo |-> {}, job |-> NoJob]]
  /\ budget \in Budgets
  /\ faults = 0

ExportRequests(e) == BeginExport(e) \/ GetExport(e)

DeletionRequests(u) == RequestDeletion(u) \/ CancelDeletion(u)

\* The exports in the round of a worker, and the deletions of the privacy worker.
RunExports(w) == ClaimExports(w) \/ BuildDocument(w) \/ CompleteExport(w) \/ FailExport(w)

RunDeletions(w) ==
  \/ ClaimDeletions(w) \/ runDeletion(w) \/ DeleteProviderUser(w) \/ MarkProviderDeleted(w)
  \/ RevokeAllUserSessions(w) \/ CompleteDeletion(w) \/ FailDeletionAttempt(w)

Work(w) == RunExports(w) \/ RunDeletions(w)

Next ==
  \/ \E e \in Exports : ExportRequests(e) \/ CreateExport(e) \/ ExportAges(e) \/ ExportExpires(e)
  \/ \E u \in Users : DeletionRequests(u) \/ SignIn(u) \/ CoolingEnds(u) \/ DeletionAges(u)
  \/ \E w \in Everybody : Work(w) \/ Crash(w)

Spec == Init /\ [][Next]_privacyVars

-----------------------------------------------------------------------------
(* Properties *)

DeletionStatuses ==
  {"none", "pending", "processing", "provider_deleted", "completed", "cancelled", "failed"}

\* Rows and workers keep their shape.
TypeOK ==
  /\ deletion \in [Users -> [id : Nat, status : DeletionStatuses, due : BOOLEAN,
                             attempts : 0..MaxAttempts, aged : BOOLEAN]]
  /\ account \in [Users -> BOOLEAN] /\ person \in [Users -> {"active", "anonymous"}]
  /\ session \in [Users -> {"none", "early", "late"}] /\ signing \subseteq Users
  /\ export \in [Exports -> [status : {"none", "pending", "processing", "completed", "failed"},
                             content : {"none", "personal", "anonymous", "events"},
                             aged : BOOLEAN, expired : BOOLEAN]]
  /\ told \subseteq Exports /\ overrun \subseteq Exports /\ exhausted \subseteq Users
  /\ faults \in 0..MaxFaults

\* No account is removed at the provider for a request that was cancelled or
\* still rests, though workers hold rows they claimed long ago; but a worker
\* that slept through all attempts of a request (runDeletion).
CoolingHonoured ==
  \A u \in Users : account[u] /\ ~account'[u] =>
    \E w \in Workers : /\ worker[w].job.key = u
                       /\ \/ worker[w].job.id # deletion[u].id /\ u \in exhausted
                          \/ deletion[u].due /\ deletion[u].status # "cancelled"

\* What the provider has removed never goes back: the deletion is finished, or
\* on its way, whatever fails and whoever comes late (FailDeletionAttempt).
DeletionForward ==
  \A u \in Users :
    /\ deletion[u].status = "provider_deleted" =>
         /\ deletion'[u].status \in {"provider_deleted", "completed"}
         /\ deletion'[u].id = deletion[u].id
    /\ deletion[u].status = "completed" => deletion'[u] = deletion[u]

\* An account the provider no longer has is on record as being deleted, unless
\* a request ended as failed.
GoneOnRecord ==
  \A u \in Users \ exhausted : ~account[u] =>
    \/ deletion[u].status \in {"processing", "provider_deleted", "completed"}
    \/ deletion[u].status = "pending" /\ deletion[u].due

\* A deletion is completed after the provider's account and every session made
\* with it are gone (the test names it: waits for the session purge).
PurgedFirst ==
  \A u \in Users : deletion[u].status = "completed" => ~account[u] /\ session[u] # "early"

\* Of an account that was deleted no export remains that shows the person,
\* though workers build documents while it is being deleted.
NothingPersonalLeft ==
  \A e \in Exports : person[OwnerOf[e]] = "anonymous" => export[e].content # "personal"

\* An export whose owner was given a link can be downloaded until it expires,
\* unless a worker lost it to another one by working too long.
PromiseKept == \A e \in told \ overrun : export[e].expired \/ Download(e)
=============================================================================
