----------------------------- MODULE Providers -----------------------------
(***************************************************************************)
(* The identity provider of the company: its switch, the copy of its       *)
(* directory that a reconciler refreshes under durable jobs, the conflicts *)
(* an administrator resolves into explicit links, and the sign-ins through *)
(* it. Beside it the first sign-in of a subject of the login provider,     *)
(* which creates the account.                                              *)
(***************************************************************************)
EXTENDS Naturals, FiniteSets, Sequences

CONSTANTS
  Subjects,     \* people of the provider's directory
  Logins,       \* subjects of the login provider
  Departments,  \* departments of the provider's directory
  Users,        \* accounts
  MailOf,       \* of a person: the account with the same address, or "none"
  Requests,     \* HTTP requests
  InputOf,      \* of a request: its operation, subject, account and OAuth state
  Batches,      \* what happens in a behaviour
  Reconcilers,  \* instances of the directory reconciler
  MaxAttempts,  \* failed attempts of a job (3 in the code)
  MaxMoves,     \* changes of the provider's directory to explore
  MaxFaults     \* store errors, provider errors and crashes to explore

ProvidersAssumption ==
  /\ MailOf \in [Subjects -> Users \cup {"none"}]
  /\ \A b \in Batches : b.requests \subseteq Requests /\ b.reconcilers \subseteq Reconcilers
  /\ MaxAttempts \in Nat \ {0} /\ MaxMoves \in Nat /\ MaxFaults \in Nat

VARIABLES
  enabled,   \* identity_providers.login_enabled
  switched,  \* how often the events of enabling and of disabling were written
  remote,    \* the provider's directory: of a person, the department, or "gone"
  staged,    \* provider_directory_users: "none", "active", "inactive"
  asOf,      \* the fetch the staged rows come from
  fetches,   \* fetches begun
  moves,     \* changes of the directory so far
  conflict,  \* provider_sync_conflicts
  link,      \* identity_links: of a subject, the account or "none"
  account,   \* the status of an account
  born,      \* accounts created by a first sign-in
  erasure,   \* of an account: where its deletion is, and the rows its statements took
  job,       \* provider_sync_jobs: of the request that asked for it
  ticket,    \* Redis: the OAuth state of a sign-in
  session,   \* sessions: the request that opened it, its account and its OAuth state
  agent,     \* of a request: where it is, what it read, what it answered
  worker,    \* of a reconciler: its job and what it fetched
  batch,     \* what happens in this behaviour
  faults     \* faults so far

providerVars == <<enabled, switched, remote, staged, asOf, fetches, moves, conflict, link, account,
                  born, erasure, job, ticket, session, agent, worker, batch, faults>>

SwitchVars == <<enabled, switched>>
RemoteVars == <<remote, moves>>
StageVars  == <<staged, asOf, fetches>>
LinkVars   == <<conflict, link>>
PersonVars == <<account, born, erasure>>
LoginVars  == <<ticket, session>>

NoConflict == [status |-> "none", user |-> "none"]
NoErasure  == [pc |-> "none", cleared |-> {}, conflicts |-> {}, people |-> {}, links |-> {}]
NoJob      == [status |-> "none", attempts |-> 0, aged |-> FALSE, events |-> <<>>]
Rest       == [pc |-> "idle", answer |-> "none", user |-> "none", job |-> "none",
               barred |-> FALSE, shut |-> {}]
Idle       == [pc |-> "idle", job |-> "none", attempts |-> 0, todo |-> {}, seen |-> {},
               partial |-> FALSE, moved |-> {}, unlinked |-> {}, asOf |-> 0]

Op(r)        == InputOf[r].op
At(r, l)     == agent[r].pc = l
To(r, l)     == agent' = [agent EXCEPT ![r].pc = l]
Answer(r, a) == agent' = [agent EXCEPT ![r].pc = "done", ![r].answer = a]
With(r, u)   == agent' = [agent EXCEPT ![r].pc = "done", ![r].answer = "ok", ![r].user = u]
Busy(w, l)   == worker[w].pc = l

Fault == faults < MaxFaults /\ faults' = faults + 1

\* Deletions that hold the conflict of a person, the staged row or the link.
Ongoing(u)       == erasure[u].pc \notin {"none", "done"}
ConflictTaken(s) == {u \in Users : Ongoing(u) /\ s \in erasure[u].cleared \cup erasure[u].conflicts}
StagedTaken(s)   == \E u \in Users : Ongoing(u) /\ s \in erasure[u].people
LinkTaken(s)     == \E u \in Users : Ongoing(u) /\ s \in erasure[u].links

-----------------------------------------------------------------------------
(* The switch *)

SetProviderEnabled_Always(r, on) ==
  /\ enabled' = on
  /\ switched' = [switched EXCEPT ![on] = @ + 1]

\* The switch is written, with its event, when it changes.
SetProviderEnabled(r, on) ==
  /\ enabled' = on
  /\ switched' = IF enabled = on THEN switched ELSE [switched EXCEPT ![on] = @ + 1]

\* Enabling asks the provider first, disabling does not.
Switch(r) ==
  /\ Op(r) \in {"enable", "disable"}
  /\ \/ /\ At(r, "idle") /\ Op(r) = "enable" /\ UNCHANGED SwitchVars
        /\ \/ To(r, "valid") /\ UNCHANGED faults
           \/ Answer(r, "provider") /\ Fault
     \/ /\ At(r, IF Op(r) = "enable" THEN "valid" ELSE "idle")
        /\ LET on == Op(r) = "enable"
               opened == [q \in Requests |->
                 [agent[q] EXCEPT !.barred = @ /\ ~on,
                                  !.pc = IF q = r THEN "done" ELSE @]]
           IN  \/ /\ SetProviderEnabled(r, on) /\ UNCHANGED faults
                  /\ agent' = [opened EXCEPT ![r].answer = "ok"]
               \/ /\ SetProviderEnabled(r, on) /\ Fault
                  /\ agent' = [opened EXCEPT ![r].answer = "error"]
               \/ Answer(r, "error") /\ Fault /\ UNCHANGED SwitchVars
  /\ UNCHANGED <<job, worker, batch>> /\ UNCHANGED RemoteVars /\ UNCHANGED StageVars
  /\ UNCHANGED LinkVars /\ UNCHANGED PersonVars /\ UNCHANGED LoginVars

-----------------------------------------------------------------------------
(* Jobs *)

Active(j) == job[j].status \in {"pending", "running"}
Ended(j)  == job[j].status \in {"success", "partial", "failed"}

\* A worker that applies a snapshot holds the row of its job.
Locked(j) == \E w \in Reconcilers : Busy(w, "applying") /\ worker[w].job = j

JobFrame == /\ UNCHANGED <<batch, worker>> /\ UNCHANGED SwitchVars /\ UNCHANGED RemoteVars
            /\ UNCHANGED StageVars /\ UNCHANGED LinkVars /\ UNCHANGED PersonVars
            /\ UNCHANGED LoginVars

Joined(r, j) == agent' = [agent EXCEPT ![r].pc = "done", ![r].answer = "ok", ![r].job = j]

\* A request joins the job under way; if there is none it will create one.
LookForSync(r) ==
  /\ Op(r) = "sync" /\ At(r, "idle") /\ UNCHANGED job
  /\ \/ \E j \in Requests : Active(j) /\ ~Locked(j) /\ Joined(r, j) /\ UNCHANGED faults
     \/ (\A j \in Requests : ~Active(j)) /\ To(r, "absent") /\ UNCHANGED faults
     \/ Answer(r, "error") /\ Fault
  /\ JobFrame

EnqueueSync_NoIndex(r) ==
  /\ Op(r) = "sync" /\ At(r, "absent")
  /\ job' = [job EXCEPT ![r].status = "pending"] /\ Joined(r, r)
  /\ UNCHANGED faults /\ JobFrame

\* The job is created unless another came first, which is then joined, if it
\* is still under way when it is read.
EnqueueSync(r) ==
  /\ Op(r) = "sync"
  /\ \/ /\ At(r, "absent") /\ \A j \in Requests : ~Active(j)
        /\ job' = [job EXCEPT ![r].status = "pending"]
        /\ \/ Joined(r, r) /\ UNCHANGED faults
           \/ Answer(r, "error") /\ Fault
     \/ /\ At(r, "absent") /\ \E j \in Requests : Active(j)
        /\ To(r, "beaten") /\ UNCHANGED <<job, faults>>
     \/ /\ At(r, "beaten") /\ UNCHANGED <<job, faults>>
        /\ \/ \E j \in Requests : Active(j) /\ Joined(r, j)
           \/ (\A j \in Requests : ~Active(j)) /\ Answer(r, "error")
     \/ /\ At(r, "absent") /\ Answer(r, "error") /\ Fault /\ UNCHANGED job
  /\ JobFrame

JobAges(j) ==
  /\ job[j].status = "running" /\ ~job[j].aged
  /\ job' = [job EXCEPT ![j].aged = TRUE]
  /\ UNCHANGED <<agent, faults>> /\ JobFrame

WorkFrame == /\ UNCHANGED <<agent, batch>> /\ UNCHANGED SwitchVars /\ UNCHANGED RemoteVars
             /\ UNCHANGED PersonVars /\ UNCHANGED LoginVars

Claimable(j) == ~Locked(j) /\ (job[j].status = "pending" \/ (job[j].status = "running" /\ job[j].aged))

\* The claim of a job, one attempt more.
ClaimSync(w) ==
  /\ Busy(w, "idle")
  /\ \E j \in Requests :
       /\ Claimable(j)
       /\ job' = [job EXCEPT ![j].status = "running", ![j].attempts = @ + 1, ![j].aged = FALSE]
       /\ worker' = [worker EXCEPT ![w] =
            [Idle EXCEPT !.pc = "claimed", !.job = j, !.attempts = job[j].attempts + 1]]
  /\ UNCHANGED faults /\ UNCHANGED StageVars /\ UNCHANGED LinkVars /\ WorkFrame

\* The provider answers nothing usable, after its retries.
doJSON_Fails(w) == Fault /\ worker' = [worker EXCEPT ![w].pc = "failing"]

\* The departments, of which people are read next.
fetchDepartments(w) ==
  /\ Busy(w, "claimed")
  /\ \/ /\ worker' = [worker EXCEPT ![w].pc = "fetching", ![w].todo = Departments,
                          ![w].moved = {}, ![w].asOf = fetches + 1]
        /\ fetches' = fetches + 1 /\ UNCHANGED faults
     \/ doJSON_Fails(w) /\ UNCHANGED fetches
  /\ UNCHANGED <<job, staged, asOf>> /\ UNCHANGED LinkVars /\ WorkFrame

fetchDepartmentUsers(d) == {s \in Subjects : remote[s] = d}

\* The people of one department after the other; one that cannot be read makes
\* the snapshot partial, too many fail it.
FetchDirectory(w) ==
  /\ Busy(w, "fetching")
  /\ \/ \E d \in worker[w].todo :
          \/ /\ worker' = [worker EXCEPT ![w].todo = @ \ {d},
                             ![w].seen = @ \cup fetchDepartmentUsers(d)]
             /\ UNCHANGED faults
          \/ worker' = [worker EXCEPT ![w].todo = @ \ {d}, ![w].partial = TRUE] /\ Fault
          \/ doJSON_Fails(w)
     \/ /\ worker[w].todo = {}
        /\ worker' = [worker EXCEPT ![w].pc = "fetched"] /\ UNCHANGED faults
  /\ UNCHANGED job /\ UNCHANGED StageVars /\ UNCHANGED LinkVars /\ WorkFrame

ApplicableStatus_Any(j) == job[j].status # "none"

\* The status a job must have for a snapshot to be applied.
ApplicableStatus(j) == job[j].status = "running"

\* The transaction of a snapshot takes the row of the job and reads who is
\* linked; without the row's status the snapshot is dropped.
BeginApply(w) ==
  LET j == worker[w].job
  IN  /\ Busy(w, "fetched") /\ ~Locked(j)
      /\ \/ /\ ApplicableStatus(j) /\ UNCHANGED faults
            /\ worker' = [worker EXCEPT ![w].pc = "applying",
                 ![w].unlinked = {s \in worker[w].seen : link[s] = "none"}]
         \/ /\ ~ApplicableStatus(j) /\ UNCHANGED faults
            /\ worker' = [worker EXCEPT ![w] = Idle]
         \/ Fault /\ worker' = [worker EXCEPT ![w] = Idle]
      /\ UNCHANGED job /\ UNCHANGED StageVars /\ UNCHANGED LinkVars /\ WorkFrame

\* An active account with the person's address is suggested.
suggestedUser(s) ==
  IF MailOf[s] # "none" /\ account[MailOf[s]] = "active" THEN MailOf[s] ELSE "none"

Detected_Reopened(s) == [status |-> "pending", user |-> suggestedUser(s)]

\* A person without a link is a conflict; one that was settled stays so.
Detected(s) ==
  IF conflict[s].status \in {"none", "pending"}
  THEN [status |-> "pending", user |-> suggestedUser(s)] ELSE conflict[s]

Retired_PartialToo(w, s) == staged[s] = "active"

\* Those a complete snapshot did not see are retired.
Retired(w, s) == staged[s] = "active" /\ ~worker[w].partial

ApplySnapshot(w) ==
  LET j == worker[w].job
      found == {s \in worker[w].unlinked : Detected(s).status = "pending"}
      applied ==
        /\ staged' = [s \in Subjects |-> IF s \in worker[w].seen THEN "active"
                        ELSE IF Retired(w, s) THEN "inactive" ELSE staged[s]]
        /\ asOf' = worker[w].asOf
        /\ conflict' = [s \in Subjects |->
                          IF s \in worker[w].unlinked THEN Detected(s) ELSE conflict[s]]
        /\ job' = [job EXCEPT ![j].events = Append(@, "completed"),
             ![j].status = IF worker[w].partial \/ found # {} THEN "partial" ELSE "success"]
  IN  /\ Busy(w, "applying")
      /\ \A s \in Subjects : StagedTaken(s) => s \notin worker[w].seen /\ ~Retired(w, s)
      /\ \A s \in worker[w].unlinked : ConflictTaken(s) = {}
      /\ \/ applied /\ UNCHANGED faults
         \/ applied /\ Fault
         \/ UNCHANGED <<staged, asOf, conflict, job>> /\ Fault
      /\ worker' = [worker EXCEPT ![w] = Idle]
      /\ UNCHANGED <<fetches, link>> /\ WorkFrame

FailSync_LastOrNot(j, attempts) ==
  job' = [job EXCEPT ![j].status = "failed", ![j].aged = FALSE, ![j].events = Append(@, "failed")]

\* A failed attempt sends the job back; the last one ends it. What counts is
\* the number of attempts the worker was given.
FailSync(j, attempts) ==
  IF job[j].status = "running"
  THEN job' = [job EXCEPT ![j].status = IF attempts >= MaxAttempts THEN "failed" ELSE "pending",
                          ![j].aged = FALSE,
                          ![j].events = IF attempts >= MaxAttempts THEN Append(@, "failed") ELSE @]
  ELSE UNCHANGED job

RecordFailure(w) ==
  LET j == worker[w].job
  IN  /\ Busy(w, "failing") /\ ~Locked(j)
      /\ \/ FailSync(j, worker[w].attempts) /\ UNCHANGED faults
         \/ UNCHANGED job /\ Fault
      /\ worker' = [worker EXCEPT ![w] = Idle]
      /\ UNCHANGED StageVars /\ UNCHANGED LinkVars /\ WorkFrame

WorkerCrash(w) ==
  /\ ~Busy(w, "idle") /\ Fault
  /\ worker' = [worker EXCEPT ![w] = Idle]
  /\ UNCHANGED job /\ UNCHANGED StageVars /\ UNCHANGED LinkVars /\ WorkFrame

\* A person moves to another department, leaves or comes back.
Move(s, d) ==
  /\ s \in batch.moving /\ moves < MaxMoves /\ remote[s] # d
  /\ remote' = [remote EXCEPT ![s] = d] /\ moves' = moves + 1
  /\ worker' = [w \in Reconcilers |->
       IF Busy(w, "idle") THEN worker[w] ELSE [worker[w] EXCEPT !.moved = @ \cup {s}]]
  /\ UNCHANGED <<job, agent, batch, faults>> /\ UNCHANGED SwitchVars /\ UNCHANGED StageVars
  /\ UNCHANGED LinkVars /\ UNCHANGED PersonVars /\ UNCHANGED LoginVars

-----------------------------------------------------------------------------
(* Conflicts *)

LinkFrame == /\ UNCHANGED <<job, worker, batch>> /\ UNCHANGED SwitchVars /\ UNCHANGED RemoteVars
             /\ UNCHANGED StageVars /\ UNCHANGED PersonVars /\ UNCHANGED LoginVars

LinkFree_ManyToOne(s, u) == link[s] \in {"none", u}

\* A person has one account, and an account one person.
LinkFree(s, u) ==
  /\ link[s] \in {"none", u}
  /\ \A t \in Subjects \ {s} : link[t] # u

\* A deletion under way took neither the conflict nor a link in the way.
Undisputed(s, u) ==
  ConflictTaken(s) = {} /\ \A t \in Subjects : LinkTaken(t) => t # s /\ link[t] # u

\* The decision of an administrator: the link and the end of the conflict.
Resolve(r) ==
  LET s == InputOf[r].subject
      u == InputOf[r].user
      again == conflict[s] = [status |-> "resolved", user |-> u]
      free == conflict[s].status = "pending" /\ account[u] = "active" /\ LinkFree(s, u)
      settled == /\ conflict' = [conflict EXCEPT ![s] = [status |-> "resolved", user |-> u]]
                 /\ link' = [link EXCEPT ![s] = u]
  IN  /\ Op(r) = "resolve" /\ At(r, "idle") /\ conflict[s] # NoConflict /\ Undisputed(s, u)
      /\ \/ again /\ Answer(r, "ok") /\ UNCHANGED <<conflict, link, faults>>
         \/ free /\ settled /\ Answer(r, "ok") /\ UNCHANGED faults
         \/ free /\ settled /\ Answer(r, "error") /\ Fault
         \/ ~again /\ ~free /\ Answer(r, "conflict") /\ UNCHANGED <<conflict, link, faults>>
         \/ Answer(r, "error") /\ Fault /\ UNCHANGED <<conflict, link>>
      /\ LinkFrame

Ignore(r) ==
  LET s == InputOf[r].subject
  IN  /\ Op(r) = "ignore" /\ At(r, "idle") /\ conflict[s] # NoConflict /\ ConflictTaken(s) = {}
      /\ \/ /\ conflict[s].status \in {"pending", "ignored"}
            /\ conflict' = [conflict EXCEPT ![s].status = "ignored"]
            /\ \/ Answer(r, "ok") /\ UNCHANGED faults
               \/ Answer(r, "error") /\ Fault
         \/ /\ conflict[s].status = "resolved"
            /\ Answer(r, "conflict") /\ UNCHANGED <<conflict, faults>>
         \/ Answer(r, "error") /\ Fault /\ UNCHANGED conflict
      /\ UNCHANGED link /\ LinkFrame

Disable(u) ==
  /\ u \in batch.leaving /\ account[u] = "active"
  /\ account' = [account EXCEPT ![u] = "disabled"]
  /\ UNCHANGED <<born, erasure, job, agent, worker, batch, faults>> /\ UNCHANGED SwitchVars
  /\ UNCHANGED RemoteVars /\ UNCHANGED StageVars /\ UNCHANGED LinkVars /\ UNCHANGED LoginVars

-----------------------------------------------------------------------------
(* The deletion of an account. Each statement of its transaction takes the *)
(* rows that are there when it runs, and holds them; others see what       *)
(* became of them when the transaction commits.                            *)

EraseFrame == /\ UNCHANGED <<job, agent, worker, batch>> /\ UNCHANGED SwitchVars
              /\ UNCHANGED RemoteVars /\ UNCHANGED LoginVars

StatementFrame == EraseFrame /\ UNCHANGED <<account, born, faults>>
                  /\ UNCHANGED StageVars /\ UNCHANGED LinkVars

\* The person linked to an account, if there is one.
LinkedTo(u) == {s \in Subjects : link[s] = u}

\* A statement: what it took, and where the transaction stands after it.
Took(u, what, rows, l) == erasure' = [erasure EXCEPT ![u][what] = rows, ![u].pc = l]

ClearMatches(u) ==
  LET of == {s \in Subjects : conflict[s].user = u}
  IN  /\ u \in batch.leaving /\ account[u] # "deleted" /\ erasure[u].pc = "none"
      /\ \A s \in of : ConflictTaken(s) = {}
      /\ Took(u, "cleared", of, "unmatched") /\ StatementFrame

DeleteConflicts(u) ==
  LET of == {s \in LinkedTo(u) : conflict[s] # NoConflict}
  IN  /\ erasure[u].pc = "unmatched" /\ \A s \in of : ConflictTaken(s) \subseteq {u}
      /\ Took(u, "conflicts", of, "settled") /\ StatementFrame

DeletePeople(u) ==
  /\ erasure[u].pc = "settled" /\ Took(u, "people", LinkedTo(u), "unstaged") /\ StatementFrame

DeleteLinks(u) ==
  /\ erasure[u].pc = "unstaged" /\ Took(u, "links", LinkedTo(u), "unlinked") /\ StatementFrame

\* The account is anonymised and the transaction commits.
CompleteDeletion(u) ==
  LET e == erasure[u]
  IN  /\ e.pc = "unlinked"
      /\ account' = [account EXCEPT ![u] = "deleted"]
      /\ link' = [s \in DOMAIN link |-> IF s \in e.links THEN "none" ELSE link[s]]
      /\ staged' = [s \in Subjects |-> IF s \in e.people THEN "none" ELSE staged[s]]
      /\ conflict' = [s \in Subjects |->
           IF s \in e.conflicts THEN NoConflict
           ELSE IF s \in e.cleared THEN [conflict[s] EXCEPT !.user = "none"] ELSE conflict[s]]
      /\ erasure' = [erasure EXCEPT ![u].pc = "done"]
      /\ UNCHANGED <<asOf, fetches, born, faults>> /\ EraseFrame

\* A statement fails, and what the earlier ones did is undone.
AbortDeletion(u) ==
  /\ Ongoing(u) /\ Fault /\ erasure' = [erasure EXCEPT ![u] = NoErasure]
  /\ UNCHANGED <<account, born>> /\ UNCHANGED StageVars /\ UNCHANGED LinkVars /\ EraseFrame

Erase(u) ==
  \/ ClearMatches(u) \/ DeleteConflicts(u) \/ DeletePeople(u) \/ DeleteLinks(u)
  \/ CompleteDeletion(u) \/ AbortDeletion(u)

-----------------------------------------------------------------------------
(* Sign-in through the provider *)

LoginFrame == /\ UNCHANGED <<job, worker, batch, link>> /\ UNCHANGED SwitchVars
              /\ UNCHANGED RemoteVars /\ UNCHANGED StageVars /\ UNCHANGED PersonVars

Gone(r) == Answer(r, "failed")

\* The browser is sent to the provider with a fresh state.
BeginFeishu(r) ==
  /\ Op(r) = "login" /\ At(r, "idle")
  /\ \/ enabled /\ To(r, "away") /\ ticket' = [ticket EXCEPT ![r] = "live"] /\ UNCHANGED faults
     \/ ~enabled /\ Answer(r, "absent") /\ UNCHANGED <<ticket, faults>>
     \/ Answer(r, "error") /\ Fault /\ UNCHANGED ticket
  /\ UNCHANGED <<conflict, session>> /\ LoginFrame

StateOf(r) == InputOf[r].state

Consume_Kept(r) == UNCHANGED ticket

\* The state is taken from the store.
Consume(r) == ticket' = [ticket EXCEPT ![StateOf(r)] = "spent"]

\* It comes back with a code, or an older answer comes again.
FeishuCallback(r) ==
  /\ \/ Op(r) = "login" /\ At(r, "away")
     \/ Op(r) = "replay" /\ At(r, "idle") /\ ticket[StateOf(r)] # "none"
  /\ \/ /\ ticket[StateOf(r)] = "live" /\ Consume(r) /\ UNCHANGED faults
        /\ agent' = [agent EXCEPT ![r].pc = "consumed", ![r].barred = ~enabled,
             ![r].shut = {u \in Users : account[u] # "active"}]
     \/ ticket[StateOf(r)] # "live" /\ Gone(r) /\ UNCHANGED <<ticket, faults>>
     \/ (Consume(r) \/ UNCHANGED ticket) /\ Gone(r) /\ Fault
  /\ UNCHANGED <<conflict, session>> /\ LoginFrame

ProviderOpen_Anyway(r) == TRUE

\* The provider must be open for sign-ins.
ProviderOpen(r) == enabled

\* The code is exchanged, the provider's switch read.
ExchangeCode(r) ==
  /\ At(r, "consumed")
  /\ \/ To(r, "exchanged") /\ UNCHANGED faults
     \/ Gone(r) /\ Fault
  /\ UNCHANGED <<conflict, ticket, session>> /\ LoginFrame

CheckProvider(r) ==
  /\ At(r, "exchanged")
  /\ IF ProviderOpen(r) THEN To(r, "open") ELSE Gone(r)
  /\ UNCHANGED <<conflict, ticket, session, faults>> /\ LoginFrame

\* The account behind the link, if it is active.
LinkedUser(r) ==
  LET u == link[InputOf[r].subject]
  IN  /\ At(r, "open")
      /\ \/ /\ u = "none" /\ To(r, "unlinked") /\ UNCHANGED faults
         \/ /\ u # "none" /\ UNCHANGED faults
            /\ IF account[u] = "active"
               THEN agent' = [agent EXCEPT ![r].pc = "linked", ![r].user = u] ELSE Gone(r)
         \/ Gone(r) /\ Fault
      /\ UNCHANGED <<conflict, ticket, session>> /\ LoginFrame

\* Who signs in without a link becomes a conflict.
RecordUnlinked(r) ==
  LET s == InputOf[r].subject
  IN  /\ At(r, "unlinked") /\ ConflictTaken(s) = {}
      /\ \/ /\ conflict' = [conflict EXCEPT ![s] = Detected(s)]
            /\ \/ Answer(r, "unlinked") /\ UNCHANGED faults
               \/ Gone(r) /\ Fault
         \/ Gone(r) /\ Fault /\ UNCHANGED conflict
      /\ UNCHANGED <<ticket, session>> /\ LoginFrame

\* The status is read once more, then the session is written.
CanUseSession(r) ==
  /\ At(r, "linked")
  /\ IF account[agent[r].user] = "active" THEN To(r, "checked") ELSE Gone(r)
  /\ UNCHANGED <<conflict, ticket, session, faults>> /\ LoginFrame

CreateSession(r) ==
  /\ At(r, "checked")
  /\ \/ /\ session' = session \cup {[by |-> r, user |-> agent[r].user, state |-> StateOf(r)]}
        /\ \/ Answer(r, "ok") /\ UNCHANGED faults
           \/ Answer(r, "error") /\ Fault
     \/ Answer(r, "error") /\ Fault /\ UNCHANGED session
  /\ UNCHANGED <<conflict, ticket>> /\ LoginFrame

StateExpires(r) ==
  /\ ticket[r] = "live" /\ ticket' = [ticket EXCEPT ![r] = "spent"]
  /\ UNCHANGED <<agent, faults, conflict, session>> /\ LoginFrame

-----------------------------------------------------------------------------
(* The first sign-in of a subject of the login provider *)

FirstFrame == /\ UNCHANGED <<account, erasure, conflict, job, worker, batch>>
              /\ UNCHANGED SwitchVars /\ UNCHANGED RemoteVars /\ UNCHANGED StageVars /\ UNCHANGED LoginVars

\* The account of the link, if there is one.
GetIdentityLink(r) ==
  LET z == InputOf[r].subject
  IN  /\ Op(r) = "first" /\ At(r, "idle")
      /\ \/ link[z] # "none" /\ With(r, link[z]) /\ UNCHANGED faults
         \/ link[z] = "none" /\ To(r, "unknown") /\ UNCHANGED faults
         \/ Answer(r, "error") /\ Fault
      /\ UNCHANGED <<link, born>> /\ FirstFrame

CreateUser_Apart(r) ==
  /\ born' = born \cup {r}
  /\ link' = IF link[InputOf[r].subject] = "none"
             THEN [link EXCEPT ![InputOf[r].subject] = r] ELSE link

\* Account and link are created together or not at all.
CreateUser(r) ==
  /\ link[InputOf[r].subject] = "none"
  /\ born' = born \cup {r}
  /\ link' = [link EXCEPT ![InputOf[r].subject] = r]

\* Of several first sign-ins one creates the account; the others read it.
CreateFirst(r) ==
  LET z == InputOf[r].subject
  IN  /\ Op(r) = "first" /\ At(r, "unknown")
      /\ \/ CreateUser(r) /\ With(r, r) /\ UNCHANGED faults
         \/ CreateUser(r) /\ Answer(r, "error") /\ Fault
         \/ /\ link[z] # "none" /\ To(r, "loser") /\ UNCHANGED <<link, born, faults>>
         \/ Answer(r, "error") /\ Fault /\ UNCHANGED <<link, born>>
      /\ FirstFrame

ReadWinner(r) ==
  LET z == InputOf[r].subject
  IN  /\ At(r, "loser")
      /\ \/ With(r, link[z]) /\ UNCHANGED faults
         \/ Answer(r, "error") /\ Fault
      /\ UNCHANGED <<link, born>> /\ FirstFrame

-----------------------------------------------------------------------------

Init ==
  /\ batch \in Batches
  /\ enabled = batch.enabled /\ switched = [on \in BOOLEAN |-> 0]
  /\ remote = batch.remote /\ moves = 0
  /\ staged = [s \in Subjects |-> IF batch.synced /\ remote[s] # "gone" THEN "active" ELSE "none"]
  /\ asOf = 0 /\ fetches = 0
  /\ conflict = [s \in Subjects |->
       IF batch.synced /\ remote[s] # "gone" THEN
         IF batch.linked[s] # "none" THEN [status |-> "resolved", user |-> batch.linked[s]]
         ELSE [status |-> "pending", user |-> MailOf[s]]
       ELSE NoConflict]
  /\ link = [s \in Subjects \cup Logins |-> IF s \in Subjects THEN batch.linked[s] ELSE "none"]
  /\ account = [u \in Users |-> "active"] /\ born = {}
  /\ erasure = [u \in Users |-> NoErasure]
  /\ job = [r \in Requests |-> NoJob]
  /\ ticket = [r \in Requests |-> "none"] /\ session = {}
  /\ agent = [r \in Requests |-> Rest]
  /\ worker = [w \in Reconcilers |-> Idle]
  /\ faults = 0

Administer(r) == Switch(r) \/ LookForSync(r) \/ EnqueueSync(r) \/ Resolve(r) \/ Ignore(r)

Login(r) ==
  \/ BeginFeishu(r) \/ FeishuCallback(r) \/ ExchangeCode(r) \/ CheckProvider(r)
  \/ LinkedUser(r) \/ RecordUnlinked(r) \/ CanUseSession(r) \/ CreateSession(r)

FirstLogin(r) == GetIdentityLink(r) \/ CreateFirst(r) \/ ReadWinner(r)

RunOneSync(w) ==
  \/ ClaimSync(w) \/ fetchDepartments(w) \/ FetchDirectory(w)
  \/ BeginApply(w) \/ ApplySnapshot(w) \/ RecordFailure(w)

Next ==
  \/ \E r \in batch.requests :
       Administer(r) \/ Login(r) \/ FirstLogin(r) \/ StateExpires(r) \/ JobAges(r)
  \/ \E w \in batch.reconcilers : RunOneSync(w) \/ WorkerCrash(w)
  \/ \E s \in Subjects : \E d \in Departments \cup {"gone"} : Move(s, d)
  \/ \E u \in Users : Disable(u) \/ Erase(u)

Spec == Init /\ [][Next]_providerVars

-----------------------------------------------------------------------------
(* Properties *)

\* Rows, jobs and links keep their shape.
TypeOK ==
  /\ enabled \in BOOLEAN
  /\ remote \in [Subjects -> Departments \cup {"gone"}]
  /\ staged \in [Subjects -> {"none", "active", "inactive"}]
  /\ conflict \in [Subjects -> [status : {"none", "pending", "resolved", "ignored"},
                                user : Users \cup {"none"}]]
  /\ \A j \in Requests :
       job[j].status \in {"none", "pending", "running", "success", "partial", "failed"}
  /\ account \in [Users -> {"active", "disabled", "deleted"}] /\ born \subseteq Requests
  /\ erasure \in [Users ->
       [pc : {"none", "unmatched", "settled", "unstaged", "unlinked", "done"},
        cleared : SUBSET Subjects, conflicts : SUBSET Subjects,
        people : SUBSET Subjects, links : SUBSET Subjects]]

\* A job ends once, with the event of its end, and one is under way at a time,
\* though reconcilers reclaim each other's jobs.
SyncEndsOnce ==
  /\ \A j \in Requests : job[j].events = IF job[j].status \in {"success", "partial"}
                           THEN <<"completed">>
                           ELSE IF job[j].status = "failed" THEN <<"failed">> ELSE <<>>
  /\ Cardinality({j \in Requests : Active(j)}) <= 1

\* The staged directory never goes back to an older fetch (the status the job's
\* row must have in ApplySnapshot).
StagingForward == asOf' >= asOf

\* A staged person is retired for being gone from the directory, or for having
\* moved while it was read; never for a department that could not be read.
NoFalseRetirement ==
  \A s \in Subjects : staged[s] = "active" /\ staged'[s] = "inactive" =>
    \E w \in Reconcilers : /\ Busy(w, "applying") /\ worker'[w].pc = "idle"
                           /\ s \in worker[w].moved \/ remote[s] = "gone"

\* The link to a deleted account was taken by DeleteLinks, the conflict about
\* it was not by DeleteConflicts: the decision came between the two.
DecidedBetween(s, u) == erasure[u].pc = "done" /\ s \in erasure[u].links \ erasure[u].conflicts

\* A person has at most one account and an account one person; a pending
\* conflict has no link, and a link is a resolved conflict. A resolved conflict
\* is that link, unless CompleteDeletion took the link alone; and a link to a
\* deleted account was made after DeleteLinks.
LinksUnique ==
  /\ \A s, t \in Subjects : link[s] = link[t] /\ link[s] # "none" => s = t
  /\ \A s \in Subjects :
       LET u == conflict[s].user
       IN  /\ conflict[s].status = "pending" => link[s] = "none"
           /\ link[s] # "none" => conflict[s].status = "resolved" /\ link[s] = u
           /\ conflict[s].status = "resolved" /\ link[s] = "none" =>
                u # "none" /\ DecidedBetween(s, u)
           /\ link[s] # "none" /\ account[link[s]] = "deleted" => s \notin erasure[u].links

\* An OAuth state opens at most one session, and for the account its subject was
\* linked to.
StateUsedOnce == \A a, b \in session : a.state = b.state => a = b

\* A sign-in that came back while the provider was shut, and found it so until
\* its end, opens no session; nor does it for an account that was not active.
ShutMeansNoEntry ==
  \A x \in session' \ session : ~agent[x.by].barred /\ x.user \notin agent[x.by].shut

\* First sign-ins of one subject agree on the account, and leave none without a link.
FirstLoginsAgree ==
  /\ \A r \in Requests : Op(r) = "first" /\ agent[r].answer = "ok" =>
       agent[r].user = link[InputOf[r].subject]
  /\ \A u \in born : \E z \in Logins : link[z] = u

\* The switch is where its events say.
SwitchOnRecord ==
  switched[TRUE] + (IF batch.enabled THEN 1 ELSE 0) =
  switched[FALSE] + (IF enabled THEN 1 ELSE 0)
=============================================================================
