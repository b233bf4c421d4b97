------------------------------- MODULE Workforce -------------------------------
(***************************************************************************)
(* The staff directory: an administrator, or the work console of another   *)
(* service, enables and disables accounts, links them to employee          *)
(* profiles, arranges departments, and sends people off.  Whatever takes   *)
(* access away also leaves, in the same transaction, a revocation job for  *)
(* the sessions that live in Redis; the request tries it at once and a     *)
(* ticker in every process tries again.  A directory is read page by page  *)
(* while all of this goes on.                                              *)
(***************************************************************************)
EXTENDS Naturals, FiniteSets, Sequences

CONSTANTS
  Users,      \* the accounts
  Rank,       \* the order of their identifiers, a number each
  Depts,      \* identifiers of departments, present or still to come
  Present,    \* the departments there are at the start, each without a parent
  Unverified, \* accounts whose registration is not complete
  Staff,      \* users who are active employees of the first department at the start
  First,      \* that department
  Requests,   \* the HTTP requests that may arrive, each once
  InputOf,    \* what each of them carries
  Batches,    \* model bound: the requests of a run
  Workers,    \* passes of the revocation ticker, one each
  MaxFaults   \* model bound: failures, lost answers, crashes

Op(r)     == InputOf[r].op
By(r)     == InputOf[r].by       \* the administrator, or "service"
Of(r)     == InputOf[r].user     \* the account concerned
Dept(r)   == InputOf[r].dept     \* the department concerned
Person(r) == InputOf[r].person   \* the supervisor or owner asked for, or "none"
Above(r)  == InputOf[r].above    \* the parent asked for, or "none"
Flag(r)   == InputOf[r].flag     \* disable: revoke the sessions; list: newest first; patch: the owner too

Doing(op) == {r \in Requests : Op(r) = op}
Lists     == Doing("list")
Agents    == Requests \cup Workers

WorkforceAssumption ==
  /\ Staff \subseteq Users /\ Unverified \subseteq Users \ Staff /\ First \in Present /\ Present \subseteq Depts
  /\ Rank \in [Users -> Nat] /\ \A u, v \in Users : Rank[u] = Rank[v] => u = v
  /\ \A b \in Batches : b \subseteq Requests
  /\ \A r \in Requests : Op(r) \in {"link", "update"} => Person(r) # Of(r)
  /\ Requests \cap Workers = {} /\ MaxFaults \in Nat

VARIABLES
  status,    \* database: the status of each account
  stamp,     \* database: when each account was last updated
  profile,   \* database: the employee profile of each account
  dept,      \* database: the departments
  job,       \* database: the revocation jobs, named for the request that made them
  recorded,  \* database: the single revocations on record
  session,   \* Redis: the live sessions, each named for what made it, with its account
  agent,     \* what each request and each pass is doing
  walk,      \* what each listing has read
  owed,      \* history: the sessions a request was to end
  overtaken, \* history: requests whose job another agent resolved before their sessions ended
  faults     \* how many failures so far

workforceVars == <<status, stamp, profile, dept, job, recorded, session, agent, walk, owed,
                   overtaken, faults>>

Labels  == {"idle", "allowed", "revoke", "resolve", "refail", "record", "read", "walking", "rest", "done"}
Answers == {"none", "ok", "pending", "refused", "failed"}

NoJob     == [status |-> "none", user |-> "none", reason |-> "none", tries |-> 0,
              completed |-> 0, degraded |-> 0]
NoProfile == [state |-> "none", dept |-> "none", boss |-> "none"]
NoDept    == [there |-> FALSE, above |-> "none", owner |-> "none"]

TypeOK ==
  /\ status \in [Users -> {"active", "pending", "disabled"}] /\ stamp \in [Users -> Nat]
  /\ \A u \in Users :
       /\ profile[u].state \in {"none", "active", "offboarding"}
       /\ profile[u].dept \in Depts \cup {"none"} /\ profile[u].boss \in Users \cup {"none"}
  /\ \A d \in Depts : dept[d].above \in Depts \cup {"none"} /\ dept[d].owner \in Users \cup {"none"}
  /\ \A j \in Requests : job[j].status \in {"none", "pending", "resolved"} /\ job[j].tries \in Nat
  /\ session \subseteq (Requests \cup {"before"}) \X Users
  /\ \A x \in Agents : agent[x].pc \in Labels /\ agent[x].answer \in Answers
  /\ overtaken \subseteq Requests /\ faults \in 0 .. MaxFaults

Init ==
  /\ status = [u \in Users |-> IF u \in Unverified THEN "pending" ELSE "active"]
  /\ stamp = [u \in Users |-> 0]
  /\ profile = [u \in Users |->
       IF u \in Staff THEN [state |-> "active", dept |-> First, boss |-> "none"] ELSE NoProfile]
  /\ dept = [d \in Depts |-> [NoDept EXCEPT !.there = d \in Present]]
  /\ job = [r \in Requests |-> NoJob] /\ recorded = {}
  /\ session = {"before"} \X Users
  /\ \E b \in Batches :
       agent = [x \in Agents |->
         [pc |-> IF x \in Workers THEN "rest" ELSE IF x \in b THEN "idle" ELSE "done",
          job |-> "none", queue |-> {}, answer |-> "none"]]
  /\ walk = [r \in Lists |-> [at |-> <<>>, since |-> <<>>, seen |-> <<>>]]
  /\ owed = [r \in Requests |-> {}] /\ overtaken = {} /\ faults = 0

At(x, label)  == agent[x].pc = label
To(x, label)  == agent' = [agent EXCEPT ![x].pc = label]
Answer(r, a)  == agent' = [agent EXCEPT ![r].pc = "done", ![r].answer = a]
Fine          == UNCHANGED faults
Fault         == faults < MaxFaults /\ faults' = faults + 1
InRedis(u)    == {s \in session : s[2] = u}

directory   == <<profile, dept>>
jobVars     == <<job, owed, overtaken>>

-----------------------------------------------------------------------------
(* Admission and the outcome of a transaction *)

\* An administrator is asked for the capability, which an account that is
\* being sent off has lost, and for a fresh proof of identity where the
\* operation takes access away; the console sends an assertion for each call.
Allowed(r) == \A u \in Users : u = By(r) => status[u] = "active" /\ profile[u].state # "offboarding"

Admit(r) ==
  /\ Op(r) \notin {"login", "list"} /\ At(r, "idle")
  /\ \/ Allowed(r) /\ To(r, "allowed")
     \/ Answer(r, "refused")
  /\ Fine /\ UNCHANGED <<status, stamp, directory, jobVars, recorded, session, walk>>

\* A transaction that fails, or is aborted for another, leaves nothing.
TxFails(r) ==
  /\ At(r, "allowed") /\ Op(r) # "revoke_one"
  /\ Answer(r, "failed") /\ Fault
  /\ UNCHANGED <<status, stamp, directory, jobVars, recorded, session, walk>>

\* One that commits may lose its answer.
Committed(r)     == (Answer(r, "ok") /\ Fine) \/ (Answer(r, "failed") /\ Fault)
CommittedJob(r, j) ==
  \/ agent' = [agent EXCEPT ![r].pc = "revoke", ![r].job = j] /\ Fine
  \/ agent' = [agent EXCEPT ![r].pc = "done", ![r].job = j, ![r].answer = "failed"] /\ Fault
Refuse(r) ==
  /\ Answer(r, "refused") /\ Fine
  /\ UNCHANGED <<status, stamp, directory, jobVars, recorded, session, walk>>

-----------------------------------------------------------------------------
(* Revocation jobs *)

Pending(u, why) == {j \in Requests : job[j].status = "pending" /\ job[j].user = u /\ job[j].reason = why}

\* An account has one unresolved job for a reason: a second request joins it.
enqueueAccessRevocation(r, u, why) ==
  IF Pending(u, why) # {} THEN job
  ELSE [job EXCEPT ![r] = [NoJob EXCEPT !.status = "pending", !.user = u, !.reason = why]]

JobOf(r, u, why) == IF Pending(u, why) # {} THEN CHOOSE j \in Pending(u, why) : TRUE ELSE r

Enqueue(r, u, why) ==
  /\ job' = enqueueAccessRevocation(r, u, why)
  /\ owed' = [owed EXCEPT ![r] = InRedis(u)]
  /\ CommittedJob(r, JobOf(r, u, why))
  /\ UNCHANGED overtaken

-----------------------------------------------------------------------------
(* Accounts *)

Later == 1 + CHOOSE n \in {stamp[u] : u \in Users} : \A u \in Users : stamp[u] <= n

SetStatus(u, s) ==
  /\ status' = [status EXCEPT ![u] = s]
  /\ stamp' = IF status[u] = s THEN stamp ELSE [stamp EXCEPT ![u] = Later]

\* Nobody who cannot act keeps a department or a subordinate.
Unowned(u) == [d \in Depts |-> IF dept[d].owner = u THEN [dept[d] EXCEPT !.owner = "none"] ELSE dept[d]]
Unled(u)   == [v \in Users |-> IF profile[v].boss = u THEN [profile[v] EXCEPT !.boss = "none"] ELSE profile[v]]

clearWorkforceAssignments_OwnersOnly(u) == [dept |-> Unowned(u), profile |-> profile]
clearWorkforceAssignments(u)            == [dept |-> Unowned(u), profile |-> Unled(u)]

DisableUser(r) ==
  /\ Op(r) = "disable" /\ At(r, "allowed")
  /\ SetStatus(Of(r), "disabled")
  /\ dept' = clearWorkforceAssignments(Of(r)).dept
  /\ profile' = clearWorkforceAssignments(Of(r)).profile
  /\ \/ Flag(r) /\ Enqueue(r, Of(r), "user_disabled")
     \/ ~Flag(r) /\ Committed(r) /\ UNCHANGED jobVars
  /\ UNCHANGED <<recorded, session, walk>>

\* An account comes back once its sessions are known to be gone.
CleanupDone_Unasked(u) == TRUE
CleanupDone(u)         == Pending(u, "user_disabled") = {}

EnableUser(r) ==
  /\ Op(r) = "enable" /\ At(r, "allowed")
  /\ \/ /\ CleanupDone(Of(r)) /\ SetStatus(Of(r), "active") /\ Committed(r)
        /\ UNCHANGED <<directory, jobVars, recorded, session, walk>>
     \/ ~CleanupDone(Of(r)) /\ Refuse(r)

RevokeUserSessions(r) ==
  /\ Op(r) = "revoke_all" /\ At(r, "allowed")
  /\ Enqueue(r, Of(r), "admin_session_revoke")
  /\ UNCHANGED <<status, stamp, directory, recorded, session, walk>>

-----------------------------------------------------------------------------
(* Employees *)

ActiveEmployee(u) == status[u] = "active" /\ profile[u].state = "active"
MayLead(p)        == \A u \in Users : u = p => ActiveEmployee(u)

LinkEmployee(r) ==
  LET ok == /\ status[Of(r)] = "active" /\ dept[Dept(r)].there /\ MayLead(Person(r))
            /\ profile[Of(r)].state = "none"
  IN /\ Op(r) = "link" /\ At(r, "allowed")
     /\ \/ /\ ok /\ Committed(r)
           /\ profile' = [profile EXCEPT ![Of(r)] =
                            [state |-> "active", dept |-> Dept(r), boss |-> Person(r)]]
           /\ UNCHANGED <<status, stamp, dept, jobVars, recorded, session, walk>>
        \/ ~ok /\ Refuse(r)

UpdateEmployee(r) ==
  LET ok == profile[Of(r)].state = "active" /\ dept[Dept(r)].there /\ MayLead(Person(r))
  IN /\ Op(r) = "update" /\ At(r, "allowed")
     /\ \/ /\ ok /\ Committed(r)
           /\ profile' = [profile EXCEPT ![Of(r)].dept = Dept(r), ![Of(r)].boss = Person(r)]
           /\ UNCHANGED <<status, stamp, dept, jobVars, recorded, session, walk>>
        \/ ~ok /\ Refuse(r)

\* Sending off twice only asks for the sessions again.
OffboardEmployee(r) ==
  LET u == Of(r)
      cleared == clearWorkforceAssignments(u)
  IN /\ Op(r) = "offboard" /\ At(r, "allowed")
     /\ \/ /\ profile[u].state = "active"
           /\ profile' = [cleared.profile EXCEPT ![u].state = "offboarding"] /\ dept' = cleared.dept
           /\ Enqueue(r, u, "employee_offboarded")
           /\ UNCHANGED <<status, stamp, recorded, session, walk>>
        \/ /\ profile[u].state = "offboarding"
           /\ Enqueue(r, u, "employee_offboarded")
           /\ UNCHANGED <<status, stamp, directory, recorded, session, walk>>
        \/ profile[u].state = "none" /\ Refuse(r)

-----------------------------------------------------------------------------
(* Departments: one lock, one transaction at a time *)

\* The departments above d, itself included, as far as the tree is deep.
Upward(d) ==
  LET up[n \in 0 .. Cardinality(Depts)] ==
        IF n = 0 THEN {d} ELSE up[n - 1] \cup ({dept[e].above : e \in up[n - 1] \ {"none"}})
  IN up[Cardinality(Depts)] \ {"none"}

Parent(above) == \A e \in Depts : e = above => dept[e].there

CreateDepartment(r) ==
  LET d == Dept(r)
      ok == Parent(Above(r)) /\ MayLead(Person(r)) /\ ~dept[d].there
  IN /\ Op(r) = "create_dept" /\ At(r, "allowed")
     /\ \/ /\ ok /\ Committed(r)
           /\ dept' = [dept EXCEPT ![d] = [there |-> TRUE, above |-> Above(r), owner |-> Person(r)]]
           /\ UNCHANGED <<status, stamp, profile, jobVars, recorded, session, walk>>
        \/ ~ok /\ Refuse(r)

\* A department may not come to stand below itself.
NoCycle_SelfOnly(d, above) == above # d
NoCycle(d, above)          == d \notin Upward(above)

\* What the patch leaves out is kept, and the owner kept is asked again.
UpdateDepartment(r) ==
  LET d == Dept(r)
      owner == IF Flag(r) THEN Person(r) ELSE dept[d].owner
      ok == /\ dept[d].there /\ Parent(Above(r))
            /\ NoCycle(d, Above(r)) /\ MayLead(owner)
  IN /\ Op(r) = "update_dept" /\ At(r, "allowed")
     /\ \/ /\ ok /\ Committed(r)
           /\ dept' = [dept EXCEPT ![d].above = Above(r), ![d].owner = owner]
           /\ UNCHANGED <<status, stamp, profile, jobVars, recorded, session, walk>>
        \/ ~ok /\ Refuse(r)

\* Everybody who was ever linked counts as a member, gone or not.
Empty(d) == /\ \A e \in Depts : dept[e].above # d
            /\ \A u \in Users : profile[u].dept # d

DeleteDepartment(r) ==
  LET d == Dept(r)
  IN /\ Op(r) = "delete_dept" /\ At(r, "allowed")
     /\ \/ /\ dept[d].there /\ Empty(d) /\ Committed(r)
           /\ dept' = [dept EXCEPT ![d] = NoDept]
           /\ UNCHANGED <<status, stamp, profile, jobVars, recorded, session, walk>>
        \/ ~(dept[d].there /\ Empty(d)) /\ Refuse(r)

-----------------------------------------------------------------------------
(* Settling a job *)

Settlers == Workers \cup Doing("disable") \cup Doing("revoke_all") \cup Doing("offboard")

\* An account disabled or sent off has been: only the cleanup is reported as
\* pending.  A revocation of its own is reported as failed.
Settled_Optimistic(x, pending) ==
  IF x \in Workers THEN agent' = [agent EXCEPT ![x].pc = "rest", ![x].job = "none"] ELSE Answer(x, "ok")
Settled(x, pending) ==
  IF x \in Workers THEN agent' = [agent EXCEPT ![x].pc = "rest", ![x].job = "none"]
  ELSE Answer(x, IF ~pending THEN "ok" ELSE IF Op(x) = "revoke_all" THEN "failed" ELSE "pending")

\* The walk over the sessions of the account ends them all, or fails on the way.
RevokeAllUserSessionsByAdmin(x) ==
  LET mine == InRedis(job[agent[x].job].user)
  IN /\ At(x, "revoke") /\ x \in Settlers
     /\ \/ session' = session \ mine /\ To(x, "resolve") /\ Fine
        \/ \E gone \in SUBSET mine : session' = session \ gone /\ To(x, "refail") /\ Fault
     /\ UNCHANGED <<status, stamp, directory, jobVars, recorded, walk>>

\* The first to finish resolves it and writes the event; the rest change nothing.
Resolved_Again(j) == [job EXCEPT ![j].status = "resolved", ![j].completed = @ + 1]
Resolved(j) ==
  IF job[j].status = "resolved" THEN job
  ELSE [job EXCEPT ![j].status = "resolved", ![j].completed = @ + 1]

Waiting(j) == {r \in Requests : agent[r].job = j /\ owed[r] \cap session # {}}

ResolveAccessRevocation(x) ==
  LET j == agent[x].job
  IN /\ At(x, "resolve") /\ x \in Settlers
     /\ \/ job' = Resolved(j) /\ overtaken' = overtaken \cup Waiting(j) /\ Settled(x, FALSE) /\ Fine
        \/ job' = Resolved(j) /\ overtaken' = overtaken \cup Waiting(j) /\ Settled(x, TRUE) /\ Fault
        \/ UNCHANGED <<job, overtaken>> /\ Settled(x, TRUE) /\ Fault
     /\ UNCHANGED <<status, stamp, directory, recorded, session, walk, owed>>

\* Only the first failure of a job is announced; a resolved job stays resolved.
Failed_Closed(j) == [job EXCEPT ![j].status = "resolved", ![j].completed = 1]
Failed(j) ==
  IF job[j].status # "pending" THEN job
  ELSE [job EXCEPT ![j].tries = @ + 1, ![j].degraded = @ + (IF job[j].tries = 0 THEN 1 ELSE 0)]

FailAccessRevocation(x) ==
  /\ At(x, "refail") /\ x \in Settlers
  /\ \/ job' = Failed(agent[x].job) /\ Fine
     \/ UNCHANGED job /\ Fault
  /\ Settled(x, TRUE)
  /\ UNCHANGED <<status, stamp, directory, recorded, session, walk, owed, overtaken>>

\* A pass of the ticker: the pending jobs, one after the other.
ListPending(w) ==
  /\ w \in Workers /\ At(w, "rest") /\ agent[w].queue = {}
  /\ \E list \in {{j \in Requests : job[j].status = "pending"}} :
       list # {} /\ agent' = [agent EXCEPT ![w].queue = list]
  /\ Fine /\ UNCHANGED <<status, stamp, directory, jobVars, recorded, session, walk>>

NextJob(w) ==
  /\ w \in Workers /\ At(w, "rest")
  /\ \E j \in agent[w].queue :
       agent' = [agent EXCEPT ![w].pc = "revoke", ![w].job = j, ![w].queue = @ \ {j}]
  /\ Fine /\ UNCHANGED <<status, stamp, directory, jobVars, recorded, session, walk>>

\* The process dies under a request that has committed, or under a pass.
Crash(x) ==
  /\ agent[x].pc \in {"revoke", "resolve", "refail"} /\ x \in Settlers
  /\ IF x \in Workers THEN agent' = [agent EXCEPT ![x].pc = "rest", ![x].job = "none", ![x].queue = {}]
     ELSE Answer(x, "none")
  /\ Fault /\ UNCHANGED <<status, stamp, directory, jobVars, recorded, session, walk>>

-----------------------------------------------------------------------------
(* One session of another account, and the accounts signing in *)

\* The session goes first, then the record of it.
RevokeUserSession(r) ==
  /\ Op(r) = "revoke_one" /\ At(r, "allowed")
  /\ \/ \E s \in InRedis(Of(r)) :
          /\ session' = session \ {s} /\ owed' = [owed EXCEPT ![r] = {s}]
          /\ To(r, "record") /\ Fine
     \/ InRedis(Of(r)) = {} /\ Answer(r, "refused") /\ UNCHANGED <<session, owed>> /\ Fine
     \/ Answer(r, "failed") /\ UNCHANGED <<session, owed>> /\ Fault
  /\ UNCHANGED <<status, stamp, directory, job, overtaken, recorded, walk>>

RecordTargetSessionRevocation(r) ==
  /\ Op(r) = "revoke_one" /\ At(r, "record")
  /\ \/ recorded' = recorded \cup {r} /\ Answer(r, "ok") /\ Fine
     \/ recorded' \in {recorded, recorded \cup {r}} /\ Answer(r, "failed") /\ Fault
  /\ UNCHANGED <<status, stamp, directory, jobVars, session, walk>>

\* A sign-in asks for the status of the account, and makes the session later.
CheckStatus(r) ==
  /\ Op(r) = "login" /\ At(r, "idle")
  /\ IF status[Of(r)] = "active" THEN To(r, "read") ELSE Answer(r, "refused")
  /\ Fine /\ UNCHANGED <<status, stamp, directory, jobVars, recorded, session, walk>>

SignIn(r) ==
  /\ Op(r) = "login" /\ At(r, "read")
  /\ session' = session \cup {<<r, Of(r)>>} /\ Answer(r, "ok")
  /\ Fine /\ UNCHANGED <<status, stamp, directory, jobVars, recorded, walk>>

-----------------------------------------------------------------------------
(* Reading the directory *)

Key(u) == <<stamp[u], Rank[u]>>
Less(a, b) == a[1] < b[1] \/ (a[1] = b[1] /\ a[2] < b[2])

\* Accounts of one moment are told apart by their identifiers.
Beyond_TimeOnly(r, u, at) == IF Flag(r) THEN Key(u)[1] < at[1] ELSE at[1] < Key(u)[1]
Beyond(r, u, at)          == IF Flag(r) THEN Less(Key(u), at) ELSE Less(at, Key(u))

\* The cursor is the key of the last account shown, signed together with the
\* order and the filters it belongs to.
ListUsers(r) ==
  LET rest == IF walk[r].at = <<>> THEN Users ELSE {u \in Users : Beyond(r, u, walk[r].at)}
  IN /\ Op(r) = "list" /\ agent[r].pc \in {"idle", "walking"}
     /\ \/ /\ rest = {} /\ Answer(r, "ok") /\ UNCHANGED walk
        \/ \E u \in rest :
             /\ \A v \in rest \ {u} : IF Flag(r) THEN Less(Key(v), Key(u)) ELSE Less(Key(u), Key(v))
             /\ walk' = [walk EXCEPT ![r] =
                  [at |-> Key(u), since |-> IF @.at = <<>> THEN stamp ELSE @.since,
                   seen |-> Append(@.seen, u)]]
             /\ IF Cardinality(rest) = 1 THEN Answer(r, "ok") ELSE To(r, "walking")
     /\ Fine /\ UNCHANGED <<status, stamp, directory, jobVars, recorded, session>>

-----------------------------------------------------------------------------
(* The system *)

Busy == {r \in Requests : agent[r].pc # "done"}

ChangeStatus == \E r \in Busy : DisableUser(r) \/ EnableUser(r)
Profiles     == \E r \in Busy : LinkEmployee(r) \/ UpdateEmployee(r) \/ OffboardEmployee(r)
Hierarchy    == \E r \in Busy : CreateDepartment(r) \/ UpdateDepartment(r) \/ DeleteDepartment(r)
Sessions     == \E r \in Busy : RevokeUserSessions(r) \/ RevokeUserSession(r)
                  \/ RecordTargetSessionRevocation(r) \/ CheckStatus(r) \/ SignIn(r)
Settle(x)    == RevokeAllUserSessionsByAdmin(x) \/ ResolveAccessRevocation(x) \/ FailAccessRevocation(x)
Tick(w)      == ListPending(w) \/ NextJob(w)

Next ==
  \/ ChangeStatus \/ Profiles \/ Hierarchy \/ Sessions
  \/ \E r \in Busy : Admit(r) \/ TxFails(r) \/ ListUsers(r)
  \/ \E x \in Busy \cup Workers : Settle(x) \/ Crash(x)
  \/ \E w \in Workers : Tick(w)

Spec == Init /\ [][Next]_workforceVars

-----------------------------------------------------------------------------
(* Properties *)

\* Every owner of a department and every supervisor is an active employee with
\* an active account, whatever disables, offboardings and reassignments meet
\* ("preserves the invariant", clearWorkforceAssignmentsTx).
AssignmentsInForce ==
  /\ \A d \in Depts : MayLead(dept[d].owner)
  /\ \A u \in Users : MayLead(profile[u].boss)

\* The departments are trees, none hangs below one that is gone, and every
\* employee, gone or not, belongs to one that is there.
HierarchySound ==
  /\ \A d \in Depts : dept[d].above # "none" =>
       dept[d].there /\ dept[dept[d].above].there /\ d \notin Upward(dept[d].above)
  /\ \A u \in Users : profile[u].state # "none" => dept[profile[u].dept].there

\* A job is announced as complete once, as degraded once at most, and an
\* account has one unresolved job for a reason.
JobsOnce ==
  /\ \A j \in Requests : /\ job[j].completed = (IF job[j].status = "resolved" THEN 1 ELSE 0)
                          /\ job[j].degraded <= 1
  /\ \A j \in Requests : job[j].status = "pending" =>
       Pending(job[j].user, job[j].reason) = {j}

\* The sessions a request was to end are gone or a job is pending for them, in
\* whatever order requests and tickers settle the same job and wherever one
\* of them dies; the exception is a request that joined a job another agent
\* was about to resolve (settleAccessRevocation).
OwedIsPending ==
  \A r \in Requests :
    \/ owed[r] \cap session = {} \/ r \in overtaken
    \/ agent[r].job \in Requests /\ job[agent[r].job].status = "pending"

\* What an administrator is told of the sessions holds: done means gone.
RevocationAnswersHold ==
  \A r \in Requests :
    /\ agent[r].answer = "ok" => owed[r] \cap session = {}
    /\ Op(r) = "revoke_one" /\ agent[r].answer = "ok" => r \in recorded

\* An account comes back without the sessions it was disabled to lose.
CleanReturn ==
  \A u \in Users : status[u] = "disabled" /\ status'[u] = "active" =>
    \A r \in Doing("disable") \ overtaken : Of(r) = u => owed[r] \cap session' = {}

\* A listing shows every account that did not change meanwhile exactly once.
ListedOnce ==
  \A r \in Lists : agent[r].answer = "ok" =>
    \A u \in Users : walk[r].since[u] = stamp[u] =>
      Cardinality({i \in DOMAIN walk[r].seen : walk[r].seen[i] = u}) = 1
=============================================================================
