------------------------------ MODULE Policies ------------------------------
(***************************************************************************)
(* Authorization policies: drafts edited under optimistic versions, their  *)
(* publication, which installs a version in Cerbos under a durable job     *)
(* before the database selects it, the reconciler that takes up jobs left  *)
(* behind, and the decisions: a resolver lists the selected versions and   *)
(* asks Cerbos about exactly these, an editor simulates a draft.           *)
(***************************************************************************)
EXTENDS Naturals, Sequences

CONSTANTS
  PolicyIds,    \* policies
  Initial,      \* of a policy: its first content
  Requests,     \* HTTP requests
  InputOf,      \* of a request: its operation, policy, draft, attribute, role and status
  Batches,      \* what happens in a behaviour: requests, and are policies published already?
  Reconcilers,  \* instances of the publication reconciler
  Present,      \* values of the attribute a clause asks for
  MaxFaults     \* store errors, Cerbos errors and crashes to explore

Operators == {"equal", "not_equal", "in", "not_in"}

\* What a version says: its effect, and one clause over the attribute.
Contents == [effect : {"allow", "deny"}, operator : Operators, values : SUBSET Present]

PoliciesAssumption ==
  /\ Initial \in [PolicyIds -> Contents]
  /\ \A r \in Requests : InputOf[r].draft \in Contents
  /\ \A b \in Batches : b.requests \subseteq Requests /\ b.published \in BOOLEAN
  /\ MaxFaults \in Nat

VARIABLES
  version,     \* authorization_policy_versions: of a policy, the contents by version
  based,       \* of a policy: the version each of its versions was edited from
  published,   \* authorization_policies: the version selected for decisions, or 0
  job,         \* policy_publication_jobs: of a publishing request
  event,       \* security_events of a job
  installed,   \* the versions Cerbos holds
  agent,       \* of a request: where it is, what it read, what it answered
  worker,      \* of a reconciler: its claimed jobs and the one it works on
  batch,       \* what happens in this behaviour
  faults       \* faults so far

policyVars == <<version, based, published, job, event, installed, agent, worker, batch, faults>>

NoJob   == [policy |-> "none", version |-> 0, status |-> "none", aged |-> FALSE]
Rest    == [pc |-> "idle", seen |-> 0, list |-> {}, answer |-> "none"]
Idle    == [pc |-> "idle", todo |-> {}, job |-> "none"]

Op(r)       == InputOf[r].op
PolicyOf(r) == InputOf[r].policy
At(r, l)    == agent[r].pc = l
To(r, l)    == agent' = [agent EXCEPT ![r].pc = l]
Answer(r, a) == agent' = [agent EXCEPT ![r].pc = "done", ![r].answer = a]

current(p) == Len(version[p])

Fault == faults < MaxFaults /\ faults' = faults + 1

-----------------------------------------------------------------------------
(* What a policy means, to the editor's simulation and to Cerbos *)

matchesClause_NotInAsIn(actual, c) ==
  CASE c.operator = "equal"     -> c.values = {actual}
    [] c.operator = "not_equal" -> c.values # {actual}
    [] c.operator = "in"        -> actual \in c.values
    [] c.operator = "not_in"    -> actual \in c.values

matchesClause(actual, c) ==
  CASE c.operator = "equal"     -> c.values = {actual}
    [] c.operator = "not_equal" -> c.values # {actual}
    [] c.operator = "in"        -> actual \in c.values
    [] c.operator = "not_in"    -> actual \notin c.values

Verdict(c, matched) == IF matched THEN c.effect ELSE "no_match"

\* The expression Cerbos evaluates.
compileClause(c) ==
  CASE c.operator = "equal"     -> {a \in Present : {a} = c.values}
    [] c.operator = "not_equal" -> {a \in Present : {a} # c.values}
    [] c.operator = "in"        -> c.values
    [] c.operator = "not_in"    -> Present \ c.values

compilePolicy_NoFallback(c) ==
  [condition |-> compileClause(c), rule |-> c.effect, otherwise |-> "deny"]

\* The document of a version: one rule, and what Cerbos answers where the rule
\* does not match: a deny unless the document carries the allowing fallback.
compilePolicy(c) ==
  [condition |-> compileClause(c), rule |-> c.effect,
   otherwise |-> IF c.effect = "deny" THEN "allow" ELSE "deny"]

\* Cerbos denies what it has no document for.
Allows(p, v, attribute) ==
  /\ <<p, v>> \in installed
  /\ LET d == compilePolicy(version[p][v])
     IN  (IF attribute \in d.condition THEN d.rule ELSE d.otherwise) = "allow"

combineScopedPolicyDecisions_AnyAllow(list, attribute) ==
  \E s \in list : version[s[1]][s[2]].effect = "allow" /\ Allows(s[1], s[2], attribute)

\* Some allowing policy allows, and no denying one denies.
combineScopedPolicyDecisions(list, attribute) ==
  /\ \E s \in list : version[s[1]][s[2]].effect = "allow" /\ Allows(s[1], s[2], attribute)
  /\ \A s \in list : version[s[1]][s[2]].effect = "deny" => Allows(s[1], s[2], attribute)

-----------------------------------------------------------------------------
(* Editing *)

\* The editor opens the policy and sees its version.
GetPolicy(r) ==
  /\ Op(r) \in {"update", "publish"} /\ At(r, "idle") /\ current(PolicyOf(r)) > 0
  /\ agent' = [agent EXCEPT ![r].pc = "loaded", ![r].seen = current(PolicyOf(r))]
  /\ UNCHANGED <<version, based, published, job, event, installed, worker, batch, faults>>

Edited(r, base) ==
  /\ version' = [version EXCEPT ![PolicyOf(r)] = Append(@, InputOf[r].draft)]
  /\ based' = [based EXCEPT ![PolicyOf(r)] = Append(@, base)]

\* A transaction commits, and its answer arrives; or it is lost, or nothing is done.
Create(r) ==
  /\ Op(r) = "create" /\ At(r, "idle") /\ current(PolicyOf(r)) = 0
  /\ \/ Edited(r, 0) /\ Answer(r, "ok") /\ UNCHANGED faults
     \/ Edited(r, 0) /\ Answer(r, "error") /\ Fault
     \/ UNCHANGED <<version, based>> /\ Answer(r, "error") /\ Fault
  /\ UNCHANGED <<published, job, event, installed, worker, batch>>

Update_Blind(r) ==
  /\ Op(r) = "update" /\ At(r, "loaded")
  /\ Edited(r, agent[r].seen) /\ Answer(r, "ok")
  /\ UNCHANGED <<published, job, event, installed, worker, batch, faults>>

\* A draft is saved as the next version, if no other was saved meanwhile.
Update(r) ==
  /\ Op(r) = "update" /\ At(r, "loaded")
  /\ \/ /\ current(PolicyOf(r)) = agent[r].seen
        /\ Edited(r, agent[r].seen)
        /\ \/ Answer(r, "ok") /\ UNCHANGED faults
           \/ Answer(r, "error") /\ Fault
     \/ /\ current(PolicyOf(r)) # agent[r].seen
        /\ Answer(r, "conflict") /\ UNCHANGED <<version, based, faults>>
     \/ Answer(r, "error") /\ Fault /\ UNCHANGED <<version, based>>
  /\ UNCHANGED <<published, job, event, installed, worker, batch>>

-----------------------------------------------------------------------------
(* Publication *)

Active(j) == job[j].status \in {"pending", "running"}
Ended(j)  == job[j].status \in {"completed", "failed"}

BeginPublication_NoIndex(r) ==
  /\ Op(r) = "publish" /\ At(r, "loaded")
  /\ job' = [job EXCEPT ![r] = [policy |-> PolicyOf(r), version |-> agent[r].seen,
                                status |-> "pending", aged |-> FALSE]]
  /\ To(r, "begun")
  /\ UNCHANGED <<version, based, published, event, installed, worker, batch, faults>>

\* The job of a publication, for the working version and one at a time.
BeginPublication(r) ==
  /\ Op(r) = "publish" /\ At(r, "loaded")
  /\ LET p == PolicyOf(r)
         free == current(p) = agent[r].seen /\ \A j \in Requests : job[j].policy = p => ~Active(j)
         begun == job' = [job EXCEPT ![r] = [policy |-> p, version |-> agent[r].seen,
                                             status |-> "pending", aged |-> FALSE]]
     IN  \/ free /\ begun /\ To(r, "begun") /\ UNCHANGED faults
         \/ free /\ begun /\ Answer(r, "error") /\ Fault
         \/ ~free /\ Answer(r, "conflict") /\ UNCHANGED <<job, faults>>
         \/ Answer(r, "error") /\ Fault /\ UNCHANGED job
  /\ UNCHANGED <<version, based, published, event, installed, worker, batch>>

Exact(j) == <<job[j].policy, job[j].version>>

\* Cerbos takes the version, or fails, perhaps after taking it.
Install(j) == installed' = installed \cup {Exact(j)} /\ UNCHANGED faults
InstallFails(j) == Fault /\ installed' \in {installed, installed \cup {Exact(j)}}

\* The job's version is selected, unless the job was given up.
Completed(j) ==
  /\ Active(j)
  /\ published' = [published EXCEPT ![job[j].policy] = job[j].version]
  /\ job' = [job EXCEPT ![j].status = "completed"]
  /\ event' = [event EXCEPT ![j] = Append(@, "published")]

Failed(j) ==
  /\ Active(j)
  /\ job' = [job EXCEPT ![j].status = "failed"]
  /\ event' = [event EXCEPT ![j] = Append(@, "failed")]

CompletePublication_GivenUpToo(j) ==
  IF job[j].status # "completed"
  THEN /\ published' = [published EXCEPT ![job[j].policy] = job[j].version]
       /\ job' = [job EXCEPT ![j].status = "completed"]
       /\ event' = [event EXCEPT ![j] = Append(@, "published")]
  ELSE UNCHANGED <<published, job, event>>

\* A completed job stays so, a failed one is an error.
CompletePublication(j) == Completed(j) \/ (Ended(j) /\ UNCHANGED <<published, job, event>>)

FailPublication_Ended(j) ==
  /\ job' = [job EXCEPT ![j].status = "failed"]
  /\ event' = [event EXCEPT ![j] = Append(@, "failed")]

FailPublication(j) == Failed(j) \/ (Ended(j) /\ UNCHANGED <<job, event>>)

PublishHandler_Installs(r) ==
  /\ Op(r) = "publish" /\ At(r, "begun")
  /\ (Install(r) \/ InstallFails(r)) /\ To(r, "installed")
  /\ UNCHANGED <<version, based, published, job, event, worker, batch>>

\* The handler of a publication installs its version itself.
PublishHandler(r) ==
  /\ Op(r) = "publish" /\ At(r, "begun")
  /\ \/ Install(r) /\ To(r, "installed")
     \/ InstallFails(r) /\ To(r, "refused")
  /\ UNCHANGED <<version, based, published, job, event, worker, batch>>

\* Then it completes the job, or gives it up as far as it can.
PublishSettles(r) ==
  /\ Op(r) = "publish"
  /\ \/ /\ At(r, "installed")
        /\ \/ /\ CompletePublication(r) /\ UNCHANGED faults
              /\ Answer(r, IF job[r].status = "failed" THEN "error" ELSE "ok")
           \/ /\ CompletePublication(r) \/ UNCHANGED <<published, job, event>>
              /\ Answer(r, "error") /\ Fault
     \/ /\ At(r, "refused") /\ UNCHANGED published
        /\ \/ FailPublication(r) /\ Answer(r, "provider") /\ UNCHANGED faults
           \/ UNCHANGED <<job, event>> /\ Answer(r, "doubt") /\ Fault
  /\ UNCHANGED <<version, based, installed, worker, batch>>

Crash(r) ==
  /\ agent[r].pc \notin {"idle", "done"} /\ Answer(r, "gone") /\ Fault
  /\ UNCHANGED <<version, based, published, job, event, installed, worker, batch>>

Claimable(j) == job[j].status = "pending" \/ (job[j].status = "running" /\ job[j].aged)

\* The reconciler takes up pending jobs at once, running ones after five minutes.
ClaimPublicationJobs(w) ==
  /\ worker[w].pc = "idle"
  /\ LET jobs == {j \in Requests : Claimable(j)}
     IN  /\ jobs # {}
         /\ job' = [j \in Requests |->
              IF j \in jobs THEN [job[j] EXCEPT !.status = "running", !.aged = FALSE] ELSE job[j]]
         /\ worker' = [worker EXCEPT ![w] = [pc |-> "jobs", todo |-> jobs, job |-> "none"]]
  /\ UNCHANGED <<version, based, published, event, installed, agent, batch, faults>>

\* It installs the exact version of the job, though a newer draft may exist.
runJob(w) ==
  /\ worker[w].pc = "jobs"
  /\ \E j \in worker[w].todo :
       \/ /\ Install(j)
          /\ worker' = [worker EXCEPT ![w] = [pc |-> "installed", todo |-> @.todo \ {j}, job |-> j]]
       \/ /\ InstallFails(j)
          /\ worker' = [worker EXCEPT ![w] = [pc |-> "refused", todo |-> @.todo \ {j}, job |-> j]]
  /\ UNCHANGED <<version, based, published, job, event, agent, batch>>

\* And completes the job or gives it up; an error leaves it running.
SettleJob(w) ==
  LET j == worker[w].job
  IN  /\ \/ /\ worker[w].pc = "installed"
            /\ \/ CompletePublication(j) /\ UNCHANGED faults
               \/ (CompletePublication(j) \/ UNCHANGED <<published, job, event>>) /\ Fault
         \/ /\ worker[w].pc = "refused" /\ UNCHANGED published
            /\ \/ FailPublication(j) /\ UNCHANGED faults
               \/ UNCHANGED <<job, event>> /\ Fault
      /\ worker' = [worker EXCEPT ![w].pc = IF worker[w].todo = {} THEN "idle" ELSE "jobs",
                                  ![w].job = "none"]
      /\ UNCHANGED <<version, based, installed, agent, batch>>

WorkerCrash(w) ==
  /\ worker[w].pc # "idle" /\ Fault
  /\ worker' = [worker EXCEPT ![w] = Idle]
  /\ UNCHANGED <<version, based, published, job, event, installed, agent, batch>>

JobAges(j) ==
  /\ job[j].status = "running" /\ ~job[j].aged
  /\ job' = [job EXCEPT ![j].aged = TRUE]
  /\ UNCHANGED <<version, based, published, event, installed, agent, worker, batch, faults>>

-----------------------------------------------------------------------------
(* Decisions *)

ListPublished_Working(r) ==
  /\ Op(r) \in {"check", "resolve"} /\ At(r, "idle")
  /\ agent' = [agent EXCEPT ![r].pc = "listed", ![r].list =
       {<<p, current(p)>> : p \in {q \in PolicyIds : current(q) > 0}}]
  /\ UNCHANGED <<version, based, published, job, event, installed, worker, batch, faults>>

\* The role's floor is checked, then the selected versions are listed.
ListPublished(r) ==
  /\ Op(r) \in {"check", "resolve"} /\ At(r, "idle")
  /\ agent' = [agent EXCEPT ![r].pc = "listed", ![r].list =
       {<<p, published[p]>> : p \in {q \in PolicyIds : published[q] > 0}}]
  /\ UNCHANGED <<version, based, published, job, event, installed, worker, batch, faults>>

\* Cerbos decides on the listed versions; whatever it says, a fixed role and
\* the state of the account come first, and an error denies.
Check(r) ==
  /\ Op(r) = "check" /\ At(r, "listed")
  /\ LET in == InputOf[r]
     IN  \/ /\ UNCHANGED faults
            /\ Answer(r, IF in.allowed /\ in.active /\ agent[r].list # {}
                            /\ combineScopedPolicyDecisions(agent[r].list, in.attribute)
                         THEN "allow" ELSE "deny")
         \/ Answer(r, "deny") /\ Fault
  /\ UNCHANGED <<version, based, published, job, event, installed, worker, batch>>

\* The capabilities of the console: the same combination, for an employee who is
\* not leaving.
Resolve(r) ==
  /\ Op(r) = "resolve" /\ At(r, "listed")
  /\ \/ /\ UNCHANGED faults
        /\ Answer(r, IF /\ InputOf[r].active
                         /\ combineScopedPolicyDecisions(agent[r].list, InputOf[r].attribute)
                      THEN "allow" ELSE "deny")
     \/ Answer(r, "deny") /\ Fault
  /\ UNCHANGED <<version, based, published, job, event, installed, worker, batch>>

\* The simulation of the working version, on attributes the editor gives.
Simulate(r) ==
  /\ Op(r) = "simulate" /\ At(r, "idle") /\ current(PolicyOf(r)) > 0
  /\ LET v == current(PolicyOf(r))
         c == version[PolicyOf(r)][v]
     IN  agent' = [agent EXCEPT ![r].pc = "done", ![r].seen = v,
                                ![r].answer = Verdict(c, matchesClause(InputOf[r].attribute, c))]
  /\ UNCHANGED <<version, based, published, job, event, installed, worker, batch, faults>>

-----------------------------------------------------------------------------

Init ==
  /\ batch \in Batches
  /\ version = [p \in PolicyIds |-> IF batch.published THEN <<Initial[p]>> ELSE <<>>]
  /\ based = [p \in PolicyIds |-> IF batch.published THEN <<0>> ELSE <<>>]
  /\ published = [p \in PolicyIds |-> IF batch.published THEN 1 ELSE 0]
  /\ installed = IF batch.published THEN PolicyIds \X {1} ELSE {}
  /\ job = [r \in Requests |-> NoJob]
  /\ event = [r \in Requests |-> <<>>]
  /\ agent = [r \in Requests |-> Rest]
  /\ worker = [w \in Reconcilers |-> Idle]
  /\ faults = 0

Serve(r) ==
  \/ GetPolicy(r) \/ Create(r) \/ Update(r)
  \/ BeginPublication(r) \/ PublishHandler(r) \/ PublishSettles(r)
  \/ ListPublished(r) \/ Check(r) \/ Resolve(r) \/ Simulate(r)

Work(w) == ClaimPublicationJobs(w) \/ runJob(w) \/ SettleJob(w)

Next ==
  \/ \E r \in batch.requests : Serve(r) \/ Crash(r) \/ JobAges(r)
  \/ \E w \in Reconcilers : Work(w) \/ WorkerCrash(w)

Spec == Init /\ [][Next]_policyVars

-----------------------------------------------------------------------------
(* Properties *)

\* Versions, jobs and answers keep their shape.
TypeOK ==
  /\ \A p \in PolicyIds : /\ version[p] \in Seq(Contents) /\ Len(based[p]) = Len(version[p])
                          /\ published[p] \in 0..Len(version[p])
  /\ \A j \in Requests : /\ job[j].status \in {"none", "pending", "running", "completed", "failed"}
                         /\ job[j].aged \in BOOLEAN
  /\ installed \subseteq PolicyIds \X Nat /\ faults \in 0..MaxFaults

\* The database selects only what Cerbos holds: an orphan of a publication that
\* failed is "never selected for authorization" (the comment of Publish).
SelectedIsInstalled ==
  \A p \in PolicyIds : published[p] > 0 => <<p, published[p]>> \in installed

\* The selected version never goes back, however late a publication settles.
PublishedForward == \A p \in PolicyIds : published'[p] >= published[p]

\* A job ends once, with the event of its end, though handler and reconcilers
\* work on it at the same time.
EndsOnce ==
  \A j \in Requests : event[j] = IF job[j].status = "completed" THEN <<"published">>
                                 ELSE IF job[j].status = "failed" THEN <<"failed">> ELSE <<>>

\* A publication that was answered with success is selected, or was until a
\* newer one came; one answered as the provider's failure is over, and never
\* comes back later.
PublicationAnswersHold ==
  \A r \in Requests : Op(r) = "publish" =>
    /\ agent[r].answer = "ok" => /\ job[r].status = "completed"
                                 /\ published[job[r].policy] >= job[r].version
    /\ agent[r].answer = "provider" => Ended(r)

\* No draft is lost: each version was edited from the one before it.
NoDraftLost == \A p \in PolicyIds : \A v \in DOMAIN based[p] : based[p][v] = v - 1

\* What a content means, read as the editor reads it.
Means(s, attribute) ==
  LET c == version[s[1]][s[2]]
  IN  Verdict(c, IF c.operator \in {"equal", "in"} THEN attribute \in c.values
                 ELSE attribute \notin c.values)

\* A decision is what the listed, selected versions mean: allowed by one,
\* denied by none, for a role that may, where roles are asked for, and an account
\* in order; a decision that met an error is a denial.
DecisionSound ==
  \A r \in Requests : Op(r) \in {"check", "resolve"} /\ agent[r].answer \in {"allow", "deny"} =>
    LET meant == {Means(s, InputOf[r].attribute) : s \in agent[r].list}
        granted == /\ "allow" \in meant /\ "deny" \notin meant
                   /\ Op(r) = "check" => InputOf[r].allowed
                   /\ InputOf[r].active
    IN  /\ agent[r].answer = "allow" => granted
        /\ granted /\ faults = 0 => agent[r].answer = "allow"
        /\ \A s \in agent[r].list : s[2] <= published[s[1]]

\* The simulation shows what the version will mean once it is published.
SimulationTrue ==
  \A r \in Requests : Op(r) = "simulate" /\ agent[r].answer # "none" =>
    LET c == version[PolicyOf(r)][agent[r].seen]
        d == compilePolicy(c)
    IN  agent[r].answer = Verdict(c, InputOf[r].attribute \in d.condition)
=============================================================================
