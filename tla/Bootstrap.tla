------------------------------ MODULE Bootstrap ------------------------------
(***************************************************************************)
(* The commands an operator runs once: dreamup-bootstrap, which creates    *)
(* the application of DreamUP and keeps its only secret in a file, or      *)
(* verifies what is there; admin-policy-reconcile, which publishes a fixed *)
(* catalogue of policies; and admin-bootstrap, which does the same and     *)
(* then makes the first super administrator under two signed approvals.    *)
(* Runs overlap, fail, die and are started again, while the console and    *)
(* the publication reconciler work on the same rows.                       *)
(***************************************************************************)
EXTENDS Naturals, Sequences, FiniteSets

CONSTANTS
  Runs,        \* runs of the commands
  InputOf,     \* of a run: its command, the file for the secret, its approvals
  Catalog,     \* fixedPolicyCatalog: the policies, in order
  Files,       \* paths for the secret
  Batches,     \* model bound: which runs happen, and is the catalogue published already?
  MaxChanges,  \* model bound: changes from outside
  MaxFaults    \* model bound: failed calls, lost answers and deaths of a run

Op(r) == InputOf[r].op   \* "pair", "policy", "grant" or "verify"
Policies == {Catalog[i] : i \in DOMAIN Catalog}

BootstrapAssumption ==
  /\ \A r \in Runs : Op(r) \in {"pair", "policy", "grant", "verify"}
  /\ \A r \in Runs : InputOf[r].file \in Files \cup {"none"}
  /\ \A b \in Batches : b.runs \subseteq Runs /\ b.published \in BOOLEAN
  /\ MaxChanges \in Nat /\ MaxFaults \in Nat

VARIABLES
  pair,      \* of a pair run: its application and client, here and at the provider
  file,      \* of a path: the run that created it, and the secret it holds
  policy,    \* of a policy: the versions as they were meant, the selected one
  job,       \* policy_publication_jobs: of a run and a policy
  pdp,       \* the versions Cerbos holds
  rival,     \* policies with another published policy for the same action
  admin,     \* database: approvals, binding, challenge and event
  alive,     \* is the chosen person active, here and at the provider?
  run,       \* of a run: where it is, what it read, what it answered
  witness,   \* history: of a run, what held at some moment since it began
  batch,     \* what happens in this behaviour
  changes,   \* changes so far
  faults     \* failures so far

vars == <<pair, file, policy, job, pdp, rival, admin, alive, run, witness, batch, changes, faults>>
adminVars  == <<admin, alive>>
policyVars == <<policy, job, pdp, rival>>
pairVars   == <<pair, file>>

NoPair    == [prov |-> "absent", deleted |-> FALSE, named |-> FALSE, exact |-> FALSE,
              provider |-> "none", anchored |-> FALSE]
NoFile    == [by |-> "none", secret |-> "none"]
NoPolicy  == [meant |-> <<>>, draft |-> TRUE, selected |-> 0]
NoJob     == [version |-> 0, state |-> "none"]
NoAdmin   == [used |-> {}, by |-> "none", binding |-> "none", challenge |-> "none", event |-> FALSE]
Idle      == [pc |-> "idle", app |-> "none", next |-> 1, seen |-> 0, lost |-> FALSE,
              answer |-> "none"]
Published == [meant |-> <<TRUE>>, draft |-> FALSE, selected |-> 1]

At(r, l) == run[r].pc = l
To(r, l) == run' = [run EXCEPT ![r].pc = l]
Answer(r, a) == run' = [run EXCEPT ![r].pc = "done", ![r].answer = a]
Fault == faults < MaxFaults /\ faults' = faults + 1
Calm  == UNCHANGED faults

Init ==
  /\ batch \in Batches
  /\ pair = [r \in Runs |-> NoPair] /\ file = [f \in Files |-> NoFile]
  /\ policy = [p \in Policies |-> IF batch.published THEN Published ELSE NoPolicy]
  /\ pdp = IF batch.published THEN {<<p, 1>> : p \in Policies} ELSE {}
  /\ job = [r \in Runs |-> [p \in Policies |-> NoJob]]
  /\ rival = {} /\ admin = NoAdmin /\ alive = TRUE
  /\ run = [r \in Runs |-> Idle] /\ witness = [r \in Runs |-> {}]
  /\ changes = 0 /\ faults = 0

\* CommandTimeout, an outage or a defect: a call fails and the run ends.
Fails(r, l) == At(r, l) /\ Fault /\ Answer(r, "failed")

-----------------------------------------------------------------------------
(* dreamup-bootstrap *)

\* The partial unique index on the names of applications that are not deleted.
NameFree == \A a \in Runs : pair[a].named => pair[a].deleted

RowExact(a) ==
  /\ pair[a].prov = "provisioned" /\ pair[a].exact /\ pair[a].named /\ ~pair[a].deleted

\* FindProvisioningCandidates: failed and deleted rows too; a row that carries
\* the anchor of this command is preferred to one that only looks like it.
Anchored   == {a \in Runs : pair[a].anchored}
Known      == {a \in Runs : pair[a].prov # "absent"}
Candidates == IF Anchored # {} THEN Anchored ELSE Known

\* verify, the rows of the one candidate; what was read goes on to the provider.
Judge(r, a) ==
  IF RowExact(a) THEN run' = [run EXCEPT ![r].pc = "readback", ![r].app = a]
  ELSE Answer(r, "drift")

FindExisting(r) ==
  /\ At(r, "find") /\ Calm
  /\ CASE Candidates = {} -> To(r, "reserve")
       [] Cardinality(Candidates) > 1 -> Answer(r, "drift")
       [] OTHER -> \E a \in Candidates : Judge(r, a)
  /\ UNCHANGED pairVars

\* reserveCredentialFile: O_EXCL, in a directory of the owner alone.
ReserveCredentialFile_Truncates(r) ==
  /\ At(r, "reserve") /\ Calm
  /\ IF InputOf[r].file \in Files
     THEN /\ file' = [file EXCEPT ![InputOf[r].file] = [by |-> r, secret |-> "none"]]
          /\ To(r, "insert")
     ELSE Answer(r, "failed") /\ UNCHANGED file
  /\ UNCHANGED pair
ReserveCredentialFile(r) ==
  /\ At(r, "reserve") /\ Calm
  /\ IF InputOf[r].file \in Files /\ file[InputOf[r].file] = NoFile
     THEN /\ file' = [file EXCEPT ![InputOf[r].file] = [by |-> r, secret |-> "none"]]
          /\ To(r, "insert")
     ELSE Answer(r, "failed") /\ UNCHANGED file
  /\ UNCHANGED pair

\* The deferred abort: a run that gives up removes the file it reserved.
Abort(r) == file' = [file EXCEPT ![InputOf[r].file] = NoFile] /\ Answer(r, "failed")

\* CreateApplicationWithInitialClient.
Inserted == [NoPair EXCEPT !.prov = "provisioning", !.named = TRUE, !.exact = TRUE]
InsertPair_AnyName(r) ==
  /\ At(r, "insert")
  /\ \/ Calm /\ To(r, "provision") /\ pair' = [pair EXCEPT ![r] = Inserted]
        /\ UNCHANGED file
     \/ Fault /\ Abort(r) /\ pair' \in {pair, [pair EXCEPT ![r] = Inserted]}
InsertPair(r) ==
  /\ At(r, "insert")
  /\ \/ /\ NameFree /\ Calm /\ To(r, "provision")
        /\ pair' = [pair EXCEPT ![r] = Inserted] /\ UNCHANGED file
     \/ ~NameFree /\ Calm /\ Abort(r) /\ UNCHANGED pair
     \/ /\ NameFree /\ Fault /\ Abort(r)
        /\ pair' \in {pair, [pair EXCEPT ![r] = Inserted]}

\* ProvisionClient; a failure is recorded on the row, if the store lets it.
ProvisionPair(r) ==
  /\ At(r, "provision")
  /\ \/ /\ Calm /\ To(r, "complete") /\ pair' = [pair EXCEPT ![r].provider = "exact"]
        /\ UNCHANGED file
     \/ /\ Fault /\ Abort(r)
        /\ \E s \in {"none", "exact"}, l \in {"provisioning", "failed"} :
             pair' = [pair EXCEPT ![r].provider = s, ![r].prov = l]

\* CompleteInitialProvisioning writes the anchor; when it fails, or seems to,
\* the client at the provider is removed again.
Completed(r) == [pair[r] EXCEPT !.prov = "provisioned", !.anchored = TRUE]
CompletePair(r) ==
  /\ At(r, "complete")
  /\ \/ Calm /\ To(r, "store") /\ pair' = [pair EXCEPT ![r] = Completed(r)] /\ UNCHANGED file
     \/ /\ Fault /\ Abort(r)
        /\ \E row \in {pair[r], Completed(r)} :
             pair' = [pair EXCEPT ![r] = [row EXCEPT !.provider = "gone"]]

\* credential.store, before anything that can still fail is read back.
StoreSecret(r) ==
  /\ At(r, "store") /\ UNCHANGED pair
  /\ \/ Calm /\ file' = [file EXCEPT ![InputOf[r].file].secret = r] /\ To(r, "refind")
     \/ /\ Fault /\ file' = [file EXCEPT ![InputOf[r].file] = NoFile]
        /\ run' = [run EXCEPT ![r].pc = "done", ![r].answer = "failed", ![r].lost = TRUE]

\* Bootstrap reads its own creation back, and no other application; whatever
\* it finds, the file stays.
FindCreated_Aborts(r) ==
  /\ At(r, "refind") /\ Calm /\ UNCHANGED pair
  /\ IF Candidates = {r} THEN Judge(r, r) /\ UNCHANGED file ELSE Abort(r)
FindCreated(r) ==
  /\ At(r, "refind") /\ Calm
  /\ IF Candidates = {r} THEN Judge(r, r) ELSE Answer(r, "drift")
  /\ UNCHANGED pairVars

\* Provisioner.ReadClient: the client as the provider has it, all of its
\* configuration or nothing of it as this command would write it.
Snapshot(a) == pair[a].provider

\* verify, the read of the provider; created or verified is told by the run
\* that created it, and by every other.
ReadClient_Skipped(r) ==
  /\ At(r, "readback") /\ Calm
  /\ Answer(r, IF run[r].app = r THEN "created" ELSE "verified")
  /\ UNCHANGED pairVars
ReadClient(r) ==
  /\ At(r, "readback") /\ Calm
  /\ Answer(r, IF Snapshot(run[r].app) # "exact" THEN "drift"
               ELSE IF run[r].app = r THEN "created" ELSE "verified")
  /\ UNCHANGED pairVars

PairStep(r) ==
  /\ \/ FindExisting(r) \/ ReserveCredentialFile(r) \/ InsertPair(r) \/ ProvisionPair(r)
     \/ CompletePair(r) \/ StoreSecret(r) \/ FindCreated(r) \/ ReadClient(r)
     \/ \E l \in {"find", "refind", "readback"} : Fails(r, l) /\ UNCHANGED pairVars
  /\ UNCHANGED <<policyVars, adminVars, batch, changes>>

-----------------------------------------------------------------------------
(* The catalogue of policies *)

Wanted(r)  == Catalog[run[r].next]
Current(p) == Len(policy[p].meant)

\* detailMatches and publishedMatches: the content is the catalogue's.
Matches_Trusted(p, v) == v \in 1 .. Len(policy[p].meant)
Matches(p, v) == v \in 1 .. Len(policy[p].meant) /\ policy[p].meant[v]

Adopt(r, p) ==
  IF ~Matches(p, Current(p)) THEN Answer(r, "drift")
  ELSE run' = [run EXCEPT ![r].pc = IF policy[p].draft THEN "begin" ELSE "list",
                          ![r].seen = Current(p)]

\* findByName, at first and after another run won the insert.
FindByName(r) ==
  /\ At(r, "policy") /\ Calm
  /\ IF Current(Wanted(r)) = 0 THEN To(r, "create") ELSE Adopt(r, Wanted(r))
  /\ UNCHANGED policyVars

\* Create, under the unique index on names: a duplicate is adopted, not redone.
CreatePolicy(r) ==
  LET p == Wanted(r)
      Row == [policy EXCEPT ![p].meant = <<TRUE>>]
  IN
  /\ At(r, "create") /\ UNCHANGED <<job, pdp, rival>>
  /\ \/ /\ Current(p) = 0 /\ Calm /\ policy' = Row
        /\ run' = [run EXCEPT ![r].pc = "begin", ![r].seen = 1]
     \/ Current(p) > 0 /\ Calm /\ To(r, "policy") /\ UNCHANGED policy
     \/ Current(p) = 0 /\ Fault /\ Answer(r, "failed") /\ policy' \in {policy, Row}

Pending(p) == \E r \in Runs : job[r][p].state = "pending"

\* BeginPublication: the version that was read must be the working version,
\* and no other job of the policy may be pending.
BeginPolicy(r) ==
  LET p == Wanted(r)
      Row == [job EXCEPT ![r][p] = [version |-> run[r].seen, state |-> "pending"]]
      Can == Current(p) = run[r].seen /\ ~Pending(p)
  IN
  /\ At(r, "begin") /\ UNCHANGED <<policy, pdp, rival>>
  /\ \/ Can /\ Calm /\ To(r, "publish") /\ job' = Row
     \/ ~Can /\ Calm /\ Answer(r, "failed") /\ UNCHANGED job
     \/ Can /\ Fault /\ Answer(r, "failed") /\ job' \in {job, Row}

\* publisher.Publish; after a failure the job is failed, if the store lets it.
PublishPolicy(r) ==
  LET p == Wanted(r) IN
  /\ At(r, "publish") /\ UNCHANGED <<policy, rival>>
  /\ \/ Calm /\ To(r, "settle") /\ pdp' = pdp \cup {<<p, run[r].seen>>} /\ UNCHANGED job
     \/ /\ Fault /\ Answer(r, "failed")
        /\ pdp' \in {pdp, pdp \cup {<<p, run[r].seen>>}}
        /\ job' \in {job, [job EXCEPT ![r][p].state =
                             IF @ = "pending" THEN "failed" ELSE @]}

Select(p, v) == [policy EXCEPT ![p].selected = v, ![p].draft = @ /\ Current(p) # v]

\* CompletePublication: a job the reconciler completed first is fine, one it
\* failed is not.
CompletePolicy(r) ==
  LET p == Wanted(r)
      Open == job[r][p].state = "pending"
      Now  == /\ policy' = Select(p, job[r][p].version)
              /\ job' = [job EXCEPT ![r][p].state = "completed"]
  IN
  /\ At(r, "settle") /\ UNCHANGED <<pdp, rival>>
  /\ \/ Open /\ Calm /\ To(r, "list") /\ Now
     \/ /\ ~Open /\ Calm /\ UNCHANGED <<policy, job>>
        /\ IF job[r][p].state = "completed" THEN To(r, "list") ELSE Answer(r, "failed")
     \/ Open /\ Fault /\ Answer(r, "failed") /\ (Now \/ UNCHANGED <<policy, job>>)

\* readBackPublished: exactly this one policy decides about the action.
InForce(p, v) == policy[p].selected = v /\ Matches(p, v) /\ p \notin rival
ReadBackPublished_AnyCount(r) ==
  /\ At(r, "list") /\ Calm /\ UNCHANGED policyVars
  /\ IF policy[Wanted(r)].selected = run[r].seen THEN To(r, "check") ELSE Answer(r, "failed")
ReadBackPublished(r) ==
  /\ At(r, "list") /\ Calm /\ UNCHANGED policyVars
  /\ IF InForce(Wanted(r), run[r].seen) THEN To(r, "check") ELSE Answer(r, "failed")

\* readBackPDP: every role gets from Cerbos what the catalogue says; then on
\* to the next policy, and after the last one the command goes its way.
AfterCatalog(r) ==
  IF run[r].next < Len(Catalog)
  THEN run' = [run EXCEPT ![r].pc = "policy", ![r].next = @ + 1]
  ELSE IF Op(r) = "policy" THEN Answer(r, "ready") ELSE To(r, "identity")
ReadBackPDP(r) ==
  /\ At(r, "check") /\ Calm /\ UNCHANGED policyVars
  /\ IF <<Wanted(r), run[r].seen>> \in pdp THEN AfterCatalog(r) ELSE Answer(r, "failed")

PolicyStep(r) ==
  /\ \/ FindByName(r) \/ CreatePolicy(r) \/ BeginPolicy(r) \/ PublishPolicy(r)
     \/ CompletePolicy(r) \/ ReadBackPublished(r) \/ ReadBackPDP(r)
     \/ \E l \in {"policy", "list", "check"} : Fails(r, l) /\ UNCHANGED policyVars
  /\ UNCHANGED <<pairVars, adminVars, batch, changes>>

-----------------------------------------------------------------------------
(* admin-bootstrap *)

\* verifyIdentity, before anything is signed off or read.
VerifyIdentity(r) ==
  /\ At(r, "identity") /\ Calm /\ UNCHANGED adminVars
  /\ IF ~alive THEN Answer(r, "failed")
     ELSE To(r, IF Op(r) = "verify" THEN "state" ELSE "apply")

\* verifyApprovals: two, of two operators, signed for this change and in time.
VerifiedApprovals_AnyTwo(r) ==
  Cardinality(InputOf[r].approvals) = 2 /\ \A a \in InputOf[r].approvals : a.valid
VerifiedApprovals(r) ==
  /\ Cardinality(InputOf[r].approvals) = 2
  /\ \A a \in InputOf[r].approvals : a.valid
  /\ Cardinality({a.by : a \in InputOf[r].approvals}) = 2

\* The operators of a change are used up, whatever their approvals said.
Replayed(r) == \E a \in InputOf[r].approvals : a.by \in admin.used

\* Apply, one serializable transaction: approvals, event, role, challenge and
\* their audit; a second grant meets an approval, a role or a challenge there.
Granted(r) ==
  [used |-> admin.used \cup {a.by : a \in InputOf[r].approvals}, by |-> r,
   binding |-> "enabled", challenge |-> "fresh", event |-> TRUE]
Grantable(r) ==
  /\ VerifiedApprovals(r) /\ ~Replayed(r)
  /\ admin.binding # "enabled" /\ admin.challenge = "none" /\ ~admin.event
Apply_Piecemeal(r) ==
  /\ At(r, "apply") /\ UNCHANGED alive
  /\ \/ Grantable(r) /\ Calm /\ To(r, "state") /\ admin' = Granted(r)
     \/ ~Grantable(r) /\ Calm /\ Answer(r, "failed") /\ UNCHANGED admin
     \/ /\ Grantable(r) /\ Fault /\ Answer(r, "failed")
        /\ admin' \in {admin, [Granted(r) EXCEPT !.challenge = "none"]}
Apply(r) ==
  /\ At(r, "apply") /\ UNCHANGED alive
  /\ \/ Grantable(r) /\ Calm /\ To(r, "state") /\ admin' = Granted(r)
     \/ ~Grantable(r) /\ Calm /\ Answer(r, "failed") /\ UNCHANGED admin
     \/ Grantable(r) /\ Fault /\ Answer(r, "failed") /\ admin' \in {admin, Granted(r)}

\* Readback: what the grant left; only --verify-only compares it exactly.
StateExact == admin.binding = "enabled" /\ admin.challenge = "fresh" /\ admin.event
ReadState(r) ==
  /\ At(r, "state") /\ Calm /\ UNCHANGED adminVars
  /\ Answer(r, IF admin.binding # "enabled" THEN "failed"
               ELSE IF Op(r) = "grant" THEN "created"
               ELSE IF StateExact THEN "verified" ELSE "drift")

AdminStep(r) ==
  /\ \/ VerifyIdentity(r) \/ Apply(r) \/ ReadState(r)
     \/ \E l \in {"identity", "state"} : Fails(r, l) /\ UNCHANGED adminVars
  /\ UNCHANGED <<pairVars, policyVars, batch, changes>>

-----------------------------------------------------------------------------
(* What else happens *)

Start(r) ==
  /\ At(r, "idle") /\ Calm
  /\ To(r, IF Op(r) = "pair" THEN "find" ELSE "policy")
  /\ UNCHANGED <<pairVars, policyVars, adminVars, batch, changes>>

\* A run dies; what it reserved and committed stays.
Die(r) ==
  /\ run[r].pc \notin {"idle", "done", "dead"} /\ Fault
  /\ run' = [run EXCEPT ![r].pc = "dead", ![r].lost = At(r, "store")]
  /\ UNCHANGED <<pairVars, policyVars, adminVars, batch, changes>>

Change == changes < MaxChanges /\ changes' = changes + 1
Alone  == UNCHANGED <<run, faults, batch>>

\* The console edits, renames or deletes what a run has created.
EditPair(r) ==
  /\ Change /\ Alone /\ pair[r].prov = "provisioned" /\ pair[r].provider = "exact"
  /\ \E row \in {[pair[r] EXCEPT !.exact = FALSE, !.provider = "other"],
                 [pair[r] EXCEPT !.named = FALSE],
                 [pair[r] EXCEPT !.deleted = TRUE, !.provider = "gone"]} :
       pair' = [pair EXCEPT ![r] = row]
  /\ UNCHANGED <<file, policyVars, adminVars>>

\* An administrator edits a policy, or publishes one for the same action.
EditPolicy(p) ==
  /\ Change /\ Alone /\ policy[p].meant # <<>>
  /\ policy' = [policy EXCEPT ![p].meant = Append(@, FALSE), ![p].draft = TRUE]
  /\ UNCHANGED <<pairVars, job, pdp, rival, adminVars>>

AddRival(p) ==
  /\ Change /\ Alone /\ rival' = rival \cup {p}
  /\ UNCHANGED <<pairVars, policy, job, pdp, adminVars>>

\* The API server's reconciler takes up a pending job.
ReconcilePublication(r, p) ==
  /\ job[r][p].state = "pending" /\ UNCHANGED <<run, batch, pairVars, rival, adminVars, changes>>
  /\ \/ /\ Calm /\ pdp' = pdp \cup {<<p, job[r][p].version>>}
        /\ policy' = Select(p, job[r][p].version)
        /\ job' = [job EXCEPT ![r][p].state = "completed"]
     \/ /\ Fault /\ job' = [job EXCEPT ![r][p].state = "failed"]
        /\ UNCHANGED <<pdp, policy>>

\* The new administrator sets an own question, or loses role or account.
RotateChallenge ==
  /\ Change /\ Alone /\ admin.challenge = "fresh"
  /\ admin' = [admin EXCEPT !.challenge = "rotated"]
  /\ UNCHANGED <<pairVars, policyVars, alive>>

DisableBinding ==
  /\ Change /\ Alone /\ admin.binding = "enabled"
  /\ admin' = [admin EXCEPT !.binding = "disabled"]
  /\ UNCHANGED <<pairVars, policyVars, alive>>

DisableAccount ==
  /\ Change /\ Alone /\ alive /\ alive' = FALSE
  /\ UNCHANGED <<pairVars, policyVars, admin>>

Acts == {Op(r) : r \in batch.runs}
Outside ==
  \/ \E r \in batch.runs : EditPair(r)
  \/ \E p \in Policies, r \in batch.runs : ReconcilePublication(r, p)
  \/ Acts # {"pair"} /\ \E p \in Policies : EditPolicy(p) \/ AddRival(p)
  \/ RotateChallenge \/ DisableBinding
  \/ Acts \cap {"grant", "verify"} # {} /\ DisableAccount

\* What is true now, for the runs under way to remember.
Facts ==
  {<<"row", a>> : a \in {b \in Runs : RowExact(b)}}
  \cup {<<"provider", a>> : a \in {b \in Runs : pair[b].provider = "exact"}}
  \cup {<<"selected", p>> : p \in {q \in Policies :
          policy[q].selected > 0 /\ policy[q].meant[policy[q].selected] /\ q \notin rival}}
  \cup {<<"cerbos", p>> : p \in {q \in Policies : \E v \in DOMAIN policy[q].meant :
          policy[q].meant[v] /\ <<q, v>> \in pdp}}
  \cup (IF alive THEN {<<"person", "alive">>} ELSE {})
  \cup (IF StateExact THEN {<<"grant", "exact">>} ELSE {})

Watch ==
  witness' = [r \in Runs |-> IF run'[r].pc \in {"idle", "done", "dead"} THEN witness[r]
                             ELSE witness[r] \cup Facts']

Next ==
  /\ \/ \E r \in batch.runs : Start(r) \/ PairStep(r) \/ PolicyStep(r) \/ AdminStep(r) \/ Die(r)
     \/ Outside
  /\ Watch

Spec == Init /\ [][Next]_vars

-----------------------------------------------------------------------------
(* Properties *)

TypeOK ==
  /\ \A r \in Runs :
       /\ pair[r].prov \in {"absent", "provisioning", "provisioned", "failed"}
       /\ pair[r].provider \in {"none", "exact", "other", "gone"}
       /\ pair[r].anchored => pair[r].prov = "provisioned"
       /\ (run[r].answer # "none") <=> At(r, "done")
       /\ run[r].next \in DOMAIN Catalog
  /\ \A f \in Files : file[f].secret # "none" => file[f].secret = file[f].by
  /\ \A p \in Policies : policy[p].selected \in 0 .. Current(p)
  /\ admin.binding \in {"none", "enabled", "disabled"}
  /\ changes \in 0 .. MaxChanges /\ faults \in 0 .. MaxFaults

\* Two operators who both find nothing do not leave two applications of the
\* same name, and the anchor is put on one live application.
OneLivePair ==
  Cardinality({r \in Runs : pair[r].named /\ ~pair[r].deleted}) <= 1

\* The secret the provider shows once is in the file of the run that got it,
\* once its application is on record, unless that run died or failed at the
\* very writing: no drift, no failed read and no other run takes it away.
SecretKept ==
  \A r \in Runs :
    pair[r].anchored /\ pair[r].provider # "gone" /\ ~run[r].lost =>
      At(r, "store") \/ file[InputOf[r].file] = [by |-> r, secret |-> r]

\* A run that says created or verified, or ready, saw each thing it speaks of
\* as it should be at some moment after it had begun.
Vouched(r) ==
  CASE Op(r) = "pair" -> {<<"row", run[r].app>>, <<"provider", run[r].app>>}
    [] Op(r) = "policy" -> {"selected", "cerbos"} \X Policies
    [] Op(r) = "grant" -> ({"selected", "cerbos"} \X Policies) \cup {<<"person", "alive">>}
    [] OTHER -> ({"selected", "cerbos"} \X Policies)
                  \cup {<<"person", "alive">>, <<"grant", "exact">>}

AnswersVouched ==
  \A r \in Runs :
    run[r].answer \in {"created", "verified", "ready"} => Vouched(r) \subseteq witness[r]

\* The commands install what the catalogue says, and nothing else: a draft
\* somebody changed under its name is never published by them.
OnlyFixedPublished ==
  \A r \in Runs, p \in Policies : job[r][p].state # "none" => policy[p].meant[job[r][p].version]

\* The first super administrator is made by two operators, for a person who
\* was active, under policies that were in force, each since the run began.
GrantBacked ==
  admin.by # "none" =>
    /\ Cardinality({a.by : a \in InputOf[admin.by].approvals}) >= 2
    /\ ({"selected", "cerbos"} \X Policies) \cup {<<"person", "alive">>} \subseteq witness[admin.by]

\* Role, challenge, event and the spent approvals are there together or not
\* at all, whatever was lost on the way.
GrantWhole ==
  /\ (admin.binding # "none") <=> (admin.challenge # "none")
  /\ (admin.binding # "none") <=> admin.event
  /\ (admin.binding # "none") <=> (admin.used # {})
=============================================================================
