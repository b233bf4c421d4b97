--------------------------- MODULE ConsentDecision ---------------------------
(***************************************************************************)
(* The decision of OAuth authorization requests (ADR-0005): the interaction*)
(* gateway, the interactive and the silent decision, the operation row     *)
(* that is claimed once per request, the one-shot completion at the        *)
(* provider, the proof of its success, the local commit of grant and audit,*)
(* the background reconciler, and the revocation of grants.  One client is *)
(* modelled: rows and grants of different clients never meet.              *)
(*                                                                         *)
(* A browser runs one HTTP request.  Every step is one statement or        *)
(* transaction on PostgreSQL, or one call of the provider.                 *)
(***************************************************************************)
EXTENDS Naturals, FiniteSets

CONSTANTS
  Browsers,       \* runs of the gateway or of the decision handler
  Reconcilers,    \* server instances: one reconciler each
  AuthRequests,   \* provider authorization requests
  Users,
  Prompt,         \* prompt of a request: "none", "consent" or "create"
  Asks,           \* scopes of a request, as the provider keeps them
  Poisoned,       \* requests whose operation row is corrupted out of band
  Batch,          \* rows a reconciliation pass lists
  MaxFaults       \* model bound: crashes and failed statements

ASSUME ConsentAssumption ==
  /\ Prompt \in [AuthRequests -> {"none", "consent", "create"}]
  /\ Poisoned \subseteq AuthRequests
  /\ Batch \in Nat \ {0} /\ MaxFaults \in Nat

VARIABLES
  provider,  \* external: state of a request there, and how it was completed
  row,       \* oauth_authorization_decision_operations
  grant,     \* oauth_authorization_grants with their scopes
  audits,    \* canonical completion events per request
  clock,     \* orders created_at and revoked_at
  pc,        \* next step of each browser's request
  job,       \* [req, user, kind] a browser's request works on
  reply,     \* its HTTP answer
  pass,      \* rows [req, st] a reconciliation pass has still to visit
  faults     \* crashes and failures spent of MaxFaults

dataVars    == <<row, grant, audits>>
browserVars == <<pc, job, reply>>
vars == <<provider, dataVars, clock, browserVars, pass, faults>>

-----------------------------------------------------------------------------
(* Types *)

Kinds  == {"allow", "deny", "error"}
Scopes == UNION {Asks[a] : a \in AuthRequests}
Labels == {"start", "precheck", "prescopes", "silent", "recheck", "rescopes", "errorRead",
           "claim", "complete", "fail", "prove", "commit", "repair", "done", "crashed"}

Nobody == "none"
NoJob  == [req |-> Nobody, user |-> Nobody, kind |-> "none"]

TypeOK ==
  /\ provider \in [AuthRequests -> [st: {"open", "expired", "done"},
                                    kind: Kinds \cup {"none"}, user: Users \cup {Nobody}]]
  /\ row \in [AuthRequests ->
       [st: {"none", "pending", "provider_succeeded", "succeeded", "failed"},
        kind: Kinds \cup {"none"}, user: Users \cup {Nobody}, at: Nat, stale: BOOLEAN]]
  /\ grant \in [Users -> [st: {"none", "active", "revoked"}, scopes: SUBSET Scopes,
                          revokedAt: Nat]]
  /\ audits \in [AuthRequests -> Nat]
  /\ clock \in Nat
  /\ pc \in [Browsers -> Labels]
  /\ job \in [Browsers -> [req: AuthRequests \cup {Nobody}, user: Users \cup {Nobody},
                           kind: Kinds \cup {"none"}]]
  /\ reply \in [Browsers -> {"none", "callback", "decided", "expired", "relogin", "error"}]
  /\ pass \in [Reconcilers ->
       SUBSET [req: AuthRequests, st: {"pending", "provider_succeeded"}]]
  /\ faults \in Nat

Init ==
  /\ provider = [a \in AuthRequests |-> [st |-> "open", kind |-> "none", user |-> Nobody]]
  /\ row = [a \in AuthRequests |-> [st |-> "none", kind |-> "none", user |-> Nobody,
                                    at |-> 0, stale |-> FALSE]]
  /\ grant = [u \in Users |-> [st |-> "none", scopes |-> {}, revokedAt |-> 0]]
  /\ audits = [a \in AuthRequests |-> 0]
  /\ clock = 0
  /\ pc = [b \in Browsers |-> "start"]
  /\ job = [b \in Browsers |-> NoJob]
  /\ reply = [b \in Browsers |-> "none"]
  /\ pass = [r \in Reconcilers |-> {}]
  /\ faults = 0

-----------------------------------------------------------------------------
(* Operators *)

Stumble == faults < MaxFaults /\ faults' = faults + 1

Goto(b, l) == pc' = [pc EXCEPT ![b] = l] /\ UNCHANGED <<job, reply>>

End(b, answer) == /\ pc' = [pc EXCEPT ![b] = "done"]
                  /\ reply' = [reply EXCEPT ![b] = answer]
                  /\ UNCHANGED job

Open(b) == provider[job[b].req].st = "open"

\* FailDecisionOperation: pending rows only.
FailRow_AnyInFlight(a) ==
  /\ row[a].st \in {"pending", "provider_succeeded"}
  /\ row' = [row EXCEPT ![a].st = "failed"]
  /\ UNCHANGED <<grant, audits>>
FailRow(a) ==
  /\ row[a].st = "pending"
  /\ row' = [row EXCEPT ![a].st = "failed"]
  /\ UNCHANGED <<grant, audits>>

\* The commit transactions: only with the proof, everything from the locked
\* row.  A grant is inserted or reactivated and its scopes are replaced.
Committable_Again(a) == row[a].st \in {"provider_succeeded", "succeeded"}
Committable(a) == row[a].st = "provider_succeeded" /\ a \notin Poisoned

Commit(a) ==
  /\ Committable(a)
  /\ row' = [row EXCEPT ![a].st = "succeeded"]
  /\ audits' = [audits EXCEPT ![a] = @ + 1]
  /\ grant' = IF row[a].kind # "allow" THEN grant ELSE
       [grant EXCEPT ![row[a].user] = [st |-> "active", scopes |-> Asks[a], revokedAt |-> 0]]

\* repairCompletionForward, whose result every caller ignores.
RepairForward(a) ==
  \/ Commit(a) /\ UNCHANGED faults
  \/ ~Committable(a) /\ UNCHANGED <<dataVars, faults>>
  \/ Stumble /\ (Commit(a) \/ UNCHANGED dataVars)

-----------------------------------------------------------------------------
(* From the arrival to the claim *)

\* Decide and CompleteWithErrorCallback read the request and go on to claim
\* it.  A request that is gone, stale or invalid ends as expired, a session
\* without a usable credential as a new login.
ArriveInteractive(b, a, u) ==
  /\ pc[b] = "start" /\ Prompt[a] # "none"
  /\ \E k \in IF Prompt[a] = "consent" THEN {"allow", "deny"} ELSE {"error"} :
       job' = [job EXCEPT ![b] = [req |-> a, user |-> u, kind |-> k]]
  /\ \/ /\ provider[a].st = "open"
        /\ pc' = [pc EXCEPT ![b] = "claim"]
        /\ UNCHANGED reply
     \/ /\ pc' = [pc EXCEPT ![b] = "done"]
        /\ \E answer \in {"expired", "relogin"} : reply' = [reply EXCEPT ![b] = answer]
  /\ UNCHANGED <<provider, dataVars, clock, pass, faults>>

\* executeNone: without a fresh session the answer is login_required.
ArriveSilent(b, a, u) ==
  /\ pc[b] = "start" /\ Prompt[a] = "none"
  /\ job' = [job EXCEPT ![b] = [req |-> a, user |-> u, kind |-> "allow"]]
  /\ \/ /\ provider[a].st = "open"
        /\ \E fresh \in BOOLEAN :
             pc' = [pc EXCEPT ![b] = IF fresh THEN "precheck" ELSE "errorRead"]
        /\ UNCHANGED reply
     \/ /\ provider[a].st # "open"
        /\ pc' = [pc EXCEPT ![b] = "done"]
        /\ reply' = [reply EXCEPT ![b] = "expired"]
  /\ UNCHANGED <<provider, dataVars, clock, pass, faults>>

\* grantReusable reads the grant and then its scopes, twice: for the gateway's
\* choice of branch and as DecideSilently's authoritative check.
GrantStatus(b) ==
  /\ pc[b] \in {"precheck", "recheck"}
  /\ Goto(b, IF grant[job[b].user].st # "active" THEN "errorRead"
             ELSE IF pc[b] = "precheck" THEN "prescopes" ELSE "rescopes")
  /\ UNCHANGED <<provider, dataVars, clock, pass, faults>>

\* A session without a usable credential is answered with login_required.
GrantScopes(b) ==
  LET contained == Asks[job[b].req] \subseteq grant[job[b].user].scopes IN
  /\ pc[b] \in {"prescopes", "rescopes"}
  /\ \/ ~contained /\ Goto(b, "errorRead")
     \/ contained /\ Goto(b, IF pc[b] = "prescopes" THEN "silent" ELSE "claim")
     \/ contained /\ pc[b] = "rescopes" /\ Goto(b, "errorRead")
  /\ UNCHANGED <<provider, dataVars, clock, pass, faults>>

\* DecideSilently reads and checks the request and the freshness again.
ReadSilent(b) ==
  /\ pc[b] = "silent"
  /\ \/ Open(b) /\ Goto(b, "recheck")
     \/ End(b, "expired")
  /\ UNCHANGED <<provider, dataVars, clock, pass, faults>>

\* CompleteWithErrorCallback: the same request, for an error callback.
ReadForError(b) ==
  /\ pc[b] = "errorRead"
  /\ job' = [job EXCEPT ![b].kind = "error"]
  /\ \/ Open(b) /\ pc' = [pc EXCEPT ![b] = "claim"] /\ UNCHANGED reply
     \/ /\ pc' = [pc EXCEPT ![b] = "done"]
        /\ reply' = [reply EXCEPT ![b] = "expired"]
  /\ UNCHANGED <<provider, dataVars, clock, pass, faults>>

-----------------------------------------------------------------------------
(* claimCompleteAndCommit *)

Insert(b) ==
  LET a == job[b].req IN
  /\ row' = [row EXCEPT ![a] = [st |-> "pending", kind |-> job[b].kind, user |-> job[b].user,
                                at |-> clock + 1, stale |-> FALSE]]
  /\ clock' = clock + 1
  /\ UNCHANGED <<grant, audits>>

\* INSERT ... ON CONFLICT DO NOTHING; rows are never deleted, so the read
\* after a conflict decides the answer.
Claimable_AfterFailure(a) == row[a].st \in {"none", "failed"}
Claimable(a) == row[a].st = "none"

Claim(b) ==
  LET a == job[b].req IN
  /\ pc[b] = "claim"
  /\ \/ Claimable(a) /\ Insert(b) /\ Goto(b, "complete") /\ UNCHANGED faults
     \/ /\ ~Claimable(a)
        /\ IF row[a].st = "provider_succeeded" THEN Goto(b, "repair") ELSE End(b, "decided")
        /\ UNCHANGED <<dataVars, clock, faults>>
     \/ /\ Stumble
        /\ \/ Claimable(a) /\ Insert(b)
           \/ UNCHANGED <<dataVars, clock>>
        /\ End(b, "error")
  /\ UNCHANGED <<provider, pass>>

\* The one-shot CreateCallback: done, refused, or done with the answer lost.
Complete_ErrorIgnored(b) ==
  /\ pc[b] = "complete"
  /\ \/ provider' = [provider EXCEPT ![job[b].req] =
                       [st |-> "done", kind |-> job[b].kind, user |-> job[b].user]]
     \/ UNCHANGED provider
  /\ Goto(b, "prove")
  /\ UNCHANGED <<dataVars, clock, pass, faults>>
Complete(b) ==
  LET a == job[b].req
      finish == /\ provider[a].st = "open"
                /\ provider' = [provider EXCEPT ![a] =
                     [st |-> "done", kind |-> job[b].kind, user |-> job[b].user]] IN
  /\ pc[b] = "complete"
  /\ \/ finish /\ Goto(b, "prove")
     \/ finish /\ Goto(b, "fail")
     \/ UNCHANGED provider /\ Goto(b, "fail")
  /\ UNCHANGED <<dataVars, clock, pass, faults>>

\* handleProviderFailure: the store's answer is ignored.
Fail(b) ==
  LET a == job[b].req IN
  /\ pc[b] = "fail"
  /\ \/ FailRow(a) /\ UNCHANGED faults
     \/ row[a].st # "pending" /\ UNCHANGED <<dataVars, faults>>
     \/ Stumble /\ (FailRow(a) \/ UNCHANGED dataVars)
  /\ End(b, "error")
  /\ UNCHANGED <<provider, clock, pass>>

\* RecordProviderSucceeded; any error of it hides the callback.
Provable_Failed(a) == row[a].st \in {"pending", "failed"}
Provable(a) == row[a].st = "pending"

Prove(b) ==
  LET a == job[b].req
      proof == /\ Provable(a)
               /\ row' = [row EXCEPT ![a].st = "provider_succeeded"] IN
  /\ pc[b] = "prove"
  /\ \/ proof /\ Goto(b, "commit") /\ UNCHANGED faults
     \/ ~Provable(a) /\ End(b, "decided") /\ UNCHANGED <<row, faults>>
     \/ Stumble /\ (proof \/ UNCHANGED row) /\ End(b, "decided")
  /\ UNCHANGED <<provider, grant, audits, clock, pass>>

CommitAndAnswer(b) ==
  /\ pc[b] = "commit"
  /\ RepairForward(job[b].req) /\ End(b, "callback")
  /\ UNCHANGED <<provider, clock, pass>>

\* resolveClaimConflict
RepairAsLoser(b) ==
  /\ pc[b] = "repair"
  /\ RepairForward(job[b].req) /\ End(b, "decided")
  /\ UNCHANGED <<provider, clock, pass>>

-----------------------------------------------------------------------------
(* The reconciler *)

InFlight_AllButFailed(a) == row[a].st \notin {"none", "failed"}
InFlight(a) == row[a].st = "provider_succeeded" \/ (row[a].st = "pending" /\ row[a].stale)

\* The five minutes of DefaultPendingStaleAfter pass.
GrowStale(a) ==
  /\ row[a].st = "pending" /\ ~row[a].stale
  /\ row' = [row EXCEPT ![a].stale = TRUE]
  /\ UNCHANGED <<provider, grant, audits, clock, browserVars, pass, faults>>

\* ListInFlightDecisionOperations: oldest first, at most Batch rows.
List(r) ==
  LET older(a) == {x \in AuthRequests : InFlight(x) /\ row[x].at < row[a].at} IN
  /\ pass[r] = {}
  /\ pass' = [pass EXCEPT ![r] =
       {[req |-> a, st |-> row[a].st] :
          a \in {x \in AuthRequests : InFlight(x) /\ Cardinality(older(x)) < Batch}}]
  /\ UNCHANGED <<provider, dataVars, clock, browserVars, faults>>

\* A row that cannot be repaired is skipped; the pass goes on.
SkipFailed_Abort(r, op) == pass' = [pass EXCEPT ![r] = IF Committable(op.req) \/ op.st = "pending"
                                                       THEN @ \ {op} ELSE {}]
SkipFailed(r, op) == pass' = [pass EXCEPT ![r] = @ \ {op}]

Visit(r) ==
  \E op \in pass[r] :
    /\ \A other \in pass[r] : row[op.req].at <= row[other.req].at
    /\ SkipFailed(r, op)
    /\ \/ op.st = "provider_succeeded" /\ RepairForward(op.req)
       \/ /\ op.st = "pending"
          /\ \/ FailRow(op.req) /\ UNCHANGED faults
             \/ row[op.req].st # "pending" /\ UNCHANGED <<dataVars, faults>>
             \/ Stumble /\ (FailRow(op.req) \/ UNCHANGED dataVars)
    /\ UNCHANGED <<provider, clock, browserVars>>

\* The pass runs out of its time, or its process dies.
AbandonPass(r) ==
  /\ pass[r] # {} /\ Stumble
  /\ pass' = [pass EXCEPT ![r] = {}]
  /\ UNCHANGED <<provider, dataVars, clock, browserVars>>

-----------------------------------------------------------------------------
(* Revocation, and the world outside *)

RevokeGrant(u) ==
  /\ grant[u].st = "active"
  /\ grant' = [grant EXCEPT ![u].st = "revoked", ![u].revokedAt = clock + 1]
  /\ clock' = clock + 1
  /\ UNCHANGED <<provider, row, audits, browserVars, pass, faults>>

\* The provider forgets a request nobody completed.
Expire(a) ==
  /\ provider[a].st = "open"
  /\ provider' = [provider EXCEPT ![a].st = "expired"]
  /\ UNCHANGED <<dataVars, clock, browserVars, pass, faults>>

\* The process of a request dies, or its client goes away, which cancels it.
Crash(b) ==
  /\ pc[b] \notin {"start", "done", "crashed"}
  /\ Stumble /\ Goto(b, "crashed")
  /\ UNCHANGED <<provider, dataVars, clock, pass>>

-----------------------------------------------------------------------------
Work(b) == \/ GrantStatus(b) \/ GrantScopes(b) \/ ReadSilent(b) \/ ReadForError(b)
           \/ Claim(b) \/ Complete(b) \/ Fail(b) \/ Prove(b)
           \/ CommitAndAnswer(b) \/ RepairAsLoser(b)

Next ==
  \/ \E b \in Browsers :
       \/ \E a \in AuthRequests, u \in Users : ArriveInteractive(b, a, u) \/ ArriveSilent(b, a, u)
       \/ Work(b) \/ Crash(b)
  \/ \E r \in Reconcilers : List(r) \/ Visit(r) \/ AbandonPass(r)
  \/ \E a \in AuthRequests : GrowStale(a) \/ Expire(a)
  \/ \E u \in Users : RevokeGrant(u)

Spec == Init /\ [][Next]_vars

\* Time passes and the reconciler keeps ticking; no browser has to go on.
Fairness == /\ \A a \in AuthRequests : WF_vars(GrowStale(a))
            /\ \A r \in Reconcilers : WF_vars(List(r)) /\ WF_vars(Visit(r))

FairSpec == Spec /\ Fairness

-----------------------------------------------------------------------------
(* Properties *)

\* A callback URL goes to one browser only, the one that claimed the request,
\* and never for a decision that is not proved: two browsers, of different
\* users even, race for the same request (claimCompleteAndCommit).
CallbackToWinner ==
  \A b \in Browsers : reply[b] = "callback" =>
    LET a == job[b].req IN
    /\ row[a].st \in {"provider_succeeded", "succeeded"}
    /\ row[a].kind = job[b].kind /\ row[a].user = job[b].user
    /\ provider[a] = [st |-> "done", kind |-> job[b].kind, user |-> job[b].user]
    /\ \A c \in Browsers \ {b} : reply[c] = "callback" => job[c].req # a

\* An active grant is what the provider completed: some allow of that user
\* with exactly these scopes, proved and committed (CommitAllowDecision).
GrantBacked ==
  \A u \in Users : grant[u].st = "active" =>
    \E a \in AuthRequests : /\ row[a].st = "succeeded"
                            /\ provider[a] = [st |-> "done", kind |-> "allow", user |-> u]
                            /\ grant[u].scopes = Asks[a]

\* The commit and its audit event happen exactly once per operation, whoever
\* gets to it: the winner, a loser of the claim, or the reconciler.
AuditExactlyOnce ==
  \A a \in AuthRequests : audits[a] = (IF row[a].st = "succeeded" THEN 1 ELSE 0)

\* The provider is asked at most once per request: nobody is about to call it
\* for a request another one calls it for or has called it for.
SingleProviderCall ==
  \A b \in Browsers : pc[b] = "complete" =>
    /\ provider[job[b].req].st # "done"
    /\ \A c \in Browsers \ {b} : pc[c] \in {"complete", "fail", "prove"} => job[c].req # job[b].req

\* Every proved decision takes effect and every claimed one ends, although
\* some rows can never be repaired (Reconciler.RunOnce).
Reconciled ==
  \A a \in AuthRequests \ Poisoned :
    row[a].st \in {"pending", "provider_succeeded"} ~> row[a].st \in {"succeeded", "failed"}

\* A revoked grant becomes active again only by a consent the user gave after
\* the revocation.
RevocationSticks ==
  [][\A u \in Users :
       grant[u].st = "revoked" /\ grant'[u].st = "active" =>
         \E a \in AuthRequests : /\ row[a].st # "succeeded" /\ row'[a].st = "succeeded"
                                 /\ row[a].user = u /\ Prompt[a] # "none"
                                 /\ row[a].at > grant[u].revokedAt]_vars

-----------------------------------------------------------------------------
Outcome == INSTANCE DecisionOutcome WITH
  plan <- [a \in AuthRequests |-> [kind |-> row[a].kind, user |-> row[a].user]],
  state <- [a \in AuthRequests |->
              CASE row[a].st = "none" -> "open"
                [] row[a].st = "pending" -> "claimed"
                [] row[a].st = "failed" -> "void"
                [] row[a].st = "provider_succeeded" -> "proved"
                [] row[a].st = "succeeded" -> "effective"],
  holders <- {u \in Users : grant[u].st = "active"},
  delivered <- {job[b].req : b \in {c \in Browsers : reply[c] = "callback"}}

\* Rows, proofs and commits implement the one decision of each request.
ImplementsOutcome == Outcome!Spec

=============================================================================
