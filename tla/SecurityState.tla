--------------------------- MODULE SecurityState ---------------------------
(***************************************************************************)
(* The authoritative security boundary of one user (ADR-0007): the epoch   *)
(* (security generation) in the users row, the durable password mutation   *)
(* intent, the handler of POST /me/security/password, the recovery runs    *)
(* that the promotion middleware triggers, and the sessions stamped with   *)
(* the epoch.  All state is per user, so one user is modelled.             *)
(*                                                                         *)
(* A worker is a password request (Requests) or the recovery goroutine of  *)
(* one server instance (Recoverers); a request runs the same recovery      *)
(* inline before it acquires the intent.  Every step of a worker is one    *)
(* statement on PostgreSQL or Redis, or one call of the provider.          *)
(***************************************************************************)
EXTENDS Naturals, FiniteSets

CONSTANTS
  Requests,               \* runs of the password handler
  Recoverers,             \* server instances: one recovery in flight each
  Logins,                 \* login handlers about to mint a session
  Sessions,               \* session ids
  NoOne,                  \* the password of before every request
  MaxSettlementAttempts,  \* the service's bound before it force-settles
  MaxFaults,              \* model bound: crashes and failed calls
  Punctual,               \* an owner records its outcome inside its lease
  LateWrites              \* a timed-out provider call may commit later

ASSUME SecurityAssumption ==
  /\ Requests \cap Recoverers = {}
  /\ NoOne \notin Requests
  /\ MaxSettlementAttempts \in Nat /\ MaxFaults \in Nat
  /\ Punctual \in BOOLEAN /\ LateWrites \in BOOLEAN

VARIABLES
  epoch,      \* users.security_epoch
  intent,     \* the password_mutation_intents row
  password,   \* external: whose password the provider holds
  lateWrites, \* external: requests whose call may still commit
  audits,     \* durable account.password_changed rows
  sess,       \* Redis session records by session id
  login,      \* epoch a login has read and not stored yet; 0 for none
  pc,         \* next statement of each worker
  mine,       \* the copy of the intent a worker acts on
  gen,        \* the epoch a worker settles for (newEpoch)
  todo,       \* sessions a cleanup walk has still to visit
  rot,        \* what became of the rotation of a request's session
  own,        \* id of the intent a request acquired; 0 before
  token,      \* <<session, token version>> a request presented
  grant,      \* epoch stamp of a request's reauthentication grant
  res,        \* SettlementResult.Outcome of a request
  reply,      \* HTTP answer of a request
  faults      \* crashes and failures spent of MaxFaults

ledgerVars  == <<epoch, intent>>
outerVars   == <<password, lateWrites, audits>>
sessionVars == <<sess, login>>
workVars    == <<mine, gen, todo, rot>>
requestVars == <<own, token, grant, res, reply>>
vars == <<ledgerVars, outerVars, sessionVars, pc, workVars, requestVars, faults>>

-----------------------------------------------------------------------------
(* Types *)

Workers     == Requests \cup Recoverers
Status      == {"active", "outcome_recorded", "local_settlement", "settled"}
Outcome     == {"none", "success", "confirmed_failure", "unknown"}
Settlement  == {"none", "settled", "settled_relogin", "degraded"}
Lease       == {"live", "expired", "null"}
IntentRow   == [id: Nat, status: Status, acqEpoch: Nat, outcome: Outcome,
                settlement: Settlement, lease: Lease, attempts: Nat]
Claim       == [id: Nat, status: Status, outcome: Outcome]
SessionRow  == [st: {"unused", "live", "gone"}, stamp: Nat, ver: Nat]
AuditRow    == [id: Nat, provider: Outcome, settlement: Settlement]
RequestPC   == {"start", "granted", "insert", "call", "record", "fail",
                "rotate", "respond", "lost", "unsure", "done", "crashed"}
RecoveryPC  == {"recRead", "takeover", "bump", "forceBegin", "forceSettle"}
SettlePC    == {"begin", "clean", "walk", "degrade"}
Label       == RequestPC \cup RecoveryPC \cup SettlePC \cup {"idle"}
Reply       == {"none", "forbidden", "inProgress", "error", "failed", "ok",
                "relogin", "degraded"}

NoClaim == [id |-> 0, status |-> "settled", outcome |-> "none"]

LedgerTypes == epoch \in Nat \ {0} /\ intent \in IntentRow

OuterTypes == /\ password \in Requests \cup {NoOne}
              /\ lateWrites \subseteq Requests
              /\ audits \subseteq AuditRow

SessionTypes == sess \in [Sessions -> SessionRow] /\ login \in [Logins -> Nat]

WorkerTypes ==
  /\ pc \in [Workers -> Label]
  /\ mine \in [Workers -> Claim]
  /\ gen \in [Workers -> Nat]
  /\ todo \in [Workers -> SUBSET Sessions]
  /\ rot \in [Workers -> {"none", "rotated", "vanished", "failed"}]

RequestTypes ==
  /\ own \in [Requests -> Nat]
  /\ token \in [Requests -> (Sessions \X Nat) \cup {<<>>}]
  /\ grant \in [Requests -> Nat]
  /\ res \in [Requests -> Settlement]
  /\ reply \in [Requests -> Reply]

TypeOK == /\ LedgerTypes /\ OuterTypes /\ SessionTypes
          /\ WorkerTypes /\ RequestTypes /\ faults \in Nat

\* A missing row and a settled one are the same to every statement: both
\* read as "no intent" and both let AcquireIntent write.
Init ==
  /\ epoch = 1
  /\ intent = [id |-> 0, status |-> "settled", acqEpoch |-> 1, outcome |-> "none",
               settlement |-> "none", lease |-> "null", attempts |-> 0]
  /\ password = NoOne /\ lateWrites = {} /\ audits = {}
  /\ sess = [s \in Sessions |-> [st |-> "unused", stamp |-> 0, ver |-> 0]]
  /\ login = [l \in Logins |-> 0]
  /\ pc = [w \in Workers |-> IF w \in Requests THEN "start" ELSE "idle"]
  /\ mine = [w \in Workers |-> NoClaim]
  /\ gen = [w \in Workers |-> 0]
  /\ todo = [w \in Workers |-> {}]
  /\ rot = [w \in Workers |-> "none"]
  /\ own = [r \in Requests |-> 0]
  /\ token = [r \in Requests |-> <<>>]
  /\ grant = [r \in Requests |-> 0]
  /\ res = [r \in Requests |-> "none"]
  /\ reply = [r \in Requests |-> "none"]
  /\ faults = 0

-----------------------------------------------------------------------------
(* Operators *)

\* Faulty variants (X_...) say what X must not be; see the README.
NonTerminal == intent.status # "settled"

PostEpoch_OnlyRecorded == intent.status = "outcome_recorded"
PostEpoch == intent.status \in {"outcome_recorded", "local_settlement"}

\* EvaluatePromotion for a session stamped with the given epoch.
Verdict(stamp) ==
  IF intent.status = "active" THEN "deniedTransient"
  ELSE IF stamp < epoch THEN "epochStale" ELSE "allowed"

Promotable(s) == sess[s].st = "live" /\ Verdict(sess[s].stamp) = "allowed"

\* AllowSensitiveConsumption for a capability stamped with the given epoch.
AllowSensitive(stamp) == stamp = epoch /\ ~NonTerminal

\* The CAS of the ledger: WHERE user_id AND intent_id AND status.
Fence_AnyStatus(w, status) == intent.id = mine[w].id
Fence(w, status) == intent.id = mine[w].id /\ intent.status = status

Owns(w) == w \in Requests /\ own[w] # 0

\* A settlement rotates only for its owner and a confirmed success.
Rotates(w) == Owns(w) /\ mine[w].outcome = "success"

TokenLive(r) == /\ token[r] # <<>>
                /\ sess[token[r][1]].st = "live"
                /\ sess[token[r][1]].ver = token[r][2]

\* A failed call or a crash, out of the model's budget.
Stumble == faults < MaxFaults /\ faults' = faults + 1

Goto(w, l) == pc' = [pc EXCEPT ![w] = l]

\* The end of a recovery run (idle; or the insert that follows it in Acquire)
\* or of an owner's settlement (its answer), with the SettlementResult.
Finish(w, outcome) ==
  IF Owns(w)
  THEN /\ Goto(w, "respond")
       /\ res' = [res EXCEPT ![w] = outcome]
       /\ todo' = [todo EXCEPT ![w] = {}]
       /\ UNCHANGED <<mine, gen, rot, own, token, grant, reply>>
  ELSE /\ Goto(w, IF w \in Requests THEN "insert" ELSE "idle")
       /\ mine' = [mine EXCEPT ![w] = NoClaim]
       /\ gen' = [gen EXCEPT ![w] = 0]
       /\ todo' = [todo EXCEPT ![w] = {}]
       /\ UNCHANGED <<rot, requestVars>>

-----------------------------------------------------------------------------
(* Sessions *)

\* CreateSession reads the epoch it will stamp ...
LoginStamp(l) ==
  /\ login[l] = 0
  /\ login' = [login EXCEPT ![l] = epoch]
  /\ UNCHANGED <<ledgerVars, outerVars, sess, pc, workVars, requestVars, faults>>

\* ... and stores the record in a later step, whatever happened in between.
LoginStore(l, s) ==
  /\ login[l] # 0 /\ sess[s].st = "unused"
  /\ sess' = [sess EXCEPT ![s] = [st |-> "live", stamp |-> login[l], ver |-> 0]]
  /\ login' = [login EXCEPT ![l] = 0]
  /\ UNCHANGED <<ledgerVars, outerVars, pc, workVars, requestVars, faults>>

\* Logout, a revocation from the inventory, or expiry.
EndSession(s) ==
  /\ sess[s].st = "live"
  /\ sess' = [sess EXCEPT ![s].st = "gone"]
  /\ UNCHANGED <<ledgerVars, outerVars, login, pc, workVars, requestVars, faults>>

\* A request with the token of s passes the promotion middleware on instance
\* w: an observed intent triggers the instance's recovery unless one runs
\* already, and a stale record is deleted, best effort.
Promote(s, w) ==
  /\ sess[s].st = "live"
  /\ IF NonTerminal /\ pc[w] = "idle" THEN Goto(w, "recRead") ELSE UNCHANGED pc
  /\ \/ UNCHANGED sess
     \/ /\ Verdict(sess[s].stamp) = "epochStale"
        /\ sess' = [sess EXCEPT ![s].st = "gone"]
  /\ UNCHANGED <<ledgerVars, outerVars, login, workVars, requestVars, faults>>

-----------------------------------------------------------------------------
(* The ledger's transitions *)

LeaseExpires_InsideDeadline ==
  /\ intent.status = "active" /\ intent.lease = "live"
  /\ intent' = [intent EXCEPT !.lease = "expired"]
  /\ UNCHANGED <<epoch, outerVars, sessionVars, pc, workVars, requestVars, faults>>

\* The lease outlives the provider deadline and the settlement timeout, so it
\* runs out on a live owner only when the owner stalls elsewhere.
LeaseExpires ==
  /\ intent.status = "active" /\ intent.lease = "live"
  /\ Punctual => \A r \in Requests :
       ~(own[r] = intent.id /\ pc[r] \in {"call", "record", "fail"})
  /\ intent' = [intent EXCEPT !.lease = "expired"]
  /\ UNCHANGED <<epoch, outerVars, sessionVars, pc, workVars, requestVars, faults>>

AcquireIntent ==
  intent' = [id |-> intent.id + 1, status |-> "active", acqEpoch |-> epoch,
             outcome |-> "none", settlement |-> "none", lease |-> "live", attempts |-> 0]

\* The outcome and the epoch move in one transaction.
AdvanceEpoch_OutcomeOnly(outcome) ==
  /\ intent' = [intent EXCEPT !.status = "outcome_recorded",
                              !.outcome = outcome, !.lease = "null"]
  /\ UNCHANGED epoch
AdvanceEpoch(outcome) ==
  /\ intent' = [intent EXCEPT !.status = "outcome_recorded",
                              !.outcome = outcome, !.lease = "null"]
  /\ epoch' = epoch + 1

BeginSettlement == intent' = [intent EXCEPT !.status = "local_settlement"]

SettleAs_Swapped(outcome) ==
  intent' = [intent EXCEPT !.status = outcome, !.settlement = "settled"]
SettleAs(outcome) ==
  intent' = [intent EXCEPT !.status = "settled", !.settlement = outcome]

-----------------------------------------------------------------------------
(* POST /me/security/password, up to the provider's outcome *)

\* Step-up: the grant is stamped with the epoch of the issuing session.
Reauthenticate(r, s) ==
  /\ pc[r] = "start" /\ Promotable(s)
  /\ grant' = [grant EXCEPT ![r] = sess[s].stamp]
  /\ token' = [token EXCEPT ![r] = <<s, sess[s].ver>>]
  /\ Goto(r, "granted")
  /\ UNCHANGED <<ledgerVars, outerVars, sessionVars, workVars, own, res, reply, faults>>

\* The session promotes with its current token, the grant is consumed
\* whatever the gate says, and the gate reads the ledger.
ConsumeGrant(r) ==
  LET s == token[r][1] IN
  /\ pc[r] = "granted" /\ Promotable(s)
  /\ token' = [token EXCEPT ![r] = <<s, sess[s].ver>>]
  /\ IF AllowSensitive(grant[r])
     THEN Goto(r, "recRead") /\ UNCHANGED reply
     ELSE Goto(r, "done") /\ reply' = [reply EXCEPT ![r] = "forbidden"]
  /\ UNCHANGED <<ledgerVars, outerVars, sessionVars, workVars, own, grant, res, faults>>

\* Single-winner acquisition; a lost answer leaves an intent without owner.
Insert(r) ==
  /\ pc[r] = "insert"
  /\ \/ /\ ~NonTerminal
        /\ AcquireIntent
        /\ own' = [own EXCEPT ![r] = intent.id + 1]
        /\ mine' = [mine EXCEPT ![r] = [id |-> intent.id + 1, status |-> "active",
                                        outcome |-> "none"]]
        /\ Goto(r, "call")
        /\ UNCHANGED <<reply, faults>>
     \/ /\ NonTerminal
        /\ reply' = [reply EXCEPT ![r] = "inProgress"]
        /\ Goto(r, "done")
        /\ UNCHANGED <<intent, own, mine, faults>>
     \/ /\ Stumble
        /\ \/ ~NonTerminal /\ AcquireIntent
           \/ UNCHANGED intent
        /\ reply' = [reply EXCEPT ![r] = "error"]
        /\ Goto(r, "done")
        /\ UNCHANGED <<own, mine>>
  /\ UNCHANGED <<epoch, outerVars, sessionVars, gen, todo, rot, token, grant, res>>

\* SetPassword under its deadline: confirmed, rejected, or unknown, in which
\* case the provider has the change, never gets it, or gets it later.
CallProvider(r) ==
  /\ pc[r] = "call"
  /\ \/ /\ password' = r
        /\ mine' = [mine EXCEPT ![r].outcome = "success"]
        /\ Goto(r, "record")
        /\ UNCHANGED lateWrites
     \/ /\ mine' = [mine EXCEPT ![r].outcome = "unknown"]
        /\ Goto(r, "record")
        /\ \/ /\ password' = r
              /\ UNCHANGED lateWrites
           \/ UNCHANGED <<password, lateWrites>>
           \/ /\ LateWrites
              /\ lateWrites' = lateWrites \cup {r}
              /\ UNCHANGED password
     \/ /\ mine' = [mine EXCEPT ![r].outcome = "confirmed_failure"]
        /\ Goto(r, "fail")
        /\ UNCHANGED <<password, lateWrites>>
  /\ UNCHANGED <<ledgerVars, audits, sessionVars, gen, todo, rot, requestVars, faults>>

LateCommit(r) ==
  /\ r \in lateWrites
  /\ password' = r
  /\ lateWrites' = lateWrites \ {r}
  /\ UNCHANGED <<ledgerVars, audits, sessionVars, pc, workVars, requestVars, faults>>

\* A rejected change releases the intent with the epoch unchanged; the
\* answer does not depend on whether the release worked.
ReleaseConfirmedFailure(r) ==
  LET release == intent' = [intent EXCEPT !.status = "settled",
                                          !.outcome = "confirmed_failure"] IN
  /\ pc[r] = "fail"
  /\ \/ IF Fence(r, "active") THEN release /\ UNCHANGED faults
                              ELSE UNCHANGED <<intent, faults>>
     \/ /\ Stumble
        /\ \/ Fence(r, "active") /\ release
           \/ UNCHANGED intent
  /\ reply' = [reply EXCEPT ![r] = "failed"]
  /\ Goto(r, "done")
  /\ UNCHANGED <<epoch, outerVars, sessionVars, workVars, own, token, grant, res>>

RecordOutcome(r) ==
  /\ pc[r] = "record"
  /\ \/ /\ Fence(r, "active")
        /\ AdvanceEpoch(mine[r].outcome)
        /\ mine' = [mine EXCEPT ![r].status = "outcome_recorded"]
        /\ gen' = [gen EXCEPT ![r] = epoch + 1]
        /\ Goto(r, "begin")
        /\ UNCHANGED faults
     \/ /\ ~Fence(r, "active")
        /\ Goto(r, "lost")
        /\ UNCHANGED <<ledgerVars, mine, gen, faults>>
     \/ /\ Stumble
        /\ \/ Fence(r, "active") /\ AdvanceEpoch(mine[r].outcome)
           \/ UNCHANGED ledgerVars
        /\ Goto(r, "unsure")
        /\ UNCHANGED <<mine, gen>>
  /\ UNCHANGED <<outerVars, sessionVars, todo, rot, requestVars>>

-----------------------------------------------------------------------------
(* Recovery: the goroutine of an instance, and the run inside Acquire *)

ReadState(w) ==
  LET copy == [id |-> intent.id, status |-> intent.status,
               outcome |-> intent.outcome] IN
  /\ pc[w] = "recRead"
  /\ \/ /\ ~NonTerminal \/ (intent.status = "active" /\ intent.lease = "live")
        /\ Finish(w, "none") /\ UNCHANGED faults
     \/ /\ intent.status = "active" /\ intent.lease = "expired"
        /\ mine' = [mine EXCEPT ![w] = copy]
        /\ Goto(w, "takeover")
        /\ UNCHANGED <<gen, todo, rot, requestVars, faults>>
     \/ /\ PostEpoch
        /\ mine' = [mine EXCEPT ![w] = copy]
        /\ gen' = [gen EXCEPT ![w] = epoch]
        /\ Goto(w, "bump")
        /\ UNCHANGED <<todo, rot, requestVars, faults>>
     \/ Stumble /\ Finish(w, "none")
  /\ UNCHANGED <<ledgerVars, outerVars, sessionVars>>

Takeover(w) ==
  LET expired == Fence(w, "active") /\ intent.lease = "expired" IN
  /\ pc[w] = "takeover"
  /\ \/ /\ expired
        /\ AdvanceEpoch("unknown")
        /\ mine' = [mine EXCEPT ![w].status = "outcome_recorded",
                                ![w].outcome = "unknown"]
        /\ gen' = [gen EXCEPT ![w] = epoch + 1]
        /\ Goto(w, "bump")
        /\ UNCHANGED <<todo, rot, requestVars, faults>>
     \/ /\ ~expired
        /\ Finish(w, "none") /\ UNCHANGED <<ledgerVars, faults>>
     \/ /\ Stumble
        /\ Finish(w, "none")
        /\ \/ expired /\ AdvanceEpoch("unknown")
           \/ UNCHANGED ledgerVars
  /\ UNCHANGED <<outerVars, sessionVars>>

BumpAttempts(w) ==
  LET held      == intent.id = mine[w].id /\ NonTerminal
      exhausted == intent.attempts + 1 > MaxSettlementAttempts
      recorded  == mine[w].status = "outcome_recorded" IN
  /\ pc[w] = "bump"
  /\ \/ /\ held
        /\ intent' = [intent EXCEPT !.attempts = @ + 1]
        /\ Goto(w, CASE exhausted /\ recorded   -> "forceBegin"
                     [] exhausted /\ ~recorded  -> "forceSettle"
                     [] ~exhausted /\ recorded  -> "begin"
                     [] ~exhausted /\ ~recorded -> "clean")
        /\ UNCHANGED <<workVars, requestVars, faults>>
     \/ /\ ~held
        /\ Finish(w, "none") /\ UNCHANGED <<intent, faults>>
     \/ Stumble /\ Finish(w, "none") /\ UNCHANGED intent
  /\ UNCHANGED <<epoch, outerVars, sessionVars>>

\* forceDegrade, for an intent whose settlement was never begun ...
ForceBegin(w) ==
  /\ pc[w] = "forceBegin"
  /\ \/ /\ Fence(w, "outcome_recorded")
        /\ BeginSettlement
        /\ Goto(w, "forceSettle")
        /\ UNCHANGED <<workVars, requestVars, faults>>
     \/ /\ ~Fence(w, "outcome_recorded")
        /\ Finish(w, "none") /\ UNCHANGED <<intent, faults>>
     \/ Stumble /\ Finish(w, "none") /\ UNCHANGED intent
  /\ UNCHANGED <<epoch, outerVars, sessionVars>>

\* ... and its terminal transition, which cleans nothing.
ForceSettle(w) ==
  /\ pc[w] = "forceSettle"
  /\ \/ Fence(w, "local_settlement") /\ SettleAs("degraded") /\ UNCHANGED faults
     \/ ~Fence(w, "local_settlement") /\ UNCHANGED <<intent, faults>>
     \/ Stumble /\ UNCHANGED intent
  /\ Finish(w, "none")
  /\ UNCHANGED <<epoch, outerVars, sessionVars>>

-----------------------------------------------------------------------------
(* SettleIntent, by the owner or by a recovery run *)

Begin(w) ==
  /\ pc[w] = "begin"
  /\ \/ /\ Fence(w, "outcome_recorded")
        /\ BeginSettlement
        /\ mine' = [mine EXCEPT ![w].status = "local_settlement"]
        /\ Goto(w, IF Rotates(w) THEN "rotate" ELSE "clean")
        /\ UNCHANGED <<gen, todo, rot, requestVars, faults>>
     \/ /\ ~Fence(w, "outcome_recorded")
        /\ Finish(w, "degraded") /\ UNCHANGED <<intent, faults>>
     \/ /\ Stumble
        /\ Finish(w, "degraded")
        /\ \/ Fence(w, "outcome_recorded") /\ BeginSettlement
           \/ UNCHANGED intent
  /\ UNCHANGED <<epoch, outerVars, sessionVars>>

\* RotateSession: a new token for the same session, stamped with newEpoch.
\* A failed call may have rotated the record without telling the new token.
Rotate(r) ==
  LET s == token[r][1]
      rotated == /\ TokenLive(r)
                 /\ sess' = [sess EXCEPT ![s].stamp = gen[r], ![s].ver = @ + 1] IN
  /\ pc[r] = "rotate"
  /\ \/ /\ rotated
        /\ token' = [token EXCEPT ![r] = <<s, sess[s].ver + 1>>]
        /\ rot' = [rot EXCEPT ![r] = "rotated"]
        /\ UNCHANGED faults
     \/ /\ ~TokenLive(r)
        /\ rot' = [rot EXCEPT ![r] = "vanished"]
        /\ UNCHANGED <<sess, token, faults>>
     \/ /\ Stumble
        /\ rotated \/ UNCHANGED sess
        /\ rot' = [rot EXCEPT ![r] = "failed"]
        /\ UNCHANGED token
  /\ Goto(r, "clean")
  /\ UNCHANGED <<ledgerVars, outerVars, login, mine, gen, todo, own, grant, res, reply>>

\* RevokeSessionsBeforeEpoch walks the index as it was at its first step.
Clean(w) ==
  /\ pc[w] = "clean"
  /\ \/ /\ todo' = [todo EXCEPT ![w] = {s \in Sessions : sess[s].st = "live"}]
        /\ Goto(w, "walk")
        /\ UNCHANGED faults
     \/ Stumble /\ Goto(w, "degrade") /\ UNCHANGED todo
  /\ UNCHANGED <<ledgerVars, outerVars, sessionVars, mine, gen, rot, requestVars>>

BeforeEpoch_Inclusive(w, s) == sess[s].stamp <= gen[w]
BeforeEpoch(w, s) == sess[s].stamp < gen[w]

CleanOne(w, s) ==
  /\ pc[w] = "walk" /\ s \in todo[w]
  /\ \/ /\ todo' = [todo EXCEPT ![w] = @ \ {s}]
        /\ IF sess[s].st = "live" /\ BeforeEpoch(w, s)
           THEN sess' = [sess EXCEPT ![s].st = "gone"] ELSE UNCHANGED sess
        /\ UNCHANGED <<pc, faults>>
     \/ /\ Stumble
        /\ todo' = [todo EXCEPT ![w] = {}]
        /\ Goto(w, "degrade")
        /\ UNCHANGED sess
  /\ UNCHANGED <<ledgerVars, outerVars, login, mine, gen, rot, requestVars>>

\* A cleanup that failed still terminalizes the intent.
Degrade(w) ==
  /\ pc[w] = "degrade"
  /\ \/ Fence(w, "local_settlement") /\ SettleAs("degraded") /\ UNCHANGED faults
     \/ ~Fence(w, "local_settlement") /\ UNCHANGED <<intent, faults>>
     \/ Stumble /\ UNCHANGED intent
  /\ Finish(w, "degraded")
  /\ UNCHANGED <<epoch, outerVars, sessionVars>>

SettlementOf(w) ==
  IF mine[w].outcome = "unknown" \/ rot[w] = "failed" THEN "degraded"
  ELSE IF rot[w] = "vanished" THEN "settled_relogin" ELSE "settled"

Settle(w) ==
  LET settle == Fence(w, "local_settlement") /\ SettleAs(SettlementOf(w)) IN
  /\ pc[w] = "walk" /\ todo[w] = {}
  /\ \/ settle /\ Finish(w, SettlementOf(w)) /\ UNCHANGED faults
     \/ /\ ~Fence(w, "local_settlement")
        /\ Finish(w, "degraded") /\ UNCHANGED <<intent, faults>>
     \/ /\ Stumble
        /\ Finish(w, "degraded")
        /\ settle \/ UNCHANGED intent
  /\ UNCHANGED <<epoch, outerVars, sessionVars>>

-----------------------------------------------------------------------------
(* The audit attempt and the answer *)

Answer(r) ==
  CASE pc[r] = "lost"   -> "relogin"
    [] pc[r] = "unsure" -> "degraded"
    [] OTHER ->
       CASE mine[r].outcome = "unknown"                    -> "relogin"
         [] mine[r].outcome # "unknown" /\ res[r] = "settled" /\ rot[r] = "rotated" -> "ok"
         [] mine[r].outcome # "unknown" /\ res[r] = "settled_relogin" -> "relogin"
         [] OTHER                                          -> "degraded"

Respond(r) ==
  LET settlement == IF pc[r] = "respond" THEN res[r] ELSE "degraded" IN
  /\ pc[r] \in {"respond", "lost", "unsure"}
  /\ \/ /\ audits' = audits \cup {[id |-> own[r], provider |-> mine[r].outcome,
                                   settlement |-> settlement]}
        /\ UNCHANGED faults
     \/ Stumble /\ UNCHANGED audits
  /\ reply' = [reply EXCEPT ![r] = Answer(r)]
  /\ Goto(r, "done")
  /\ mine' = [mine EXCEPT ![r] = NoClaim]
  /\ gen' = [gen EXCEPT ![r] = 0]
  /\ UNCHANGED <<ledgerVars, password, lateWrites, sessionVars, todo, rot, own, token,
                 grant, res>>

\* A worker dies with its process; a call in flight may still commit.
Crash(w) ==
  /\ pc[w] \notin {"start", "granted", "done", "idle", "crashed"}
  /\ Stumble
  /\ IF w \in Requests
     THEN /\ Goto(w, "crashed")
          /\ lateWrites' = IF LateWrites /\ pc[w] = "call" THEN lateWrites \cup {w}
                                                           ELSE lateWrites
          /\ UNCHANGED workVars
     ELSE /\ Goto(w, "idle")
          /\ mine' = [mine EXCEPT ![w] = NoClaim]
          /\ gen' = [gen EXCEPT ![w] = 0]
          /\ todo' = [todo EXCEPT ![w] = {}]
          /\ UNCHANGED <<rot, lateWrites>>
  /\ UNCHANGED <<ledgerVars, password, audits, sessionVars, requestVars>>

-----------------------------------------------------------------------------
RecoverStep(w) == ReadState(w) \/ Takeover(w) \/ BumpAttempts(w) \/ ForceBegin(w)
                  \/ ForceSettle(w)
SettleStep(w)  == \/ Begin(w) \/ Clean(w) \/ Degrade(w) \/ Settle(w)
                  \/ \E s \in Sessions : CleanOne(w, s)
WorkerStep(w)  == RecoverStep(w) \/ SettleStep(w)
RequestStep(r) == \/ Insert(r) \/ CallProvider(r) \/ ReleaseConfirmedFailure(r)
                  \/ RecordOutcome(r) \/ Rotate(r) \/ Respond(r)

Next ==
  \/ \E l \in Logins : LoginStamp(l) \/ \E s \in Sessions : LoginStore(l, s)
  \/ \E s \in Sessions : EndSession(s) \/ \E w \in Recoverers : Promote(s, w)
  \/ LeaseExpires
  \/ \E r \in Requests :
       \/ \E s \in Sessions : Reauthenticate(r, s)
       \/ ConsumeGrant(r) \/ LateCommit(r) \/ RequestStep(r)
  \/ \E w \in Workers : WorkerStep(w) \/ Crash(w)

Spec == Init /\ [][Next]_vars

\* Goroutines run, leases run out, and clients keep coming back with the
\* sessions they have; logins, logouts and failures are never forced.
Fairness ==
  /\ \A w \in Workers : WF_vars(WorkerStep(w))
  /\ \A r \in Requests : WF_vars(RequestStep(r))
  /\ WF_vars(LeaseExpires)
  /\ \A w \in Recoverers : WF_vars(\E s \in Sessions : Promote(s, w))

FairSpec == Spec /\ Fairness

-----------------------------------------------------------------------------
(* Properties *)

\* An intent advances the epoch exactly once if its outcome is success or
\* unknown and never otherwise, whoever records it: the owner, a takeover, or
\* a transaction whose answer was lost (advanceEpoch, SettleConfirmedFailure).
EpochMatchesIntent ==
  epoch = intent.acqEpoch
          + (IF intent.outcome \in {"success", "unknown"} THEN 1 ELSE 0)

\* No session in Redis, no stamp a login still holds and no epoch a worker
\* settles or cleans for is ahead of the users row (CreateSession,
\* RotateSession, RevokeSessionsBeforeEpoch).
NoStampAhead ==
  /\ \A s \in Sessions : sess[s].stamp <= epoch
  /\ \A l \in Logins : login[l] <= epoch
  /\ \A w \in Workers : gen[w] <= epoch

\* A recorded outcome is never rewritten and a settled intent is immutable:
\* recovery, a second recovery and a late owner race through the same CAS.
OutcomeImmutable ==
  [][intent'.id = intent.id =>
       /\ intent.outcome # "none" => intent'.outcome = intent.outcome
       /\ intent.status = "settled" => intent' = intent]_vars

\* Settlement cleanup, by however slow a worker, removes only sessions that
\* are dead already: a fresh login survives it (RevokeSessionsBeforeEpoch).
CleanupSparesCurrentGeneration ==
  [][\A w \in Workers, s \in Sessions :
       CleanOne(w, s) /\ sess'[s] # sess[s] => sess[s].stamp < epoch]_vars

\* The durable audit and the answer never claim more than the ledger settled:
\* a lost fence or a failed cleanup is never reported as a settlement.
AuditNeverOverstates ==
  \A a \in audits :
    a.id = intent.id /\ a.settlement \in {"settled", "settled_relogin"} =>
      /\ intent.status = "settled"
      /\ intent.settlement = a.settlement /\ intent.outcome = a.provider

\* At most one provider call is in flight, and while a confirmed change is
\* being settled the provider holds the password of that change's owner
\* (Acquire, the lease, and the deadline of SetPassword).
SingleWriter ==
  /\ \A r1, r2 \in Requests : pc[r1] = "call" /\ pc[r2] = "call" => r1 = r2
  /\ \A r \in Requests :
       own[r] = intent.id /\ own[r] # 0 /\ PostEpoch /\ intent.outcome = "success"
         => password = r

\* While clients with sessions keep coming back, no intent stays non-terminal:
\* every crash point has an exit to settled (Recover, TriggerRecovery).
Terminalizes ==
  []<>(\E s \in Sessions : sess[s].st = "live") => (NonTerminal ~> ~NonTerminal)

\* Every settled success or unknown has had, or is about to have, its audit
\* attempt by the request that owns it.
ChangeIsAudited ==
  intent.status = "settled" /\ intent.outcome \in {"success", "unknown"} =>
    \E r \in Requests : own[r] = intent.id /\ pc[r] # "crashed"

-----------------------------------------------------------------------------
(* The boundary that the ledger and the sessions implement together *)

Phase == CASE intent.status = "settled" -> "open"
           [] intent.status = "active"  -> "mutating"
           [] OTHER                     -> "settling"

ValidSessions == {s \in Sessions : sess[s].st = "live" /\ sess[s].stamp = epoch}

Boundary == INSTANCE SecurityBoundary
              WITH generation <- epoch, phase <- Phase, valid <- ValidSessions

\* The ledger and the stamps implement the atomic boundary: one step retires
\* every session of the old generation, and cleanup is invisible.
ImplementsBoundary == Boundary!Spec

=============================================================================
