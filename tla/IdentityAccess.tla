---------------------------- MODULE IdentityAccess ----------------------------
(***************************************************************************)
(* Who may look at an applicant's identity data.  A senior admin asks, a   *)
(* super admin approves with a fresh step-up, the approval makes a grant   *)
(* bound to the requester's role binding and credential, and the requester *)
(* claims and settles the grant once.  Super admins also change the        *)
(* requester's role.  Authorization is read before the transaction and     *)
(* revalidated, under row locks, inside it; every operation keeps a        *)
(* receipt under the caller's idempotency key.                             *)
(***************************************************************************)
EXTENDS Naturals, FiniteSets

CONSTANTS
  Ops,        \* the requests that may arrive, each once
  OpOf,       \* what each of them asks for
  Asks,       \* identifiers of identity-access requests
  Tokens,     \* one-shot step-up tokens of the approver
  FirstAsk,   \* the ask that may exist at the start
  Batches,    \* model bound: the sets of requests that arrive in one run
  MaxFaults   \* model bound: failures, lost commits, suspensions and expiries

Senior == "senior"
Super  == "super"
Actors == {Senior, Super}

RoleKinds == {"create_role", "update_role", "disable_role"}
Kinds == {"create", "approve", "reject", "claim", "settle"} \cup RoleKinds
           \cup {"rotate_senior", "rotate_super"}

\* Every creation mints an identifier of its own.
IdentityAccessAssumption ==
  /\ \A o \in Ops : /\ OpOf[o].kind \in Kinds /\ OpOf[o].ask \in Asks
                    /\ OpOf[o].kind \in {"approve", "reject"} => OpOf[o].token \in Tokens
                    /\ OpOf[o].kind = "create" => OpOf[o].ask # FirstAsk
  /\ \A o, p \in Ops : OpOf[o].kind = "create" /\ OpOf[p].kind = "create"
                         /\ OpOf[o].ask = OpOf[p].ask => o = p
  /\ "none" \notin Ops
  /\ Batches \subseteq SUBSET Ops /\ MaxFaults \in Nat

VARIABLES
  binding,  \* admin_role_bindings: the row in force of each actor
  cred,     \* admin_challenges: the credential version of each actor
  account,  \* whether each actor's account is active
  asks,     \* identity_access_requests
  grants,   \* identity_access_grants, by the ask they come from
  tokens,   \* step-up tokens in Redis
  reasons,  \* protected reasons that are used up
  receipts, \* local operation receipts, by idempotency key
  op,       \* what each request is doing
  faults    \* how many of them so far

accessVars == <<binding, cred, account, asks, grants, tokens, reasons, receipts, op, faults>>

-----------------------------------------------------------------------------
(* Rows *)

Kind(o)  == OpOf[o].kind
Ask(o)   == OpOf[o].ask
Keys     == {OpOf[o].key : o \in Ops}
ActorOf(o) == IF Kind(o) \in {"create", "claim", "settle", "rotate_senior"} THEN Senior ELSE Super

NoAsk   == [status |-> "none", version |-> 0, fresh |-> FALSE]
NewAsk  == [status |-> "pending", version |-> 1, fresh |-> TRUE]
NoGrant == [status |-> "none", version |-> 0, binding |-> 0, roleVersion |-> 0, cred |-> 0,
            fresh |-> FALSE, lease |-> FALSE, nonce |-> "none"]
NoProof == [actor |-> "none", cred |-> 0]
Evidence(a) == [id |-> binding[a].id, version |-> binding[a].version, role |-> binding[a].role,
                cred |-> cred[a]]
NoEvidence == [id |-> 0, version |-> 0, role |-> "none", cred |-> 0]

Results  == {"requested", "approved", "rejected", "claimed", "settled", "role", "rotated"}
Refusals == {"forbidden", "conflict", "reauth", "unavailable"}

Roles    == {"admin", "senior_admin", "super_admin"}
Binding  == [id: Nat, version: Nat, enabled: BOOLEAN, role: Roles]
AskRow   == [status: {"none", "pending", "approved", "rejected", "revoked"}, version: 0 .. 2,
             fresh: BOOLEAN]
GrantRow == [status: {"none", "active", "claimed", "settled", "revoked"}, version: 0 .. 3,
             binding: Nat, roleVersion: Nat, cred: Nat, fresh: BOOLEAN, lease: BOOLEAN,
             nonce: Ops \cup {"none"}]
Proof    == [actor: Actors \cup {"none"}, cred: Nat]
Request  == [pc: {"idle", "authorize", "commit", "done"}, seen: Nat, proof: Proof,
             evidence: [id: Nat, version: Nat, role: Roles \cup {"none"}, cred: Nat],
             ran: BOOLEAN, answer: Results \cup Refusals \cup {"none"}]

TypeOK ==
  /\ binding \in [Actors -> Binding] /\ cred \in [Actors -> Nat]
  /\ account \in [Actors -> BOOLEAN]
  /\ asks \in [Asks -> AskRow] /\ grants \in [Asks -> GrantRow]
  /\ \A k \in Asks : /\ (grants[k].status = "claimed") = (grants[k].nonce # "none")
                      /\ (grants[k].status # "none") = (asks[k].status = "approved")
  /\ tokens \in [Tokens -> Proof] /\ reasons \subseteq {OpOf[o].reason : o \in Ops}
  /\ receipts \in [Keys -> [result: Results \cup {"none"}, kind: Kinds \cup {"none"}]]
  /\ op \in [Ops -> Request] /\ faults \in 0 .. MaxFaults

\* The first ask has been made, or approved under the authority that its
\* requester has now.
FirstGrant == [NoGrant EXCEPT !.status = "active", !.version = 1, !.binding = 1,
                              !.roleVersion = 1, !.cred = 1, !.fresh = TRUE]
Init ==
  /\ binding = [a \in Actors |-> [id |-> 1, version |-> 1, enabled |-> TRUE,
                                  role |-> IF a = Senior THEN "senior_admin" ELSE "super_admin"]]
  /\ cred = [a \in Actors |-> 1] /\ account = [a \in Actors |-> TRUE]
  /\ \E approved \in BOOLEAN :
       /\ asks = [k \in Asks |-> IF k # FirstAsk THEN NoAsk
                                 ELSE IF approved THEN [NewAsk EXCEPT !.status = "approved",
                                                                      !.version = 2]
                                 ELSE NewAsk]
       /\ grants = [k \in Asks |-> IF k = FirstAsk /\ approved THEN FirstGrant ELSE NoGrant]
  /\ tokens = [t \in Tokens |-> [actor |-> Super, cred |-> 1]]
  /\ reasons = {}
  /\ receipts = [k \in Keys |-> [result |-> "none", kind |-> "none"]]
  /\ \E active \in Batches :
       /\ op = [o \in Ops |-> [pc |-> IF o \in active THEN "idle" ELSE "done", seen |-> 0,
                               proof |-> NoProof, evidence |-> NoEvidence, ran |-> FALSE,
                               answer |-> "none"]]
  /\ faults = 0

-----------------------------------------------------------------------------
(* Steps *)

At(o, label) == op[o].pc = label
NoFault      == UNCHANGED faults
Fault        == faults < MaxFaults /\ faults' = faults + 1
Answer(o, a) == op' = [op EXCEPT ![o].pc = "done", ![o].answer = a]

\* The version the caller saw: a retry repeats the one of the first attempt.
VersionSeen(o) ==
  CASE Kind(o) \in {"approve", "reject"} -> 1
    [] Kind(o) = "claim"                 -> 1
    [] Kind(o) = "settle"                -> 2
    [] Kind(o) \in RoleKinds             -> binding[Senior].version
    [] OTHER                             -> 0

-----------------------------------------------------------------------------
(* Before the transaction *)

\* A decision presents a step-up token.  The token is gone whatever becomes
\* of the decision, and a missing one is only an error if the decision turns
\* out not to be a replay.
ConsumeStepUp(o) ==
  /\ At(o, "idle") /\ Kind(o) \in {"approve", "reject"}
  /\ \/ /\ op' = [op EXCEPT ![o].pc = "authorize", ![o].proof = tokens[OpOf[o].token]]
        /\ tokens' = [tokens EXCEPT ![OpOf[o].token] = NoProof] /\ NoFault
     \/ op' = [op EXCEPT ![o].pc = "authorize"] /\ UNCHANGED tokens /\ Fault
  /\ UNCHANGED <<binding, cred, account, asks, grants, reasons, receipts>>

RoleNeeded(o) == IF ActorOf(o) = Senior THEN "senior_admin" ELSE "super_admin"
MayNow(o) ==
  LET a == ActorOf(o) IN
  account[a] /\ binding[a].enabled /\ binding[a].role = RoleNeeded(o)

\* The permission engine decides on roles and credentials it reads now; a
\* published policy may deny the action.
Authorize(o) ==
  /\ \/ At(o, "authorize")
     \/ At(o, "idle") /\ Kind(o) \notin {"approve", "reject"}
  /\ \/ /\ MayNow(o) /\ NoFault
        /\ op' = [op EXCEPT ![o].pc = "commit", ![o].seen = VersionSeen(o),
                            ![o].evidence = Evidence(ActorOf(o))]
     \/ /\ Answer(o, IF Kind(o) \in {"approve", "reject"} /\ op[o].proof = NoProof
                     THEN "reauth" ELSE "forbidden")
        /\ NoFault
     \/ Answer(o, "unavailable") /\ Fault
  /\ UNCHANGED <<binding, cred, account, asks, grants, tokens, reasons, receipts>>

-----------------------------------------------------------------------------
(* Inside the transaction *)

LockActiveIdentityActor(a) == account[a]

\* The evidence of the authorization still holds, and is locked.
Revalidate_Dropped(o) == LockActiveIdentityActor(ActorOf(o))
Revalidate(o) ==
  LET a == ActorOf(o) IN
  /\ LockActiveIdentityActor(a)
  /\ binding[a].enabled
  /\ op[o].evidence = IF Kind(o) \in RoleKinds
                      THEN [Evidence(a) EXCEPT !.cred = op[o].evidence.cred] ELSE Evidence(a)

\* What the requester may do now, which the grant will be bound to.
CurrentGrantAuthorization_Any == TRUE
CurrentGrantAuthorization ==
  account[Senior] /\ binding[Senior].enabled /\ binding[Senior].role = "senior_admin"

ValidateStepUp_AnyCredential(o) == op[o].proof.actor = ActorOf(o)
ValidateStepUp(o) ==
  op[o].proof.actor = ActorOf(o) /\ op[o].proof.cred = op[o].evidence.cred

GrantFor(o) ==
  [NoGrant EXCEPT !.status = "active", !.version = 1, !.binding = binding[Senior].id,
                  !.roleVersion = binding[Senior].version, !.cred = cred[Senior], !.fresh = TRUE]
SameAuthority(o, g) ==
  /\ g.binding = op[o].evidence.id /\ g.roleVersion = op[o].evidence.version
  /\ g.cred = op[o].evidence.cred

\* A decision on a pending ask; an approval makes the grant with it.
Pending_AnyStatus(o) == asks[Ask(o)].status # "none" /\ asks[Ask(o)].fresh
Pending(o) ==
  asks[Ask(o)].status = "pending" /\ asks[Ask(o)].fresh /\ asks[Ask(o)].version = op[o].seen
Decide_AlwaysGrants(o) ==
  LET verdict == IF Kind(o) = "approve" THEN "approved" ELSE "rejected" IN
  /\ asks' = [asks EXCEPT ![Ask(o)].status = verdict, ![Ask(o)].version = @ + 1]
  /\ grants' = [grants EXCEPT ![Ask(o)] = GrantFor(o)]
  /\ UNCHANGED <<binding, cred, reasons>>
Decide(o) ==
  LET verdict == IF Kind(o) = "approve" THEN "approved" ELSE "rejected" IN
  /\ asks' = [asks EXCEPT ![Ask(o)].status = verdict, ![Ask(o)].version = @ + 1]
  /\ grants' = IF verdict = "approved" THEN [grants EXCEPT ![Ask(o)] = GrantFor(o)] ELSE grants
  /\ UNCHANGED <<binding, cred, reasons>>

CreateRequest(o) ==
  asks' = [asks EXCEPT ![Ask(o)] = NewAsk] /\ UNCHANGED <<binding, cred, grants, reasons>>

\* A claim takes the grant for a minute, under a nonce only its answer tells.
Claimable(o) ==
  LET g == grants[Ask(o)] IN
  g.status = "active" /\ g.fresh /\ g.version = op[o].seen /\ SameAuthority(o, g)
Claim(o) ==
  /\ grants' = [grants EXCEPT ![Ask(o)].status = "claimed", ![Ask(o)].version = @ + 1,
                              ![Ask(o)].nonce = o, ![Ask(o)].lease = TRUE]
  /\ UNCHANGED <<binding, cred, asks, reasons>>

\* The nonce is the one of the claim this caller was answered.
NonceOf(o) == IF op[OpOf[o].claim].answer = "claimed" /\ op[OpOf[o].claim].ran
              THEN OpOf[o].claim ELSE "unknown"
Settleable(o) ==
  LET g == grants[Ask(o)] IN
  /\ g.status = "claimed" /\ g.fresh /\ g.lease /\ g.version = op[o].seen
  /\ g.nonce = NonceOf(o) /\ SameAuthority(o, g)
Settle(o) ==
  /\ grants' = [grants EXCEPT ![Ask(o)].status = "settled", ![Ask(o)].version = @ + 1,
                              ![Ask(o)].nonce = "none", ![Ask(o)].lease = FALSE]
  /\ UNCHANGED <<binding, cred, asks, reasons>>

\* A role mutation uses its reason up; a role that was disabled comes back as
\* a new binding, whose versions start again.
RoleCurrent(o) == binding[Senior].enabled /\ binding[Senior].version = op[o].seen
ConsumeOwned(o) == reasons' = reasons \cup {OpOf[o].reason}
CreateRole(o) ==
  binding' = [binding EXCEPT ![Senior] = [id |-> @.id + 1, version |-> 1, enabled |-> TRUE,
                                          role |-> "senior_admin"]]
UpdateRole(o) ==
  binding' = [binding EXCEPT ![Senior].version = @ + 1,
                             ![Senior].role = IF @ = "admin" THEN "senior_admin" ELSE "admin"]
DisableRole(o) ==
  binding' = [binding EXCEPT ![Senior].version = @ + 1, ![Senior].enabled = FALSE]
RoleChange(o) ==
  /\ CASE Kind(o) = "create_role"  -> CreateRole(o)
       [] Kind(o) = "update_role"  -> UpdateRole(o)
       [] Kind(o) = "disable_role" -> DisableRole(o)
  /\ ConsumeOwned(o) /\ UNCHANGED <<cred, asks, grants>>

\* A rotation of the question revokes what was given under the old one.
Revoked(g) == [g EXCEPT !.status = "revoked", !.nonce = "none", !.lease = FALSE]
RevokeAsks ==
  asks' = [k \in Asks |-> IF asks[k].status # "pending" THEN asks[k]
                          ELSE [asks[k] EXCEPT !.status = "revoked", !.version = @ + 1]]
RevokeGrants(statuses) ==
  grants' = [k \in Asks |-> IF grants[k].status \in statuses
                            THEN [Revoked(grants[k]) EXCEPT !.version = @ + 1] ELSE grants[k]]
RevokeForSecurityRotation_ActiveOnly == RevokeAsks /\ RevokeGrants({"active"})
RevokeForSecurityRotation_Settled ==
  /\ RevokeAsks
  /\ grants' = [k \in Asks |-> IF grants[k].status = "none" THEN grants[k] ELSE Revoked(grants[k])]
RevokeForSecurityRotation == RevokeAsks /\ RevokeGrants({"active", "claimed"})
Rotate(o) ==
  /\ cred' = [cred EXCEPT ![ActorOf(o)] = @ + 1] /\ UNCHANGED <<binding, reasons>>
  /\ IF ActorOf(o) = Senior THEN RevokeForSecurityRotation ELSE UNCHANGED <<asks, grants>>

-----------------------------------------------------------------------------
(* The transaction *)

\* The refusals of an operation that is not a replay.
Unless(holds) == IF holds THEN "none" ELSE "conflict"
DecisionRefusal(o) ==
  IF ~Pending(o) THEN "conflict"
  ELSE IF ~ValidateStepUp(o) THEN "reauth"
  ELSE IF ~CurrentGrantAuthorization THEN "forbidden" ELSE "none"
RoleRefusal(o) ==
  Unless(/\ IF Kind(o) = "create_role" THEN ~binding[Senior].enabled ELSE RoleCurrent(o)
         /\ OpOf[o].reason \notin reasons)
Refusal(o) ==
  CASE Kind(o) = "create" -> "none"
    [] Kind(o) \in {"approve", "reject"} -> DecisionRefusal(o)
    [] Kind(o) = "claim"  -> Unless(Claimable(o))
    [] Kind(o) = "settle" -> Unless(Settleable(o))
    [] Kind(o) \in RoleKinds -> RoleRefusal(o)
    [] OTHER -> Unless(op[o].evidence.cred = cred[ActorOf(o)])

ResultOf(o) ==
  CASE Kind(o) = "create"  -> "requested"
    [] Kind(o) = "approve" -> "approved"
    [] Kind(o) = "reject"  -> "rejected"
    [] Kind(o) = "claim"   -> "claimed"
    [] Kind(o) = "settle"  -> "settled"
    [] Kind(o) \in RoleKinds -> "role"
    [] OTHER -> "rotated"

Effect(o) ==
  CASE Kind(o) = "create" -> CreateRequest(o)
    [] Kind(o) \in {"approve", "reject"} -> Decide(o)
    [] Kind(o) = "claim"  -> Claim(o)
    [] Kind(o) = "settle" -> Settle(o)
    [] Kind(o) \in RoleKinds -> RoleChange(o)
    [] OTHER -> Rotate(o)

\* A used key answers with what is stored, if it is the same operation.
CreateOrReplay_KeyIgnored(o) == "new"
CreateOrReplay(o) ==
  LET old == receipts[OpOf[o].key] IN
  IF old.result = "none" THEN "new"
  ELSE IF old.kind = Kind(o) THEN "replay" ELSE "conflict"
CompleteLocal(o) ==
  receipts' = [receipts EXCEPT ![OpOf[o].key] = [result |-> ResultOf(o), kind |-> Kind(o)]]

\* A decision whose token was not accepted is told so, unless it is a replay.
Told(o, refusal) ==
  IF Kind(o) \in {"approve", "reject"} /\ op[o].proof = NoProof THEN "reauth" ELSE refusal

Refuse(o, a) ==
  /\ Answer(o, a)
  /\ UNCHANGED <<binding, cred, asks, grants, reasons, receipts>>

Execute(o) ==
  /\ Effect(o) /\ CompleteLocal(o)
  /\ \/ NoFault /\ op' = [op EXCEPT ![o].pc = "done", ![o].ran = TRUE, ![o].answer = ResultOf(o)]
     \/ Fault /\ op' = [op EXCEPT ![o].pc = "done", ![o].ran = TRUE, ![o].answer = "unavailable"]

Mutate(o) ==
  /\ At(o, "commit")
  /\ \/ /\ ~Revalidate(o) /\ Refuse(o, Told(o, "forbidden")) /\ NoFault
     \/ /\ Revalidate(o) /\ NoFault
        /\ \/ CreateOrReplay(o) = "replay" /\ Refuse(o, receipts[OpOf[o].key].result)
           \/ CreateOrReplay(o) = "conflict" /\ Refuse(o, Told(o, "conflict"))
           \/ /\ CreateOrReplay(o) = "new" /\ Refusal(o) # "none"
              /\ Refuse(o, Told(o, Refusal(o)))
     \/ Revalidate(o) /\ CreateOrReplay(o) = "new" /\ Refusal(o) = "none" /\ Execute(o)
     \/ Refuse(o, "unavailable") /\ Fault
  /\ UNCHANGED <<account, tokens>>

-----------------------------------------------------------------------------
(* Surroundings *)

\* The account service suspends an actor, or lets it back in.
SetAccount(a) ==
  /\ account' = [account EXCEPT ![a] = ~@] /\ Fault
  /\ UNCHANGED <<binding, cred, asks, grants, tokens, reasons, receipts, op>>

AskExpires(k) ==
  /\ asks[k].status = "pending" /\ asks[k].fresh
  /\ asks' = [asks EXCEPT ![k].fresh = FALSE] /\ Fault
  /\ UNCHANGED <<binding, cred, account, grants, tokens, reasons, receipts, op>>
LeaseEnds(k) ==
  /\ grants[k].lease /\ grants' = [grants EXCEPT ![k].lease = FALSE] /\ Fault
  /\ UNCHANGED <<binding, cred, account, asks, tokens, reasons, receipts, op>>
GrantExpires(k) ==
  /\ grants[k].fresh /\ grants' = [grants EXCEPT ![k].fresh = FALSE] /\ Fault
  /\ UNCHANGED <<binding, cred, account, asks, tokens, reasons, receipts, op>>

Serve(o, kinds) == Kind(o) \in kinds /\ (Authorize(o) \/ Mutate(o))
ServeCreate(o)  == Serve(o, {"create"})
ServeDecide(o)  == Serve(o, {"approve", "reject"})
ServeClaim(o)   == Serve(o, {"claim"})
ServeSettle(o)  == Serve(o, {"settle"})
ServeCreateRole(o)  == Serve(o, {"create_role"})
ServeUpdateRole(o)  == Serve(o, {"update_role"})
ServeDisableRole(o) == Serve(o, {"disable_role"})
ServeRotate(o)  == Serve(o, {"rotate_senior", "rotate_super"})

Step(o) == ConsumeStepUp(o) \/ ServeCreate(o) \/ ServeDecide(o) \/ ServeClaim(o)
           \/ ServeSettle(o) \/ ServeCreateRole(o) \/ ServeUpdateRole(o)
           \/ ServeDisableRole(o) \/ ServeRotate(o)

Busy == {o \in Ops : ~At(o, "done")}

Next == (\E o \in Busy : Step(o)) \/ (\E a \in Actors : SetAccount(a))
        \/ (\E k \in Asks : AskExpires(k) \/ LeaseEnds(k) \/ GrantExpires(k))

Spec == Init /\ [][Next]_accessVars

-----------------------------------------------------------------------------
(* Properties *)

\* A grant is used only while its requester has the very authority it was
\* approved under: the same binding at the same version, the same question,
\* an active account.  A change of any of them between the permission check
\* and the transaction, or between approval and use, ends the grant.
InForce(g) ==
  /\ account[Senior] /\ binding[Senior].enabled
  /\ binding[Senior].id = g.binding /\ binding[Senior].version = g.roleVersion
  /\ cred[Senior] = g.cred
UsedInForce ==
  \A k \in Asks : grants'[k].status \in {"claimed", "settled"} /\ grants'[k] # grants[k]
                    /\ grants'[k].version # grants[k].version => InForce(grants[k])
UseUnderApprovedAuthority == [][UsedInForce]_accessVars

\* An approval is for a requester who could use it at that moment.
ApprovedForHolder ==
  \A k \in Asks : grants[k].status = "none" /\ grants'[k].status = "active" =>
    /\ account[Senior] /\ binding[Senior].enabled /\ binding[Senior].role = "senior_admin"
    /\ account[Super] /\ \E o \in Ops : /\ op'[o].ran /\ ~op[o].ran
                                        /\ op[o].proof = [actor |-> Super, cred |-> cred[Super]]
ApprovalsProved == [][ApprovedForHolder]_accessVars

\* Nothing given under a question outlives it.
RotationRevokes == \A k \in Asks : grants[k].status \in {"active", "claimed"} =>
                                     grants[k].cred = cred[Senior]

\* A decision, a settlement and a revocation are final.
Final ==
  \A k \in Asks :
    /\ asks[k].status \in {"approved", "rejected", "revoked"} => asks'[k].status = asks[k].status
    /\ grants[k].status \in {"settled", "revoked"} => grants'[k].status = grants[k].status
DecisionsFinal == [][Final]_accessVars

\* The operation of an idempotency key takes effect once, and a reason, or a
\* step-up token, backs one operation.
Shared(o, p) ==
  \/ OpOf[o].key = OpOf[p].key
  \/ {Kind(o), Kind(p)} \subseteq RoleKinds /\ OpOf[o].reason = OpOf[p].reason
  \/ {Kind(o), Kind(p)} \subseteq {"approve", "reject"} /\ OpOf[o].token = OpOf[p].token
OneEffect == \A o, p \in Ops : op[o].ran /\ op[p].ran /\ Shared(o, p) => o = p

\* A stored answer stays true of the rows it is about.
ReceiptsHold ==
  \A o \in Ops : receipts[OpOf[o].key].kind = Kind(o) /\ op[o].ran =>
    CASE Kind(o) = "create"  -> asks[Ask(o)].status # "none"
      [] Kind(o) = "approve" -> asks[Ask(o)].status = "approved"
      [] Kind(o) = "reject"  -> asks[Ask(o)].status = "rejected"
      [] Kind(o) = "claim"   -> grants[Ask(o)].status \in {"claimed", "settled", "revoked"}
      [] Kind(o) = "settle"  -> grants[Ask(o)].status = "settled"
      [] OTHER -> TRUE

=============================================================================
