-------------------------- MODULE AdminPlaneProofs ---------------------------
(***************************************************************************)
(* From the theorems about the components to one about the plane: a        *)
(* behaviour of the plane belongs to one part, and while it does it is a   *)
(* behaviour of that component, with the plane's values for its constants. *)
(* Shown is the module of the component's theorems at these values; its    *)
(* copies of the definitions are the plane's, name by name.                *)
(***************************************************************************)
EXTENDS AdminPlane, TLAPS

Shown == INSTANCE AdminProofs WITH
  Requests <- DOMAIN Cases!StepUpInputs, InputOf <- Cases!StepUpInputs,
  KeyOf <- Cases!StepUpKeys, Sessions <- {"s1"},
  MaxFailures <- 1, MaxTries <- 2, MaxActive <- 3, MaxFaults <- 1,
  Ops <- Cases!AccessOps, OpOf <- Cases!AccessOpOf, Asks <- {"a1", "a2", "a3"},
  Tokens <- {"t1"}, FirstAsk <- "a1", Batches <- Cases!AccessBatches,
  LedgerKeys <- {"k1"}, Reconcilers <- {"w1", "w2"}

\* The security question of the theorems is the one of the plane.
LEMMA SameStepUp ==
  /\ Shown!StepUpAssumption <=> StepUp!StepUpAssumption
  /\ Shown!Init <=> StepUp!Init
  /\ Shown!Next <=> StepUp!Next
  /\ Shown!ProofsOfThisCredential <=> StepUp!ProofsOfThisCredential
  /\ Shown!OneProof <=> StepUp!OneProof
  BY DEF Shown!AllowEnrollment, StepUp!AllowEnrollment, Shown!Answer, StepUp!Answer, Shown!At,
         StepUp!At, Shown!Commit, StepUp!Commit, Shown!Committable, StepUp!Committable,
         Shown!CompleteLocal, StepUp!CompleteLocal, Shown!CreateGrant, StepUp!CreateGrant,
         Shown!Effect, StepUp!Effect, Shown!Enroll, StepUp!Enroll, Shown!EnrollReads,
         StepUp!EnrollReads, Shown!Fault, StepUp!Fault, Shown!Fingerprint, StepUp!Fingerprint,
         Shown!Init, StepUp!Init, Shown!InitialEnrollmentAllowed, StepUp!InitialEnrollmentAllowed,
         Shown!Input, StepUp!Input, Shown!Inputs, StepUp!Inputs, Shown!Keys, StepUp!Keys,
         Shown!LimiterCheck, StepUp!LimiterCheck, Shown!LockEnds, StepUp!LockEnds, Shown!Next,
         StepUp!Next, Shown!NoCycle, StepUp!NoCycle, Shown!NoFault, StepUp!NoFault, Shown!NoRow,
         StepUp!NoRow, Shown!NoTx, StepUp!NoTx, Shown!OneProof, StepUp!OneProof, Shown!Open,
         StepUp!Open, Shown!Outcome, StepUp!Outcome, Shown!Proceed, StepUp!Proceed,
         Shown!ProofExpires, StepUp!ProofExpires, Shown!ProofsOfThisCredential,
         StepUp!ProofsOfThisCredential, Shown!PutCredential, StepUp!PutCredential, Shown!PutStepUp,
         StepUp!PutStepUp, Shown!RecordFailure, StepUp!RecordFailure, Shown!Refused, StepUp!Refused,
         Shown!Reject, StepUp!Reject, Shown!Replay, StepUp!Replay, Shown!RequireBinding,
         StepUp!RequireBinding, Shown!Rotate, StepUp!Rotate, Shown!SameVersion, StepUp!SameVersion,
         Shown!StepUp, StepUp!StepUp, Shown!StepUpAssumption, StepUp!StepUpAssumption,
         Shown!TriesEnd, StepUp!TriesEnd, Shown!Verify, StepUp!Verify, Shown!View, StepUp!View,
         Shown!WindowEnds, StepUp!WindowEnds, Shown!stepupVars, StepUp!stepupVars,
         Shown!IsFiniteSet, StepUp!IsFiniteSet, Shown!Cardinality, StepUp!Cardinality

\* So are the requests for identities and roles.
LEMMA SameAccess ==
  /\ Shown!Access!IdentityAccessAssumption <=> Access!IdentityAccessAssumption
  /\ Shown!Access!Init <=> Access!Init
  /\ Shown!Access!Next <=> Access!Next
  /\ Shown!Access!RotationRevokes <=> Access!RotationRevokes
  BY ZenonT(120) DEF Shown!Access!ActorOf, Access!ActorOf, Shown!Access!Actors, Access!Actors,
         Shown!Access!Answer, Access!Answer, Shown!Access!Ask, Access!Ask, Shown!Access!AskExpires,
         Access!AskExpires, Shown!Access!At, Access!At, Shown!Access!Authorize, Access!Authorize,
         Shown!Access!Busy, Access!Busy, Shown!Access!Claim, Access!Claim, Shown!Access!Claimable,
         Access!Claimable, Shown!Access!CompleteLocal, Access!CompleteLocal,
         Shown!Access!ConsumeOwned, Access!ConsumeOwned, Shown!Access!ConsumeStepUp,
         Access!ConsumeStepUp, Shown!Access!CreateOrReplay, Access!CreateOrReplay,
         Shown!Access!CreateRequest, Access!CreateRequest, Shown!Access!CreateRole,
         Access!CreateRole, Shown!Access!CurrentGrantAuthorization,
         Access!CurrentGrantAuthorization, Shown!Access!Decide, Access!Decide,
         Shown!Access!DecisionRefusal, Access!DecisionRefusal, Shown!Access!DisableRole,
         Access!DisableRole, Shown!Access!Effect, Access!Effect, Shown!Access!Evidence,
         Access!Evidence, Shown!Access!Execute, Access!Execute, Shown!Access!Fault, Access!Fault,
         Shown!Access!FirstGrant, Access!FirstGrant, Shown!Access!GrantExpires, Access!GrantExpires,
         Shown!Access!GrantFor, Access!GrantFor, Shown!Access!IdentityAccessAssumption,
         Access!IdentityAccessAssumption, Shown!Access!Init, Access!Init, Shown!Access!Keys,
         Access!Keys, Shown!Access!Kind, Access!Kind, Shown!Access!Kinds, Access!Kinds,
         Shown!Access!LeaseEnds, Access!LeaseEnds, Shown!Access!LockActiveIdentityActor,
         Access!LockActiveIdentityActor, Shown!Access!MayNow, Access!MayNow, Shown!Access!Mutate,
         Access!Mutate, Shown!Access!NewAsk, Access!NewAsk, Shown!Access!Next, Access!Next,
         Shown!Access!NoAsk, Access!NoAsk, Shown!Access!NoEvidence, Access!NoEvidence,
         Shown!Access!NoFault, Access!NoFault, Shown!Access!NoGrant, Access!NoGrant,
         Shown!Access!NoProof, Access!NoProof, Shown!Access!NonceOf, Access!NonceOf,
         Shown!Access!Pending, Access!Pending, Shown!Access!Refusal, Access!Refusal,
         Shown!Access!Refuse, Access!Refuse, Shown!Access!ResultOf, Access!ResultOf,
         Shown!Access!Revalidate, Access!Revalidate, Shown!Access!RevokeAsks, Access!RevokeAsks,
         Shown!Access!RevokeForSecurityRotation, Access!RevokeForSecurityRotation,
         Shown!Access!RevokeGrants, Access!RevokeGrants, Shown!Access!Revoked, Access!Revoked,
         Shown!Access!RoleChange, Access!RoleChange, Shown!Access!RoleCurrent, Access!RoleCurrent,
         Shown!Access!RoleKinds, Access!RoleKinds, Shown!Access!RoleNeeded, Access!RoleNeeded,
         Shown!Access!RoleRefusal, Access!RoleRefusal, Shown!Access!Rotate, Access!Rotate,
         Shown!Access!RotationRevokes, Access!RotationRevokes, Shown!Access!SameAuthority,
         Access!SameAuthority, Shown!Access!Senior, Access!Senior, Shown!Access!Serve, Access!Serve,
         Shown!Access!ServeClaim, Access!ServeClaim, Shown!Access!ServeCreate, Access!ServeCreate,
         Shown!Access!ServeCreateRole, Access!ServeCreateRole, Shown!Access!ServeDecide,
         Access!ServeDecide, Shown!Access!ServeDisableRole, Access!ServeDisableRole,
         Shown!Access!ServeRotate, Access!ServeRotate, Shown!Access!ServeSettle, Access!ServeSettle,
         Shown!Access!ServeUpdateRole, Access!ServeUpdateRole, Shown!Access!SetAccount,
         Access!SetAccount, Shown!Access!Settle, Access!Settle, Shown!Access!Settleable,
         Access!Settleable, Shown!Access!Step, Access!Step, Shown!Access!Super, Access!Super,
         Shown!Access!Told, Access!Told, Shown!Access!Unless, Access!Unless,
         Shown!Access!UpdateRole, Access!UpdateRole, Shown!Access!ValidateStepUp,
         Access!ValidateStepUp, Shown!Access!VersionSeen, Access!VersionSeen,
         Shown!Access!accessVars, Access!accessVars

\* A behaviour that has the security question for its part is one of it, and
\* no other behaviour comes to it.
LEMMA RunsStepUp == Spec => Shown!Spec \/ []~(part = "stepup")
<1>1. Init /\ part = "stepup" => Shown!Init
  BY SameStepUp DEF Init
<1>2. part = "stepup" /\ [Next]_planeVars => (part = "stepup")' /\ [Shown!Next]_(Shown!stepupVars)
  <2> SUFFICES ASSUME part = "stepup", [Next]_planeVars
               PROVE  (part = "stepup")' /\ [StepUp!Next]_(StepUp!stepupVars)
    BY SameStepUp DEF StepUp!stepupVars, Shown!stepupVars
  <2>1. CASE Next
    BY <2>1 DEF Next
  <2>2. CASE UNCHANGED planeVars
    BY <2>2 DEF planeVars, StepUp!stepupVars
  <2> QED
    BY <2>1, <2>2
<1>3. ~(part = "stepup") /\ [Next]_planeVars => (~(part = "stepup"))'
  BY DEF Next, planeVars
<1> QED
  BY <1>1, <1>2, <1>3, PTL DEF Spec, Shown!Spec

\* A behaviour that has the requests for its part is one of them, and no other
\* behaviour comes to them.
LEMMA RunsAccess == Spec => Shown!Access!Spec \/ []~(part = "access")
<1>1. Init /\ part = "access" => Shown!Access!Init
  BY SameAccess DEF Init
<1>2. part = "access" /\ [Next]_planeVars
      => (part = "access")' /\ [Shown!Access!Next]_(Shown!Access!accessVars)
  <2> SUFFICES ASSUME part = "access", [Next]_planeVars
               PROVE  (part = "access")' /\ [Access!Next]_(Access!accessVars)
    BY SameAccess DEF Access!accessVars, Shown!Access!accessVars
  <2>1. CASE Next
    BY <2>1 DEF Next
  <2>2. CASE UNCHANGED planeVars
    BY <2>2 DEF planeVars, Access!accessVars
  <2> QED
    BY <2>1, <2>2
<1>3. ~(part = "access") /\ [Next]_planeVars => (~(part = "access"))'
  BY DEF Next, planeVars
<1> QED
  BY <1>1, <1>2, <1>3, PTL DEF Spec, Shown!Access!Spec

\* Nothing given under a question outlives it, in any behaviour of the plane:
\* a rotation of the question (Rotate, RevokeForSecurityRotation) reaches every
\* proof of a session, every open ask and every grant in force.
THEOREM BoundToQuestion == Spec => []QuestionBound
<1>1. Shown!Spec => [](StepUp!ProofsOfThisCredential /\ StepUp!OneProof)
  <2>1. Shown!StepUpAssumption
    BY SameStepUp, StepUpHolds
  <2>2. Shown!Spec => []Shown!ProofsOfThisCredential
    BY <2>1, Shown!ProofsCurrent
  <2>3. Shown!Spec => []Shown!OneProof
    BY <2>1, Shown!ProofSingle
  <2>4. Shown!ProofsOfThisCredential /\ Shown!OneProof
        => StepUp!ProofsOfThisCredential /\ StepUp!OneProof
    BY SameStepUp
  <2> QED
    BY <2>2, <2>3, <2>4, PTL
<1>2. Shown!Access!Spec => []Access!RotationRevokes
  <2>1. Shown!Access!IdentityAccessAssumption
    BY SameAccess, AccessHolds
  <2>2. Shown!Access!Spec => []Shown!Access!RotationRevokes
    BY <2>1, Shown!QuestionBinds
  <2>3. Shown!Access!RotationRevokes => Access!RotationRevokes
    BY SameAccess
  <2> QED
    BY <2>2, <2>3, PTL
<1>3. /\ ~(part = "stepup") \/ (StepUp!ProofsOfThisCredential /\ StepUp!OneProof)
      /\ ~(part = "access") \/ Access!RotationRevokes
      => QuestionBound
  BY DEF QuestionBound, InStepUp, InAccess
<1> QED
  BY <1>1, <1>2, <1>3, RunsStepUp, RunsAccess, PTL
=============================================================================
