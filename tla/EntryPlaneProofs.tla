-------------------------- MODULE EntryPlaneProofs ---------------------------
(***************************************************************************)
(* From the theorems about the components to those about the plane: a      *)
(* behaviour of the plane belongs to one part, and while it does it is a   *)
(* behaviour of that component, with the plane's values for its constants. *)
(* Earned, Counted and Decided hold the components' theorems at these     *)
(* values; their copies of the definitions are the plane's, name by name.  *)
(***************************************************************************)
EXTENDS EntryPlane, TLAPS

Earned == INSTANCE CeremoniesProofs WITH
  Requests <- Cases!CeremonyRequests, InputOf <- Cases!CeremonyInputs,
  Batches <- Cases!CeremonyBatches, MaxAttempts <- 2, MaxGen <- 2, MaxFaults <- 1,
  MFARequests <- Cases!FactorRequests, MFAInputs <- Cases!FactorInputs,
  MFABatches <- Cases!FactorBatches, Workers <- {"w1"},
  WXRequests <- Cases!OnboardingRequests, WXInputs <- Cases!OnboardingInputs,
  WXScenarios <- Cases!OnboardingScenarios, Subjects <- {"w1", "w2"},
  PhoneOf <- Cases!OnboardingPhones, WXWorkers <- {"k1"}, MaxVersion <- 2

Counted == INSTANCE EntryLimitsProofs WITH
  Requests <- DOMAIN Cases!GateInputs, InputOf <- Cases!GateInputs,
  Batches <- Cases!GateBatches, Browsers <- {"x", "y"}, Emails <- {"e1", "e2"},
  GuessLimit <- 2, DeviceGuesses <- 2, NetworkGuesses <- 4, IssueLimit <- 2, EmailLimit <- 1,
  IPBlockAfter <- 2, MaxFaults <- 1,
  Callers <- DOMAIN Cases!QueueDomains, DomainOf <- Cases!QueueDomains,
  Established <- {"mail.example"}, InFlight <- 2, Queued <- 1, UnfamiliarInFlight <- 2,
  UnfamiliarQueued <- 0, PerDomain <- 1, MaxLanes <- 3, MaxTimeouts <- 1,
  RegRequests <- Cases!RegistrationRequests, RegInputs <- Cases!RegistrationInputs,
  RegScenarios <- Cases!RegistrationScenarios, RegFaults <- 2,
  Users <- {"u1", "u2"}, RecRequests <- Cases!RecoveryRequests,
  RecInputs <- Cases!RecoveryInputs, RecBatches <- Cases!RecoveryBatches,
  RecFaults <- 2,
  Notices <- {"n1", "n2"}, Target <- [n \in {"n1", "n2"} |-> IF n = "n1" THEN "a1" ELSE "a2"],
  Accounts <- {"a1", "a2"}, Age <- [n \in {"n1", "n2"} |-> IF n = "n1" THEN 1 ELSE 2],
  Batch <- 1, Workers <- {"k1", "k2"}

Decided == INSTANCE ConsentDecisionProofs WITH
  FrontRequests <- Cases!FrontRequests, FrontInputs <- Cases!FrontInputs,
  FrontBatches <- Cases!FrontBatches, MaxChanges <- 2, FrontFaults <- 1,
  Browsers <- {}, Reconcilers <- {}, AuthRequests <- {}, Users <- {}, Prompt <- <<>>,
  Asks <- <<>>, Poisoned <- {}, Batch <- 1, MaxFaults <- 1,
  provider <- part, row <- part, audits <- part, job <- part, reply <- part, pass <- part

\* The definitions under the theorems about the ceremonies are those of the plane.
LEMMA SameCeremony ==
  /\ Earned!CeremoniesAssumption <=> Ceremony!CeremoniesAssumption
  /\ Earned!Init <=> Ceremony!Init
  /\ Earned!Next <=> Ceremony!Next
  /\ Earned!GuessesBounded <=> Ceremony!GuessesBounded
  /\ Earned!OneReward <=> Ceremony!OneReward
  /\ Earned!AcceptedOnce <=> Ceremony!AcceptedOnce
  /\ Earned!GrantAudited <=> Ceremony!GrantAudited
  /\ Earned!GrantOfChallenge <=> Ceremony!GrantOfChallenge
  /\ Earned!TempCovered <=> Ceremony!TempCovered
  /\ Earned!SweepSpares <=> Ceremony!SweepSpares
  /\ Earned!TypeOK <=> Ceremony!TypeOK
  BY DEF Earned!Abandoned, Ceremony!Abandoned, Earned!AcceptedOnce, Ceremony!AcceptedOnce,
         Earned!After, Ceremony!After, Earned!AllowUse, Ceremony!AllowUse, Earned!Answer,
         Ceremony!Answer, Earned!Answers, Ceremony!Answers, Earned!At, Ceremony!At,
         Earned!AuditGrant, Ceremony!AuditGrant, Earned!BeginLogin, Ceremony!BeginLogin,
         Earned!BeginReauthentication, Ceremony!BeginReauthentication, Earned!Ceremonies,
         Ceremony!Ceremonies, Earned!CeremoniesAssumption, Ceremony!CeremoniesAssumption,
         Earned!CeremonyOf, Ceremony!CeremonyOf, Earned!ChallengeExpires, Ceremony!ChallengeExpires,
         Earned!ClaimChallenge, Ceremony!ClaimChallenge, Earned!CompleteMFA, Ceremony!CompleteMFA,
         Earned!Consumable, Ceremony!Consumable, Earned!ConsumeChallenge, Ceremony!ConsumeChallenge,
         Earned!ConsumeGrant, Ceremony!ConsumeGrant, Earned!ConsumeLost, Ceremony!ConsumeLost,
         Earned!ConsumeWon, Ceremony!ConsumeWon, Earned!CountAttempt, Ceremony!CountAttempt,
         Earned!CrashRequest, Ceremony!CrashRequest, Earned!CrashWorker, Ceremony!CrashWorker,
         Earned!CreateChallenge, Ceremony!CreateChallenge, Earned!CreateGrant, Ceremony!CreateGrant,
         Earned!CreateMFA, Ceremony!CreateMFA, Earned!Fault, Ceremony!Fault, Earned!Foreign,
         Ceremony!Foreign, Earned!Freshened, Ceremony!Freshened, Earned!GrantAudited,
         Ceremony!GrantAudited, Earned!GrantOfChallenge, Ceremony!GrantOfChallenge, Earned!Grantees,
         Ceremony!Grantees, Earned!Grants, Ceremony!Grants, Earned!GuessesBounded,
         Ceremony!GuessesBounded, Earned!HandleAuthenticated, Ceremony!HandleAuthenticated,
         Earned!IncrementAttempts, Ceremony!IncrementAttempts, Earned!Init, Ceremony!Init,
         Earned!IssueGrant, Ceremony!IssueGrant, Earned!Judge, Ceremony!Judge, Earned!Labels,
         Ceremony!Labels, Earned!LockExpires, Ceremony!LockExpires, Earned!Login, Ceremony!Login,
         Earned!LoginHandler, Ceremony!LoginHandler, Earned!MaxReached, Ceremony!MaxReached,
         Earned!MintGrant, Ceremony!MintGrant, Earned!Next, Ceremony!Next, Earned!Next2,
         Ceremony!Next2, Earned!NoFault, Ceremony!NoFault, Earned!NoGrant, Ceremony!NoGrant,
         Earned!Of, Ceremony!Of, Earned!OneReward, Ceremony!OneReward, Earned!Op, Ceremony!Op,
         Earned!PopExpiredChallenges, Ceremony!PopExpiredChallenges, Earned!PutStepUp,
         Ceremony!PutStepUp, Earned!ReleaseChallenge, Ceremony!ReleaseChallenge, Earned!Request,
         Ceremony!Request, Earned!RevokeAbandoned, Ceremony!RevokeAbandoned,
         Earned!RevokeProviderSession, Ceremony!RevokeProviderSession, Earned!Runs, Ceremony!Runs,
         Earned!SecurityChange, Ceremony!SecurityChange, Earned!Serve, Ceremony!Serve,
         Earned!Session, Ceremony!Session, Earned!StoreChallenge, Ceremony!StoreChallenge,
         Earned!Stored, Ceremony!Stored, Earned!Sweep, Ceremony!Sweep, Earned!SweepSpares,
         Ceremony!SweepSpares, Earned!Taken, Ceremony!Taken, Earned!TempCovered,
         Ceremony!TempCovered, Earned!To, Ceremony!To, Earned!TypeOK, Ceremony!TypeOK,
         Earned!Unaudited, Ceremony!Unaudited, Earned!Unconsumed, Ceremony!Unconsumed,
         Earned!UndoGrant, Ceremony!UndoGrant, Earned!Unlocked, Ceremony!Unlocked,
         Earned!VerifyAndConsumeData, Ceremony!VerifyAndConsumeData, Earned!ceremonyVars,
         Ceremony!ceremonyVars, Earned!grantVars, Ceremony!grantVars, Earned!storeVars,
         Ceremony!storeVars, Earned!IsFiniteSet, Ceremony!IsFiniteSet, Earned!Cardinality,
         Ceremony!Cardinality

\* A behaviour that has the ceremonies for its part is one of that
\* component, and no other behaviour comes to it.
LEMMA RunsCeremony == Spec => Earned!Spec \/ []~(part = "ceremony")
<1>1. Init /\ part = "ceremony" => Earned!Init
  BY SameCeremony DEF Init
<1>2. part = "ceremony" /\ [Next]_planeVars => (part = "ceremony")' /\ [Earned!Next]_(Earned!ceremonyVars)
  <2> SUFFICES ASSUME part = "ceremony", [Next]_planeVars
               PROVE  (part = "ceremony")' /\ [Ceremony!Next]_(Ceremony!ceremonyVars)
    BY SameCeremony DEF Ceremony!ceremonyVars, Earned!ceremonyVars
  <2>1. CASE Next
    BY <2>1 DEF Next
  <2>2. CASE UNCHANGED planeVars
    BY <2>2 DEF planeVars, Ceremony!ceremonyVars
  <2> QED
    BY <2>1, <2>2
<1>3. ~(part = "ceremony") /\ [Next]_planeVars => (~(part = "ceremony"))'
  BY DEF Next, planeVars
<1> QED
  BY <1>1, <1>2, <1>3, PTL DEF Spec, Earned!Spec

\* The definitions under the theorems about the enrolling of factors are those of the plane.
LEMMA SameEnrollment ==
  /\ Earned!MFA!EnrollmentAssumption <=> Enrollment!EnrollmentAssumption
  /\ Earned!MFA!Init <=> Enrollment!Init
  /\ Earned!MFA!Next <=> Enrollment!Next
  /\ Earned!MFA!OneActor <=> Enrollment!OneActor
  /\ Earned!MFA!PendingCovered <=> Enrollment!PendingCovered
  /\ Earned!MFA!ForeignBurns <=> Enrollment!ForeignBurns
  /\ Earned!MFA!TypeOK <=> Enrollment!TypeOK
  /\ Earned!MFA!WorkerSpares <=> Enrollment!WorkerSpares
  /\ Earned!MFA!ActiveKept <=> Enrollment!ActiveKept
  BY DEF Earned!MFA!AbandonEnrollment, Enrollment!AbandonEnrollment, Earned!MFA!Absent,
         Enrollment!Absent, Earned!MFA!Activated, Enrollment!Activated, Earned!MFA!ActiveKept,
         Enrollment!ActiveKept, Earned!MFA!Answer, Enrollment!Answer, Earned!MFA!Answers,
         Enrollment!Answers, Earned!MFA!At, Enrollment!At, Earned!MFA!BeginPasskeyEnrollment,
         Enrollment!BeginPasskeyEnrollment, Earned!MFA!BeginTOTPEnrollment,
         Enrollment!BeginTOTPEnrollment, Earned!MFA!Cancel, Enrollment!Cancel,
         Earned!MFA!CancelPasskeyEnrollment, Enrollment!CancelPasskeyEnrollment,
         Earned!MFA!CancelTOTPEnrollment, Enrollment!CancelTOTPEnrollment,
         Earned!MFA!ClaimEnrollment, Enrollment!ClaimEnrollment, Earned!MFA!ClaimEnrollmentData,
         Enrollment!ClaimEnrollmentData, Earned!MFA!ClaimExpiredPasskeyEnrollments,
         Enrollment!ClaimExpiredPasskeyEnrollments, Earned!MFA!CleanupLeaseExpires,
         Enrollment!CleanupLeaseExpires, Earned!MFA!Compensate, Enrollment!Compensate,
         Earned!MFA!CompletePasskeyEnrollmentCleanup, Enrollment!CompletePasskeyEnrollmentCleanup,
         Earned!MFA!Confirm, Enrollment!Confirm, Earned!MFA!ConfirmPasskeyEnrollment,
         Enrollment!ConfirmPasskeyEnrollment, Earned!MFA!ConfirmTOTPEnrollment,
         Enrollment!ConfirmTOTPEnrollment, Earned!MFA!ConsumeEnrollment,
         Enrollment!ConsumeEnrollment, Earned!MFA!CrashRequest, Enrollment!CrashRequest,
         Earned!MFA!CrashWorker, Enrollment!CrashWorker, Earned!MFA!CreateEnrollment,
         Enrollment!CreateEnrollment, Earned!MFA!Due, Enrollment!Due,
         Earned!MFA!EnrollmentAssumption, Enrollment!EnrollmentAssumption, Earned!MFA!Fault,
         Enrollment!Fault, Earned!MFA!Finalize, Enrollment!Finalize, Earned!MFA!Foreign,
         Enrollment!Foreign, Earned!MFA!ForeignBurns, Enrollment!ForeignBurns, Earned!MFA!Gate,
         Enrollment!Gate, Earned!MFA!Held, Enrollment!Held, Earned!MFA!Idle, Enrollment!Idle,
         Earned!MFA!Init, Enrollment!Init, Earned!MFA!IssueEnrollment, Enrollment!IssueEnrollment,
         Earned!MFA!Kind, Enrollment!Kind, Earned!MFA!Leased, Enrollment!Leased,
         Earned!MFA!ListPasskeys, Enrollment!ListPasskeys, Earned!MFA!LockExpires,
         Enrollment!LockExpires, Earned!MFA!Modes, Enrollment!Modes, Earned!MFA!Next,
         Enrollment!Next, Earned!MFA!NoFault, Enrollment!NoFault, Earned!MFA!OneActor,
         Enrollment!OneActor, Earned!MFA!Op, Enrollment!Op, Earned!MFA!Passkeys,
         Enrollment!Passkeys, Earned!MFA!PendingCovered, Enrollment!PendingCovered,
         Earned!MFA!Preserved, Enrollment!Preserved, Earned!MFA!ProviderLost,
         Enrollment!ProviderLost, Earned!MFA!Register, Enrollment!Register, Earned!MFA!Rejected,
         Enrollment!Rejected, Earned!MFA!ReleaseEnrollment, Enrollment!ReleaseEnrollment,
         Earned!MFA!Remove, Enrollment!Remove, Earned!MFA!RemoveAbandoned,
         Enrollment!RemoveAbandoned, Earned!MFA!RemovePasskey, Enrollment!RemovePasskey,
         Earned!MFA!RemovePendingTOTP, Enrollment!RemovePendingTOTP, Earned!MFA!RemoveTOTP,
         Enrollment!RemoveTOTP, Earned!MFA!Removed, Enrollment!Removed, Earned!MFA!Requeue,
         Enrollment!Requeue, Earned!MFA!SecurityChange, Enrollment!SecurityChange, Earned!MFA!Serve,
         Enrollment!Serve, Earned!MFA!Session, Enrollment!Session, Earned!MFA!Settle,
         Enrollment!Settle, Earned!MFA!SettleEnrollment, Enrollment!SettleEnrollment,
         Earned!MFA!Slot, Enrollment!Slot, Earned!MFA!Slots, Enrollment!Slots, Earned!MFA!To,
         Enrollment!To, Earned!MFA!Token, Enrollment!Token, Earned!MFA!TokenExpires,
         Enrollment!TokenExpires, Earned!MFA!Tokens, Enrollment!Tokens, Earned!MFA!TypeOK,
         Enrollment!TypeOK, Earned!MFA!Verdicts, Enrollment!Verdicts, Earned!MFA!WorkerSpares,
         Enrollment!WorkerSpares, Earned!MFA!WorkerStep, Enrollment!WorkerStep,
         Earned!MFA!enrollVars, Enrollment!enrollVars, Earned!MFA!IsFiniteSet,
         Enrollment!IsFiniteSet, Earned!MFA!Cardinality, Enrollment!Cardinality

\* A behaviour that has the enrolling of factors for its part is one of that
\* component, and no other behaviour comes to it.
LEMMA RunsEnrollment == Spec => Earned!MFA!Spec \/ []~(part = "enrollment")
<1>1. Init /\ part = "enrollment" => Earned!MFA!Init
  BY SameEnrollment DEF Init
<1>2. part = "enrollment" /\ [Next]_planeVars => (part = "enrollment")'
        /\ [Earned!MFA!Next]_(Earned!MFA!enrollVars)
  <2> SUFFICES ASSUME part = "enrollment", [Next]_planeVars
               PROVE  (part = "enrollment")' /\ [Enrollment!Next]_(Enrollment!enrollVars)
    BY SameEnrollment DEF Enrollment!enrollVars, Earned!MFA!enrollVars
  <2>1. CASE Next
    BY <2>1 DEF Next
  <2>2. CASE UNCHANGED planeVars
    BY <2>2 DEF planeVars, Enrollment!enrollVars
  <2> QED
    BY <2>1, <2>2
<1>3. ~(part = "enrollment") /\ [Next]_planeVars => (~(part = "enrollment"))'
  BY DEF Next, planeVars
<1> QED
  BY <1>1, <1>2, <1>3, PTL DEF Spec, Earned!MFA!Spec

\* The definitions under the theorems about onboarding are those of the plane.
LEMMA SameOnboarding ==
  /\ Earned!WX!OnboardingAssumption <=> Onboarding!OnboardingAssumption
  /\ Earned!WX!Init <=> Onboarding!Init
  /\ Earned!WX!Next <=> Onboarding!Next
  /\ Earned!WX!SingleOutcome <=> Onboarding!SingleOutcome
  /\ Earned!WX!SessionBacked <=> Onboarding!SessionBacked
  /\ Earned!WX!SessionsAccounted <=> Onboarding!SessionsAccounted
  /\ Earned!WX!LinksOneToOne <=> Onboarding!LinksOneToOne
  /\ Earned!WX!TypeOK <=> Onboarding!TypeOK
  /\ Earned!WX!LinksKept <=> Onboarding!LinksKept
  BY ZenonT(120) DEF Earned!WX!Abandon, Onboarding!Abandon, Earned!WX!Abandoned, Onboarding!Abandoned,
         Earned!WX!Account, Onboarding!Account, Earned!WX!AccountChange, Onboarding!AccountChange,
         Earned!WX!Accounts, Onboarding!Accounts, Earned!WX!Advanced, Onboarding!Advanced,
         Earned!WX!AfterSession, Onboarding!AfterSession, Earned!WX!Answer, Onboarding!Answer,
         Earned!WX!At, Onboarding!At, Earned!WX!Begin, Onboarding!Begin, Earned!WX!BeginService,
         Onboarding!BeginService, Earned!WX!Begins, Onboarding!Begins, Earned!WX!BindExistingOnce,
         Onboarding!BindExistingOnce, Earned!WX!BindExistingWithWeChat,
         Onboarding!BindExistingWithWeChat, Earned!WX!Bindable, Onboarding!Bindable, Earned!WX!Busy,
         Onboarding!Busy, Earned!WX!Ceremony, Onboarding!Ceremony, Earned!WX!ChallengeExpires,
         Onboarding!ChallengeExpires, Earned!WX!Chore, Onboarding!Chore, Earned!WX!Chores,
         Onboarding!Chores, Earned!WX!Claim, Onboarding!Claim, Earned!WX!ClaimCleanup,
         Onboarding!ClaimCleanup, Earned!WX!ClaimFree, Onboarding!ClaimFree, Earned!WX!Claimed,
         Onboarding!Claimed, Earned!WX!CleanupLeaseExpires, Onboarding!CleanupLeaseExpires,
         Earned!WX!Complete, Onboarding!Complete, Earned!WX!CompleteCleanup,
         Onboarding!CompleteCleanup, Earned!WX!CompleteExisting, Onboarding!CompleteExisting,
         Earned!WX!CompleteLinkedWithVerifiedPhone, Onboarding!CompleteLinkedWithVerifiedPhone,
         Earned!WX!CompleteMFA, Onboarding!CompleteMFA, Earned!WX!CompleteMFAProvider,
         Onboarding!CompleteMFAProvider, Earned!WX!CompletePendingRegistration,
         Onboarding!CompletePendingRegistration, Earned!WX!CompleteProviderSessionPromotion,
         Onboarding!CompleteProviderSessionPromotion, Earned!WX!Completes, Onboarding!Completes,
         Earned!WX!Consumable, Onboarding!Consumable, Earned!WX!Consume, Onboarding!Consume,
         Earned!WX!ConsumeHash, Onboarding!ConsumeHash, Earned!WX!ConsumeVars,
         Onboarding!ConsumeVars, Earned!WX!CrashRequest, Onboarding!CrashRequest,
         Earned!WX!CrashWorker, Onboarding!CrashWorker, Earned!WX!CreateFederatedSession,
         Onboarding!CreateFederatedSession, Earned!WX!CreateMFAChallenge,
         Onboarding!CreateMFAChallenge, Earned!WX!CreateOnboarding, Onboarding!CreateOnboarding,
         Earned!WX!CreateSession, Onboarding!CreateSession, Earned!WX!DeleteSession,
         Onboarding!DeleteSession, Earned!WX!Drop, Onboarding!Drop, Earned!WX!Fault,
         Onboarding!Fault, Earned!WX!FindByNormalizedEmail, Onboarding!FindByNormalizedEmail,
         Earned!WX!FinishCeremony, Onboarding!FinishCeremony, Earned!WX!Handled, Onboarding!Handled,
         Earned!WX!Idle, Onboarding!Idle, Earned!WX!IncrementAttempts, Onboarding!IncrementAttempts,
         Earned!WX!Init, Onboarding!Init, Earned!WX!Labels, Onboarding!Labels, Earned!WX!Late,
         Onboarding!Late, Earned!WX!Limited, Onboarding!Limited, Earned!WX!LinkConflict,
         Onboarding!LinkConflict, Earned!WX!LinkedTo, Onboarding!LinkedTo, Earned!WX!LinksKept,
         Onboarding!LinksKept, Earned!WX!LinksOneToOne, Onboarding!LinksOneToOne,
         Earned!WX!LockExpires, Onboarding!LockExpires, Earned!WX!Looked, Onboarding!Looked,
         Earned!WX!MFAToken, Onboarding!MFAToken, Earned!WX!Mismatch, Onboarding!Mismatch,
         Earned!WX!Moving, Onboarding!Moving, Earned!WX!Next, Onboarding!Next, Earned!WX!Next1,
         Onboarding!Next1, Earned!WX!NoFault, Onboarding!NoFault, Earned!WX!NotConsumed,
         Onboarding!NotConsumed, Earned!WX!Of, Onboarding!Of, Earned!WX!OnboardingAssumption,
         Onboarding!OnboardingAssumption, Earned!WX!OneToOne, Onboarding!OneToOne, Earned!WX!Op,
         Onboarding!Op, Earned!WX!PhoneAdded, Onboarding!PhoneAdded, Earned!WX!PhoneConflict,
         Onboarding!PhoneConflict, Earned!WX!PhoneOwners, Onboarding!PhoneOwners,
         Earned!WX!PhoneTaken, Onboarding!PhoneTaken, Earned!WX!Phones, Onboarding!Phones,
         Earned!WX!Promotable, Onboarding!Promotable, Earned!WX!Promoted, Onboarding!Promoted,
         Earned!WX!PromotionExpires, Onboarding!PromotionExpires, Earned!WX!Release,
         Onboarding!Release, Earned!WX!ReleaseAfterFailure, Onboarding!ReleaseAfterFailure,
         Earned!WX!RetryCleanup, Onboarding!RetryCleanup, Earned!WX!Revoke, Onboarding!Revoke,
         Earned!WX!RevokeProviderSession, Onboarding!RevokeProviderSession, Earned!WX!Rewards,
         Onboarding!Rewards, Earned!WX!ScheduleProviderSessionCleanup,
         Onboarding!ScheduleProviderSessionCleanup, Earned!WX!Serve, Onboarding!Serve,
         Earned!WX!SessionBacked, Onboarding!SessionBacked, Earned!WX!SessionsAccounted,
         Onboarding!SessionsAccounted, Earned!WX!SingleOutcome, Onboarding!SingleOutcome,
         Earned!WX!StoreMFAChallenge, Onboarding!StoreMFAChallenge, Earned!WX!Subject,
         Onboarding!Subject, Earned!WX!Tidied, Onboarding!Tidied, Earned!WX!TidyUp,
         Onboarding!TidyUp, Earned!WX!Tidying, Onboarding!Tidying, Earned!WX!To, Onboarding!To,
         Earned!WX!Tokens, Onboarding!Tokens, Earned!WX!TypeOK, Onboarding!TypeOK,
         Earned!WX!Unchanged, Onboarding!Unchanged, Earned!WX!Undo, Onboarding!Undo,
         Earned!WX!VerifyUserPassword, Onboarding!VerifyUserPassword, Earned!WX!Won, Onboarding!Won,
         Earned!WX!Worker, Onboarding!Worker, Earned!WX!cleanupVars, Onboarding!cleanupVars,
         Earned!WX!historyVars, Onboarding!historyVars, Earned!WX!onboardingVars,
         Onboarding!onboardingVars, Earned!WX!IsFiniteSet, Onboarding!IsFiniteSet,
         Earned!WX!Cardinality, Onboarding!Cardinality

\* A behaviour that has onboarding for its part is one of that
\* component, and no other behaviour comes to it.
LEMMA RunsOnboarding == Spec => Earned!WX!Spec \/ []~(part = "onboarding")
<1>1. Init /\ part = "onboarding" => Earned!WX!Init
  BY SameOnboarding DEF Init
<1>2. part = "onboarding" /\ [Next]_planeVars => (part = "onboarding")'
        /\ [Earned!WX!Next]_(Earned!WX!onboardingVars)
  <2> SUFFICES ASSUME part = "onboarding", [Next]_planeVars
               PROVE  (part = "onboarding")' /\ [Onboarding!Next]_(Onboarding!onboardingVars)
    BY SameOnboarding DEF Onboarding!onboardingVars, Earned!WX!onboardingVars
  <2>1. CASE Next
    BY <2>1 DEF Next
  <2>2. CASE UNCHANGED planeVars
    BY <2>2 DEF planeVars, Onboarding!onboardingVars
  <2> QED
    BY <2>1, <2>2
<1>3. ~(part = "onboarding") /\ [Next]_planeVars => (~(part = "onboarding"))'
  BY DEF Next, planeVars
<1> QED
  BY <1>1, <1>2, <1>3, PTL DEF Spec, Earned!WX!Spec

\* The definitions under the theorems about the registration gate are those of the plane.
LEMMA SameGate ==
  /\ Counted!GateAssumption <=> Gate!GateAssumption
  /\ Counted!Init <=> Gate!Init
  /\ Counted!Next <=> Gate!Next
  /\ Counted!GuessesBounded <=> Gate!GuessesBounded
  /\ Counted!BudgetsExact <=> Gate!BudgetsExact
  /\ Counted!StrikesEarned <=> Gate!StrikesEarned
  /\ Counted!OneRegistration <=> Gate!OneRegistration
  /\ Counted!SoleChallenge <=> Gate!SoleChallenge
  /\ Counted!HumanProven <=> Gate!HumanProven
  /\ Counted!TypeOK <=> Gate!TypeOK
  /\ Counted!PinKept <=> Gate!PinKept
  BY DEF Counted!Admit, Gate!Admit, Counted!Allowed, Gate!Allowed, Counted!Answer, Gate!Answer,
         Counted!Answered, Gate!Answered, Counted!Answers, Gate!Answers, Counted!Assess,
         Gate!Assess, Counted!AssessEmail, Gate!AssessEmail, Counted!At, Gate!At, Counted!Begin,
         Gate!Begin, Counted!BindFormIntentEmail, Gate!BindFormIntentEmail, Counted!Bound,
         Gate!Bound, Counted!Browser, Gate!Browser, Counted!BudgetsExact, Gate!BudgetsExact,
         Counted!Busy, Gate!Busy, Counted!Charged, Gate!Charged, Counted!Charging, Gate!Charging,
         Counted!CheckCompletionRate, Gate!CheckCompletionRate,
         Counted!CheckRegistrationCompletionRate, Gate!CheckRegistrationCompletionRate,
         Counted!CheckRegistrationCreateChain, Gate!CheckRegistrationCreateChain,
         Counted!CheckRegistrationIssueRate, Gate!CheckRegistrationIssueRate,
         Counted!ClaimChallenge, Gate!ClaimChallenge, Counted!Classified, Gate!Classified,
         Counted!ClassifyHoneypot, Gate!ClassifyHoneypot, Counted!Cleared, Gate!Cleared,
         Counted!Complete, Gate!Complete, Counted!Consumable, Gate!Consumable,
         Counted!ConsumeFormIntent, Gate!ConsumeFormIntent, Counted!ConsumeRegistrationChallenge,
         Gate!ConsumeRegistrationChallenge, Counted!Crash, Gate!Crash, Counted!Create, Gate!Create,
         Counted!CreateFormIntent, Gate!CreateFormIntent, Counted!CreateHandler, Gate!CreateHandler,
         Counted!Creates, Gate!Creates, Counted!Delivered, Gate!Delivered, Counted!Email,
         Gate!Email, Counted!EnsureDevice, Gate!EnsureDevice, Counted!ExpireChallenge,
         Gate!ExpireChallenge, Counted!ExpireClaim, Gate!ExpireClaim, Counted!ExpireIntent,
         Gate!ExpireIntent, Counted!ExpireTrust, Gate!ExpireTrust, Counted!Fault, Gate!Fault,
         Counted!Filled, Gate!Filled, Counted!FinalizeRegistrationChallenge,
         Gate!FinalizeRegistrationChallenge, Counted!Forgiven, Gate!Forgiven, Counted!Free,
         Gate!Free, Counted!GateAssumption, Gate!GateAssumption, Counted!GuessesBounded,
         Gate!GuessesBounded, Counted!Held, Gate!Held, Counted!HumanProven, Gate!HumanProven,
         Counted!Init, Gate!Init, Counted!Intent, Gate!Intent, Counted!Intents, Gate!Intents,
         Counted!IsRegistrationBlocked, Gate!IsRegistrationBlocked, Counted!IssueChallenge,
         Gate!IssueChallenge, Counted!IssueFormIntent, Gate!IssueFormIntent, Counted!Labels,
         Gate!Labels, Counted!Network, Gate!Network, Counted!Next, Gate!Next, Counted!NoEmail,
         Gate!NoEmail, Counted!NoFault, Gate!NoFault, Counted!Of, Gate!Of, Counted!OneRegistration,
         Gate!OneRegistration, Counted!Op, Gate!Op, Counted!Owned, Gate!Owned, Counted!Past,
         Gate!Past, Counted!PastEmail, Gate!PastEmail, Counted!PastOf, Gate!PastOf, Counted!PinKept,
         Gate!PinKept, Counted!Pinned, Gate!Pinned, Counted!PutTrust, Gate!PutTrust, Counted!Ready,
         Gate!Ready, Counted!RecordOutcome, Gate!RecordOutcome, Counted!RecordRegistrationHoneypot,
         Gate!RecordRegistrationHoneypot, Counted!RefundRegistrationCreateCohorts,
         Gate!RefundRegistrationCreateCohorts, Counted!Refundable, Gate!Refundable,
         Counted!ReleaseChallenge, Gate!ReleaseChallenge, Counted!ReleaseRegistrationChallenge,
         Gate!ReleaseRegistrationChallenge, Counted!RequireRegistration, Gate!RequireRegistration,
         Counted!ReserveRegistrationChallenge, Gate!ReserveRegistrationChallenge, Counted!Revoke,
         Gate!Revoke, Counted!RevokeBlock, Gate!RevokeBlock, Counted!Ripen, Gate!Ripen,
         Counted!Room, Gate!Room, Counted!Scope, Gate!Scope, Counted!SoleChallenge,
         Gate!SoleChallenge, Counted!Solves, Gate!Solves, Counted!Sources, Gate!Sources,
         Counted!Spent, Gate!Spent, Counted!States, Gate!States, Counted!StrikesEarned,
         Gate!StrikesEarned, Counted!Struck, Gate!Struck, Counted!Then, Gate!Then, Counted!To,
         Gate!To, Counted!Trusted, Gate!Trusted, Counted!TypeOK, Gate!TypeOK,
         Counted!UnblockRegistrationHash, Gate!UnblockRegistrationHash, Counted!Unblocks,
         Gate!Unblocks, Counted!Used, Gate!Used, Counted!VerifyProof, Gate!VerifyProof,
         Counted!budgetVars, Gate!budgetVars, Counted!formVars, Gate!formVars, Counted!gateVars,
         Gate!gateVars, Counted!issueVars, Gate!issueVars, Counted!proofVars, Gate!proofVars,
         Counted!IsFiniteSet, Gate!IsFiniteSet, Counted!Cardinality, Gate!Cardinality

\* A behaviour that has the registration gate for its part is one of that
\* component, and no other behaviour comes to it.
LEMMA RunsGate == Spec => Counted!Spec \/ []~(part = "gate")
<1>1. Init /\ part = "gate" => Counted!Init
  BY SameGate DEF Init
<1>2. part = "gate" /\ [Next]_planeVars => (part = "gate")' /\ [Counted!Next]_(Counted!gateVars)
  <2> SUFFICES ASSUME part = "gate", [Next]_planeVars
               PROVE  (part = "gate")' /\ [Gate!Next]_(Gate!gateVars)
    BY SameGate DEF Gate!gateVars, Counted!gateVars
  <2>1. CASE Next
    BY <2>1 DEF Next
  <2>2. CASE UNCHANGED planeVars
    BY <2>2 DEF planeVars, Gate!gateVars
  <2> QED
    BY <2>1, <2>2
<1>3. ~(part = "gate") /\ [Next]_planeVars => (~(part = "gate"))'
  BY DEF Next, planeVars
<1> QED
  BY <1>1, <1>2, <1>3, PTL DEF Spec, Counted!Spec

\* The definitions under the theorems about the admission queue are those of the plane.
LEMMA SameQueue ==
  /\ Counted!Queue!AdmissionAssumption <=> Queue!AdmissionAssumption
  /\ Counted!Queue!Init <=> Queue!Init
  /\ Counted!Queue!Next <=> Queue!Next
  /\ Counted!Queue!SlotsBalanced <=> Queue!SlotsBalanced
  /\ Counted!Queue!DomainBounded <=> Queue!DomainBounded
  /\ Counted!Queue!LaneCurrent <=> Queue!LaneCurrent
  /\ Counted!Queue!TypeOK <=> Queue!TypeOK
  BY DEF Counted!Queue!Acquire, Queue!Acquire, Counted!Queue!AcquireGlobal, Queue!AcquireGlobal,
         Counted!Queue!AcquireLane, Queue!AcquireLane, Counted!Queue!AcquireUnfamiliar,
         Queue!AcquireUnfamiliar, Counted!Queue!AdmissionAssumption, Queue!AdmissionAssumption,
         Counted!Queue!At, Queue!At, Counted!Queue!Channels, Queue!Channels,
         Counted!Queue!DomainBounded, Queue!DomainBounded, Counted!Queue!Domains, Queue!Domains,
         Counted!Queue!First, Queue!First, Counted!Queue!Forgotten, Queue!Forgotten,
         Counted!Queue!Full, Queue!Full, Counted!Queue!GiveBack, Queue!GiveBack,
         Counted!Queue!Grants, Queue!Grants, Counted!Queue!Holders, Queue!Holders,
         Counted!Queue!Init, Queue!Init, Counted!Queue!Inside, Queue!Inside, Counted!Queue!Labels,
         Queue!Labels, Counted!Queue!LaneCurrent, Queue!LaneCurrent, Counted!Queue!LaneOf,
         Queue!LaneOf, Counted!Queue!Lanes, Queue!Lanes, Counted!Queue!LeaveLane, Queue!LeaveLane,
         Counted!Queue!Limit, Queue!Limit, Counted!Queue!Next, Queue!Next, Counted!Queue!NoLane,
         Queue!NoLane, Counted!Queue!Order, Queue!Order, Counted!Queue!Proceed, Queue!Proceed,
         Counted!Queue!Put, Queue!Put, Counted!Queue!Referred, Queue!Referred,
         Counted!Queue!Release, Queue!Release, Counted!Queue!Settled, Queue!Settled,
         Counted!Queue!SlotsBalanced, Queue!SlotsBalanced, Counted!Queue!Take, Queue!Take,
         Counted!Queue!To, Queue!To, Counted!Queue!TryReserve, Queue!TryReserve,
         Counted!Queue!TryReserveUnfamiliar, Queue!TryReserveUnfamiliar, Counted!Queue!TypeOK,
         Queue!TypeOK, Counted!Queue!Unfamiliar, Queue!Unfamiliar, Counted!Queue!WaitTimeout,
         Queue!WaitTimeout, Counted!Queue!admissionVars, Queue!admissionVars, Counted!Queue!cleanup,
         Queue!cleanup, Counted!Queue!laneVars, Queue!laneVars, Counted!Queue!releaseLane,
         Queue!releaseLane, Counted!Queue!retainLane, Queue!retainLane, Counted!Queue!IsFiniteSet,
         Queue!IsFiniteSet, Counted!Queue!Cardinality, Queue!Cardinality

\* A behaviour that has the admission queue for its part is one of that
\* component, and no other behaviour comes to it.
LEMMA RunsQueue == Spec => Counted!Queue!Spec \/ []~(part = "queue")
<1>1. Init /\ part = "queue" => Counted!Queue!Init
  BY SameQueue DEF Init
<1>2. part = "queue" /\ [Next]_planeVars => (part = "queue")'
        /\ [Counted!Queue!Next]_(Counted!Queue!admissionVars)
  <2> SUFFICES ASSUME part = "queue", [Next]_planeVars
               PROVE  (part = "queue")' /\ [Queue!Next]_(Queue!admissionVars)
    BY SameQueue DEF Queue!admissionVars, Counted!Queue!admissionVars
  <2>1. CASE Next
    BY <2>1 DEF Next
  <2>2. CASE UNCHANGED planeVars
    BY <2>2 DEF planeVars, Queue!admissionVars
  <2> QED
    BY <2>1, <2>2
<1>3. ~(part = "queue") /\ [Next]_planeVars => (~(part = "queue"))'
  BY DEF Next, planeVars
<1> QED
  BY <1>1, <1>2, <1>3, PTL DEF Spec, Counted!Queue!Spec

\* The definitions under the theorems about the registration are those of the plane.
LEMMA SameRegistration ==
  /\ Counted!Reg!RegistrationAssumption <=> Registration!RegistrationAssumption
  /\ Counted!Reg!Init <=> Registration!Init
  /\ Counted!Reg!Next <=> Registration!Next
  /\ Counted!Reg!CodeOnce <=> Registration!CodeOnce
  /\ Counted!Reg!OneUpstream <=> Registration!OneUpstream
  /\ Counted!Reg!ActiveBacked <=> Registration!ActiveBacked
  /\ Counted!Reg!AnswerBacked <=> Registration!AnswerBacked
  /\ Counted!Reg!RefusedLeavesNothing <=> Registration!RefusedLeavesNothing
  /\ Counted!Reg!VerifierKept <=> Registration!VerifierKept
  /\ Counted!Reg!AuthorityUnique <=> Registration!AuthorityUnique
  /\ Counted!Reg!TypeOK <=> Registration!TypeOK
  /\ Counted!Reg!SuspendedKept <=> Registration!SuspendedKept
  BY DEF Counted!Reg!Absent, Registration!Absent, Counted!Reg!Accounts, Registration!Accounts,
         Counted!Reg!Activatable, Registration!Activatable, Counted!Reg!ActivateVerified,
         Registration!ActivateVerified, Counted!Reg!ActiveBacked, Registration!ActiveBacked,
         Counted!Reg!AddHumanUser, Registration!AddHumanUser, Counted!Reg!Answer,
         Registration!Answer, Counted!Reg!AnswerBacked, Registration!AnswerBacked,
         Counted!Reg!Answers, Registration!Answers, Counted!Reg!At, Registration!At,
         Counted!Reg!AuthorityUnique, Registration!AuthorityUnique, Counted!Reg!ClaimProofs,
         Registration!ClaimProofs, Counted!Reg!Claimable, Registration!Claimable,
         Counted!Reg!CleanupCompleted, Registration!CleanupCompleted, Counted!Reg!Clear,
         Registration!Clear, Counted!Reg!Code, Registration!Code, Counted!Reg!CodeOnce,
         Registration!CodeOnce, Counted!Reg!Crash, Registration!Crash, Counted!Reg!Create,
         Registration!Create, Counted!Reg!CreatePending, Registration!CreatePending,
         Counted!Reg!CreateProviderUser, Registration!CreateProviderUser,
         Counted!Reg!CreateReservedUser, Registration!CreateReservedUser, Counted!Reg!CreateToken,
         Registration!CreateToken, Counted!Reg!CreateUser, Registration!CreateUser,
         Counted!Reg!CreateVerified, Registration!CreateVerified, Counted!Reg!Creates,
         Registration!Creates, Counted!Reg!DeleteIntent, Registration!DeleteIntent,
         Counted!Reg!DeletePending, Registration!DeletePending, Counted!Reg!DeleteProviderUser,
         Registration!DeleteProviderUser, Counted!Reg!DeleteToken, Registration!DeleteToken,
         Counted!Reg!Email, Registration!Email, Counted!Reg!Expected, Registration!Expected,
         Counted!Reg!Fault, Registration!Fault, Counted!Reg!FindPending, Registration!FindPending, Counted!Reg!Form, Registration!Form,
         Counted!Reg!Free, Registration!Free, Counted!Reg!GracePasses, Registration!GracePasses,
         Counted!Reg!HasEmail, Registration!HasEmail, Counted!Reg!Idle, Registration!Idle,
         Counted!Reg!Init, Registration!Init, Counted!Reg!InsertReserved,
         Registration!InsertReserved, Counted!Reg!IsPending, Registration!IsPending,
         Counted!Reg!IssueToken, Registration!IssueToken, Counted!Reg!Kept, Registration!Kept,
         Counted!Reg!Keys, Registration!Keys, Counted!Reg!Labels, Registration!Labels,
         Counted!Reg!Legacy, Registration!Legacy, Counted!Reg!LinkedTo, Registration!LinkedTo,
         Counted!Reg!ListIntents, Registration!ListIntents, Counted!Reg!Next, Registration!Next,
         Counted!Reg!NoFault, Registration!NoFault, Counted!Reg!NoIntent, Registration!NoIntent,
         Counted!Reg!Of, Registration!Of, Counted!Reg!OneUpstream, Registration!OneUpstream,
         Counted!Reg!Op, Registration!Op, Counted!Reg!PendingUser, Registration!PendingUser,
         Counted!Reg!Phone, Registration!Phone, Counted!Reg!PhoneOwners, Registration!PhoneOwners,
         Counted!Reg!Present, Registration!Present, Counted!Reg!Public, Registration!Public,
         Counted!Reg!PutToken, Registration!PutToken, Counted!Reg!ReadAuthority,
         Registration!ReadAuthority, Counted!Reg!ReadBack, Registration!ReadBack,
         Counted!Reg!Refused, Registration!Refused, Counted!Reg!RefusedLeavesNothing,
         Registration!RefusedLeavesNothing, Counted!Reg!Removed, Registration!Removed,
         Counted!Reg!Reserved, Registration!Reserved, Counted!Reg!RegistrationAssumption,
         Registration!RegistrationAssumption, Counted!Reg!ResendEmail, Registration!ResendEmail,
         Counted!Reg!Resends, Registration!Resends, Counted!Reg!Reservable, Registration!Reservable,
         Counted!Reg!Reserve, Registration!Reserve, Counted!Reg!ReserveNew, Registration!ReserveNew,
         Counted!Reg!ReservePendingWithWeChat, Registration!ReservePendingWithWeChat,
         Counted!Reg!Resumable, Registration!Resumable, Counted!Reg!Resume, Registration!Resume,
         Counted!Reg!Stored, Registration!Stored, Counted!Reg!Subject, Registration!Subject,
         Counted!Reg!Subjects, Registration!Subjects, Counted!Reg!Suspend, Registration!Suspend,
         Counted!Reg!SuspendedKept, Registration!SuspendedKept, Counted!Reg!To, Registration!To,
         Counted!Reg!TypeOK, Registration!TypeOK, Counted!Reg!Undoing, Registration!Undoing,
         Counted!Reg!Undone, Registration!Undone, Counted!Reg!Unlocked, Registration!Unlocked,
         Counted!Reg!VerifierKept, Registration!VerifierKept, Counted!Reg!Verifies,
         Registration!Verifies, Counted!Reg!Verify, Registration!Verify,
         Counted!Reg!VerifyProviderEmail, Registration!VerifyProviderEmail,
         Counted!Reg!VerifyRegistration, Registration!VerifyRegistration, Counted!Reg!WeChat,
         Registration!WeChat, Counted!Reg!With, Registration!With, Counted!Reg!historyVars,
         Registration!historyVars, Counted!Reg!registrationVars, Registration!registrationVars,
         Counted!Reg!IsFiniteSet, Registration!IsFiniteSet, Counted!Reg!Cardinality,
         Registration!Cardinality

\* A behaviour that has the registration for its part is one of that
\* component, and no other behaviour comes to it.
LEMMA RunsRegistration == Spec => Counted!Reg!Spec \/ []~(part = "registration")
<1>1. Init /\ part = "registration" => Counted!Reg!Init
  BY SameRegistration DEF Init
<1>2. part = "registration" /\ [Next]_planeVars => (part = "registration")'
        /\ [Counted!Reg!Next]_(Counted!Reg!registrationVars)
  <2> SUFFICES ASSUME part = "registration", [Next]_planeVars
               PROVE  (part = "registration")' /\ [Registration!Next]_(Registration!registrationVars)
    BY SameRegistration DEF Registration!registrationVars, Counted!Reg!registrationVars
  <2>1. CASE Next
    BY <2>1 DEF Next
  <2>2. CASE UNCHANGED planeVars
    BY <2>2 DEF planeVars, Registration!registrationVars
  <2> QED
    BY <2>1, <2>2
<1>3. ~(part = "registration") /\ [Next]_planeVars => (~(part = "registration"))'
  BY DEF Next, planeVars
<1> QED
  BY <1>1, <1>2, <1>3, PTL DEF Spec, Counted!Reg!Spec

\* The definitions under the theorems about the notices are those of the plane.
LEMMA SameNotes ==
  /\ Counted!Mail!NotificationAssumption <=> Notes!NotificationAssumption
  /\ Counted!Mail!Init <=> Notes!Init
  /\ Counted!Mail!Next <=> Notes!Next
  /\ Counted!Mail!SentOnce <=> Notes!SentOnce
  /\ Counted!Mail!DeliveredWasSent <=> Notes!DeliveredWasSent
  /\ Counted!Mail!TypeOK <=> Notes!TypeOK
  /\ Counted!Mail!TerminalKept <=> Notes!TerminalKept
  BY DEF Counted!Mail!Accepted, Notes!Accepted, Counted!Mail!AppendTerminal, Notes!AppendTerminal,
         Counted!Mail!At, Notes!At, Counted!Mail!CrashWorker, Notes!CrashWorker,
         Counted!Mail!DeliveredWasSent, Notes!DeliveredWasSent, Counted!Mail!Dispatch,
         Notes!Dispatch, Counted!Mail!Fault, Notes!Fault, Counted!Mail!Final, Notes!Final,
         Counted!Mail!Idle, Notes!Idle, Counted!Mail!Init, Notes!Init, Counted!Mail!ListPending,
         Notes!ListPending, Counted!Mail!Listed, Notes!Listed, Counted!Mail!Lock, Notes!Lock,
         Counted!Mail!Next, Notes!Next, Counted!Mail!Next1, Notes!Next1, Counted!Mail!NoFault,
         Notes!NoFault, Counted!Mail!Note, Notes!Note, Counted!Mail!NotificationAssumption,
         Notes!NotificationAssumption, Counted!Mail!Oldest, Notes!Oldest, Counted!Mail!Outcome,
         Notes!Outcome, Counted!Mail!Pending, Notes!Pending, Counted!Mail!ReadTarget,
         Notes!ReadTarget, Counted!Mail!Ready, Notes!Ready, Counted!Mail!Recheck, Notes!Recheck,
         Counted!Mail!RecordTx, Notes!RecordTx, Counted!Mail!Recorded, Notes!Recorded,
         Counted!Mail!Released, Notes!Released, Counted!Mail!RunOnce, Notes!RunOnce,
         Counted!Mail!Send, Notes!Send, Counted!Mail!SentOnce, Notes!SentOnce,
         Counted!Mail!StatusChange, Notes!StatusChange, Counted!Mail!Terminal, Notes!Terminal,
         Counted!Mail!TerminalKept, Notes!TerminalKept, Counted!Mail!TypeOK, Notes!TypeOK,
         Counted!Mail!notificationVars, Notes!notificationVars, Counted!Mail!IsFiniteSet,
         Notes!IsFiniteSet, Counted!Mail!Cardinality, Notes!Cardinality

\* A behaviour that has the notices for its part is one of that
\* component, and no other behaviour comes to it.
LEMMA RunsNotes == Spec => Counted!Mail!Spec \/ []~(part = "notes")
<1>1. Init /\ part = "notes" => Counted!Mail!Init
  BY SameNotes DEF Init
<1>2. part = "notes" /\ [Next]_planeVars => (part = "notes")'
        /\ [Counted!Mail!Next]_(Counted!Mail!notificationVars)
  <2> SUFFICES ASSUME part = "notes", [Next]_planeVars
               PROVE  (part = "notes")' /\ [Notes!Next]_(Notes!notificationVars)
    BY SameNotes DEF Notes!notificationVars, Counted!Mail!notificationVars
  <2>1. CASE Next
    BY <2>1 DEF Next
  <2>2. CASE UNCHANGED planeVars
    BY <2>2 DEF planeVars, Notes!notificationVars
  <2> QED
    BY <2>1, <2>2
<1>3. ~(part = "notes") /\ [Next]_planeVars => (~(part = "notes"))'
  BY DEF Next, planeVars
<1> QED
  BY <1>1, <1>2, <1>3, PTL DEF Spec, Counted!Mail!Spec

\* The definitions under the theorems about the recovery are those of the plane.
LEMMA SameRecovery ==
  /\ Counted!Rec!RecoveryAssumption <=> Recovery!RecoveryAssumption
  /\ Counted!Rec!Init <=> Recovery!Init
  /\ Counted!Rec!Next <=> Recovery!Next
  /\ Counted!Rec!RedeemedOnce <=> Recovery!RedeemedOnce
  /\ Counted!Rec!SessionApproved <=> Recovery!SessionApproved
  /\ Counted!Rec!ContactProven <=> Recovery!ContactProven
  /\ Counted!Rec!MirrorAccounted <=> Recovery!MirrorAccounted
  /\ Counted!Rec!ContactsUnique <=> Recovery!ContactsUnique
  /\ Counted!Rec!TypeOK <=> Recovery!TypeOK
  /\ Counted!Rec!TicketKept <=> Recovery!TicketKept
  BY DEF Counted!Rec!Addresses, Recovery!Addresses, Counted!Rec!Answer, Recovery!Answer,
         Counted!Rec!Answers, Recovery!Answers, Counted!Rec!Approvable, Recovery!Approvable,
         Counted!Rec!Approve, Recovery!Approve, Counted!Rec!At, Recovery!At,
         Counted!Rec!AuditApproval, Recovery!AuditApproval, Counted!Rec!AuditReceiver,
         Recovery!AuditReceiver, Counted!Rec!BeginEmailChange, Recovery!BeginEmailChange,
         Counted!Rec!BeginQR, Recovery!BeginQR, Counted!Rec!Believed, Recovery!Believed,
         Counted!Rec!By, Recovery!By, Counted!Rec!CanAuthenticate, Recovery!CanAuthenticate,
         Counted!Rec!CanUseSession, Recovery!CanUseSession, Counted!Rec!ChangeEmail,
         Recovery!ChangeEmail, Counted!Rec!ChangePhone, Recovery!ChangePhone,
         Counted!Rec!ConsumeChallenge, Recovery!ConsumeChallenge, Counted!Rec!ConsumePhoneCode,
         Recovery!ConsumePhoneCode, Counted!Rec!ConsumeResetToken, Recovery!ConsumeResetToken,
         Counted!Rec!ContactProven, Recovery!ContactProven, Counted!Rec!ContactsUnique,
         Recovery!ContactsUnique, Counted!Rec!Crash, Recovery!Crash, Counted!Rec!CreateSession,
         Recovery!CreateSession, Counted!Rec!Doing, Recovery!Doing, Counted!Rec!Expire, Recovery!Expire, Counted!Rec!Guessed,
         Recovery!Guessed, Counted!Rec!Holds, Recovery!Holds, Counted!Rec!Init, Recovery!Init,
         Counted!Rec!Labels, Recovery!Labels, Counted!Rec!Limited,
         Recovery!Limited, Counted!Rec!MirrorAccounted, Recovery!MirrorAccounted,
         Counted!Rec!Mirrored, Recovery!Mirrored, Counted!Rec!Mishap, Recovery!Mishap,
         Counted!Rec!Next, Recovery!Next, Counted!Rec!Noted, Recovery!Noted, Counted!Rec!Of,
         Recovery!Of, Counted!Rec!Op, Recovery!Op, Counted!Rec!Perhaps, Recovery!Perhaps,
         Counted!Rec!PhoneFree, Recovery!PhoneFree, Counted!Rec!Present, Recovery!Present,
         Counted!Rec!ReadEmail, Recovery!ReadEmail, Counted!Rec!Receivable, Recovery!Receivable,
         Counted!Rec!Records, Recovery!Records, Counted!Rec!RecoveryAssumption,
         Recovery!RecoveryAssumption, Counted!Rec!RedeemedOnce, Recovery!RedeemedOnce,
         Counted!Rec!RequestPhoneChange, Recovery!RequestPhoneChange, Counted!Rec!RequestReset,
         Recovery!RequestReset, Counted!Rec!ResetPassword, Recovery!ResetPassword,
         Counted!Rec!RevokeSessions, Recovery!RevokeSessions, Counted!Rec!Right, Recovery!Right,
         Counted!Rec!SendCode, Recovery!SendCode, Counted!Rec!SendMail, Recovery!SendMail,
         Counted!Rec!SessionApproved, Recovery!SessionApproved, Counted!Rec!SetEmail,
         Recovery!SetEmail, Counted!Rec!SetPassword, Recovery!SetPassword, Counted!Rec!SignIn,
         Recovery!SignIn, Counted!Rec!Smooth, Recovery!Smooth, Counted!Rec!Stored, Recovery!Stored,
         Counted!Rec!Suspend, Recovery!Suspend, Counted!Rec!Taken, Recovery!Taken,
         Counted!Rec!Target, Recovery!Target, Counted!Rec!TicketKept, Recovery!TicketKept,
         Counted!Rec!Tickets, Recovery!Tickets, Counted!Rec!To, Recovery!To, Counted!Rec!TypeOK,
         Recovery!TypeOK, Counted!Rec!Unowned, Recovery!Unowned, Counted!Rec!UpdatePhone,
         Recovery!UpdatePhone, Counted!Rec!UpdateVerifiedEmail, Recovery!UpdateVerifiedEmail,
         Counted!Rec!VerifyEmail, Recovery!VerifyEmail, Counted!Rec!With, Recovery!With,
         Counted!Rec!accountVars, Recovery!accountVars, Counted!Rec!historyVars,
         Recovery!historyVars, Counted!Rec!recoveryVars, Recovery!recoveryVars,
         Counted!Rec!IsFiniteSet, Recovery!IsFiniteSet, Counted!Rec!Cardinality,
         Recovery!Cardinality

\* A behaviour that has the recovery for its part is one of that
\* component, and no other behaviour comes to it.
LEMMA RunsRecovery == Spec => Counted!Rec!Spec \/ []~(part = "recovery")
<1>1. Init /\ part = "recovery" => Counted!Rec!Init
  BY SameRecovery DEF Init
<1>2. part = "recovery" /\ [Next]_planeVars => (part = "recovery")'
        /\ [Counted!Rec!Next]_(Counted!Rec!recoveryVars)
  <2> SUFFICES ASSUME part = "recovery", [Next]_planeVars
               PROVE  (part = "recovery")' /\ [Recovery!Next]_(Recovery!recoveryVars)
    BY SameRecovery DEF Recovery!recoveryVars, Counted!Rec!recoveryVars
  <2>1. CASE Next
    BY <2>1 DEF Next
  <2>2. CASE UNCHANGED planeVars
    BY <2>2 DEF planeVars, Recovery!recoveryVars
  <2> QED
    BY <2>1, <2>2
<1>3. ~(part = "recovery") /\ [Next]_planeVars => (~(part = "recovery"))'
  BY DEF Next, planeVars
<1> QED
  BY <1>1, <1>2, <1>3, PTL DEF Spec, Counted!Rec!Spec

\* The definitions under the theorems about the authorization are those of the plane.
LEMMA SameFront ==
  /\ Decided!Front!AuthorizationAssumption <=> Front!AuthorizationAssumption
  /\ Decided!Front!Init <=> Front!Init
  /\ Decided!Front!Next <=> Front!Next
  /\ Decided!Front!FreshClaims <=> Front!FreshClaims
  /\ Decided!Front!FactsInForce <=> Front!FactsInForce
  /\ Decided!Front!ReuseBacked <=> Front!ReuseBacked
  /\ Decided!Front!ClaimAnswered <=> Front!ClaimAnswered
  /\ Decided!Front!OneMeaning <=> Front!OneMeaning
  /\ Decided!Front!NoLoginLoop <=> Front!NoLoginLoop
  /\ Decided!Front!TypeOK <=> Front!TypeOK
  BY DEF Decided!Front!Active, Front!Active, Decided!Front!Answer, Front!Answer,
         Decided!Front!Arrive, Front!Arrive, Decided!Front!At, Front!At,
         Decided!Front!AuthorizationAssumption, Front!AuthorizationAssumption,
         Decided!Front!BranchGrant, Front!BranchGrant, Decided!Front!Canonical, Front!Canonical,
         Decided!Front!Changed, Front!Changed, Decided!Front!Choice, Front!Choice,
         Decided!Front!Claim, Front!Claim, Decided!Front!ClaimAnswered, Front!ClaimAnswered,
         Decided!Front!Claimed, Front!Claimed, Decided!Front!Complete, Front!Complete,
         Decided!Front!Covers, Front!Covers, Decided!Front!Decide, Front!Decide,
         Decided!Front!DecideRequest, Front!DecideRequest, Decided!Front!Decided, Front!Decided,
         Decided!Front!EditClient, Front!EditClient, Decided!Front!EditGrant, Front!EditGrant,
         Decided!Front!ErrorRequest, Front!ErrorRequest, Decided!Front!Expire, Front!Expire,
         Decided!Front!Facts, Front!Facts, Decided!Front!FactsInForce, Front!FactsInForce,
         Decided!Front!Fails, Front!Fails, Decided!Front!Forced, Front!Forced, Decided!Front!Fresh,
         Front!Fresh, Decided!Front!FreshClaims, Front!FreshClaims, Decided!Front!Goto, Front!Goto,
         Decided!Front!HasPrompt, Front!HasPrompt, Decided!Front!Idle, Front!Idle,
         Decided!Front!IllFormed, Front!IllFormed, Decided!Front!Init, Front!Init,
         Decided!Front!Interactive, Front!Interactive, Decided!Front!Judged, Front!Judged,
         Decided!Front!Kinds, Front!Kinds, Decided!Front!Login, Front!Login, Decided!Front!Logout,
         Front!Logout, Decided!Front!Next, Front!Next, Decided!Front!NoClaim, Front!NoClaim,
         Decided!Front!NoFacts, Front!NoFacts, Decided!Front!NoLoginLoop, Front!NoLoginLoop,
         Decided!Front!NoSession, Front!NoSession, Decided!Front!NotForPages, Front!NotForPages,
         Decided!Front!OneMeaning, Front!OneMeaning, Decided!Front!Op, Front!Op,
         Decided!Front!PageGrant, Front!PageGrant, Decided!Front!Pages, Front!Pages,
         Decided!Front!Plan, Front!Plan, Decided!Front!Quiet, Front!Quiet, Decided!Front!Read,
         Front!Read, Decided!Front!ReadClient, Front!ReadClient, Decided!Front!ReadGrant,
         Front!ReadGrant, Decided!Front!ReadRedirects, Front!ReadRedirects,
         Decided!Front!ReadScopes, Front!ReadScopes, Decided!Front!RedirectMatches,
         Front!RedirectMatches, Decided!Front!Refuse, Front!Refuse, Decided!Front!Requested,
         Front!Requested, Decided!Front!Resolve, Front!Resolve, Decided!Front!ResolveRequest,
         Front!ResolveRequest, Decided!Front!Reusable, Front!Reusable, Decided!Front!ReuseBacked,
         Front!ReuseBacked, Decided!Front!Route, Front!Route, Decided!Front!RouteInteractive,
         Front!RouteInteractive, Decided!Front!Rows, Front!Rows, Decided!Front!ScopesAllowed,
         Front!ScopesAllowed, Decided!Front!Show, Front!Show, Decided!Front!SilentGrant,
         Front!SilentGrant, Decided!Front!SilentRequest, Front!SilentRequest, Decided!Front!Since,
         Front!Since, Decided!Front!Still, Front!Still, Decided!Front!Structured, Front!Structured,
         Decided!Front!ToClaim, Front!ToClaim, Decided!Front!ToError, Front!ToError,
         Decided!Front!TrueOf, Front!TrueOf, Decided!Front!TypeOK, Front!TypeOK,
         Decided!Front!UserKinds, Front!UserKinds, Decided!Front!ValidateForClaim,
         Front!ValidateForClaim, Decided!Front!Verdict, Front!Verdict, Decided!Front!Wait,
         Front!Wait, Decided!Front!Winner, Front!Winner, Decided!Front!Working, Front!Working,
         Decided!Front!World, Front!World, Decided!Front!vars, Front!vars, Decided!Front!worldVars,
         Front!worldVars, Decided!Front!IsFiniteSet, Front!IsFiniteSet, Decided!Front!Cardinality,
         Front!Cardinality

\* A behaviour that has the authorization for its part is one of that
\* component, and no other behaviour comes to it.
LEMMA RunsFront == Spec => Decided!Front!Spec \/ []~(part = "front")
<1>1. Init /\ part = "front" => Decided!Front!Init
  BY SameFront DEF Init
<1>2. part = "front" /\ [Next]_planeVars => (part = "front")' /\ [Decided!Front!Next]_(Decided!Front!vars)
  <2> SUFFICES ASSUME part = "front", [Next]_planeVars
               PROVE  (part = "front")' /\ [Front!Next]_(Front!vars)
    BY SameFront DEF Front!vars, Decided!Front!vars
  <2>1. CASE Next
    BY <2>1 DEF Next
  <2>2. CASE UNCHANGED planeVars
    BY <2>2 DEF planeVars, Front!vars
  <2> QED
    BY <2>1, <2>2
<1>3. ~(part = "front") /\ [Next]_planeVars => (~(part = "front"))'
  BY DEF Next, planeVars
<1> QED
  BY <1>1, <1>2, <1>3, PTL DEF Spec, Decided!Front!Spec

\* Guesses, budgets, strikes and slots stay within, and equal, what was spent
\* on them, in any behaviour of the plane: the attempts of a two-step sign-in,
\* the completions, issues and strikes of the registration gate, the slots and
\* lanes of the admission queue.
THEOREM WithinLimits == Spec => []LimitsHold
<1>1. Earned!Spec => [](Ceremony!GuessesBounded)
  <2>1. Earned!CeremoniesAssumption
    BY SameCeremony, CeremonyHolds
  <2>2. Earned!Spec => []Earned!GuessesBounded
    BY <2>1, Earned!GuessesAreBounded
  <2>3. Earned!GuessesBounded
        => Ceremony!GuessesBounded
    BY SameCeremony
  <2> QED
    BY <2>2, <2>3, PTL
<1>2. Counted!Spec => [](Gate!GuessesBounded /\ Gate!BudgetsExact /\ Gate!StrikesEarned)
  <2>1. Counted!GateAssumption
    BY SameGate, GateHolds
  <2>2. Counted!Spec => []Counted!GuessesBounded
    BY <2>1, Counted!BoundedGuesses
  <2>3. Counted!Spec => []Counted!BudgetsExact
    BY <2>1, Counted!ExactBudgets
  <2>4. Counted!Spec => []Counted!StrikesEarned
    BY <2>1, Counted!EarnedStrikes
  <2>5. Counted!GuessesBounded /\ Counted!BudgetsExact /\ Counted!StrikesEarned
        => Gate!GuessesBounded /\ Gate!BudgetsExact /\ Gate!StrikesEarned
    BY SameGate
  <2> QED
    BY <2>2, <2>3, <2>4, <2>5, PTL
<1>3. Counted!Queue!Spec => [](Queue!SlotsBalanced /\ Queue!DomainBounded /\ Queue!LaneCurrent)
  <2>1. Counted!Queue!AdmissionAssumption
    BY SameQueue, QueueHolds
  <2>2. Counted!Queue!Spec => []Counted!Queue!SlotsBalanced
    BY <2>1, Counted!SlotsAccounted
  <2>3. Counted!Queue!Spec => []Counted!Queue!DomainBounded
    BY <2>1, Counted!DomainsShare
  <2>4. Counted!Queue!Spec => []Counted!Queue!LaneCurrent
    BY <2>1, Counted!LanesLive
  <2>5. Counted!Queue!SlotsBalanced /\ Counted!Queue!DomainBounded /\ Counted!Queue!LaneCurrent
        => Queue!SlotsBalanced /\ Queue!DomainBounded /\ Queue!LaneCurrent
    BY SameQueue
  <2> QED
    BY <2>2, <2>3, <2>4, <2>5, PTL
<1>4. /\ ~(part = "ceremony") \/ (Ceremony!GuessesBounded)
      /\ ~(part = "gate") \/ (Gate!GuessesBounded /\ Gate!BudgetsExact /\ Gate!StrikesEarned)
      /\ ~(part = "queue") \/ (Queue!SlotsBalanced /\ Queue!DomainBounded /\ Queue!LaneCurrent)
      => LimitsHold
  BY DEF LimitsHold, InCeremony, InGate, InQueue
<1> QED
  BY <1>1, <1>2, <1>3, <1>4, RunsCeremony, RunsGate, RunsQueue, PTL

\* One token, code, form or message has one effect and one actor, in any
\* behaviour of the plane: a ceremony one reward, a grant one use, an intent one
\* registration, a WeChat code one identity, a ticket one redemption, a
\* notification one mail but for a lost record of the sending.
THEOREM OneEffect == Spec => []UsedOnce
<1>1. Earned!Spec => [](Ceremony!OneReward /\ Ceremony!AcceptedOnce)
  <2>1. Earned!CeremoniesAssumption
    BY SameCeremony, CeremonyHolds
  <2>2. Earned!Spec => []Earned!OneReward
    BY <2>1, Earned!EarnsOnce
  <2>3. Earned!Spec => []Earned!AcceptedOnce
    BY <2>1, Earned!AcceptsOnce
  <2>4. Earned!OneReward /\ Earned!AcceptedOnce
        => Ceremony!OneReward /\ Ceremony!AcceptedOnce
    BY SameCeremony
  <2> QED
    BY <2>2, <2>3, <2>4, PTL
<1>2. Earned!MFA!Spec => [](Enrollment!OneActor)
  <2>1. Earned!MFA!EnrollmentAssumption
    BY SameEnrollment, EnrollmentHolds
  <2>2. Earned!MFA!Spec => []Earned!MFA!OneActor
    BY <2>1, Earned!SingleActor
  <2>3. Earned!MFA!OneActor
        => Enrollment!OneActor
    BY SameEnrollment
  <2> QED
    BY <2>2, <2>3, PTL
<1>3. Earned!WX!Spec => [](Onboarding!SingleOutcome)
  <2>1. Earned!WX!OnboardingAssumption
    BY SameOnboarding, OnboardingHolds
  <2>2. Earned!WX!Spec => []Earned!WX!SingleOutcome
    BY <2>1, Earned!SingleReward
  <2>3. Earned!WX!SingleOutcome
        => Onboarding!SingleOutcome
    BY SameOnboarding
  <2> QED
    BY <2>2, <2>3, PTL
<1>4. Counted!Spec => [](Gate!OneRegistration /\ Gate!SoleChallenge)
  <2>1. Counted!GateAssumption
    BY SameGate, GateHolds
  <2>2. Counted!Spec => []Counted!OneRegistration
    BY <2>1, Counted!RegistersOnce
  <2>3. Counted!Spec => []Counted!SoleChallenge
    BY <2>1, Counted!ChallengeAlone
  <2>4. Counted!OneRegistration /\ Counted!SoleChallenge
        => Gate!OneRegistration /\ Gate!SoleChallenge
    BY SameGate
  <2> QED
    BY <2>2, <2>3, <2>4, PTL
<1>5. Counted!Reg!Spec => [](Registration!CodeOnce /\ Registration!OneUpstream)
  <2>1. Counted!Reg!RegistrationAssumption
    BY SameRegistration, RegistrationHolds
  <2>2. Counted!Reg!Spec => []Counted!Reg!CodeOnce
    BY <2>1, Counted!CodeServesOne
  <2>3. Counted!Reg!Spec => []Counted!Reg!OneUpstream
    BY <2>1, Counted!SingleUpstream
  <2>4. Counted!Reg!CodeOnce /\ Counted!Reg!OneUpstream
        => Registration!CodeOnce /\ Registration!OneUpstream
    BY SameRegistration
  <2> QED
    BY <2>2, <2>3, <2>4, PTL
<1>6. Counted!Mail!Spec => [](Notes!SentOnce)
  <2>1. Counted!Mail!NotificationAssumption
    BY SameNotes, NotesHold
  <2>2. Counted!Mail!Spec => []Counted!Mail!SentOnce
    BY <2>1, Counted!MailedOnce
  <2>3. Counted!Mail!SentOnce
        => Notes!SentOnce
    BY SameNotes
  <2> QED
    BY <2>2, <2>3, PTL
<1>7. Counted!Rec!Spec => [](Recovery!RedeemedOnce)
  <2>1. Counted!Rec!RecoveryAssumption
    BY SameRecovery, RecoveryHolds
  <2>2. Counted!Rec!Spec => []Counted!Rec!RedeemedOnce
    BY <2>1, Counted!OneRedemption
  <2>3. Counted!Rec!RedeemedOnce
        => Recovery!RedeemedOnce
    BY SameRecovery
  <2> QED
    BY <2>2, <2>3, PTL
<1>8. /\ ~(part = "ceremony") \/ (Ceremony!OneReward /\ Ceremony!AcceptedOnce)
      /\ ~(part = "enrollment") \/ (Enrollment!OneActor)
      /\ ~(part = "onboarding") \/ (Onboarding!SingleOutcome)
      /\ ~(part = "gate") \/ (Gate!OneRegistration /\ Gate!SoleChallenge)
      /\ ~(part = "registration") \/ (Registration!CodeOnce /\ Registration!OneUpstream)
      /\ ~(part = "notes") \/ (Notes!SentOnce)
      /\ ~(part = "recovery") \/ (Recovery!RedeemedOnce)
      => UsedOnce
  BY DEF UsedOnce, InCeremony, InEnrollment, InOnboarding, InGate, InRegistration, InNotes, InRecovery
<1> QED
  BY <1>1, <1>2, <1>3, <1>4, <1>5, <1>6, <1>7, <1>8, RunsCeremony, RunsEnrollment, RunsOnboarding,
      RunsGate, RunsRegistration, RunsNotes, RunsRecovery, PTL

\* What is given out rests on what was proven for it, in any behaviour of the
\* plane: a grant on its audit row and its challenge's generation, a session on
\* the provider's, an active account on its address, a decision on the facts, the
\* sign-in and the grant that held after it was asked for.
THEOREM BackedByProof == Spec => []ProofBacked
<1>1. Earned!Spec => [](Ceremony!GrantAudited /\ Ceremony!GrantOfChallenge)
  <2>1. Earned!CeremoniesAssumption
    BY SameCeremony, CeremonyHolds
  <2>2. Earned!Spec => []Earned!GrantAudited
    BY <2>1, Earned!GrantsAreAudited
  <2>3. Earned!Spec => []Earned!GrantOfChallenge
    BY <2>1, Earned!GrantsKeepGeneration
  <2>4. Earned!GrantAudited /\ Earned!GrantOfChallenge
        => Ceremony!GrantAudited /\ Ceremony!GrantOfChallenge
    BY SameCeremony
  <2> QED
    BY <2>2, <2>3, <2>4, PTL
<1>2. Earned!WX!Spec => [](Onboarding!SessionBacked)
  <2>1. Earned!WX!OnboardingAssumption
    BY SameOnboarding, OnboardingHolds
  <2>2. Earned!WX!Spec => []Earned!WX!SessionBacked
    BY <2>1, Earned!SessionsBacked
  <2>3. Earned!WX!SessionBacked
        => Onboarding!SessionBacked
    BY SameOnboarding
  <2> QED
    BY <2>2, <2>3, PTL
<1>3. Counted!Spec => [](Gate!HumanProven)
  <2>1. Counted!GateAssumption
    BY SameGate, GateHolds
  <2>2. Counted!Spec => []Counted!HumanProven
    BY <2>1, Counted!ProvenHuman
  <2>3. Counted!HumanProven
        => Gate!HumanProven
    BY SameGate
  <2> QED
    BY <2>2, <2>3, PTL
<1>4. Counted!Reg!Spec => [](Registration!ActiveBacked /\ Registration!AnswerBacked)
  <2>1. Counted!Reg!RegistrationAssumption
    BY SameRegistration, RegistrationHolds
  <2>2. Counted!Reg!Spec => []Counted!Reg!ActiveBacked
    BY <2>1, Counted!ActiveProven
  <2>3. Counted!Reg!Spec => []Counted!Reg!AnswerBacked
    BY <2>1, Counted!SuccessBacked
  <2>4. Counted!Reg!ActiveBacked /\ Counted!Reg!AnswerBacked
        => Registration!ActiveBacked /\ Registration!AnswerBacked
    BY SameRegistration
  <2> QED
    BY <2>2, <2>3, <2>4, PTL
<1>5. Counted!Mail!Spec => [](Notes!DeliveredWasSent)
  <2>1. Counted!Mail!NotificationAssumption
    BY SameNotes, NotesHold
  <2>2. Counted!Mail!Spec => []Counted!Mail!DeliveredWasSent
    BY <2>1, Counted!DeliveredTrue
  <2>3. Counted!Mail!DeliveredWasSent
        => Notes!DeliveredWasSent
    BY SameNotes
  <2> QED
    BY <2>2, <2>3, PTL
<1>6. Counted!Rec!Spec => [](Recovery!SessionApproved /\ Recovery!ContactProven)
  <2>1. Counted!Rec!RecoveryAssumption
    BY SameRecovery, RecoveryHolds
  <2>2. Counted!Rec!Spec => []Counted!Rec!SessionApproved
    BY <2>1, Counted!SessionsApproved
  <2>3. Counted!Rec!Spec => []Counted!Rec!ContactProven
    BY <2>1, Counted!ContactsProven
  <2>4. Counted!Rec!SessionApproved /\ Counted!Rec!ContactProven
        => Recovery!SessionApproved /\ Recovery!ContactProven
    BY SameRecovery
  <2> QED
    BY <2>2, <2>3, <2>4, PTL
<1>7. Decided!Front!Spec => [](Front!FreshClaims /\ Front!FactsInForce /\ Front!ReuseBacked)
  <2>1. Decided!Front!AuthorizationAssumption
    BY SameFront, FrontHolds
  <2>2. Decided!Front!Spec => []Decided!Front!FreshClaims
    BY <2>1, Decided!ClaimsAreFresh
  <2>3. Decided!Front!Spec => []Decided!Front!FactsInForce
    BY <2>1, Decided!FactsWereInForce
  <2>4. Decided!Front!Spec => []Decided!Front!ReuseBacked
    BY <2>1, Decided!ReuseIsBacked
  <2>5. Decided!Front!FreshClaims /\ Decided!Front!FactsInForce /\ Decided!Front!ReuseBacked
        => Front!FreshClaims /\ Front!FactsInForce /\ Front!ReuseBacked
    BY SameFront
  <2> QED
    BY <2>2, <2>3, <2>4, <2>5, PTL
<1>8. /\ ~(part = "ceremony") \/ (Ceremony!GrantAudited /\ Ceremony!GrantOfChallenge)
      /\ ~(part = "onboarding") \/ (Onboarding!SessionBacked)
      /\ ~(part = "gate") \/ (Gate!HumanProven)
      /\ ~(part = "registration") \/ (Registration!ActiveBacked /\ Registration!AnswerBacked)
      /\ ~(part = "notes") \/ (Notes!DeliveredWasSent)
      /\ ~(part = "recovery") \/ (Recovery!SessionApproved /\ Recovery!ContactProven)
      /\ ~(part = "front") \/ (Front!FreshClaims /\ Front!FactsInForce /\ Front!ReuseBacked)
      => ProofBacked
  BY DEF ProofBacked, InCeremony, InOnboarding, InGate, InRegistration, InNotes, InRecovery, InFront
<1> QED
  BY <1>1, <1>2, <1>3, <1>4, <1>5, <1>6, <1>7, <1>8, RunsCeremony, RunsOnboarding, RunsGate,
      RunsRegistration, RunsNotes, RunsRecovery, RunsFront, PTL

\* What a flow leaves at the provider has somebody who will settle it, in any
\* behaviour of the plane: a record, a live challenge, a request under way, a
\* refusal that undid it; no worker takes what is still under way, and the undoing
\* of a registration takes no link of any account but the one it undoes.
THEOREM NothingForgotten == Spec => []LeftoversCovered
<1>1. Earned!Spec => [](Ceremony!TempCovered /\ Ceremony!SweepSpares)
  <2>1. Earned!CeremoniesAssumption
    BY SameCeremony, CeremonyHolds
  <2>2. Earned!Spec => []Earned!TempCovered
    BY <2>1, Earned!TempsAreCovered
  <2>3. Earned!Spec => []Earned!SweepSpares
    BY <2>1, Earned!WorkerSpares
  <2>4. Earned!TempCovered /\ Earned!SweepSpares
        => Ceremony!TempCovered /\ Ceremony!SweepSpares
    BY SameCeremony
  <2> QED
    BY <2>2, <2>3, <2>4, PTL
<1>2. Earned!MFA!Spec => [](Enrollment!PendingCovered)
  <2>1. Earned!MFA!EnrollmentAssumption
    BY SameEnrollment, EnrollmentHolds
  <2>2. Earned!MFA!Spec => []Earned!MFA!PendingCovered
    BY <2>1, Earned!PendingIsCovered
  <2>3. Earned!MFA!PendingCovered
        => Enrollment!PendingCovered
    BY SameEnrollment
  <2> QED
    BY <2>2, <2>3, PTL
<1>3. Earned!WX!Spec => [](Onboarding!SessionsAccounted)
  <2>1. Earned!WX!OnboardingAssumption
    BY SameOnboarding, OnboardingHolds
  <2>2. Earned!WX!Spec => []Earned!WX!SessionsAccounted
    BY <2>1, Earned!SessionsCovered
  <2>3. Earned!WX!SessionsAccounted
        => Onboarding!SessionsAccounted
    BY SameOnboarding
  <2> QED
    BY <2>2, <2>3, PTL
<1>4. Counted!Reg!Spec => [](Registration!RefusedLeavesNothing /\ Registration!VerifierKept)
  <2>1. Counted!Reg!RegistrationAssumption
    BY SameRegistration, RegistrationHolds
  <2>2. Counted!Reg!Spec => []Counted!Reg!RefusedLeavesNothing
    BY <2>1, Counted!NothingLeft
  <2>3. Counted!Reg!Spec => []Counted!Reg!VerifierKept
    BY <2>1, Counted!VerifierStays
  <2>4. Counted!Reg!RefusedLeavesNothing /\ Counted!Reg!VerifierKept
        => Registration!RefusedLeavesNothing /\ Registration!VerifierKept
    BY SameRegistration
  <2> QED
    BY <2>2, <2>3, <2>4, PTL
<1>5. Counted!Rec!Spec => [](Recovery!MirrorAccounted)
  <2>1. Counted!Rec!RecoveryAssumption
    BY SameRecovery, RecoveryHolds
  <2>2. Counted!Rec!Spec => []Counted!Rec!MirrorAccounted
    BY <2>1, Counted!MirrorsAccounted
  <2>3. Counted!Rec!MirrorAccounted
        => Recovery!MirrorAccounted
    BY SameRecovery
  <2> QED
    BY <2>2, <2>3, PTL
<1>6. Decided!Front!Spec => [](Front!ClaimAnswered)
  <2>1. Decided!Front!AuthorizationAssumption
    BY SameFront, FrontHolds
  <2>2. Decided!Front!Spec => []Decided!Front!ClaimAnswered
    BY <2>1, Decided!ClaimsAreAnswered
  <2>3. Decided!Front!ClaimAnswered
        => Front!ClaimAnswered
    BY SameFront
  <2> QED
    BY <2>2, <2>3, PTL
<1>7. /\ ~(part = "ceremony") \/ (Ceremony!TempCovered /\ Ceremony!SweepSpares)
      /\ ~(part = "enrollment") \/ (Enrollment!PendingCovered)
      /\ ~(part = "onboarding") \/ (Onboarding!SessionsAccounted)
      /\ ~(part = "registration") \/ (Registration!RefusedLeavesNothing /\ Registration!VerifierKept)
      /\ ~(part = "recovery") \/ (Recovery!MirrorAccounted)
      /\ ~(part = "front") \/ (Front!ClaimAnswered)
      => LeftoversCovered
  BY DEF LeftoversCovered, InCeremony, InEnrollment, InOnboarding, InRegistration, InRecovery, InFront
<1> QED
  BY <1>1, <1>2, <1>3, <1>4, <1>5, <1>6, <1>7, RunsCeremony, RunsEnrollment, RunsOnboarding,
      RunsRegistration, RunsRecovery, RunsFront, PTL

\* A phone, a WeChat identity, an address that is registered or at the provider
\* belong to one account, in any behaviour of the plane, and an address the
\* database shows for two is out of date for one of them; a token a stranger
\* presented is burned for its owner too; the prompts of a request have one
\* meaning, whichever door it comes through, and a sign-in settles one.
THEOREM OneOwner == Spec => []AuthorityUnique
<1>1. Earned!MFA!Spec => [](Enrollment!ForeignBurns)
  <2>1. Earned!MFA!EnrollmentAssumption
    BY SameEnrollment, EnrollmentHolds
  <2>2. Earned!MFA!Spec => []Earned!MFA!ForeignBurns
    BY <2>1, Earned!ForeignIsBurned
  <2>3. Earned!MFA!ForeignBurns
        => Enrollment!ForeignBurns
    BY SameEnrollment
  <2> QED
    BY <2>2, <2>3, PTL
<1>2. Earned!WX!Spec => [](Onboarding!LinksOneToOne)
  <2>1. Earned!WX!OnboardingAssumption
    BY SameOnboarding, OnboardingHolds
  <2>2. Earned!WX!Spec => []Earned!WX!LinksOneToOne
    BY <2>1, Earned!LinksUnique
  <2>3. Earned!WX!LinksOneToOne
        => Onboarding!LinksOneToOne
    BY SameOnboarding
  <2> QED
    BY <2>2, <2>3, PTL
<1>3. Counted!Reg!Spec => [](Registration!AuthorityUnique)
  <2>1. Counted!Reg!RegistrationAssumption
    BY SameRegistration, RegistrationHolds
  <2>2. Counted!Reg!Spec => []Counted!Reg!AuthorityUnique
    BY <2>1, Counted!OneAuthority
  <2>3. Counted!Reg!AuthorityUnique
        => Registration!AuthorityUnique
    BY SameRegistration
  <2> QED
    BY <2>2, <2>3, PTL
<1>4. Counted!Rec!Spec => [](Recovery!ContactsUnique)
  <2>1. Counted!Rec!RecoveryAssumption
    BY SameRecovery, RecoveryHolds
  <2>2. Counted!Rec!Spec => []Counted!Rec!ContactsUnique
    BY <2>1, Counted!UniqueContacts
  <2>3. Counted!Rec!ContactsUnique
        => Recovery!ContactsUnique
    BY SameRecovery
  <2> QED
    BY <2>2, <2>3, PTL
<1>5. Decided!Front!Spec => [](Front!OneMeaning /\ Front!NoLoginLoop)
  <2>1. Decided!Front!AuthorizationAssumption
    BY SameFront, FrontHolds
  <2>2. Decided!Front!Spec => []Decided!Front!OneMeaning
    BY <2>1, Decided!MeaningIsOne
  <2>3. Decided!Front!Spec => []Decided!Front!NoLoginLoop
    BY <2>1, Decided!SignInSettles
  <2>4. Decided!Front!OneMeaning /\ Decided!Front!NoLoginLoop
        => Front!OneMeaning /\ Front!NoLoginLoop
    BY SameFront
  <2> QED
    BY <2>2, <2>3, <2>4, PTL
<1>6. /\ ~(part = "enrollment") \/ (Enrollment!ForeignBurns)
      /\ ~(part = "onboarding") \/ (Onboarding!LinksOneToOne)
      /\ ~(part = "registration") \/ (Registration!AuthorityUnique)
      /\ ~(part = "recovery") \/ (Recovery!ContactsUnique)
      /\ ~(part = "front") \/ (Front!OneMeaning /\ Front!NoLoginLoop)
      => AuthorityUnique
  BY DEF AuthorityUnique, InEnrollment, InOnboarding, InRegistration, InRecovery, InFront
<1> QED
  BY <1>1, <1>2, <1>3, <1>4, <1>5, <1>6, RunsEnrollment, RunsOnboarding, RunsRegistration, RunsRecovery,
      RunsFront, PTL

\* Every component keeps to the values its stores, handlers and workers can
\* hold, in any behaviour of the plane.
THEOREM PlaneTypes == Spec => []EntryTypes
<1>1. Earned!Spec => [](Ceremony!TypeOK)
  <2>1. Earned!CeremoniesAssumption
    BY SameCeremony, CeremonyHolds
  <2>2. Earned!Spec => []Earned!TypeOK
    BY <2>1, Earned!CeremonyTypes
  <2>3. Earned!TypeOK
        => Ceremony!TypeOK
    BY SameCeremony
  <2> QED
    BY <2>2, <2>3, PTL
<1>2. Earned!MFA!Spec => [](Enrollment!TypeOK)
  <2>1. Earned!MFA!EnrollmentAssumption
    BY SameEnrollment, EnrollmentHolds
  <2>2. Earned!MFA!Spec => []Earned!MFA!TypeOK
    BY <2>1, Earned!EnrollmentTypes
  <2>3. Earned!MFA!TypeOK
        => Enrollment!TypeOK
    BY SameEnrollment
  <2> QED
    BY <2>2, <2>3, PTL
<1>3. Earned!WX!Spec => [](Onboarding!TypeOK)
  <2>1. Earned!WX!OnboardingAssumption
    BY SameOnboarding, OnboardingHolds
  <2>2. Earned!WX!Spec => []Earned!WX!TypeOK
    BY <2>1, Earned!OnboardingTypes
  <2>3. Earned!WX!TypeOK
        => Onboarding!TypeOK
    BY SameOnboarding
  <2> QED
    BY <2>2, <2>3, PTL
<1>4. Counted!Spec => [](Gate!TypeOK)
  <2>1. Counted!GateAssumption
    BY SameGate, GateHolds
  <2>2. Counted!Spec => []Counted!TypeOK
    BY <2>1, Counted!TypeCorrect
  <2>3. Counted!TypeOK
        => Gate!TypeOK
    BY SameGate
  <2> QED
    BY <2>2, <2>3, PTL
<1>5. Counted!Queue!Spec => [](Queue!TypeOK)
  <2>1. Counted!Queue!AdmissionAssumption
    BY SameQueue, QueueHolds
  <2>2. Counted!Queue!Spec => []Counted!Queue!TypeOK
    BY <2>1, Counted!QueueTypeCorrect
  <2>3. Counted!Queue!TypeOK
        => Queue!TypeOK
    BY SameQueue
  <2> QED
    BY <2>2, <2>3, PTL
<1>6. Counted!Reg!Spec => [](Registration!TypeOK)
  <2>1. Counted!Reg!RegistrationAssumption
    BY SameRegistration, RegistrationHolds
  <2>2. Counted!Reg!Spec => []Counted!Reg!TypeOK
    BY <2>1, Counted!RegistrationTypes
  <2>3. Counted!Reg!TypeOK
        => Registration!TypeOK
    BY SameRegistration
  <2> QED
    BY <2>2, <2>3, PTL
<1>7. Counted!Mail!Spec => [](Notes!TypeOK)
  <2>1. Counted!Mail!NotificationAssumption
    BY SameNotes, NotesHold
  <2>2. Counted!Mail!Spec => []Counted!Mail!TypeOK
    BY <2>1, Counted!NoteTypes
  <2>3. Counted!Mail!TypeOK
        => Notes!TypeOK
    BY SameNotes
  <2> QED
    BY <2>2, <2>3, PTL
<1>8. Counted!Rec!Spec => [](Recovery!TypeOK)
  <2>1. Counted!Rec!RecoveryAssumption
    BY SameRecovery, RecoveryHolds
  <2>2. Counted!Rec!Spec => []Counted!Rec!TypeOK
    BY <2>1, Counted!RecoveryTypes
  <2>3. Counted!Rec!TypeOK
        => Recovery!TypeOK
    BY SameRecovery
  <2> QED
    BY <2>2, <2>3, PTL
<1>9. Decided!Front!Spec => [](Front!TypeOK)
  <2>1. Decided!Front!AuthorizationAssumption
    BY SameFront, FrontHolds
  <2>2. Decided!Front!Spec => []Decided!Front!TypeOK
    BY <2>1, Decided!FrontTypes
  <2>3. Decided!Front!TypeOK
        => Front!TypeOK
    BY SameFront
  <2> QED
    BY <2>2, <2>3, PTL
<1>10. /\ ~(part = "ceremony") \/ (Ceremony!TypeOK)
       /\ ~(part = "enrollment") \/ (Enrollment!TypeOK)
       /\ ~(part = "onboarding") \/ (Onboarding!TypeOK)
       /\ ~(part = "gate") \/ (Gate!TypeOK)
       /\ ~(part = "queue") \/ (Queue!TypeOK)
       /\ ~(part = "registration") \/ (Registration!TypeOK)
       /\ ~(part = "notes") \/ (Notes!TypeOK)
       /\ ~(part = "recovery") \/ (Recovery!TypeOK)
       /\ ~(part = "front") \/ (Front!TypeOK)
      => EntryTypes
  BY DEF EntryTypes, InCeremony, InEnrollment, InOnboarding, InGate, InQueue, InRegistration, InNotes,
      InRecovery, InFront
<1> QED
  BY <1>1, <1>2, <1>3, <1>4, <1>5, <1>6, <1>7, <1>8, <1>9, <1>10, RunsCeremony, RunsEnrollment,
      RunsOnboarding, RunsGate, RunsQueue, RunsRegistration, RunsNotes, RunsRecovery, RunsFront, PTL

\* What is settled stays, in any behaviour of the plane: an active factor, a
\* link, a pinned form, a suspended account, a terminal event and a used ticket
\* are not undone by whoever comes late.
THEOREM SettledIsKept == Spec => SettledStays
<1>1. Earned!MFA!Spec => [][InEnrollment(Enrollment!WorkerSpares /\ Enrollment!ActiveKept)]_planeVars
  <2>1. Earned!MFA!EnrollmentAssumption
    BY SameEnrollment, EnrollmentHolds
  <2>2. Earned!MFA!Spec => [][Earned!MFA!WorkerSpares /\ Earned!MFA!ActiveKept]_(Earned!MFA!enrollVars)
    BY <2>1, Earned!ActiveStays
  <2>3. [Earned!MFA!WorkerSpares
          /\ Earned!MFA!ActiveKept]_(Earned!MFA!enrollVars) => [InEnrollment(Enrollment!WorkerSpares
              /\ Enrollment!ActiveKept)]_planeVars
    <3>1. UNCHANGED Earned!MFA!enrollVars => Enrollment!WorkerSpares /\ Enrollment!ActiveKept
      BY DEF Earned!MFA!enrollVars, Enrollment!Absent, Enrollment!ActiveKept, Enrollment!Fault,
          Enrollment!Idle, Enrollment!Kind, Enrollment!NoFault, Enrollment!Op, Enrollment!Passkeys, Enrollment!RemoveAbandoned, Enrollment!Removed, Enrollment!Requeue, Enrollment!Slot, Enrollment!Slots, Enrollment!Token, Enrollment!Tokens, Enrollment!WorkerSpares
    <3> QED
      BY <3>1, SameEnrollment DEF InEnrollment
  <2> QED
    BY <2>2, <2>3, PTL
<1>2. Earned!WX!Spec => [][InOnboarding(Onboarding!LinksKept)]_planeVars
  <2>1. Earned!WX!OnboardingAssumption
    BY SameOnboarding, OnboardingHolds
  <2>2. Earned!WX!Spec => [][Earned!WX!LinksKept]_(Earned!WX!onboardingVars)
    BY <2>1, Earned!LinksStay
  <2>3. [Earned!WX!LinksKept]_(Earned!WX!onboardingVars) => [InOnboarding(Onboarding!LinksKept)]_planeVars
    <3>1. UNCHANGED Earned!WX!onboardingVars => Onboarding!LinksKept
      BY DEF Earned!WX!onboardingVars, Onboarding!Account, Onboarding!Accounts, Onboarding!At,
          Onboarding!Ceremony, Onboarding!Completes, Onboarding!LinksKept, Onboarding!MFAToken, Onboarding!Of, Onboarding!Op
    <3> QED
      BY <3>1, SameOnboarding DEF InOnboarding
  <2> QED
    BY <2>2, <2>3, PTL
<1>3. Counted!Spec => [][InGate(Gate!PinKept)]_planeVars
  <2>1. Counted!GateAssumption
    BY SameGate, GateHolds
  <2>2. Counted!Spec => [][Counted!PinKept]_(Counted!gateVars)
    BY <2>1, Counted!PinsStay
  <2>3. [Counted!PinKept]_(Counted!gateVars) => [InGate(Gate!PinKept)]_planeVars
    <3>1. UNCHANGED Counted!gateVars => Gate!PinKept
      BY DEF Counted!gateVars, Gate!Intents, Gate!Op, Gate!PinKept
    <3> QED
      BY <3>1, SameGate DEF InGate
  <2> QED
    BY <2>2, <2>3, PTL
<1>4. Counted!Reg!Spec => [][InRegistration(Registration!SuspendedKept)]_planeVars
  <2>1. Counted!Reg!RegistrationAssumption
    BY SameRegistration, RegistrationHolds
  <2>2. Counted!Reg!Spec => [][Counted!Reg!SuspendedKept]_(Counted!Reg!registrationVars)
    BY <2>1, Counted!SuspendedStays
  <2>3. [Counted!Reg!SuspendedKept]_(Counted!Reg!registrationVars) => [InRegistration(Registration!SuspendedKept)]_planeVars
    <3>1. UNCHANGED Counted!Reg!registrationVars => Registration!SuspendedKept
      BY DEF Counted!Reg!registrationVars, Registration!Accounts, Registration!Creates,
          Registration!Legacy, Registration!Op, Registration!Public, Registration!SuspendedKept, Registration!WeChat
    <3> QED
      BY <3>1, SameRegistration DEF InRegistration
  <2> QED
    BY <2>2, <2>3, PTL
<1>5. Counted!Mail!Spec => [][InNotes(Notes!TerminalKept)]_planeVars
  <2>1. Counted!Mail!NotificationAssumption
    BY SameNotes, NotesHold
  <2>2. Counted!Mail!Spec => [][Counted!Mail!TerminalKept]_(Counted!Mail!notificationVars)
    BY <2>1, Counted!TerminalStays
  <2>3. [Counted!Mail!TerminalKept]_(Counted!Mail!notificationVars) => [InNotes(Notes!TerminalKept)]_planeVars
    <3>1. UNCHANGED Counted!Mail!notificationVars => Notes!TerminalKept
      BY DEF Counted!Mail!notificationVars, Notes!Final, Notes!Terminal, Notes!TerminalKept
    <3> QED
      BY <3>1, SameNotes DEF InNotes
  <2> QED
    BY <2>2, <2>3, PTL
<1>6. Counted!Rec!Spec => [][InRecovery(Recovery!TicketKept)]_planeVars
  <2>1. Counted!Rec!RecoveryAssumption
    BY SameRecovery, RecoveryHolds
  <2>2. Counted!Rec!Spec => [][Counted!Rec!TicketKept]_(Counted!Rec!recoveryVars)
    BY <2>1, Counted!TicketsStay
  <2>3. [Counted!Rec!TicketKept]_(Counted!Rec!recoveryVars) => [InRecovery(Recovery!TicketKept)]_planeVars
    <3>1. UNCHANGED Counted!Rec!recoveryVars => Recovery!TicketKept
      BY DEF Counted!Rec!recoveryVars, Recovery!Doing, Recovery!Op, Recovery!TicketKept, Recovery!Tickets
    <3> QED
      BY <3>1, SameRecovery DEF InRecovery
  <2> QED
    BY <2>2, <2>3, PTL
<1>7. /\ ~(part = "enrollment") => InEnrollment(Enrollment!WorkerSpares /\ Enrollment!ActiveKept)
      /\ ~(part = "onboarding") => InOnboarding(Onboarding!LinksKept)
      /\ ~(part = "gate") => InGate(Gate!PinKept)
      /\ ~(part = "registration") => InRegistration(Registration!SuspendedKept)
      /\ ~(part = "notes") => InNotes(Notes!TerminalKept)
      /\ ~(part = "recovery") => InRecovery(Recovery!TicketKept)
  BY DEF InEnrollment, InOnboarding, InGate, InRegistration, InNotes, InRecovery
<1>8. /\ [InEnrollment(Enrollment!WorkerSpares /\ Enrollment!ActiveKept)]_planeVars
      /\ [InOnboarding(Onboarding!LinksKept)]_planeVars
      /\ [InGate(Gate!PinKept)]_planeVars
      /\ [InRegistration(Registration!SuspendedKept)]_planeVars
      /\ [InNotes(Notes!TerminalKept)]_planeVars
      /\ [InRecovery(Recovery!TicketKept)]_planeVars
      => [/\ InEnrollment(Enrollment!WorkerSpares /\ Enrollment!ActiveKept)
          /\ InOnboarding(Onboarding!LinksKept)
          /\ InGate(Gate!PinKept)
          /\ InRegistration(Registration!SuspendedKept)
          /\ InNotes(Notes!TerminalKept)
          /\ InRecovery(Recovery!TicketKept)]_planeVars
  OBVIOUS
<1> QED
  BY <1>1, <1>2, <1>3, <1>4, <1>5, <1>6, <1>7, <1>8, RunsEnrollment, RunsOnboarding, RunsGate,
      RunsRegistration, RunsNotes, RunsRecovery, PTL DEF SettledStays
=============================================================================
