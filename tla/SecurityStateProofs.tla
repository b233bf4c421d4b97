------------------------- MODULE SecurityStateProofs -------------------------
(***************************************************************************)
(* The security boundary of SecurityState, proved for any numbers of       *)
(* requests, server instances, logins, sessions and faults.                *)
(*                                                                         *)
(* First its types.  TypeOK alone is not inductive: ConsumeGrant looks up  *)
(* the session of the token a request holds, so the invariant must also    *)
(* say that a request that will consume holds one.  Everything after rests *)
(* on LedgerMoves: whatever step is taken, the users row and the intent    *)
(* make one of LedgerMove's moves, from the status its CAS demands.        *)
(***************************************************************************)
EXTENDS SecurityState, TLAPS

\* A request about to consume its grant presents the token of a session.
GrantedHasToken ==
  \A r \in Requests : pc[r] = "granted" => token[r] \in Sessions \X Nat

TypeInv == TypeOK /\ GrantedHasToken

-----------------------------------------------------------------------------
(* Lemmas about the operators that several actions share *)

\* The one transaction that moves the outcome and the epoch keeps their types.
LEMMA AdvanceEpochTypes ==
  ASSUME LedgerTypes, NEW o \in Outcome, AdvanceEpoch(o)
  PROVE  LedgerTypes'
<1>1. epoch' \in Nat \ {0} BY DEF LedgerTypes, AdvanceEpoch
<1>2. "outcome_recorded" \in Status /\ "null" \in Lease BY DEF Status, Lease
<1>3. intent' \in IntentRow BY <1>2 DEF LedgerTypes, AdvanceEpoch, IntentRow
<1> QED BY <1>1, <1>3 DEF LedgerTypes

\* Every label of the handler, of recovery and of settlement is a label of pc.
LEMMA LabelFacts ==
  /\ RequestPC \subseteq Label /\ RecoveryPC \subseteq Label
  /\ SettlePC \subseteq Label /\ "idle" \in Label
  BY DEF Label

\* Moving a worker to a label keeps the type of pc.
LEMMA GotoTypes ==
  ASSUME pc \in [Workers -> Label], NEW w \in Workers, NEW l \in Label,
         Goto(w, l)
  PROVE  pc' \in [Workers -> Label]
  BY DEF Goto

\* The copy of a worker that holds no intent is a well-formed copy.
LEMMA NoClaimType == NoClaim \in Claim
  BY DEF NoClaim, Claim, Status, Outcome

\* The end of a recovery run or of a settlement (Recover, SettleIntent) keeps
\* what is known of the worker, of its request and of its token.
LEMMA FinishTypes ==
  ASSUME WorkerTypes, RequestTypes, GrantedHasToken,
         NEW w \in Workers, NEW o \in Settlement, Finish(w, o)
  PROVE  WorkerTypes' /\ RequestTypes' /\ GrantedHasToken'
<1>1. CASE Owns(w)
  <2>1. w \in Requests BY <1>1 DEF Owns
  <2>2. pc' \in [Workers -> Label]
    BY <1>1, GotoTypes, LabelFacts
    DEF Finish, WorkerTypes, RequestPC
  <2>3. WorkerTypes' BY <1>1, <2>2 DEF Finish, WorkerTypes
  <2>4. RequestTypes' BY <1>1, <2>1 DEF Finish, RequestTypes
  <2>5. GrantedHasToken'
    BY <1>1, <2>1
    DEF Finish, Goto, GrantedHasToken, WorkerTypes, Workers
  <2> QED BY <2>3, <2>4, <2>5
<1>2. CASE ~Owns(w)
  <2>2. pc' \in [Workers -> Label]
    BY <1>2, GotoTypes, LabelFacts
    DEF Finish, WorkerTypes, RequestPC
  <2>1. mine' \in [Workers -> Claim]
    BY <1>2, NoClaimType
    DEF Finish, WorkerTypes
  <2>6. gen' \in [Workers -> Nat] BY <1>2 DEF Finish, WorkerTypes
  <2>7. todo' \in [Workers -> SUBSET Sessions] BY <1>2 DEF Finish, WorkerTypes
  <2>3. WorkerTypes'
    BY <1>2, <2>1, <2>2, <2>6, <2>7
    DEF Finish, WorkerTypes, requestVars
  <2>4. RequestTypes' BY <1>2 DEF Finish, RequestTypes, requestVars
  <2>5. GrantedHasToken'
    BY <1>2
    DEF Finish, Goto, GrantedHasToken, WorkerTypes, Workers, requestVars
  <2> QED BY <2>3, <2>4, <2>5
<1> QED BY <1>1, <1>2

\* A failed call spends one fault at most.
LEMMA StumbleTypes ==
  faults \in Nat /\ (Stumble \/ UNCHANGED faults) => faults' \in Nat
  BY DEF Stumble

\* A step that leaves requests alone and moves a worker elsewhere than to the
\* consumption of a grant keeps GrantedHasToken.
LEMMA GrantedKept ==
  ASSUME WorkerTypes, GrantedHasToken, NEW w \in Workers, NEW l, l # "granted",
         Goto(w, l), UNCHANGED requestVars
  PROVE  GrantedHasToken'
  BY DEF GrantedHasToken, Goto, WorkerTypes, Workers, requestVars

-----------------------------------------------------------------------------
(* The initial states and the steps *)

\* The users row, the ledger and Redis start well-formed.
LEMMA InitType == Init => TypeInv
  BY SecurityAssumption
  DEF SecurityAssumption, Init, TypeInv, TypeOK, LedgerTypes, OuterTypes,
      SessionTypes, WorkerTypes, RequestTypes, GrantedHasToken, Workers,
      IntentRow, Claim, SessionRow, AuditRow, Status, Outcome, Settlement,
      Lease, RequestPC, RecoveryPC, SettlePC, Label, Reply, NoClaim

\* Every result of a settlement is one.
LEMMA OutcomeFacts ==
  {"none", "settled", "settled_relogin", "degraded"} \subseteq Settlement
  BY DEF Settlement

\* Every handler, goroutine and crash keeps the types; one step per action, and
\* under it one for every part of the invariant.
LEMMA StepType == TypeInv /\ [Next]_vars => TypeInv'
<1> SUFFICES ASSUME TypeInv, [Next]_vars PROVE TypeInv' OBVIOUS
<1>0. /\ LedgerTypes /\ OuterTypes /\ SessionTypes /\ WorkerTypes
      /\ RequestTypes /\ faults \in Nat /\ GrantedHasToken
  BY DEF TypeInv, TypeOK
<1> USE <1>0
<1>1. ASSUME NEW l \in Logins, LoginStamp(l) PROVE TypeInv'
  <2>1. LedgerTypes' BY <1>1 DEF LoginStamp, LedgerTypes, ledgerVars
  <2>2. OuterTypes' BY <1>1 DEF LoginStamp, OuterTypes, outerVars
  <2>3. SessionTypes'
    BY <1>1
    DEF LoginStamp, SessionTypes, LedgerTypes, sessionVars
  <2>4. WorkerTypes' BY <1>1 DEF LoginStamp, WorkerTypes, workVars
  <2>5. RequestTypes' BY <1>1 DEF LoginStamp, RequestTypes, requestVars
  <2>6. faults' \in Nat BY <1>1 DEF LoginStamp, Stumble
  <2>7. GrantedHasToken' BY <1>1 DEF LoginStamp, GrantedHasToken, requestVars
  <2> QED BY <2>1, <2>2, <2>3, <2>4, <2>5, <2>6, <2>7 DEF TypeInv, TypeOK
<1>2. ASSUME NEW l \in Logins, NEW s \in Sessions, LoginStore(l, s)
      PROVE TypeInv'
  <2>1. LedgerTypes' BY <1>2 DEF LoginStore, LedgerTypes, ledgerVars
  <2>2. OuterTypes' BY <1>2 DEF LoginStore, OuterTypes, outerVars
  <2>3. SessionTypes'
    BY <1>2
    DEF LoginStore, SessionTypes, SessionRow, sessionVars
  <2>4. WorkerTypes' BY <1>2 DEF LoginStore, WorkerTypes, workVars
  <2>5. RequestTypes' BY <1>2 DEF LoginStore, RequestTypes, requestVars
  <2>6. faults' \in Nat BY <1>2 DEF LoginStore, Stumble
  <2>7. GrantedHasToken' BY <1>2 DEF LoginStore, GrantedHasToken, requestVars
  <2> QED BY <2>1, <2>2, <2>3, <2>4, <2>5, <2>6, <2>7 DEF TypeInv, TypeOK
<1>3. ASSUME NEW s \in Sessions, EndSession(s) PROVE TypeInv'
  <2>1. LedgerTypes' BY <1>3 DEF EndSession, LedgerTypes, ledgerVars
  <2>2. OuterTypes' BY <1>3 DEF EndSession, OuterTypes, outerVars
  <2>3. SessionTypes'
    BY <1>3
    DEF EndSession, SessionTypes, SessionRow, sessionVars
  <2>4. WorkerTypes' BY <1>3 DEF EndSession, WorkerTypes, workVars
  <2>5. RequestTypes' BY <1>3 DEF EndSession, RequestTypes, requestVars
  <2>6. faults' \in Nat BY <1>3 DEF EndSession, Stumble
  <2>7. GrantedHasToken' BY <1>3 DEF EndSession, GrantedHasToken, requestVars
  <2> QED BY <2>1, <2>2, <2>3, <2>4, <2>5, <2>6, <2>7 DEF TypeInv, TypeOK
<1>4. ASSUME NEW s \in Sessions, NEW w \in Recoverers, Promote(s, w)
      PROVE TypeInv'
  <2>1. LedgerTypes' BY <1>4 DEF Promote, LedgerTypes, ledgerVars
  <2>2. OuterTypes' BY <1>4 DEF Promote, OuterTypes, outerVars
  <2>3. SessionTypes'
    BY <1>4
    DEF Promote, SessionTypes, SessionRow, sessionVars
  <2>4. WorkerTypes'
    BY <1>4, LabelFacts
    DEF Promote, WorkerTypes, Goto, RecoveryPC, Workers, workVars
  <2>5. RequestTypes' BY <1>4 DEF Promote, RequestTypes, requestVars
  <2>6. faults' \in Nat BY <1>4 DEF Promote, Stumble
  <2>7. GrantedHasToken'
    BY <1>4
    DEF Promote, GrantedHasToken, Goto, WorkerTypes, Workers, requestVars
  <2> QED BY <2>1, <2>2, <2>3, <2>4, <2>5, <2>6, <2>7 DEF TypeInv, TypeOK
<1>5. ASSUME LeaseExpires PROVE TypeInv'
  <2>1. LedgerTypes'
    BY <1>5
    DEF LeaseExpires, LedgerTypes, IntentRow, Lease, ledgerVars
  <2>2. OuterTypes' BY <1>5 DEF LeaseExpires, OuterTypes, outerVars
  <2>3. SessionTypes' BY <1>5 DEF LeaseExpires, SessionTypes, sessionVars
  <2>4. WorkerTypes' BY <1>5 DEF LeaseExpires, WorkerTypes, workVars
  <2>5. RequestTypes' BY <1>5 DEF LeaseExpires, RequestTypes, requestVars
  <2>6. faults' \in Nat BY <1>5 DEF LeaseExpires, Stumble
  <2>7. GrantedHasToken' BY <1>5 DEF LeaseExpires, GrantedHasToken, requestVars
  <2> QED BY <2>1, <2>2, <2>3, <2>4, <2>5, <2>6, <2>7 DEF TypeInv, TypeOK
<1>6. ASSUME NEW r \in Requests, NEW s \in Sessions, Reauthenticate(r, s)
      PROVE TypeInv'
  <2>1. LedgerTypes' BY <1>6 DEF Reauthenticate, LedgerTypes, ledgerVars
  <2>2. OuterTypes' BY <1>6 DEF Reauthenticate, OuterTypes, outerVars
  <2>3. SessionTypes' BY <1>6 DEF Reauthenticate, SessionTypes, sessionVars
  <2>4. WorkerTypes'
    BY <1>6, LabelFacts
    DEF Reauthenticate, WorkerTypes, Goto, RequestPC, Workers, workVars
  <2>5. RequestTypes'
    BY <1>6
    DEF Reauthenticate, RequestTypes, SessionTypes, SessionRow, requestVars
  <2>6. faults' \in Nat BY <1>6 DEF Reauthenticate, Stumble
  <2>7. GrantedHasToken'
    BY <1>6
    DEF Reauthenticate, GrantedHasToken, Goto, WorkerTypes, Workers,
        RequestTypes, SessionTypes, SessionRow
  <2> QED BY <2>1, <2>2, <2>3, <2>4, <2>5, <2>6, <2>7 DEF TypeInv, TypeOK
<1>7. ASSUME NEW r \in Requests, ConsumeGrant(r) PROVE TypeInv'
  <2>1. LedgerTypes' BY <1>7 DEF ConsumeGrant, LedgerTypes, ledgerVars
  <2>2. OuterTypes' BY <1>7 DEF ConsumeGrant, OuterTypes, outerVars
  <2>3. SessionTypes' BY <1>7 DEF ConsumeGrant, SessionTypes, sessionVars
  <2>4. WorkerTypes'
    BY <1>7, LabelFacts
    DEF ConsumeGrant, WorkerTypes, Goto, RequestPC, RecoveryPC, Workers,
        workVars
  <2>5. RequestTypes'
    BY <1>7
    DEF ConsumeGrant, RequestTypes, GrantedHasToken, SessionTypes, SessionRow,
        Reply, requestVars
  <2>6. faults' \in Nat BY <1>7 DEF ConsumeGrant, Stumble
  <2>7. GrantedHasToken'
    BY <1>7
    DEF ConsumeGrant, GrantedHasToken, Goto, WorkerTypes, Workers, RequestTypes
  <2> QED BY <2>1, <2>2, <2>3, <2>4, <2>5, <2>6, <2>7 DEF TypeInv, TypeOK
<1>8. ASSUME NEW r \in Requests, LateCommit(r) PROVE TypeInv'
  <2>1. LedgerTypes' BY <1>8 DEF LateCommit, LedgerTypes, ledgerVars
  <2>2. OuterTypes' BY <1>8 DEF LateCommit, OuterTypes, outerVars
  <2>3. SessionTypes' BY <1>8 DEF LateCommit, SessionTypes, sessionVars
  <2>4. WorkerTypes' BY <1>8 DEF LateCommit, WorkerTypes, workVars
  <2>5. RequestTypes' BY <1>8 DEF LateCommit, RequestTypes, requestVars
  <2>6. faults' \in Nat BY <1>8 DEF LateCommit, Stumble
  <2>7. GrantedHasToken' BY <1>8 DEF LateCommit, GrantedHasToken, requestVars
  <2> QED BY <2>1, <2>2, <2>3, <2>4, <2>5, <2>6, <2>7 DEF TypeInv, TypeOK
<1>9. ASSUME NEW r \in Requests, Insert(r) PROVE TypeInv'
  <2>1. LedgerTypes'
    BY <1>9
    DEF Insert, LedgerTypes, AcquireIntent, IntentRow, Status, Outcome,
        Settlement, Lease, ledgerVars
  <2>2. OuterTypes' BY <1>9 DEF Insert, OuterTypes, outerVars
  <2>3. SessionTypes' BY <1>9 DEF Insert, SessionTypes, sessionVars
  <2>4. WorkerTypes'
    BY <1>9, LabelFacts
    DEF Insert, WorkerTypes, Goto, RequestPC, Workers, Claim, Status, Outcome,
        LedgerTypes, IntentRow, workVars
  <2>5. RequestTypes'
    <3>1. own' \in [Requests -> Nat]
      BY <1>9
      DEF Insert, RequestTypes, LedgerTypes, IntentRow
    <3>2. reply' \in [Requests -> Reply]
      BY <1>9
      DEF Insert, RequestTypes, Reply
    <3> QED BY <1>9, <3>1, <3>2 DEF Insert, RequestTypes
  <2>6. faults' \in Nat BY <1>9 DEF Insert, Stumble
  <2>7. GrantedHasToken'
    BY <1>9
    DEF Insert, GrantedHasToken, Goto, WorkerTypes, Workers, requestVars
  <2> QED BY <2>1, <2>2, <2>3, <2>4, <2>5, <2>6, <2>7 DEF TypeInv, TypeOK
<1>10. ASSUME NEW r \in Requests, CallProvider(r) PROVE TypeInv'
  <2>1. LedgerTypes' BY <1>10 DEF CallProvider, LedgerTypes, ledgerVars
  <2>2. OuterTypes' BY <1>10 DEF CallProvider, OuterTypes, outerVars
  <2>3. SessionTypes' BY <1>10 DEF CallProvider, SessionTypes, sessionVars
  <2>4. WorkerTypes'
    BY <1>10, LabelFacts
    DEF CallProvider, WorkerTypes, Goto, RequestPC, Workers, Claim, Outcome,
        workVars
  <2>5. RequestTypes' BY <1>10 DEF CallProvider, RequestTypes, requestVars
  <2>6. faults' \in Nat BY <1>10 DEF CallProvider, Stumble
  <2>7. GrantedHasToken'
    BY <1>10
    DEF CallProvider, GrantedHasToken, Goto, WorkerTypes, Workers, requestVars
  <2> QED BY <2>1, <2>2, <2>3, <2>4, <2>5, <2>6, <2>7 DEF TypeInv, TypeOK
<1>11. ASSUME NEW r \in Requests, ReleaseConfirmedFailure(r) PROVE TypeInv'
  <2>1. LedgerTypes'
    BY <1>11
    DEF ReleaseConfirmedFailure, LedgerTypes, IntentRow, Status, Outcome,
        ledgerVars
  <2>2. OuterTypes' BY <1>11 DEF ReleaseConfirmedFailure, OuterTypes, outerVars
  <2>3. SessionTypes'
    BY <1>11
    DEF ReleaseConfirmedFailure, SessionTypes, sessionVars
  <2>4. WorkerTypes'
    BY <1>11, LabelFacts
    DEF ReleaseConfirmedFailure, WorkerTypes, Goto, RequestPC, Workers,
        workVars
  <2>5. RequestTypes'
    BY <1>11
    DEF ReleaseConfirmedFailure, RequestTypes, Reply, requestVars
  <2>6. faults' \in Nat BY <1>11 DEF ReleaseConfirmedFailure, Stumble
  <2>7. GrantedHasToken'
    BY <1>11
    DEF ReleaseConfirmedFailure, GrantedHasToken, Goto, WorkerTypes, Workers,
        requestVars
  <2> QED BY <2>1, <2>2, <2>3, <2>4, <2>5, <2>6, <2>7 DEF TypeInv, TypeOK
<1>12. ASSUME NEW r \in Requests, RecordOutcome(r) PROVE TypeInv'
  <2>1. LedgerTypes'
    BY <1>12, AdvanceEpochTypes
    DEF RecordOutcome, LedgerTypes, WorkerTypes, Claim, Workers, ledgerVars
  <2>2. OuterTypes' BY <1>12 DEF RecordOutcome, OuterTypes, outerVars
  <2>3. SessionTypes' BY <1>12 DEF RecordOutcome, SessionTypes, sessionVars
  <2>4. WorkerTypes'
    BY <1>12, LabelFacts
    DEF RecordOutcome, WorkerTypes, Goto, RequestPC, SettlePC, Workers, Claim,
        Status, LedgerTypes, workVars
  <2>5. RequestTypes' BY <1>12 DEF RecordOutcome, RequestTypes, requestVars
  <2>6. faults' \in Nat BY <1>12 DEF RecordOutcome, Stumble
  <2>7. GrantedHasToken'
    BY <1>12
    DEF RecordOutcome, GrantedHasToken, Goto, WorkerTypes, Workers, requestVars
  <2> QED BY <2>1, <2>2, <2>3, <2>4, <2>5, <2>6, <2>7 DEF TypeInv, TypeOK
<1>13. ASSUME NEW r \in Requests, Rotate(r) PROVE TypeInv'
  <2>1. LedgerTypes' BY <1>13 DEF Rotate, LedgerTypes, ledgerVars
  <2>2. OuterTypes' BY <1>13 DEF Rotate, OuterTypes, outerVars
  <2>3. SessionTypes'
    <3>1. CASE UNCHANGED sess BY <1>13, <3>1 DEF Rotate, SessionTypes
    <3>2. CASE /\ TokenLive(r)
               /\ sess' = [sess EXCEPT ![token[r][1]].stamp = gen[r],
                                       ![token[r][1]].ver = @ + 1]
      <4>1. token[r][1] \in Sessions BY <3>2 DEF TokenLive, RequestTypes
      <4>2. gen[r] \in Nat BY DEF WorkerTypes, Workers
      <4> QED BY <1>13, <3>2, <4>1, <4>2 DEF Rotate, SessionTypes, SessionRow
    <3> QED BY <1>13, <3>1, <3>2 DEF Rotate
  <2>4. WorkerTypes'
    BY <1>13, LabelFacts
    DEF Rotate, WorkerTypes, Goto, SettlePC, Workers, workVars
  <2>5. RequestTypes'
    <3>1. CASE UNCHANGED token BY <1>13, <3>1 DEF Rotate, RequestTypes
    <3>2. CASE /\ TokenLive(r)
               /\ token' = [token EXCEPT ![r] =
                            <<token[r][1], sess[token[r][1]].ver + 1>>]
      <4>1. token[r][1] \in Sessions BY <3>2 DEF TokenLive, RequestTypes
      <4>2. sess[token[r][1]].ver + 1 \in Nat
        BY <4>1
        DEF SessionTypes, SessionRow
      <4> QED BY <1>13, <3>2, <4>1, <4>2 DEF Rotate, RequestTypes
    <3> QED BY <1>13, <3>1, <3>2 DEF Rotate
  <2>6. faults' \in Nat BY <1>13 DEF Rotate, Stumble
  <2>7. GrantedHasToken'
    BY <1>13
    DEF Rotate, GrantedHasToken, Goto, WorkerTypes, Workers, RequestTypes
  <2> QED BY <2>1, <2>2, <2>3, <2>4, <2>5, <2>6, <2>7 DEF TypeInv, TypeOK
<1>14. ASSUME NEW r \in Requests, Respond(r) PROVE TypeInv'
  <2>1. LedgerTypes' BY <1>14 DEF Respond, LedgerTypes, ledgerVars
  <2>2. OuterTypes'
    BY <1>14
    DEF Respond, OuterTypes, WorkerTypes, RequestTypes, AuditRow, Claim,
        Settlement, Workers, outerVars
  <2>3. SessionTypes' BY <1>14 DEF Respond, SessionTypes, sessionVars
  <2>4. WorkerTypes'
    BY <1>14, LabelFacts, NoClaimType
    DEF Respond, WorkerTypes, Goto, RequestPC, Workers, workVars
  <2>5. RequestTypes'
    BY <1>14
    DEF Respond, RequestTypes, Answer, Reply, requestVars
  <2>6. faults' \in Nat BY <1>14 DEF Respond, Stumble
  <2>7. GrantedHasToken'
    BY <1>14
    DEF Respond, GrantedHasToken, Goto, WorkerTypes, Workers, requestVars
  <2> QED BY <2>1, <2>2, <2>3, <2>4, <2>5, <2>6, <2>7 DEF TypeInv, TypeOK
<1>15. ASSUME NEW w \in Workers, ReadState(w) PROVE TypeInv'
  <2>1. LedgerTypes' BY <1>15 DEF ReadState, LedgerTypes, ledgerVars
  <2>2. OuterTypes' BY <1>15 DEF ReadState, OuterTypes, outerVars
  <2>3. SessionTypes' BY <1>15 DEF ReadState, SessionTypes, sessionVars
  <2>4. WorkerTypes'
    <3>1. CASE \E o \in Settlement : Finish(w, o) BY <3>1, FinishTypes
    <3>2. CASE /\ mine' = [mine EXCEPT ![w] = [id |-> intent.id,
                    status |-> intent.status, outcome |-> intent.outcome]]
               /\ UNCHANGED <<gen, todo, rot>> /\ Goto(w, "takeover")
      BY <3>2, LabelFacts, GotoTypes
      DEF WorkerTypes, RecoveryPC, LedgerTypes, IntentRow, Claim
    <3>3. CASE /\ mine' = [mine EXCEPT ![w] = [id |-> intent.id,
                    status |-> intent.status, outcome |-> intent.outcome]]
               /\ gen' = [gen EXCEPT ![w] = epoch]
               /\ UNCHANGED <<todo, rot>> /\ Goto(w, "bump")
      BY <3>3, LabelFacts, GotoTypes
      DEF WorkerTypes, RecoveryPC, LedgerTypes, IntentRow, Claim
    <3> QED BY <1>15, <3>1, <3>2, <3>3, OutcomeFacts DEF ReadState
  <2>5. RequestTypes'
    BY <1>15, FinishTypes, OutcomeFacts
    DEF ReadState, RequestTypes, requestVars
  <2>6. faults' \in Nat BY <1>15 DEF ReadState, Stumble, Finish
  <2>7. GrantedHasToken'
    <3>1. CASE \E o \in Settlement : Finish(w, o) BY <3>1, FinishTypes
    <3>2. CASE UNCHANGED requestVars /\ \E l : l # "granted" /\ Goto(w, l)
      BY <3>2, GrantedKept
    <3> QED BY <1>15, <3>1, <3>2, OutcomeFacts
        DEF ReadState, requestVars, workVars
  <2> QED BY <2>1, <2>2, <2>3, <2>4, <2>5, <2>6, <2>7 DEF TypeInv, TypeOK
<1>16. ASSUME NEW w \in Workers, Takeover(w) PROVE TypeInv'
  <2>1. LedgerTypes'
    BY <1>16, AdvanceEpochTypes
    DEF Takeover, LedgerTypes, Outcome, ledgerVars
  <2>2. OuterTypes' BY <1>16 DEF Takeover, OuterTypes, outerVars
  <2>3. SessionTypes' BY <1>16 DEF Takeover, SessionTypes, sessionVars
  <2>4. WorkerTypes'
    <3>1. CASE \E o \in Settlement : Finish(w, o) BY <3>1, FinishTypes
    <3>2. CASE /\ mine' = [mine EXCEPT ![w].status = "outcome_recorded",
                                  ![w].outcome = "unknown"]
               /\ gen' = [gen EXCEPT ![w] = epoch + 1]
               /\ UNCHANGED <<todo, rot>> /\ Goto(w, "bump")
      <4>1. mine' \in [Workers -> Claim]
        BY ZenonT(120), <3>2 DEF WorkerTypes, Claim, Status, Outcome
      <4>2. gen' \in [Workers -> Nat] BY <3>2 DEF WorkerTypes, LedgerTypes
      <4> QED BY <3>2, <4>1, <4>2, LabelFacts, GotoTypes
          DEF WorkerTypes, RecoveryPC
    <3> QED BY <1>16, <3>1, <3>2, OutcomeFacts DEF Takeover
  <2>5. RequestTypes'
    BY <1>16, FinishTypes, OutcomeFacts
    DEF Takeover, RequestTypes, requestVars
  <2>6. faults' \in Nat BY <1>16 DEF Takeover, Stumble, Finish
  <2>7. GrantedHasToken'
    <3>1. CASE \E o \in Settlement : Finish(w, o) BY <3>1, FinishTypes
    <3>2. CASE UNCHANGED requestVars /\ \E l : l # "granted" /\ Goto(w, l)
      BY <3>2, GrantedKept
    <3> QED BY <1>16, <3>1, <3>2, OutcomeFacts
        DEF Takeover, requestVars, workVars
  <2> QED BY <2>1, <2>2, <2>3, <2>4, <2>5, <2>6, <2>7 DEF TypeInv, TypeOK
<1>17. ASSUME NEW w \in Workers, BumpAttempts(w) PROVE TypeInv'
  <2>1. LedgerTypes'
    BY <1>17
    DEF BumpAttempts, LedgerTypes, IntentRow, ledgerVars
  <2>2. OuterTypes' BY <1>17 DEF BumpAttempts, OuterTypes, outerVars
  <2>3. SessionTypes' BY <1>17 DEF BumpAttempts, SessionTypes, sessionVars
  <2>4. WorkerTypes'
    BY <1>17, LabelFacts, FinishTypes, OutcomeFacts
    DEF BumpAttempts, WorkerTypes, Goto, RecoveryPC, SettlePC, workVars
  <2>5. RequestTypes'
    BY <1>17, FinishTypes, OutcomeFacts
    DEF BumpAttempts, RequestTypes, requestVars
  <2>6. faults' \in Nat BY <1>17 DEF BumpAttempts, Stumble, Finish
  <2>7. GrantedHasToken'
    <3>1. CASE \E o \in Settlement : Finish(w, o) BY <3>1, FinishTypes
    <3>2. CASE UNCHANGED requestVars /\ \E l : l # "granted" /\ Goto(w, l)
      BY <3>2, GrantedKept
    <3> QED BY <1>17, <3>1, <3>2, OutcomeFacts
        DEF BumpAttempts, requestVars, workVars
  <2> QED BY <2>1, <2>2, <2>3, <2>4, <2>5, <2>6, <2>7 DEF TypeInv, TypeOK
<1>18. ASSUME NEW w \in Workers, ForceBegin(w) PROVE TypeInv'
  <2>1. LedgerTypes'
    BY <1>18
    DEF ForceBegin, LedgerTypes, BeginSettlement, IntentRow, Status, ledgerVars
  <2>2. OuterTypes' BY <1>18 DEF ForceBegin, OuterTypes, outerVars
  <2>3. SessionTypes' BY <1>18 DEF ForceBegin, SessionTypes, sessionVars
  <2>4. WorkerTypes'
    BY <1>18, LabelFacts, FinishTypes, OutcomeFacts
    DEF ForceBegin, WorkerTypes, Goto, RecoveryPC, workVars
  <2>5. RequestTypes'
    BY <1>18, FinishTypes, OutcomeFacts
    DEF ForceBegin, RequestTypes, requestVars
  <2>6. faults' \in Nat BY <1>18 DEF ForceBegin, Stumble, Finish
  <2>7. GrantedHasToken'
    <3>1. CASE \E o \in Settlement : Finish(w, o) BY <3>1, FinishTypes
    <3>2. CASE UNCHANGED requestVars /\ \E l : l # "granted" /\ Goto(w, l)
      BY <3>2, GrantedKept
    <3> QED BY <1>18, <3>1, <3>2, OutcomeFacts
        DEF ForceBegin, requestVars, workVars
  <2> QED BY <2>1, <2>2, <2>3, <2>4, <2>5, <2>6, <2>7 DEF TypeInv, TypeOK
<1>19. ASSUME NEW w \in Workers, ForceSettle(w) PROVE TypeInv'
  <2>1. LedgerTypes'
    BY <1>19
    DEF ForceSettle, LedgerTypes, SettleAs, IntentRow, Status, Settlement,
        ledgerVars
  <2>2. OuterTypes' BY <1>19 DEF ForceSettle, OuterTypes, outerVars
  <2>3. SessionTypes' BY <1>19 DEF ForceSettle, SessionTypes, sessionVars
  <2>4. WorkerTypes'
    BY <1>19, FinishTypes, OutcomeFacts
    DEF ForceSettle, WorkerTypes, workVars
  <2>5. RequestTypes'
    BY <1>19, FinishTypes, OutcomeFacts
    DEF ForceSettle, RequestTypes, requestVars
  <2>6. faults' \in Nat BY <1>19 DEF ForceSettle, Stumble, Finish
  <2>7. GrantedHasToken'
    BY <1>19, FinishTypes, OutcomeFacts
    DEF ForceSettle, GrantedHasToken, Goto, WorkerTypes, workVars, requestVars
  <2> QED BY <2>1, <2>2, <2>3, <2>4, <2>5, <2>6, <2>7 DEF TypeInv, TypeOK
<1>20. ASSUME NEW w \in Workers, Begin(w) PROVE TypeInv'
  <2>1. LedgerTypes'
    BY <1>20
    DEF Begin, LedgerTypes, BeginSettlement, IntentRow, Status, ledgerVars
  <2>2. OuterTypes' BY <1>20 DEF Begin, OuterTypes, outerVars
  <2>3. SessionTypes' BY <1>20 DEF Begin, SessionTypes, sessionVars
  <2>4. WorkerTypes'
    BY <1>20, LabelFacts, FinishTypes, OutcomeFacts
    DEF Begin, WorkerTypes, Goto, RequestPC, SettlePC, Claim, Status, workVars
  <2>5. RequestTypes'
    BY <1>20, FinishTypes, OutcomeFacts
    DEF Begin, RequestTypes, requestVars
  <2>6. faults' \in Nat BY <1>20 DEF Begin, Stumble, Finish
  <2>7. GrantedHasToken'
    <3>1. CASE \E o \in Settlement : Finish(w, o) BY <3>1, FinishTypes
    <3>2. CASE UNCHANGED requestVars /\ \E l : l # "granted" /\ Goto(w, l)
      BY <3>2, GrantedKept
    <3> QED BY <1>20, <3>1, <3>2, OutcomeFacts DEF Begin, requestVars, workVars
  <2> QED BY <2>1, <2>2, <2>3, <2>4, <2>5, <2>6, <2>7 DEF TypeInv, TypeOK
<1>21. ASSUME NEW w \in Workers, Clean(w) PROVE TypeInv'
  <2>1. LedgerTypes' BY <1>21 DEF Clean, LedgerTypes, ledgerVars
  <2>2. OuterTypes' BY <1>21 DEF Clean, OuterTypes, outerVars
  <2>3. SessionTypes' BY <1>21 DEF Clean, SessionTypes, sessionVars
  <2>4. WorkerTypes'
    BY <1>21, LabelFacts
    DEF Clean, WorkerTypes, Goto, SettlePC, workVars
  <2>5. RequestTypes' BY <1>21 DEF Clean, RequestTypes, requestVars
  <2>6. faults' \in Nat BY <1>21 DEF Clean, Stumble
  <2>7. GrantedHasToken'
    BY <1>21
    DEF Clean, GrantedHasToken, Goto, WorkerTypes, Workers, requestVars
  <2> QED BY <2>1, <2>2, <2>3, <2>4, <2>5, <2>6, <2>7 DEF TypeInv, TypeOK
<1>22. ASSUME NEW w \in Workers, NEW s \in Sessions, CleanOne(w, s)
      PROVE TypeInv'
  <2>1. LedgerTypes' BY <1>22 DEF CleanOne, LedgerTypes, ledgerVars
  <2>2. OuterTypes' BY <1>22 DEF CleanOne, OuterTypes, outerVars
  <2>3. SessionTypes'
    BY <1>22
    DEF CleanOne, SessionTypes, SessionRow, sessionVars
  <2>4. WorkerTypes'
    BY <1>22, LabelFacts
    DEF CleanOne, WorkerTypes, Goto, SettlePC, workVars
  <2>5. RequestTypes' BY <1>22 DEF CleanOne, RequestTypes, requestVars
  <2>6. faults' \in Nat BY <1>22 DEF CleanOne, Stumble
  <2>7. GrantedHasToken'
    BY <1>22
    DEF CleanOne, GrantedHasToken, Goto, WorkerTypes, Workers, requestVars
  <2> QED BY <2>1, <2>2, <2>3, <2>4, <2>5, <2>6, <2>7 DEF TypeInv, TypeOK
<1>23. ASSUME NEW w \in Workers, Degrade(w) PROVE TypeInv'
  <2>1. LedgerTypes'
    BY <1>23
    DEF Degrade, LedgerTypes, SettleAs, IntentRow, Status, Settlement,
        ledgerVars
  <2>2. OuterTypes' BY <1>23 DEF Degrade, OuterTypes, outerVars
  <2>3. SessionTypes' BY <1>23 DEF Degrade, SessionTypes, sessionVars
  <2>4. WorkerTypes'
    BY <1>23, FinishTypes, OutcomeFacts
    DEF Degrade, WorkerTypes, workVars
  <2>5. RequestTypes'
    BY <1>23, FinishTypes, OutcomeFacts
    DEF Degrade, RequestTypes, requestVars
  <2>6. faults' \in Nat BY <1>23 DEF Degrade, Stumble, Finish
  <2>7. GrantedHasToken'
    BY <1>23, FinishTypes, OutcomeFacts
    DEF Degrade, GrantedHasToken, Goto, WorkerTypes, workVars, requestVars
  <2> QED BY <2>1, <2>2, <2>3, <2>4, <2>5, <2>6, <2>7 DEF TypeInv, TypeOK
<1>24. ASSUME NEW w \in Workers, Settle(w) PROVE TypeInv'
  <2>1. LedgerTypes'
    BY <1>24
    DEF Settle, LedgerTypes, SettleAs, SettlementOf, IntentRow, Status,
        Settlement, ledgerVars
  <2>2. OuterTypes' BY <1>24 DEF Settle, OuterTypes, outerVars
  <2>3. SessionTypes' BY <1>24 DEF Settle, SessionTypes, sessionVars
  <2>4. WorkerTypes'
    BY <1>24, FinishTypes, OutcomeFacts
    DEF Settle, WorkerTypes, SettlementOf, workVars
  <2>5. RequestTypes'
    BY <1>24, FinishTypes, OutcomeFacts
    DEF Settle, RequestTypes, SettlementOf, requestVars
  <2>6. faults' \in Nat BY <1>24 DEF Settle, Stumble, Finish
  <2>7. GrantedHasToken'
    BY <1>24, FinishTypes, OutcomeFacts
    DEF Settle, GrantedHasToken, Goto, WorkerTypes, workVars, requestVars,
        SettlementOf
  <2> QED BY <2>1, <2>2, <2>3, <2>4, <2>5, <2>6, <2>7 DEF TypeInv, TypeOK
<1>25. ASSUME NEW w \in Workers, Crash(w) PROVE TypeInv'
  <2>1. LedgerTypes' BY <1>25 DEF Crash, LedgerTypes, ledgerVars
  <2>2. OuterTypes' BY <1>25 DEF Crash, OuterTypes, Workers, outerVars
  <2>3. SessionTypes' BY <1>25 DEF Crash, SessionTypes, sessionVars
  <2>4. WorkerTypes'
    BY <1>25, LabelFacts, NoClaimType
    DEF Crash, WorkerTypes, Goto, RequestPC, workVars
  <2>5. RequestTypes' BY <1>25 DEF Crash, RequestTypes, requestVars
  <2>6. faults' \in Nat BY <1>25 DEF Crash, Stumble
  <2>7. GrantedHasToken'
    BY <1>25
    DEF Crash, GrantedHasToken, Goto, WorkerTypes, Workers, requestVars
  <2> QED BY <2>1, <2>2, <2>3, <2>4, <2>5, <2>6, <2>7 DEF TypeInv, TypeOK
<1>26. CASE UNCHANGED vars
  BY <1>26
  DEF vars, ledgerVars, outerVars, sessionVars, workVars, requestVars, TypeInv,
      TypeOK, LedgerTypes, OuterTypes, SessionTypes, WorkerTypes, RequestTypes,
      GrantedHasToken
<1> QED BY <1>1, <1>2, <1>3, <1>4, <1>5, <1>6, <1>7, <1>8, <1>9, <1>10, <1>11,
           <1>12, <1>13, <1>14, <1>15, <1>16, <1>17, <1>18, <1>19, <1>20,
           <1>21, <1>22, <1>23, <1>24, <1>25, <1>26
    DEF Next, RequestStep, WorkerStep, RecoverStep, SettleStep

-----------------------------------------------------------------------------
\* Every statement on PostgreSQL and Redis, by any handler, recovery run or
\* crash, leaves the users row, the ledger, the sessions and the copies the
\* workers act on well-formed.
THEOREM TypeCorrect == Spec => []TypeOK
<1>1. TypeInv => TypeOK BY DEF TypeInv
<1> QED BY InitType, StepType, <1>1, PTL DEF Spec

-----------------------------------------------------------------------------
(* The ledger *)

\* A request that is about to record an outcome has one that moves the epoch.
Recording ==
  \A r \in Requests : pc[r] = "record" => mine[r].outcome \in {"success", "unknown"}

\* An active intent has no outcome yet.
ActiveUndecided == intent.status = "active" => intent.outcome = "none"

\* The moves of the pair (epoch, intent).
Still    == UNCHANGED ledgerVars
Held     == /\ NonTerminal /\ UNCHANGED epoch
            /\ \E a \in Nat, l \in Lease :
                 intent' = [intent EXCEPT !.attempts = a, !.lease = l]
Acquired == ~NonTerminal /\ AcquireIntent /\ UNCHANGED epoch
Rejected == /\ intent.status = "active" /\ UNCHANGED epoch
            /\ intent' = [intent EXCEPT !.status = "settled",
                                        !.outcome = "confirmed_failure"]
Advanced == /\ intent.status = "active"
            /\ \E o \in {"success", "unknown"} : AdvanceEpoch(o)
Begun    == intent.status = "outcome_recorded" /\ BeginSettlement /\ UNCHANGED epoch
Closed   == /\ intent.status = "local_settlement" /\ UNCHANGED epoch
            /\ \E o \in Settlement : SettleAs(o)

LedgerMove == Still \/ Held \/ Acquired \/ Rejected \/ Advanced \/ Begun \/ Closed

-----------------------------------------------------------------------------
(* Every step is a move of the ledger *)

\* CallProvider alone leads to the record step, with a success or an unknown.
LEMMA StepRecording == TypeInv /\ Recording /\ [Next]_vars => Recording'
<1> SUFFICES ASSUME TypeInv, Recording, [Next]_vars PROVE Recording' OBVIOUS
<1> USE DEF Recording
<1>0. WorkerTypes BY DEF TypeInv, TypeOK
<1>a. ASSUME NEW w \in Workers, NEW l, l # "record", Goto(w, l),
             \A v \in Workers : v # w => mine'[v] = mine[v]
      PROVE  Recording'
  BY <1>0, <1>a DEF Goto, WorkerTypes, Workers
<1>b. ASSUME NEW w \in Workers, NEW o, Finish(w, o) PROVE Recording'
  <2>1. CASE Owns(w) BY <1>a, <1>b, <2>1 DEF Finish
  <2>2. CASE ~Owns(w)
    <3>1. \A v \in Workers : v # w => mine'[v] = mine[v]
      BY <1>0, <1>b, <2>2 DEF Finish, WorkerTypes
    <3> QED BY <1>a, <1>b, <2>2, <3>1 DEF Finish
  <2> QED BY <2>1, <2>2
<1>1. ASSUME NEW l \in Logins, LoginStamp(l) PROVE Recording'
  BY <1>1 DEF LoginStamp, workVars
<1>2. ASSUME NEW l \in Logins, NEW s \in Sessions, LoginStore(l, s)
      PROVE Recording'
  BY <1>2 DEF LoginStore, workVars
<1>3. ASSUME NEW s \in Sessions, EndSession(s) PROVE Recording'
  BY <1>3 DEF EndSession, workVars
<1>4. ASSUME NEW s \in Sessions, NEW w \in Recoverers, Promote(s, w)
      PROVE Recording'
  BY <1>0, <1>a, <1>4 DEF Promote, WorkerTypes, Workers, workVars
<1>5. ASSUME LeaseExpires PROVE Recording'
  BY <1>5 DEF LeaseExpires, workVars
<1>6. ASSUME NEW r \in Requests, NEW s \in Sessions, Reauthenticate(r, s)
      PROVE Recording'
  BY <1>0, <1>a, <1>6 DEF Reauthenticate, WorkerTypes, Workers, workVars
<1>7. ASSUME NEW r \in Requests, ConsumeGrant(r) PROVE Recording'
  BY <1>0, <1>a, <1>7 DEF ConsumeGrant, WorkerTypes, Workers, workVars
<1>8. ASSUME NEW r \in Requests, LateCommit(r) PROVE Recording'
  BY <1>8 DEF LateCommit, workVars
<1>9. ASSUME NEW r \in Requests, Insert(r) PROVE Recording'
  BY <1>0, <1>a, <1>9 DEF Insert, WorkerTypes, Workers, workVars
<1>10. ASSUME NEW r \in Requests, CallProvider(r) PROVE Recording'
  BY <1>0, <1>10 DEF CallProvider, Goto, WorkerTypes, Workers, Claim
<1>11. ASSUME NEW r \in Requests, ReleaseConfirmedFailure(r) PROVE Recording'
  BY <1>0, <1>a, <1>11
  DEF ReleaseConfirmedFailure, WorkerTypes, Workers, workVars
<1>12. ASSUME NEW r \in Requests, RecordOutcome(r) PROVE Recording'
  BY <1>0, <1>a, <1>12 DEF RecordOutcome, WorkerTypes, Workers, workVars
<1>13. ASSUME NEW r \in Requests, Rotate(r) PROVE Recording'
  BY <1>0, <1>a, <1>13 DEF Rotate, WorkerTypes, Workers, workVars
<1>14. ASSUME NEW r \in Requests, Respond(r) PROVE Recording'
  BY <1>0, <1>a, <1>14 DEF Respond, WorkerTypes, Workers, workVars
<1>15. ASSUME NEW w \in Workers, ReadState(w) PROVE Recording'
  BY <1>0, <1>a, <1>b, <1>15 DEF ReadState, WorkerTypes, workVars
<1>16. ASSUME NEW w \in Workers, Takeover(w) PROVE Recording'
  BY <1>0, <1>a, <1>b, <1>16 DEF Takeover, WorkerTypes, workVars
<1>17. ASSUME NEW w \in Workers, BumpAttempts(w) PROVE Recording'
  BY <1>0, <1>a, <1>b, <1>17 DEF BumpAttempts, WorkerTypes, workVars
<1>18. ASSUME NEW w \in Workers, ForceBegin(w) PROVE Recording'
  BY <1>0, <1>a, <1>b, <1>18 DEF ForceBegin, WorkerTypes, workVars
<1>19. ASSUME NEW w \in Workers, ForceSettle(w) PROVE Recording'
  BY <1>0, <1>a, <1>b, <1>19 DEF ForceSettle, WorkerTypes, workVars
<1>20. ASSUME NEW w \in Workers, Begin(w) PROVE Recording'
  BY <1>0, <1>a, <1>b, <1>20 DEF Begin, WorkerTypes, workVars
<1>21. ASSUME NEW w \in Workers, Clean(w) PROVE Recording'
  BY <1>0, <1>a, <1>21 DEF Clean, WorkerTypes, Workers, workVars
<1>22. ASSUME NEW w \in Workers, NEW s \in Sessions, CleanOne(w, s)
      PROVE Recording'
  BY <1>0, <1>a, <1>22 DEF CleanOne, WorkerTypes, Workers, workVars
<1>23. ASSUME NEW w \in Workers, Degrade(w) PROVE Recording'
  BY <1>0, <1>a, <1>b, <1>23 DEF Degrade, WorkerTypes, workVars
<1>24. ASSUME NEW w \in Workers, Settle(w) PROVE Recording'
  BY <1>0, <1>a, <1>b, <1>24 DEF Settle, WorkerTypes, workVars
<1>25. ASSUME NEW w \in Workers, Crash(w) PROVE Recording'
  BY <1>0, <1>a, <1>25 DEF Crash, WorkerTypes, Workers, workVars
<1>26. CASE UNCHANGED vars BY <1>26 DEF vars, workVars
<1> QED BY <1>1, <1>2, <1>3, <1>4, <1>5, <1>6, <1>7, <1>8, <1>9, <1>10, <1>11,
           <1>12, <1>13, <1>14, <1>15, <1>16, <1>17, <1>18, <1>19, <1>20,
           <1>21, <1>22, <1>23, <1>24, <1>25, <1>26
    DEF Next, RequestStep, WorkerStep, RecoverStep, SettleStep

\* Whatever a handler, a goroutine or a crash does, the users row and the
\* intent make one of LedgerMove's moves, from the status the statement demands.
LEMMA LedgerMoves == TypeInv /\ Recording /\ [Next]_vars => LedgerMove
<1> SUFFICES ASSUME TypeInv, Recording, [Next]_vars PROVE LedgerMove OBVIOUS
<1> USE DEF LedgerMove
<1>0. LedgerTypes BY DEF TypeInv, TypeOK
<1>1. ASSUME NEW l \in Logins, LoginStamp(l) PROVE LedgerMove
  BY <1>1 DEF LoginStamp, Still
<1>2. ASSUME NEW l \in Logins, NEW s \in Sessions, LoginStore(l, s)
      PROVE LedgerMove
  BY <1>2 DEF LoginStore, Still
<1>3. ASSUME NEW s \in Sessions, EndSession(s) PROVE LedgerMove
  BY <1>3 DEF EndSession, Still
<1>4. ASSUME NEW s \in Sessions, NEW w \in Recoverers, Promote(s, w)
      PROVE LedgerMove
  BY <1>4 DEF Promote, Still
<1>5. ASSUME LeaseExpires PROVE LedgerMove
  BY <1>0, <1>5
  DEF LeaseExpires, Held, NonTerminal, LedgerTypes, IntentRow, Lease
<1>6. ASSUME NEW r \in Requests, NEW s \in Sessions, Reauthenticate(r, s)
      PROVE LedgerMove
  BY <1>6 DEF Reauthenticate, Still
<1>7. ASSUME NEW r \in Requests, ConsumeGrant(r) PROVE LedgerMove
  BY <1>7 DEF ConsumeGrant, Still
<1>8. ASSUME NEW r \in Requests, LateCommit(r) PROVE LedgerMove
  BY <1>8 DEF LateCommit, Still
<1>9. ASSUME NEW r \in Requests, Insert(r) PROVE LedgerMove
  BY <1>0, <1>9 DEF Insert, Still, Acquired, ledgerVars
<1>10. ASSUME NEW r \in Requests, CallProvider(r) PROVE LedgerMove
  BY <1>10 DEF CallProvider, Still
<1>11. ASSUME NEW r \in Requests, ReleaseConfirmedFailure(r) PROVE LedgerMove
  BY <1>0, <1>11
  DEF ReleaseConfirmedFailure, Still, Rejected, Fence, ledgerVars
<1>12. ASSUME NEW r \in Requests, RecordOutcome(r) PROVE LedgerMove
  BY <1>0, <1>12 DEF RecordOutcome, Still, Advanced, Fence, Recording
<1>13. ASSUME NEW r \in Requests, Rotate(r) PROVE LedgerMove
  BY <1>13 DEF Rotate, Still
<1>14. ASSUME NEW r \in Requests, Respond(r) PROVE LedgerMove
  BY <1>14 DEF Respond, Still
<1>15. ASSUME NEW w \in Workers, ReadState(w) PROVE LedgerMove
  BY <1>15 DEF ReadState, Still
<1>16. ASSUME NEW w \in Workers, Takeover(w) PROVE LedgerMove
  BY <1>0, <1>16 DEF Takeover, Still, Advanced, Fence
<1>17. ASSUME NEW w \in Workers, BumpAttempts(w) PROVE LedgerMove
  <2>1. CASE UNCHANGED intent
    BY <1>17, <2>1
    DEF BumpAttempts, Still, ledgerVars
  <2>2. CASE NonTerminal /\ intent' = [intent EXCEPT !.attempts = @ + 1]
    <3>1. intent' = [intent EXCEPT !.attempts = intent.attempts + 1,
                                   !.lease = intent.lease]
      BY <1>0, <2>2 DEF LedgerTypes, IntentRow
    <3>2. intent.attempts + 1 \in Nat /\ intent.lease \in Lease
      BY <1>0 DEF LedgerTypes, IntentRow
    <3> QED BY <1>17, <2>2, <3>1, <3>2 DEF BumpAttempts, Held
  <2> QED BY <1>17, <2>1, <2>2 DEF BumpAttempts
<1>18. ASSUME NEW w \in Workers, ForceBegin(w) PROVE LedgerMove
  BY <1>0, <1>18 DEF ForceBegin, Still, Begun, Fence, ledgerVars
<1>19. ASSUME NEW w \in Workers, ForceSettle(w) PROVE LedgerMove
  BY <1>0, <1>19 DEF ForceSettle, Still, Closed, Fence, Settlement, ledgerVars
<1>20. ASSUME NEW w \in Workers, Begin(w) PROVE LedgerMove
  BY <1>0, <1>20 DEF Begin, Still, Begun, Fence, ledgerVars
<1>21. ASSUME NEW w \in Workers, Clean(w) PROVE LedgerMove
  BY <1>21 DEF Clean, Still
<1>22. ASSUME NEW w \in Workers, NEW s \in Sessions, CleanOne(w, s)
      PROVE LedgerMove
  BY <1>22 DEF CleanOne, Still
<1>23. ASSUME NEW w \in Workers, Degrade(w) PROVE LedgerMove
  BY <1>0, <1>23 DEF Degrade, Still, Closed, Fence, Settlement, ledgerVars
<1>24. ASSUME NEW w \in Workers, Settle(w) PROVE LedgerMove
  BY <1>0, <1>24
  DEF Settle, Still, Closed, Fence, SettlementOf, Settlement, ledgerVars
<1>25. ASSUME NEW w \in Workers, Crash(w) PROVE LedgerMove
  BY <1>25 DEF Crash, Still
<1>26. CASE UNCHANGED vars BY <1>26 DEF vars, Still
<1> QED BY <1>1, <1>2, <1>3, <1>4, <1>5, <1>6, <1>7, <1>8, <1>9, <1>10, <1>11,
           <1>12, <1>13, <1>14, <1>15, <1>16, <1>17, <1>18, <1>19, <1>20,
           <1>21, <1>22, <1>23, <1>24, <1>25, <1>26
    DEF Next, RequestStep, WorkerStep, RecoverStep, SettleStep

-----------------------------------------------------------------------------
(* The epoch moves exactly with the outcome *)

LedgerInv == TypeInv /\ Recording /\ ActiveUndecided /\ EpochMatchesIntent

\* Each of the moves keeps the count of the epoch.
LEMMA MoveKeepsCount ==
  ASSUME LedgerTypes, ActiveUndecided, EpochMatchesIntent, LedgerMove
  PROVE  ActiveUndecided' /\ EpochMatchesIntent'
<1> USE DEF LedgerTypes, IntentRow, ActiveUndecided, EpochMatchesIntent
<1>1. CASE Still BY <1>1 DEF Still, ledgerVars
<1>2. CASE Held BY <1>2 DEF Held
<1>3. CASE Acquired BY <1>3 DEF Acquired, AcquireIntent
<1>4. CASE Rejected BY <1>4 DEF Rejected
<1>5. CASE Advanced BY <1>5 DEF Advanced, AdvanceEpoch
<1>6. CASE Begun BY <1>6 DEF Begun, BeginSettlement
<1>7. CASE Closed BY <1>7 DEF Closed, SettleAs
<1> QED BY <1>1, <1>2, <1>3, <1>4, <1>5, <1>6, <1>7 DEF LedgerMove

\* The bookkeeping of the ledger is inductive.
LEMMA LedgerInductive == Spec => []LedgerInv
<1>1. Init => LedgerInv
  <2>1. Init => Recording
    BY SecurityAssumption DEF SecurityAssumption, Init, Recording, Workers
  <2>2. Init => ActiveUndecided /\ EpochMatchesIntent
    BY DEF Init, ActiveUndecided, EpochMatchesIntent
  <2> QED BY <2>1, <2>2, InitType DEF LedgerInv
<1>2. LedgerInv /\ [Next]_vars => LedgerInv'
  BY StepType, StepRecording, LedgerMoves, MoveKeepsCount
  DEF LedgerInv, TypeInv, TypeOK
<1> QED BY <1>1, <1>2, PTL DEF Spec

\* The epoch is the acquisition epoch of the intent, plus one exactly when the
\* outcome on the row is success or unknown: no crash, no lost answer and no
\* race of an owner with a takeover advances it twice or not at all.
THEOREM EpochExact == Spec => []EpochMatchesIntent
<1>1. LedgerInv => EpochMatchesIntent BY DEF LedgerInv
<1> QED BY LedgerInductive, <1>1, PTL

\* A recorded outcome is never rewritten and a settled intent never changes,
\* whichever of the owner, a recovery run and a late owner gets there.
THEOREM OutcomeFinal == Spec => OutcomeImmutable
<1> DEFINE A == intent'.id = intent.id =>
                  /\ intent.outcome # "none" => intent'.outcome = intent.outcome
                  /\ intent.status = "settled" => intent' = intent
<1>1. LedgerInv /\ [Next]_vars => A
  <2> SUFFICES ASSUME LedgerInv, [Next]_vars PROVE A OBVIOUS
  <2>1. LedgerTypes /\ ActiveUndecided BY DEF LedgerInv, TypeInv, TypeOK
  <2>2. LedgerMove BY LedgerMoves DEF LedgerInv
  <2> USE DEF LedgerTypes, IntentRow, ActiveUndecided
  <2>3. CASE Still BY <2>3 DEF Still, ledgerVars
  <2>4. CASE Held BY <2>1, <2>4 DEF Held, NonTerminal
  <2>5. CASE Acquired BY <2>1, <2>5 DEF Acquired, AcquireIntent
  <2>6. CASE Rejected BY <2>1, <2>6 DEF Rejected
  <2>7. CASE Advanced BY <2>1, <2>7 DEF Advanced, AdvanceEpoch
  <2>8. CASE Begun BY <2>1, <2>8 DEF Begun, BeginSettlement
  <2>9. CASE Closed BY <2>1, <2>9 DEF Closed, SettleAs
  <2> QED BY <2>2, <2>3, <2>4, <2>5, <2>6, <2>7, <2>8, <2>9 DEF LedgerMove
<1>2. Spec => [][A]_vars BY LedgerInductive, <1>1, PTL DEF Spec
<1> QED BY <1>2, PTL DEF OutcomeImmutable

-----------------------------------------------------------------------------
(* No stamp is ahead of the users row *)

\* The parts of NoStampAhead.
SessionsBehind == \A s \in Sessions : sess[s].stamp <= epoch
LoginsBehind   == \A l \in Logins : login[l] <= epoch
WorkersBehind  == \A w \in Workers : gen[w] <= epoch

\* The epoch never goes back.
LEMMA EpochGrows ==
  ASSUME LedgerTypes, LedgerMove
  PROVE  epoch \in Nat /\ epoch' \in Nat /\ epoch <= epoch'
<1>1. epoch \in Nat BY DEF LedgerTypes
<1>2. epoch' = epoch \/ epoch' = epoch + 1
  <2>1. CASE Advanced BY <2>1 DEF Advanced, AdvanceEpoch
  <2>2. CASE ~Advanced
    BY <2>2
    DEF LedgerMove, Still, Held, Acquired, Rejected, Begun, Closed, ledgerVars
  <2> QED BY <2>1, <2>2
<1> QED BY <1>1, <1>2

\* What a step does to session records: nothing, or it writes the record of
\* one session and leaves the users row and the ledger alone.
SessionMove ==
  \/ UNCHANGED sess
  \/ /\ UNCHANGED ledgerVars
     /\ \E s \in Sessions, x \in SessionRow :
          /\ x.stamp <= epoch
          /\ sess' = [sess EXCEPT ![s] = x]

\* Every stamp in Redis comes from a login or a settlement that read it.
LEMMA SessionMoves == TypeInv /\ NoStampAhead /\ [Next]_vars => SessionMove
<1> SUFFICES ASSUME TypeInv, NoStampAhead, [Next]_vars PROVE SessionMove OBVIOUS
<1>0. SessionTypes /\ WorkerTypes /\ RequestTypes BY DEF TypeInv, TypeOK
<1>a. ASSUME NEW s \in Sessions, sess' = [sess EXCEPT ![s].st = "gone"], UNCHANGED ledgerVars
      PROVE  SessionMove
  <2>1. [sess[s] EXCEPT !.st = "gone"] \in SessionRow
    BY <1>0
    DEF SessionTypes, SessionRow
  <2>2. sess' = [sess EXCEPT ![s] = [sess[s] EXCEPT !.st = "gone"]] BY <1>a
  <2>3. [sess[s] EXCEPT !.st = "gone"].stamp <= epoch
    BY <1>0
    DEF NoStampAhead, SessionTypes, SessionRow
  <2> QED BY <1>a, <2>1, <2>2, <2>3 DEF SessionMove
<1>b. UNCHANGED sess => SessionMove BY DEF SessionMove
<1>1. ASSUME NEW l \in Logins, NEW s \in Sessions, LoginStore(l, s) PROVE SessionMove
  <2>1. [st |-> "live", stamp |-> login[l], ver |-> 0] \in SessionRow
    BY <1>0 DEF SessionTypes, SessionRow
  <2> QED BY <1>1, <2>1 DEF LoginStore, SessionMove, NoStampAhead
<1>2. ASSUME NEW s \in Sessions, EndSession(s) PROVE SessionMove
  BY <1>2, <1>a DEF EndSession
<1>3. ASSUME NEW s \in Sessions, NEW w \in Recoverers, Promote(s, w) PROVE SessionMove
  BY <1>3, <1>a, <1>b DEF Promote
<1>4. ASSUME NEW r \in Requests, Rotate(r) PROVE SessionMove
  <2>1. CASE UNCHANGED sess BY <1>b, <2>1
  <2>2. CASE /\ TokenLive(r)
             /\ sess' = [sess EXCEPT ![token[r][1]].stamp = gen[r], ![token[r][1]].ver = @ + 1]
    <3> DEFINE s == token[r][1]
               x == [st |-> sess[s].st, stamp |-> gen[r], ver |-> sess[s].ver + 1]
    <3>1. s \in Sessions BY <1>0, <2>2 DEF TokenLive, RequestTypes
    <3>2. x \in SessionRow
      BY <1>0, <3>1
      DEF SessionTypes, SessionRow, WorkerTypes, Workers
    <3>3. sess' = [sess EXCEPT ![s] = x]
      BY <1>0, <2>2, <3>1
      DEF SessionTypes, SessionRow
    <3>4. x.stamp <= epoch BY DEF NoStampAhead, Workers
    <3> HIDE DEF x, s
    <3> QED BY <1>4, <3>1, <3>2, <3>3, <3>4 DEF Rotate, SessionMove
  <2> QED BY <1>4, <2>1, <2>2 DEF Rotate
<1>5. ASSUME NEW w \in Workers, NEW s \in Sessions, CleanOne(w, s) PROVE SessionMove
  BY <1>5, <1>a, <1>b DEF CleanOne
<1>6. CASE UNCHANGED sess BY <1>6, <1>b
<1> QED
  <2>1. CASE UNCHANGED vars BY <2>1, <1>6 DEF vars, sessionVars
  <2>2. CASE \E l \in Logins : LoginStamp(l) \/ \E s \in Sessions : LoginStore(l, s)
    BY <2>2, <1>1, <1>6 DEF LoginStamp
  <2>3. CASE \E s \in Sessions : EndSession(s) \/ \E w \in Recoverers : Promote(s, w)
    BY <2>3, <1>2, <1>3
  <2>4. CASE LeaseExpires BY <2>4, <1>6 DEF LeaseExpires, sessionVars
  <2>5. CASE \E r \in Requests :
               \/ \E s \in Sessions : Reauthenticate(r, s)
               \/ ConsumeGrant(r) \/ LateCommit(r) \/ RequestStep(r)
    BY <2>5, <1>4, <1>6
    DEF Reauthenticate, ConsumeGrant, LateCommit, RequestStep, Insert,
        CallProvider, ReleaseConfirmedFailure, RecordOutcome, Respond,
        sessionVars
  <2>6. CASE \E w \in Workers : WorkerStep(w) \/ Crash(w)
    BY <2>6, <1>5, <1>6
    DEF WorkerStep, RecoverStep, SettleStep, ReadState, Takeover, BumpAttempts,
        ForceBegin, ForceSettle, Begin, Clean, Degrade, Settle, Crash,
        sessionVars
  <2> QED BY <2>1, <2>2, <2>3, <2>4, <2>5, <2>6 DEF Next

\* Sessions stay behind the epoch.
LEMMA StepSessionsBehind ==
  ASSUME SessionTypes, LedgerTypes, LedgerMove, SessionMove, NoStampAhead
  PROVE  SessionsBehind'
<1>1. epoch \in Nat /\ epoch' \in Nat /\ epoch <= epoch' BY EpochGrows
<1>2. \A s \in Sessions : sess[s].stamp \in Nat BY DEF SessionTypes, SessionRow
<1>3. CASE UNCHANGED sess BY <1>1, <1>2, <1>3 DEF SessionsBehind, NoStampAhead
<1>4. ASSUME UNCHANGED ledgerVars, NEW s \in Sessions, NEW x \in SessionRow,
             x.stamp <= epoch, sess' = [sess EXCEPT ![s] = x]
      PROVE  SessionsBehind'
  BY <1>4 DEF SessionsBehind, NoStampAhead, SessionTypes, ledgerVars
<1> QED BY <1>3, <1>4 DEF SessionMove

\* A login stamps the epoch it reads and holds it, or nothing, afterwards.
LEMMA StepLoginsBehind ==
  ASSUME TypeInv, LedgerMove, NoStampAhead, [Next]_vars
  PROVE  LoginsBehind'
<1>0. SessionTypes /\ epoch \in Nat /\ epoch' \in Nat /\ epoch <= epoch'
  BY EpochGrows DEF TypeInv, TypeOK
<1>1. UNCHANGED login => LoginsBehind'
  BY <1>0
  DEF LoginsBehind, NoStampAhead, SessionTypes
<1>2. ASSUME NEW l \in Logins, LoginStamp(l) PROVE LoginsBehind'
  BY <1>0, <1>2
  DEF LoginStamp, LoginsBehind, NoStampAhead, SessionTypes, ledgerVars
<1>3. ASSUME NEW l \in Logins, NEW s \in Sessions, LoginStore(l, s) PROVE LoginsBehind'
  BY <1>0, <1>3
  DEF LoginStore, LoginsBehind, NoStampAhead, SessionTypes, ledgerVars
<1>4. CASE UNCHANGED login BY <1>1, <1>4
<1> QED
  <2>1. CASE UNCHANGED vars BY <2>1, <1>4 DEF vars, sessionVars
  <2>2. CASE \E l \in Logins : LoginStamp(l) \/ \E s \in Sessions : LoginStore(l, s)
    BY <2>2, <1>2, <1>3
  <2>3. CASE \E s \in Sessions : EndSession(s) \/ \E w \in Recoverers : Promote(s, w)
    BY <2>3, <1>4 DEF EndSession, Promote
  <2>4. CASE LeaseExpires BY <2>4, <1>4 DEF LeaseExpires, sessionVars
  <2>5. CASE \E r \in Requests :
               \/ \E s \in Sessions : Reauthenticate(r, s)
               \/ ConsumeGrant(r) \/ LateCommit(r) \/ RequestStep(r)
    BY <2>5, <1>4
    DEF Reauthenticate, ConsumeGrant, LateCommit, RequestStep, Insert,
        CallProvider, ReleaseConfirmedFailure, RecordOutcome, Rotate, Respond,
        sessionVars
  <2>6. CASE \E w \in Workers : WorkerStep(w) \/ Crash(w)
    BY <2>6, <1>4
    DEF WorkerStep, RecoverStep, SettleStep, ReadState, Takeover, BumpAttempts,
        ForceBegin, ForceSettle, Begin, Clean, CleanOne, Degrade, Settle,
        Crash, sessionVars
  <2> QED BY <2>1, <2>2, <2>3, <2>4, <2>5, <2>6 DEF Next

\* A worker settles for the epoch it wrote or read, or for none.
LEMMA StepWorkersBehind ==
  ASSUME TypeInv, LedgerMove, NoStampAhead, [Next]_vars
  PROVE  WorkersBehind'
<1>0. /\ LedgerTypes /\ WorkerTypes /\ epoch \in Nat /\ epoch' \in Nat /\ epoch <= epoch'
      /\ WorkersBehind
  BY EpochGrows DEF TypeInv, TypeOK, NoStampAhead, WorkersBehind
<1> USE DEF WorkersBehind
<1>1. ASSUME NEW w \in Workers, NEW g \in Nat, g <= epoch', gen' = [gen EXCEPT ![w] = g]
      PROVE  WorkersBehind'
  BY <1>0, <1>1 DEF WorkerTypes
<1>2. CASE UNCHANGED gen BY <1>0, <1>2 DEF WorkerTypes
<1>3. ASSUME NEW w \in Workers, NEW o, Finish(w, o) PROVE WorkersBehind'
  <2>1. CASE Owns(w) BY <1>2, <1>3, <2>1 DEF Finish
  <2>2. CASE ~Owns(w) BY <1>0, <1>1, <1>3, <2>2 DEF Finish
  <2> QED BY <2>1, <2>2
<1>4. ASSUME NEW r \in Requests, RecordOutcome(r) PROVE WorkersBehind'
  BY <1>0, <1>1, <1>2, <1>4 DEF RecordOutcome, AdvanceEpoch, Workers
<1>5. ASSUME NEW w \in Workers, Takeover(w) PROVE WorkersBehind'
  BY <1>0, <1>1, <1>3, <1>5 DEF Takeover, AdvanceEpoch
<1>6. ASSUME NEW w \in Workers, ReadState(w) PROVE WorkersBehind'
  BY <1>0, <1>1, <1>2, <1>3, <1>6 DEF ReadState, ledgerVars
<1>7. ASSUME NEW r \in Requests, Respond(r) PROVE WorkersBehind'
  <2>1. r \in Workers /\ 0 <= epoch' BY <1>0 DEF Workers
  <2>2. gen' = [gen EXCEPT ![r] = 0] BY <1>7 DEF Respond
  <2> QED BY <1>1, <2>1, <2>2
<1>8. ASSUME NEW w \in Workers, Crash(w) PROVE WorkersBehind'
  BY <1>0, <1>1, <1>2, <1>8 DEF Crash, workVars
<1> QED
  <2>1. CASE UNCHANGED vars BY <2>1, <1>2 DEF vars, workVars
  <2>2. CASE \E l \in Logins : LoginStamp(l) \/ \E s \in Sessions : LoginStore(l, s)
    BY <2>2, <1>2 DEF LoginStamp, LoginStore, workVars
  <2>3. CASE \E s \in Sessions : EndSession(s) \/ \E w \in Recoverers : Promote(s, w)
    BY <2>3, <1>2 DEF EndSession, Promote, workVars
  <2>4. CASE LeaseExpires BY <2>4, <1>2 DEF LeaseExpires, workVars
  <2>5. CASE \E r \in Requests :
               \/ \E s \in Sessions : Reauthenticate(r, s)
               \/ ConsumeGrant(r) \/ LateCommit(r) \/ RequestStep(r)
    BY <2>5, <1>2, <1>4, <1>7
    DEF Reauthenticate, ConsumeGrant, LateCommit, RequestStep, Insert,
        CallProvider, ReleaseConfirmedFailure, Rotate, workVars
  <2>6. CASE \E w \in Workers : RecoverStep(w)
    BY <2>6, <1>2, <1>3, <1>5, <1>6
    DEF RecoverStep, BumpAttempts, ForceBegin, ForceSettle, workVars
  <2>7. CASE \E w \in Workers : SettleStep(w)
    BY <2>7, <1>2, <1>3 DEF SettleStep, Begin, Clean, CleanOne, Degrade, Settle
  <2>8. CASE \E w \in Workers : Crash(w) BY <2>8, <1>8
  <2> QED BY <2>1, <2>2, <2>3, <2>4, <2>5, <2>6, <2>7, <2>8
      DEF Next, WorkerStep

StampInv == LedgerInv /\ NoStampAhead

\* The ledger's bookkeeping and the stamps are inductive together.
LEMMA StampsInductive == Spec => []StampInv
<1>1. Init => NoStampAhead
  BY DEF Init, NoStampAhead
<1>2. LedgerInv /\ NoStampAhead /\ [Next]_vars => NoStampAhead'
  <2> SUFFICES ASSUME LedgerInv, NoStampAhead, [Next]_vars PROVE NoStampAhead' OBVIOUS
  <2>1. TypeInv /\ LedgerMove BY LedgerMoves DEF LedgerInv
  <2>2. LedgerTypes /\ SessionTypes BY <2>1 DEF TypeInv, TypeOK
  <2>3. SessionMove BY <2>1, SessionMoves
  <2> QED BY <2>1, <2>2, <2>3, StepSessionsBehind, StepLoginsBehind,
             StepWorkersBehind
      DEF NoStampAhead, SessionsBehind, LoginsBehind, WorkersBehind
<1> QED BY LedgerInductive, <1>1, <1>2, PTL DEF Spec, StampInv

\* No session, login or worker carries an epoch the users row has not
\* reached, however the minting of a session races with a password change.
THEOREM StampsBehind == Spec => []NoStampAhead
<1>1. StampInv => NoStampAhead BY DEF StampInv
<1> QED BY StampsInductive, <1>1, PTL

\* A settlement's cleanup, however late it runs, deletes no session of the
\* current generation.
THEOREM CleanupSpares == Spec => CleanupSparesCurrentGeneration
<1> DEFINE A == \A w \in Workers, s \in Sessions :
                  CleanOne(w, s) /\ sess'[s] # sess[s] => sess[s].stamp < epoch
<1>1. StampInv => A
  <2> SUFFICES ASSUME StampInv, NEW w \in Workers, NEW s \in Sessions,
                      CleanOne(w, s), sess'[s] # sess[s]
               PROVE  sess[s].stamp < epoch
    OBVIOUS
  <2>1. sess[s].stamp < gen[w] BY DEF CleanOne, BeforeEpoch
  <2>2. gen[w] <= epoch BY DEF StampInv, NoStampAhead
  <2>3. sess[s].stamp \in Nat /\ gen[w] \in Nat /\ epoch \in Nat
    BY DEF StampInv, LedgerInv, TypeInv, TypeOK, LedgerTypes, SessionTypes,
       SessionRow, WorkerTypes
  <2> QED BY <2>1, <2>2, <2>3
<1>2. Spec => [][A]_vars BY StampsInductive, <1>1, PTL DEF Spec
<1> QED BY <1>2, PTL DEF CleanupSparesCurrentGeneration

-----------------------------------------------------------------------------
(* The ledger and the stamps implement the atomic boundary *)

\* No session record moves with the ledger, so a step of the system is a step
\* of one of them.
LEMMA StepImplements == StampInv /\ [Next]_vars => [Boundary!Next]_(Boundary!bvars)
<1> SUFFICES ASSUME StampInv, [Next]_vars
             PROVE  [Boundary!Next]_(Boundary!bvars)
  OBVIOUS
<1>0. TypeInv /\ NoStampAhead /\ LedgerMove
  BY LedgerMoves
  DEF StampInv, LedgerInv
<1>1. LedgerTypes /\ SessionTypes BY <1>0 DEF TypeInv, TypeOK
<1>2. CASE UNCHANGED sess
  <2>1. epoch' = epoch => ValidSessions' = ValidSessions
    BY <1>2
    DEF ValidSessions
  <2> USE DEF LedgerTypes, IntentRow, Phase, Boundary!Next, Boundary!bvars
  <2>2. CASE Still BY <2>1, <2>2 DEF Still, ledgerVars
  <2>3. CASE Held BY <1>1, <2>1, <2>3 DEF Held
  <2>4. CASE Acquired
    BY <1>1, <2>1, <2>4
    DEF Acquired, AcquireIntent, NonTerminal, Boundary!Begin
  <2>5. CASE Rejected BY <1>1, <2>1, <2>5 DEF Rejected, Boundary!Abort
  <2>6. CASE Advanced
    <3>1. epoch' = epoch + 1 /\ intent.status = "active" /\ intent'.status = "outcome_recorded"
      BY <1>1, <2>6 DEF Advanced, AdvanceEpoch
    <3>2. ValidSessions' = {}
      BY <1>0, <1>1, <1>2, <3>1
      DEF ValidSessions, NoStampAhead, SessionTypes, SessionRow
    <3> QED BY <3>1, <3>2 DEF Boundary!Commit
  <2>7. CASE Begun BY <1>1, <2>1, <2>7 DEF Begun, BeginSettlement
  <2>8. CASE Closed BY <1>1, <2>1, <2>8 DEF Closed, SettleAs, Boundary!Close
  <2> QED BY <1>0, <2>2, <2>3, <2>4, <2>5, <2>6, <2>7, <2>8 DEF LedgerMove
<1>3. ASSUME UNCHANGED ledgerVars, NEW s \in Sessions, NEW x \in SessionRow,
             sess' = [sess EXCEPT ![s] = x]
      PROVE  [Boundary!Next]_(Boundary!bvars)
  <2>1. epoch' = epoch /\ Phase' = Phase BY <1>3 DEF ledgerVars, Phase
  <2>2. CASE x.st = "live" /\ x.stamp = epoch
    <3>1. ValidSessions' = ValidSessions \cup {s}
      BY <1>1, <1>3, <2>1, <2>2 DEF ValidSessions, SessionTypes
    <3> QED BY <2>1, <3>1 DEF Boundary!Next, Boundary!Mint
  <2>3. CASE ~(x.st = "live" /\ x.stamp = epoch)
    <3>1. ValidSessions' = ValidSessions \ {s}
      BY <1>1, <1>3, <2>1, <2>3 DEF ValidSessions, SessionTypes
    <3>2. CASE s \in ValidSessions
      BY <2>1, <3>1, <3>2
      DEF Boundary!Next, Boundary!Drop
    <3>3. CASE s \notin ValidSessions BY <2>1, <3>1, <3>3 DEF Boundary!bvars
    <3> QED BY <3>2, <3>3
  <2> QED BY <2>2, <2>3
<1> QED BY <1>0, <1>2, <1>3, SessionMoves DEF SessionMove

\* One statement retires every session of the old generation; logins,
\* promotions, recovery and cleanup never bring one back.
THEOREM BoundaryImplemented == Spec => ImplementsBoundary
<1>1. Init => Boundary!Init
  BY DEF Init, Boundary!Init, Phase, ValidSessions
<1> QED BY StampsInductive, StepImplements, <1>1, PTL
    DEF Spec, ImplementsBoundary, Boundary!Spec

-----------------------------------------------------------------------------
(* Owners of an intent, and what they may answer *)

\* Where a request has no intent of its own, where it has one, where a worker
\* acts on a recorded outcome, and where a request mutates the provider.
Unowned  == {"start", "granted", "insert"} \cup RecoveryPC
Owned    == {"call", "record", "fail", "rotate"}
Copied   == {"bump", "forceBegin", "forceSettle", "rotate"} \cup SettlePC
Mutating == {"call", "record", "fail"}

\* An intent has one owner, which acts on a copy of that very intent; nobody
\* knows an intent that is not there yet.
OwnersOf ==
  /\ \A r \in Requests : own[r] <= intent.id
  /\ \A w \in Workers : mine[w].id <= intent.id
  /\ \A r1, r2 \in Requests : own[r1] = own[r2] /\ own[r1] # 0 => r1 = r2
  /\ \A r \in Requests : pc[r] \in Unowned => own[r] = 0
  /\ \A r \in Requests : pc[r] \in Owned => own[r] # 0 /\ mine[r].id = own[r]
  /\ \A r \in Requests : pc[r] \in SettlePC /\ own[r] # 0 => mine[r].id = own[r]

\* A worker past the record of an outcome acts on the outcome of the ledger.
CopiesAgree ==
  \A w \in Workers : pc[w] \in Copied /\ mine[w].id = intent.id =>
    intent.status # "active" /\ mine[w].outcome = intent.outcome

\* What a settlement reported to its owner is in the ledger.
Good == {"settled", "settled_relogin"}
ReportTrue ==
  \A r \in Requests : pc[r] = "respond" /\ res[r] \in Good /\ own[r] = intent.id =>
    intent.status = "settled" /\ intent.settlement = res[r] /\ intent.outcome = mine[r].outcome

AuditsKnown == \A a \in audits : a.id <= intent.id

OwnerInv == /\ LedgerInv /\ OwnersOf /\ CopiesAgree /\ ReportTrue
            /\ AuditsKnown /\ AuditNeverOverstates

\* The moves of a worker with respect to its intent, its copy and its report.
Keeps(w) == /\ mine'[w] = mine[w]
            /\ w \in Requests => own'[w] = own[w] /\ res'[w] = res[w]
KeepsOwn(w) == w \in Requests => own'[w] = own[w] /\ res'[w] = res[w]
Walks(w) ==
  /\ Keeps(w)
  /\ w \in Requests /\ pc'[w] \in Unowned => pc[w] \in Unowned
  /\ pc'[w] \in Owned => pc[w] \in Owned
  /\ pc'[w] \in SettlePC => pc[w] \in Owned \cup SettlePC \cup Unowned
  /\ pc'[w] \in Copied => pc[w] \in Copied
  /\ pc'[w] = "respond" => pc[w] = "respond"
Acquires(w) ==
  /\ w \in Requests /\ pc'[w] = "call" /\ intent'.id = intent.id + 1
  /\ own'[w] = intent'.id /\ mine'[w].id = intent'.id
Tries(w) ==
  /\ w \in Requests /\ pc[w] = "call" /\ pc'[w] \in {"record", "fail"}
  /\ mine'[w].id = mine[w].id /\ KeepsOwn(w)
Copies(w) ==
  /\ \/ pc[w] \in Unowned /\ pc'[w] \in {"takeover", "bump"}
     \/ pc[w] = "record" /\ pc'[w] = "begin"
     \/ pc[w] = "begin" /\ pc'[w] \in {"clean", "rotate"}
  /\ pc'[w] = "rotate" => Owns(w)
  /\ mine'[w].id = (IF pc[w] = "recRead" THEN intent.id ELSE mine[w].id)
  /\ intent'.id = intent.id /\ KeepsOwn(w)
  /\ pc'[w] # "takeover" /\ mine'[w].id = intent.id =>
       intent'.status # "active" /\ mine'[w].outcome = intent'.outcome
Drops(w) ==
  /\ mine'[w].id = 0 /\ pc'[w] \in {"insert", "idle", "done"} /\ KeepsOwn(w)
  /\ pc'[w] = "insert" => own[w] = 0
Reports(w) ==
  /\ Owns(w) /\ mine'[w] = mine[w] /\ own'[w] = own[w] /\ pc'[w] = "respond"
  /\ res'[w] \in Good =>
       /\ pc[w] = "walk" /\ mine[w].id = intent.id /\ intent'.id = intent.id
       /\ intent'.status = "settled" /\ intent'.settlement = res'[w]
       /\ intent'.outcome = intent.outcome

WorkerMove(w) ==
  Walks(w) \/ Acquires(w) \/ Tries(w) \/ Copies(w) \/ Drops(w) \/ Reports(w)

\* One request at a time acquires, and one at a time is audited.
OneAcquires ==
  \A r1, r2 \in Requests : Acquires(r1) /\ own'[r2] # own[r2] => r1 = r2
AuditMove ==
  \/ UNCHANGED audits
  \/ /\ UNCHANGED intent
     /\ \E r \in Requests, s \in Settlement :
          /\ s \in Good => pc[r] = "respond" /\ s = res[r]
          /\ audits' = audits \cup {[id |-> own[r], provider |-> mine[r].outcome,
                                     settlement |-> s]}

OwnerMoves == (\A w \in Workers : WorkerMove(w)) /\ OneAcquires /\ AuditMove


\* Every step of the system is one of these moves for every worker: the worker
\* that steps, and the others, which keep what they know.
LEMMA OwnerStep == OwnerInv /\ [Next]_vars => OwnerMoves
<1> SUFFICES ASSUME OwnerInv, [Next]_vars PROVE OwnerMoves OBVIOUS
<1>0. /\ LedgerTypes /\ WorkerTypes /\ RequestTypes /\ OwnersOf /\ CopiesAgree
      /\ Recording /\ SecurityAssumption
  BY SecurityAssumption DEF OwnerInv, LedgerInv, TypeInv, TypeOK
<1>a. ASSUME NEW w \in Workers, NEW l, Goto(w, l), UNCHANGED <<own, res, audits>>,
             \A v \in Workers : v # w => mine'[v] = mine[v], WorkerMove(w)
      PROVE  OwnerMoves
  <2>1. \A v \in Workers : v # w => Walks(v)
    BY <1>0, <1>a DEF Goto, Walks, Keeps, WorkerTypes
  <2>2. OneAcquires BY <1>a DEF OneAcquires
  <2> QED BY <1>a, <2>1, <2>2 DEF OwnerMoves, WorkerMove, AuditMove
<1>b. CASE UNCHANGED <<pc, mine, own, res, audits>>
  <2>1. \A v \in Workers : Walks(v) BY <1>b DEF Walks, Keeps
  <2>2. OneAcquires BY <1>b DEF OneAcquires
  <2> QED BY <1>b, <2>1, <2>2 DEF OwnerMoves, WorkerMove, AuditMove
<1>c. ASSUME NEW w \in Workers, NEW l, Goto(w, l), UNCHANGED <<mine, own, res, audits>>,
             w \in Requests /\ l \in Unowned => pc[w] \in Unowned,
             l \in Owned => pc[w] \in Owned,
             l \in SettlePC => pc[w] \in Owned \cup SettlePC \cup Unowned,
             l \in Copied => pc[w] \in Copied,
             l # "respond"
      PROVE  OwnerMoves
  <2>1. Walks(w) BY <1>0, <1>c DEF Goto, Walks, Keeps, WorkerTypes
  <2> QED BY <1>a, <1>c, <2>1 DEF WorkerMove
<1>d. ASSUME NEW w \in Workers, NEW o, Finish(w, o), UNCHANGED audits,
             Owns(w) /\ o \in Good =>
               /\ pc[w] = "walk" /\ mine[w].id = intent.id /\ intent'.id = intent.id
               /\ intent'.status = "settled" /\ intent'.settlement = o
               /\ intent'.outcome = intent.outcome
      PROVE  OwnerMoves
  <2>1. CASE Owns(w)
    <3>1. UNCHANGED <<mine, own, audits>> /\ Goto(w, "respond") /\ w \in Requests
      BY <1>d, <2>1 DEF Finish, Owns
    <3>2. res' = [res EXCEPT ![w] = o] BY <1>d, <2>1 DEF Finish
    <3>3. Reports(w)
      BY <1>0, <1>d, <2>1, <3>1, <3>2 DEF Reports, Goto, WorkerTypes, RequestTypes
    <3>4. \A v \in Workers : v # w => Walks(v)
      BY <1>0, <3>1, <3>2 DEF Goto, Walks, Keeps, WorkerTypes, RequestTypes
    <3>5. OneAcquires BY <3>1 DEF OneAcquires
    <3> QED BY <3>1, <3>3, <3>4, <3>5 DEF OwnerMoves, WorkerMove, AuditMove
  <2>2. CASE ~Owns(w)
    <3>1. /\ UNCHANGED <<own, res>> /\ mine' = [mine EXCEPT ![w] = NoClaim]
          /\ Goto(w, IF w \in Requests THEN "insert" ELSE "idle")
      BY <1>d, <2>2 DEF Finish, requestVars
    <3>2. Drops(w)
      BY <1>0, <2>2, <3>1 DEF Drops, KeepsOwn, NoClaim, Goto, WorkerTypes, Owns
    <3>3. \A v \in Workers : v # w => mine'[v] = mine[v]
      BY <1>0, <3>1 DEF WorkerTypes
    <3> QED BY <1>a, <1>d, <3>1, <3>2, <3>3 DEF WorkerMove
  <2> QED BY <2>1, <2>2
<1> USE DEF Unowned, Owned, Copied, RecoveryPC, SettlePC
<1>1. ASSUME NEW l \in Logins, LoginStamp(l) PROVE OwnerMoves
  BY <1>1, <1>b DEF LoginStamp, outerVars, workVars, requestVars
<1>2. ASSUME NEW l \in Logins, NEW s \in Sessions, LoginStore(l, s)
      PROVE OwnerMoves
  BY <1>2, <1>b DEF LoginStore, outerVars, workVars, requestVars
<1>3. ASSUME NEW s \in Sessions, EndSession(s) PROVE OwnerMoves
  BY <1>3, <1>b DEF EndSession, outerVars, workVars, requestVars
<1>4. ASSUME NEW s \in Sessions, NEW w \in Recoverers, Promote(s, w)
      PROVE OwnerMoves
  BY <1>0, <1>4, <1>b, <1>c
  DEF Promote, outerVars, workVars, requestVars, SecurityAssumption, Workers
<1>5. ASSUME LeaseExpires PROVE OwnerMoves
  BY <1>5, <1>b DEF LeaseExpires, outerVars, workVars, requestVars
<1>6. ASSUME NEW r \in Requests, NEW s \in Sessions, Reauthenticate(r, s)
      PROVE OwnerMoves
  BY <1>6, <1>c DEF Reauthenticate, outerVars, workVars, Workers
<1>7. ASSUME NEW r \in Requests, ConsumeGrant(r) PROVE OwnerMoves
  BY <1>7, <1>c DEF ConsumeGrant, outerVars, workVars, Workers
<1>8. ASSUME NEW r \in Requests, LateCommit(r) PROVE OwnerMoves
  BY <1>8, <1>b DEF LateCommit, workVars, requestVars
<1>9. ASSUME NEW r \in Requests, Insert(r) PROVE OwnerMoves
  <2>1. r \in Workers /\ UNCHANGED audits /\ UNCHANGED res
    BY <1>9 DEF Insert, Workers, outerVars
  <2>2. CASE /\ AcquireIntent /\ Goto(r, "call")
             /\ own' = [own EXCEPT ![r] = intent.id + 1]
             /\ mine' = [mine EXCEPT ![r] = [id |-> intent.id + 1, status |-> "active",
                                             outcome |-> "none"]]
    <3>1. Acquires(r)
      BY <1>0, <2>1, <2>2
      DEF Acquires, AcquireIntent, Goto, WorkerTypes, RequestTypes
    <3>2. \A v \in Workers : v # r => Walks(v)
      BY <1>0, <2>1, <2>2 DEF Walks, Keeps, Goto, WorkerTypes, RequestTypes
    <3>3. OneAcquires
      <4>1. SUFFICES ASSUME NEW r1 \in Requests, NEW r2 \in Requests, Acquires(r1),
                            own'[r2] # own[r2]
                     PROVE  r1 = r2
        BY DEF OneAcquires
      <4>2. r2 = r BY <1>0, <2>2, <4>1 DEF RequestTypes
      <4>3. own'[r1] = intent.id + 1 BY <4>1 DEF Acquires
      <4>4. own[r1] <= intent.id /\ own[r1] \in Nat /\ intent.id \in Nat
        BY <1>0, <4>1 DEF OwnersOf, RequestTypes, LedgerTypes, IntentRow
      <4>5. own[r1] # intent.id + 1 BY <4>4
      <4> QED BY <1>0, <2>2, <4>1, <4>2, <4>3, <4>5 DEF RequestTypes
    <3> QED BY <2>1, <3>1, <3>2, <3>3 DEF OwnerMoves, WorkerMove, AuditMove
  <2>3. CASE Goto(r, "done") /\ UNCHANGED <<own, mine>>
    BY <1>c, <2>1, <2>3
  <2> QED BY <1>9, <2>2, <2>3 DEF Insert
<1>10. ASSUME NEW r \in Requests, CallProvider(r) PROVE OwnerMoves
  <2>1. r \in Workers /\ UNCHANGED <<audits, own, res>> /\ pc[r] = "call"
    BY <1>10 DEF CallProvider, Workers, requestVars
  <2>2. PICK l \in {"record", "fail"}, o \in Outcome :
          Goto(r, l) /\ mine' = [mine EXCEPT ![r].outcome = o]
    BY <1>10 DEF CallProvider, Outcome
  <2>3. Tries(r)
    BY <1>0, <2>1, <2>2 DEF Tries, KeepsOwn, Goto, WorkerTypes, Claim
  <2>4. \A v \in Workers : v # r => mine'[v] = mine[v]
    BY <1>0, <2>2 DEF WorkerTypes
  <2> QED BY <1>a, <2>1, <2>2, <2>3, <2>4 DEF WorkerMove
<1>11. ASSUME NEW r \in Requests, ReleaseConfirmedFailure(r) PROVE OwnerMoves
  BY <1>11, <1>c
  DEF ReleaseConfirmedFailure, outerVars, workVars, Workers
<1>12. ASSUME NEW r \in Requests, RecordOutcome(r) PROVE OwnerMoves
  <2>1. /\ r \in Workers /\ UNCHANGED <<audits, own, res>> /\ pc[r] = "record"
    BY <1>12 DEF RecordOutcome, Workers, requestVars, outerVars
  <2>2. CASE /\ Fence(r, "active") /\ AdvanceEpoch(mine[r].outcome)
             /\ mine' = [mine EXCEPT ![r].status = "outcome_recorded"]
             /\ Goto(r, "begin")
    <3>1. Copies(r)
      BY <1>0, <2>1, <2>2
      DEF Copies, KeepsOwn, Goto, WorkerTypes, Claim, AdvanceEpoch, LedgerTypes, IntentRow
    <3>2. \A v \in Workers : v # r => mine'[v] = mine[v]
      BY <1>0, <2>2 DEF WorkerTypes
    <3> QED BY <1>a, <2>1, <2>2, <3>1, <3>2 DEF WorkerMove
  <2>3. CASE UNCHANGED mine /\ (Goto(r, "lost") \/ Goto(r, "unsure"))
    BY <1>c, <2>1, <2>3
  <2> QED BY <1>12, <2>2, <2>3 DEF RecordOutcome
<1>13. ASSUME NEW r \in Requests, Rotate(r) PROVE OwnerMoves
  BY <1>13, <1>c DEF Rotate, outerVars, Workers
<1>14. ASSUME NEW r \in Requests, Respond(r) PROVE OwnerMoves
  <2>1. /\ r \in Workers /\ UNCHANGED <<own, res>> /\ Goto(r, "done")
        /\ mine' = [mine EXCEPT ![r] = NoClaim] /\ UNCHANGED intent
    BY <1>14 DEF Respond, Workers, ledgerVars
  <2>2. Drops(r)
    BY <1>0, <2>1 DEF Drops, KeepsOwn, NoClaim, Goto, WorkerTypes
  <2>3. \A v \in Workers : v # r => Walks(v)
    BY <1>0, <2>1 DEF Walks, Keeps, Goto, WorkerTypes
  <2>4. OneAcquires BY <2>1 DEF OneAcquires
  <2>5. AuditMove
    <3>1. CASE UNCHANGED audits BY <3>1 DEF AuditMove
    <3>2. CASE /\ pc[r] = "respond"
               /\ audits' = audits \cup {[id |-> own[r], provider |-> mine[r].outcome,
                                          settlement |-> res[r]]}
      BY <1>0, <2>1, <3>2 DEF AuditMove, RequestTypes
    <3>3. CASE audits' = audits \cup {[id |-> own[r], provider |-> mine[r].outcome,
                                       settlement |-> "degraded"]}
      <4>1. "degraded" \in Settlement /\ "degraded" \notin Good
        BY DEF Settlement, Good
      <4> QED BY <2>1, <3>3, <4>1 DEF AuditMove
    <3> QED BY <1>14, <3>1, <3>2, <3>3 DEF Respond
  <2> QED BY <2>2, <2>3, <2>4, <2>5 DEF OwnerMoves, WorkerMove
<1>15. ASSUME NEW w \in Workers, ReadState(w) PROVE OwnerMoves
  <2>1. UNCHANGED audits /\ pc[w] = "recRead" /\ UNCHANGED intent
    BY <1>15 DEF ReadState, outerVars, ledgerVars
  <2>2. CASE Finish(w, "none") BY <1>d, <2>1, <2>2 DEF Good
  <2>3. CASE \E l \in {"takeover", "bump"} :
               /\ Goto(w, l) /\ UNCHANGED requestVars /\ (l = "bump" => PostEpoch)
               /\ mine' = [mine EXCEPT ![w] = [id |-> intent.id, status |-> intent.status,
                                               outcome |-> intent.outcome]]
    <3>1. Copies(w)
      BY <1>0, <2>1, <2>3
      DEF Copies, KeepsOwn, Goto, WorkerTypes, requestVars, PostEpoch
    <3>2. \A v \in Workers : v # w => mine'[v] = mine[v]
      BY <1>0, <2>3 DEF WorkerTypes
    <3>3. UNCHANGED <<own, res>> BY <2>3 DEF requestVars
    <3> QED BY <1>a, <2>1, <2>3, <3>1, <3>2, <3>3 DEF WorkerMove
  <2> QED BY <1>15, <2>2, <2>3 DEF ReadState
<1>16. ASSUME NEW w \in Workers, Takeover(w) PROVE OwnerMoves
  <2>1. UNCHANGED audits /\ pc[w] = "takeover" BY <1>16 DEF Takeover, outerVars
  <2>2. CASE Finish(w, "none") BY <1>d, <2>1, <2>2 DEF Good
  <2>3. CASE /\ AdvanceEpoch("unknown") /\ Goto(w, "bump") /\ UNCHANGED requestVars
             /\ mine' = [mine EXCEPT ![w].status = "outcome_recorded",
                                     ![w].outcome = "unknown"]
    <3>1. mine'[w].id = mine[w].id /\ mine'[w].outcome = "unknown"
      BY <1>0, <2>3 DEF WorkerTypes, Claim
    <3>2. /\ intent'.id = intent.id /\ intent'.status = "outcome_recorded"
          /\ intent'.outcome = "unknown"
      BY <1>0, <2>3 DEF AdvanceEpoch, LedgerTypes, IntentRow
    <3>3. Copies(w)
      BY <1>0, <2>1, <2>3, <3>1, <3>2
      DEF Copies, KeepsOwn, Goto, WorkerTypes, requestVars
    <3>4. \A v \in Workers : v # w => mine'[v] = mine[v]
      BY <1>0, <2>3 DEF WorkerTypes
    <3>5. UNCHANGED <<own, res>> BY <2>3 DEF requestVars
    <3> QED BY <1>a, <2>1, <2>3, <3>3, <3>4, <3>5 DEF WorkerMove
  <2> QED BY <1>16, <2>2, <2>3 DEF Takeover
<1>17. ASSUME NEW w \in Workers, BumpAttempts(w) PROVE OwnerMoves
  <2>1. UNCHANGED audits /\ pc[w] = "bump" BY <1>17 DEF BumpAttempts, outerVars
  <2>2. CASE Finish(w, "none") BY <1>d, <2>1, <2>2 DEF Good
  <2>3. CASE /\ UNCHANGED <<workVars, requestVars>>
             /\ \E l \in {"forceBegin", "forceSettle", "begin", "clean"} : Goto(w, l)
    BY <1>c, <2>1, <2>3 DEF workVars, requestVars
  <2> QED BY <1>17, <2>2, <2>3 DEF BumpAttempts
<1>18. ASSUME NEW w \in Workers, ForceBegin(w) PROVE OwnerMoves
  <2>1. UNCHANGED audits /\ pc[w] = "forceBegin" BY <1>18 DEF ForceBegin, outerVars
  <2>2. CASE Finish(w, "none") BY <1>d, <2>1, <2>2 DEF Good
  <2>3. CASE UNCHANGED <<workVars, requestVars>> /\ Goto(w, "forceSettle")
    BY <1>c, <2>1, <2>3 DEF workVars, requestVars
  <2> QED BY <1>18, <2>2, <2>3 DEF ForceBegin
<1>19. ASSUME NEW w \in Workers, ForceSettle(w) PROVE OwnerMoves
  BY <1>19, <1>d DEF ForceSettle, outerVars, Good
<1>20. ASSUME NEW w \in Workers, Begin(w) PROVE OwnerMoves
  <2>1. UNCHANGED audits /\ pc[w] = "begin" BY <1>20 DEF Begin, outerVars
  <2>2. CASE Finish(w, "degraded") BY <1>d, <2>1, <2>2 DEF Good
  <2>3. CASE /\ Fence(w, "outcome_recorded") /\ BeginSettlement /\ UNCHANGED requestVars
             /\ mine' = [mine EXCEPT ![w].status = "local_settlement"]
             /\ Goto(w, IF Rotates(w) THEN "rotate" ELSE "clean")
    <3>1. /\ mine'[w].id = mine[w].id /\ mine'[w].outcome = mine[w].outcome
          /\ mine[w].outcome = intent.outcome
      BY <1>0, <2>1, <2>3 DEF WorkerTypes, Claim, CopiesAgree, Fence
    <3>2. /\ intent'.id = intent.id /\ intent'.status = "local_settlement"
          /\ intent'.outcome = intent.outcome
      BY <1>0, <2>3 DEF BeginSettlement, LedgerTypes, IntentRow
    <3>3. Copies(w)
      BY <1>0, <2>1, <2>3, <3>1, <3>2
      DEF Copies, KeepsOwn, Goto, WorkerTypes, requestVars, Rotates
    <3>4. \A v \in Workers : v # w => mine'[v] = mine[v]
      BY <1>0, <2>3 DEF WorkerTypes
    <3>5. UNCHANGED <<own, res>> BY <2>3 DEF requestVars
    <3> QED BY <1>a, <2>1, <2>3, <3>3, <3>4, <3>5 DEF WorkerMove
  <2> QED BY <1>20, <2>2, <2>3 DEF Begin
<1>21. ASSUME NEW w \in Workers, Clean(w) PROVE OwnerMoves
  BY <1>21, <1>c DEF Clean, outerVars, requestVars
<1>22. ASSUME NEW w \in Workers, NEW s \in Sessions, CleanOne(w, s)
      PROVE OwnerMoves
  BY <1>22, <1>b, <1>c DEF CleanOne, outerVars, requestVars
<1>23. ASSUME NEW w \in Workers, Degrade(w) PROVE OwnerMoves
  BY <1>23, <1>d DEF Degrade, outerVars, Good
<1>24. ASSUME NEW w \in Workers, Settle(w) PROVE OwnerMoves
  <2>1. UNCHANGED audits /\ pc[w] = "walk" BY <1>24 DEF Settle, outerVars
  <2>2. CASE Finish(w, "degraded") BY <1>d, <2>1, <2>2 DEF Good
  <2>3. CASE /\ Fence(w, "local_settlement") /\ SettleAs(SettlementOf(w))
             /\ Finish(w, SettlementOf(w))
    <3>1. /\ mine[w].id = intent.id /\ intent'.id = intent.id
          /\ intent'.status = "settled" /\ intent'.settlement = SettlementOf(w)
          /\ intent'.outcome = intent.outcome
      BY <1>0, <2>3 DEF Fence, SettleAs, LedgerTypes, IntentRow
    <3> QED BY <1>d, <2>1, <2>3, <3>1
  <2> QED BY <1>24, <2>2, <2>3 DEF Settle
<1>25. ASSUME NEW w \in Workers, Crash(w) PROVE OwnerMoves
  <2>1. UNCHANGED <<audits, own, res>> BY <1>25 DEF Crash, requestVars
  <2>2. CASE w \in Requests BY <1>25, <1>c, <2>1, <2>2 DEF Crash, workVars
  <2>3. CASE w \notin Requests
    <3>1. Goto(w, "idle") /\ mine' = [mine EXCEPT ![w] = NoClaim]
      BY <1>25, <2>3 DEF Crash
    <3>2. Drops(w)
      BY <1>0, <2>3, <3>1 DEF Drops, KeepsOwn, NoClaim, Goto, WorkerTypes
    <3>3. \A v \in Workers : v # w => mine'[v] = mine[v]
      BY <1>0, <3>1 DEF WorkerTypes
    <3> QED BY <1>a, <2>1, <3>1, <3>2, <3>3 DEF WorkerMove
  <2> QED BY <2>2, <2>3
<1>26. CASE UNCHANGED vars
  BY <1>26, <1>b DEF vars, outerVars, workVars, requestVars
<1> QED BY <1>1, <1>2, <1>3, <1>4, <1>5, <1>6, <1>7, <1>8, <1>9, <1>10, <1>11,
           <1>12, <1>13, <1>14, <1>15, <1>16, <1>17, <1>18, <1>19, <1>20,
           <1>21, <1>22, <1>23, <1>24, <1>25, <1>26
    DEF Next, RequestStep, WorkerStep, RecoverStep, SettleStep

\* The row moves to the next id or stays with its own; of one id, a recorded
\* outcome stays, and a settled row does not change at all.
LEMMA IntentForward ==
  ASSUME LedgerTypes, LedgerMove
  PROVE  /\ intent'.id = intent.id \/ intent'.id = intent.id + 1
         /\ intent'.id = intent.id /\ intent.status # "active" =>
              intent'.status # "active" /\ intent'.outcome = intent.outcome
         /\ intent'.id = intent.id /\ intent.status = "settled" => intent' = intent
<1> USE DEF LedgerTypes, IntentRow
<1>1. CASE Still BY <1>1 DEF Still, ledgerVars
<1>2. CASE Held BY <1>2 DEF Held, NonTerminal
<1>3. CASE Acquired BY <1>3 DEF Acquired, AcquireIntent
<1>4. CASE Rejected BY <1>4 DEF Rejected
<1>5. CASE Advanced BY <1>5 DEF Advanced, AdvanceEpoch
<1>6. CASE Begun BY <1>6 DEF Begun, BeginSettlement
<1>7. CASE Closed BY <1>7 DEF Closed, SettleAs
<1> QED BY <1>1, <1>2, <1>3, <1>4, <1>5, <1>6, <1>7 DEF LedgerMove

\* Whatever the workers do, an intent keeps its one owner, copies of a recorded
\* outcome agree with the ledger, and so do reports and audits.
LEMMA OwnersKept ==
  ASSUME OwnerInv, OwnerMoves, LedgerMove
  PROVE  /\ OwnersOf' /\ CopiesAgree' /\ ReportTrue' /\ AuditsKnown'
         /\ AuditNeverOverstates'
<1>0. /\ LedgerTypes /\ WorkerTypes /\ RequestTypes /\ OwnersOf /\ CopiesAgree
      /\ ReportTrue /\ AuditsKnown /\ AuditNeverOverstates
      /\ intent.id \in Nat /\ intent'.id \in Nat /\ intent.id <= intent'.id
      /\ \A w \in Workers : mine[w].id \in Nat
      /\ \A r \in Requests : own[r] \in Nat
  <2>1. /\ LedgerTypes /\ WorkerTypes /\ RequestTypes /\ intent.id \in Nat
        /\ \A w \in Workers : mine[w].id \in Nat
        /\ \A r \in Requests : own[r] \in Nat
    BY DEF OwnerInv, LedgerInv, TypeInv, TypeOK, LedgerTypes, IntentRow,
           WorkerTypes, Claim, RequestTypes
  <2>2. intent'.id = intent.id \/ intent'.id = intent.id + 1
    BY <2>1, IntentForward
  <2> QED BY <2>1, <2>2 DEF OwnerInv
<1>1. /\ intent'.id = intent.id \/ intent'.id = intent.id + 1
      /\ intent'.id = intent.id /\ intent.status # "active" =>
           intent'.status # "active" /\ intent'.outcome = intent.outcome
      /\ intent'.id = intent.id /\ intent.status = "settled" => intent' = intent
  BY <1>0, IntentForward
<1>2. Requests \subseteq Workers /\ \A w \in Workers : WorkerMove(w)
  BY DEF Workers, OwnerMoves
<1> USE DEF Unowned, Owned, Copied, RecoveryPC, SettlePC
<1>3. \A r \in Requests : own'[r] = own[r] \/ (Acquires(r) /\ own'[r] = intent.id + 1)
  BY <1>2
  DEF WorkerMove, Walks, Keeps, Tries, Copies, Drops, Reports, Acquires, KeepsOwn
<1>4. \A r \in Requests : own'[r] <= intent'.id
  BY <1>0, <1>3 DEF OwnersOf, Acquires
<1>5. ASSUME NEW w \in Workers PROVE mine'[w].id <= intent'.id
  <2>1. CASE Walks(w) BY <1>0, <2>1 DEF Walks, Keeps, OwnersOf
  <2>2. CASE Acquires(w) BY <1>0, <2>2 DEF Acquires
  <2>3. CASE Tries(w) BY <1>0, <2>3 DEF Tries, OwnersOf
  <2>4. CASE Copies(w) BY <1>0, <2>4 DEF Copies, OwnersOf
  <2>5. CASE Drops(w) BY <1>0, <2>5 DEF Drops
  <2>6. CASE Reports(w) BY <1>0, <2>6 DEF Reports, OwnersOf
  <2> QED BY <1>2, <2>1, <2>2, <2>3, <2>4, <2>5, <2>6 DEF WorkerMove
<1>6. ASSUME NEW r1 \in Requests, NEW r2 \in Requests, own'[r1] = own'[r2],
             own'[r1] # 0
      PROVE  r1 = r2
  <2>1. CASE own'[r1] = own[r1] /\ own'[r2] = own[r2]
    BY <1>0, <1>6, <2>1 DEF OwnersOf
  <2>2. CASE own'[r1] # own[r1]
    <3>1. Acquires(r1) /\ own'[r1] = intent.id + 1 BY <1>3, <2>2
    <3>2. own[r2] # intent.id + 1 BY <1>0 DEF OwnersOf
    <3> QED BY <1>6, <3>1, <3>2 DEF OwnerMoves, OneAcquires
  <2>3. CASE own'[r2] # own[r2]
    <3>1. Acquires(r2) /\ own'[r2] = intent.id + 1 BY <1>3, <2>3
    <3>2. own[r1] # intent.id + 1 BY <1>0 DEF OwnersOf
    <3> QED BY <1>6, <3>1, <3>2 DEF OwnerMoves, OneAcquires
  <2> QED BY <2>1, <2>2, <2>3
<1>7. ASSUME NEW r \in Requests
      PROVE  /\ pc'[r] \in Unowned => own'[r] = 0
             /\ pc'[r] \in Owned => own'[r] # 0 /\ mine'[r].id = own'[r]
             /\ pc'[r] \in SettlePC /\ own'[r] # 0 => mine'[r].id = own'[r]
  <2>0. /\ pc[r] \in Unowned => own[r] = 0
        /\ pc[r] \in Owned => own[r] # 0 /\ mine[r].id = own[r]
        /\ pc[r] \in SettlePC /\ own[r] # 0 => mine[r].id = own[r]
    BY <1>0 DEF OwnersOf
  <2>1. CASE Walks(r) BY <2>0, <2>1 DEF Walks, Keeps
  <2>2. CASE Acquires(r) BY <1>0, <2>2 DEF Acquires
  <2>3. CASE Tries(r) BY <2>0, <2>3 DEF Tries, KeepsOwn
  <2>4. CASE Copies(r) BY <2>0, <2>4 DEF Copies, KeepsOwn, Owns
  <2>5. CASE Drops(r) BY <2>0, <2>5 DEF Drops, KeepsOwn
  <2>6. CASE Reports(r) BY <2>6 DEF Reports
  <2> QED BY <1>2, <2>1, <2>2, <2>3, <2>4, <2>5, <2>6 DEF WorkerMove
<1>8. OwnersOf' BY <1>4, <1>5, <1>6, <1>7 DEF OwnersOf
<1>9. ASSUME NEW w \in Workers, pc'[w] \in Copied, mine'[w].id = intent'.id
      PROVE  intent'.status # "active" /\ mine'[w].outcome = intent'.outcome
  <2>1. CASE Walks(w)
    <3>1. mine'[w] = mine[w] /\ pc[w] \in Copied BY <1>9, <2>1 DEF Walks, Keeps
    <3>2. intent'.id = intent.id BY <1>0, <1>1, <1>9, <3>1 DEF OwnersOf
    <3> QED BY <1>0, <1>1, <1>9, <3>1, <3>2 DEF CopiesAgree
  <2>2. CASE Copies(w) BY <1>9, <2>2 DEF Copies
  <2>3. CASE Acquires(w) \/ Tries(w) \/ Drops(w) \/ Reports(w)
    BY <1>9, <2>3 DEF Acquires, Tries, Drops, Reports
  <2> QED BY <1>2, <2>1, <2>2, <2>3 DEF WorkerMove
<1>10. CopiesAgree' BY <1>9 DEF CopiesAgree
<1>11. ASSUME NEW r \in Requests, pc'[r] = "respond", res'[r] \in Good,
              own'[r] = intent'.id
       PROVE  /\ intent'.status = "settled" /\ intent'.settlement = res'[r]
              /\ intent'.outcome = mine'[r].outcome
  <2>1. CASE Walks(r)
    <3>1. /\ mine'[r] = mine[r] /\ own'[r] = own[r] /\ res'[r] = res[r]
          /\ pc[r] = "respond"
      BY <1>11, <2>1 DEF Walks, Keeps
    <3>2. intent'.id = intent.id BY <1>0, <1>1, <1>11, <3>1 DEF OwnersOf
    <3> QED BY <1>0, <1>1, <1>11, <3>1, <3>2 DEF ReportTrue
  <2>2. CASE Reports(r)
    <3>1. mine[r].outcome = intent.outcome
      BY <1>0, <1>2, <1>11, <2>2 DEF Reports, CopiesAgree
    <3> QED BY <1>11, <2>2, <3>1 DEF Reports
  <2>3. CASE Acquires(r) \/ Tries(r) \/ Drops(r) \/ Copies(r)
    BY <1>11, <2>3 DEF Acquires, Tries, Drops, Copies
  <2> QED BY <1>2, <2>1, <2>2, <2>3 DEF WorkerMove
<1>12. ReportTrue' BY <1>11 DEF ReportTrue
<1>13. AuditsKnown' /\ AuditNeverOverstates'
  <2>1. CASE UNCHANGED audits
    <3>1. \A a \in audits : a.id \in Nat
      BY DEF OwnerInv, LedgerInv, TypeInv, TypeOK, OuterTypes, AuditRow
    <3>0. AuditsKnown' BY <1>0, <2>1, <3>1 DEF AuditsKnown
    <3>2. AuditNeverOverstates'
      BY <1>0, <1>1, <2>1, <3>1 DEF AuditNeverOverstates, AuditsKnown
    <3> QED BY <3>0, <3>2
  <2>2. ASSUME UNCHANGED intent, NEW r \in Requests, NEW s \in Settlement,
               s \in Good => pc[r] = "respond" /\ s = res[r],
               audits' = audits \cup {[id |-> own[r], provider |-> mine[r].outcome,
                                       settlement |-> s]}
        PROVE  AuditsKnown' /\ AuditNeverOverstates'
    <3>1. AuditsKnown' BY <1>0, <2>2 DEF AuditsKnown, OwnersOf
    <3>2. ASSUME NEW a \in audits', a.id = intent'.id, a.settlement \in Good
          PROVE  /\ intent'.status = "settled" /\ intent'.settlement = a.settlement
                 /\ intent'.outcome = a.provider
      <4>1. CASE a \in audits BY <1>0, <2>2, <3>2, <4>1 DEF AuditNeverOverstates, Good
      <4>2. CASE a \notin audits BY <1>0, <2>2, <3>2, <4>2 DEF ReportTrue
      <4> QED BY <4>1, <4>2
    <3>3. AuditNeverOverstates' BY <3>2 DEF AuditNeverOverstates, Good
    <3> QED BY <3>1, <3>3
  <2> QED BY <2>1, <2>2 DEF OwnerMoves, AuditMove
<1> QED BY <1>8, <1>10, <1>12, <1>13

\* The owners, copies, reports and audits of an intent are inductive together.
LEMMA OwnersInductive == Spec => []OwnerInv
<1>1. Init /\ LedgerInv => OwnerInv
  <2> SUFFICES ASSUME Init, LedgerInv PROVE OwnerInv OBVIOUS
  <2>1. /\ intent.id = 0 /\ own = [r \in Requests |-> 0] /\ audits = {}
        /\ mine = [w \in Workers |-> NoClaim]
        /\ pc = [w \in Workers |-> IF w \in Requests THEN "start" ELSE "idle"]
    BY DEF Init
  <2>2. OwnersOf
    BY <2>1 DEF OwnersOf, NoClaim, Owned, SettlePC, Workers
  <2>3. CopiesAgree BY <2>1 DEF CopiesAgree, Copied, SettlePC
  <2>4. ReportTrue BY <2>1 DEF ReportTrue, Workers
  <2>5. AuditsKnown /\ AuditNeverOverstates
    BY <2>1 DEF AuditsKnown, AuditNeverOverstates
  <2> QED BY <2>2, <2>3, <2>4, <2>5 DEF OwnerInv
<1>2. OwnerInv /\ LedgerInv' /\ [Next]_vars => OwnerInv'
  <2> SUFFICES ASSUME OwnerInv, LedgerInv', [Next]_vars PROVE OwnerInv' OBVIOUS
  <2>1. LedgerMove BY LedgerMoves DEF OwnerInv, LedgerInv
  <2> QED BY <2>1, OwnerStep, OwnersKept DEF OwnerInv
<1> QED BY LedgerInductive, <1>1, <1>2, PTL DEF Spec

\* Whichever worker settles the intent, and whatever is lost on the way, an
\* audited settlement is the one the ledger holds, with its outcome.
THEOREM AuditsHonest == Spec => []AuditNeverOverstates
<1>1. OwnerInv => AuditNeverOverstates BY DEF OwnerInv
<1> QED BY OwnersInductive, <1>1, PTL

-----------------------------------------------------------------------------
(* One writer at the provider *)

\* The deadlines of the code hold, so that a provider call ends inside its
\* lease (Punctual) and a call that timed out is over (~LateWrites).
DeadlinesHold == Punctual /\ ~LateWrites

\* Whoever mutates the provider owns the active intent under a live lease, what
\* it is about to record it did, and what is recorded the provider holds.
HoldsLease ==
  \A r \in Requests : pc[r] \in Mutating =>
    own[r] = intent.id /\ intent.status = "active" /\ intent.lease = "live"
DidIt ==
  \A r \in Requests : pc[r] = "record" /\ mine[r].outcome = "success" => password = r
RecordedIsHeld ==
  \A r \in Requests :
    own[r] = intent.id /\ own[r] # 0 /\ PostEpoch /\ intent.outcome = "success"
      => password = r

WriterInv == OwnerInv /\ lateWrites = {} /\ HoldsLease /\ DidIt /\ RecordedIsHeld

\* What a step does to the intent: nothing but its attempts; a new one; the end
\* of its lease; the outcome of its owner, which stops mutating; a takeover; or
\* a step of the settlement.
RowKept    == /\ intent'.id = intent.id /\ intent'.status = intent.status
              /\ intent'.lease = intent.lease /\ intent'.outcome = intent.outcome
RowTaken   == ~NonTerminal /\ AcquireIntent
RowLeft    == \E r \in Requests :
                /\ pc[r] \in {"record", "fail"} /\ mine[r].id = intent.id
                /\ pc'[r] \notin Mutating /\ intent'.id = intent.id
                /\ intent'.outcome = "success" =>
                     pc[r] = "record" /\ mine[r].outcome = "success"
RowSeized  == /\ intent.status = "active" /\ intent.lease = "expired"
              /\ intent'.id = intent.id /\ intent'.outcome = "unknown"
RowSettles == /\ PostEpoch /\ intent'.id = intent.id
              /\ intent'.outcome = intent.outcome
RowMove == RowKept \/ RowTaken \/ LeaseExpires \/ RowLeft \/ RowSeized \/ RowSettles

\* A step either is the provider call of a request ...
Calls(r) ==
  /\ pc[r] = "call" /\ UNCHANGED <<intent, own, lateWrites>>
  /\ pc'[r] = "record" /\ mine'[r].outcome = "success" => password' = r
  /\ \A v \in Requests : v # r => pc'[v] = pc[v] /\ mine'[v] = mine[v]

\* ... or leaves the provider alone, and nobody starts to mutate but the winner
\* of an acquisition.
Quiet ==
  /\ UNCHANGED <<password, lateWrites>>
  /\ \A r \in Requests : pc'[r] \in Mutating =>
       \/ pc'[r] = pc[r] /\ mine'[r] = mine[r] /\ own'[r] = own[r]
       \/ pc'[r] = "call" /\ RowTaken /\ own'[r] = intent'.id

WriterMove == (\E r \in Requests : Calls(r)) \/ (Quiet /\ RowMove)

\* Every step of the system calls the provider as an owner or leaves it alone.
LEMMA WriterStep == DeadlinesHold /\ WriterInv /\ [Next]_vars => WriterMove
<1> SUFFICES ASSUME DeadlinesHold, WriterInv, [Next]_vars PROVE WriterMove OBVIOUS
<1>0. /\ LedgerTypes /\ WorkerTypes /\ RequestTypes /\ SecurityAssumption
      /\ lateWrites = {} /\ ~LateWrites
  BY SecurityAssumption
  DEF WriterInv, OwnerInv, LedgerInv, TypeInv, TypeOK, DeadlinesHold
<1>1. UNCHANGED intent => RowKept BY DEF RowKept
<1>a. ASSUME NEW w \in Workers, NEW l, l \notin Mutating, Goto(w, l), RowMove,
             UNCHANGED <<own, password, lateWrites>>,
             \A v \in Workers : v # w => mine'[v] = mine[v]
      PROVE  WriterMove
  BY <1>0, <1>a DEF Goto, Quiet, WriterMove, WorkerTypes, Workers
<1>b. ASSUME NEW w \in Workers, NEW o, Finish(w, o), RowMove, UNCHANGED outerVars
      PROVE  WriterMove
  <2>1. CASE Owns(w)
    BY <1>a, <1>b, <2>1 DEF Finish, outerVars, Mutating
  <2>2. CASE ~Owns(w)
    <3>1. UNCHANGED own /\ mine' = [mine EXCEPT ![w] = NoClaim]
      BY <1>b, <2>2 DEF Finish, requestVars
    <3>2. \A v \in Workers : v # w => mine'[v] = mine[v] BY <1>0, <3>1 DEF WorkerTypes
    <3> QED BY <1>a, <1>b, <2>2, <3>1, <3>2 DEF Finish, outerVars, Mutating
  <2> QED BY <2>1, <2>2
<1>c. UNCHANGED <<pc, mine, own, password, lateWrites>> /\ RowMove => WriterMove
  BY DEF Quiet, WriterMove
<1> USE DEF Mutating
<1>2. ASSUME NEW l \in Logins, LoginStamp(l) \/ \E s \in Sessions : LoginStore(l, s)
      PROVE WriterMove
  BY <1>1, <1>2, <1>c
  DEF LoginStamp, LoginStore, ledgerVars, outerVars, workVars, requestVars, RowMove
<1>3. ASSUME NEW s \in Sessions, EndSession(s) PROVE WriterMove
  BY <1>1, <1>3, <1>c
  DEF EndSession, ledgerVars, outerVars, workVars, requestVars, RowMove
<1>4. ASSUME NEW s \in Sessions, NEW w \in Recoverers, Promote(s, w)
      PROVE WriterMove
  BY <1>1, <1>4, <1>a, <1>c
  DEF Promote, ledgerVars, outerVars, workVars, requestVars, Workers, RowMove
<1>5. ASSUME LeaseExpires PROVE WriterMove
  BY <1>5, <1>c DEF LeaseExpires, outerVars, workVars, requestVars, RowMove
<1>6. ASSUME NEW r \in Requests, NEW s \in Sessions, Reauthenticate(r, s)
      PROVE WriterMove
  BY <1>1, <1>6, <1>a
  DEF Reauthenticate, ledgerVars, outerVars, workVars, Workers, RowMove
<1>7. ASSUME NEW r \in Requests, ConsumeGrant(r) PROVE WriterMove
  BY <1>1, <1>7, <1>a
  DEF ConsumeGrant, ledgerVars, outerVars, workVars, Workers, RowMove
<1>8. ASSUME NEW r \in Requests, LateCommit(r) PROVE WriterMove
  BY <1>0, <1>8 DEF LateCommit
<1>9. ASSUME NEW r \in Requests, Insert(r) PROVE WriterMove
  <2>1. r \in Workers /\ UNCHANGED <<password, lateWrites>>
    BY <1>9 DEF Insert, Workers, outerVars
  <2>2. CASE /\ ~NonTerminal /\ AcquireIntent /\ Goto(r, "call")
             /\ own' = [own EXCEPT ![r] = intent.id + 1]
             /\ mine' = [mine EXCEPT ![r] = [id |-> intent.id + 1, status |-> "active",
                                             outcome |-> "none"]]
    <3>1. RowTaken /\ intent'.id = intent.id + 1
      BY <2>2 DEF RowTaken, AcquireIntent
    <3>2. own'[r] = intent'.id /\ pc'[r] = "call"
      BY <1>0, <2>1, <2>2, <3>1 DEF Goto, WorkerTypes, RequestTypes
    <3>3. \A v \in Requests : v # r =>
            pc'[v] = pc[v] /\ mine'[v] = mine[v] /\ own'[v] = own[v]
      BY <1>0, <2>1, <2>2 DEF Goto, WorkerTypes, RequestTypes, Workers
    <3>4. Quiet BY <2>1, <3>1, <3>2, <3>3 DEF Quiet
    <3> QED BY <3>1, <3>4 DEF WriterMove, RowMove
  <2>3. CASE /\ Goto(r, "done") /\ UNCHANGED <<own, mine>>
             /\ UNCHANGED intent \/ (~NonTerminal /\ AcquireIntent)
    <3>1. RowMove BY <1>1, <2>3 DEF RowMove, RowTaken
    <3> QED BY <1>a, <2>1, <2>3, <3>1
  <2> QED BY <1>9, <2>2, <2>3 DEF Insert
<1>10. ASSUME NEW r \in Requests, CallProvider(r) PROVE WriterMove
  <2>1. /\ r \in Workers /\ UNCHANGED <<intent, own, lateWrites>> /\ pc[r] = "call"
    BY <1>0, <1>10 DEF CallProvider, Workers, ledgerVars, requestVars
  <2>2. PICK l \in {"record", "fail"}, o \in Outcome :
          /\ Goto(r, l) /\ mine' = [mine EXCEPT ![r].outcome = o]
          /\ o = "success" => password' = r
    BY <1>10 DEF CallProvider, Outcome
  <2>3. mine'[r].outcome = o BY <1>0, <2>1, <2>2 DEF WorkerTypes, Claim
  <2>4. \A v \in Requests : v # r => pc'[v] = pc[v] /\ mine'[v] = mine[v]
    BY <1>0, <2>1, <2>2 DEF Goto, WorkerTypes, Workers
  <2> QED BY <2>1, <2>2, <2>3, <2>4 DEF WriterMove, Calls
<1>11. ASSUME NEW r \in Requests, ReleaseConfirmedFailure(r) PROVE WriterMove
  <2>1. /\ r \in Workers /\ UNCHANGED <<mine, own, password, lateWrites>>
        /\ pc[r] = "fail" /\ Goto(r, "done")
    BY <1>11 DEF ReleaseConfirmedFailure, Workers, workVars, outerVars
  <2>2. CASE UNCHANGED intent BY <1>1, <1>a, <2>1, <2>2 DEF RowMove
  <2>3. CASE /\ Fence(r, "active")
             /\ intent' = [intent EXCEPT !.status = "settled",
                                         !.outcome = "confirmed_failure"]
    <3>1. RowLeft
      BY <1>0, <2>1, <2>3
      DEF RowLeft, Fence, Goto, WorkerTypes, LedgerTypes, IntentRow
    <3> QED BY <1>a, <2>1, <3>1 DEF RowMove
  <2> QED BY <1>11, <2>2, <2>3 DEF ReleaseConfirmedFailure
<1>12. ASSUME NEW r \in Requests, RecordOutcome(r) PROVE WriterMove
  <2>1. /\ r \in Workers /\ UNCHANGED <<own, password, lateWrites>> /\ pc[r] = "record"
    BY <1>12 DEF RecordOutcome, Workers, requestVars, outerVars
  <2>2. PICK l \in {"begin", "lost", "unsure"} : Goto(r, l)
    BY <1>12 DEF RecordOutcome
  <2>3. \A v \in Workers : v # r => mine'[v] = mine[v]
    BY <1>0, <1>12 DEF RecordOutcome, WorkerTypes
  <2>4. CASE UNCHANGED intent BY <1>1, <1>a, <2>1, <2>2, <2>3, <2>4 DEF RowMove
  <2>5. CASE Fence(r, "active") /\ AdvanceEpoch(mine[r].outcome)
    <3>1. RowLeft
      BY <1>0, <2>1, <2>2, <2>5
      DEF RowLeft, Fence, Goto, WorkerTypes, AdvanceEpoch, LedgerTypes, IntentRow
    <3> QED BY <1>a, <2>1, <2>2, <2>3, <3>1 DEF RowMove
  <2> QED BY <1>12, <2>4, <2>5 DEF RecordOutcome, ledgerVars
<1>13. ASSUME NEW r \in Requests, Rotate(r) PROVE WriterMove
  BY <1>1, <1>13, <1>a DEF Rotate, ledgerVars, outerVars, Workers, RowMove
<1>14. ASSUME NEW r \in Requests, Respond(r) PROVE WriterMove
  <2>1. /\ r \in Workers /\ UNCHANGED <<own, password, lateWrites>> /\ Goto(r, "done")
        /\ UNCHANGED intent /\ mine' = [mine EXCEPT ![r] = NoClaim]
    BY <1>14 DEF Respond, Workers, ledgerVars
  <2>2. \A v \in Workers : v # r => mine'[v] = mine[v] BY <1>0, <2>1 DEF WorkerTypes
  <2> QED BY <1>1, <1>a, <2>1, <2>2 DEF RowMove
<1>d. BeginSettlement /\ intent.status = "outcome_recorded" => RowSettles
  BY <1>0 DEF BeginSettlement, RowSettles, PostEpoch, LedgerTypes, IntentRow
<1>e. ASSUME NEW o, SettleAs(o), intent.status = "local_settlement" PROVE RowSettles
  BY <1>0, <1>e DEF SettleAs, RowSettles, PostEpoch, LedgerTypes, IntentRow
<1>15. ASSUME NEW w \in Workers, ReadState(w) PROVE WriterMove
  <2>1. RowMove /\ UNCHANGED outerVars
    BY <1>1, <1>15 DEF ReadState, RowMove, ledgerVars
  <2>2. CASE Finish(w, "none") BY <1>b, <2>1, <2>2
  <2>3. CASE \E l \in {"takeover", "bump"}, c \in Claim :
               /\ Goto(w, l) /\ UNCHANGED requestVars
               /\ mine' = [mine EXCEPT ![w] = c]
    <3>1. \A v \in Workers : v # w => mine'[v] = mine[v]
      BY <1>0, <2>3 DEF WorkerTypes
    <3> QED BY <1>a, <2>1, <2>3, <3>1 DEF requestVars, outerVars
  <2>4. [id |-> intent.id, status |-> intent.status, outcome |-> intent.outcome] \in Claim
    BY <1>0 DEF LedgerTypes, IntentRow, Claim
  <2> QED BY <1>15, <2>2, <2>3, <2>4 DEF ReadState
<1>16. ASSUME NEW w \in Workers, Takeover(w) PROVE WriterMove
  <2>1. RowMove /\ UNCHANGED outerVars
    <3>1. CASE UNCHANGED ledgerVars
      BY <1>1, <1>16, <3>1 DEF Takeover, RowMove, ledgerVars
    <3>2. CASE /\ Fence(w, "active") /\ intent.lease = "expired"
               /\ AdvanceEpoch("unknown")
      BY <1>0, <1>16, <3>2
      DEF Takeover, RowMove, RowSeized, Fence, AdvanceEpoch, LedgerTypes, IntentRow
    <3> QED BY <1>16, <3>1, <3>2 DEF Takeover
  <2>2. CASE Finish(w, "none") BY <1>b, <2>1, <2>2
  <2>3. CASE /\ Goto(w, "bump") /\ UNCHANGED requestVars
             /\ mine' = [mine EXCEPT ![w].status = "outcome_recorded",
                                     ![w].outcome = "unknown"]
    <3>1. \A v \in Workers : v # w => mine'[v] = mine[v]
      BY <1>0, <2>3 DEF WorkerTypes
    <3> QED BY <1>a, <2>1, <2>3, <3>1 DEF requestVars, outerVars
  <2> QED BY <1>16, <2>2, <2>3 DEF Takeover
<1>17. ASSUME NEW w \in Workers, BumpAttempts(w) PROVE WriterMove
  <2>1. RowMove /\ UNCHANGED outerVars
    BY <1>0, <1>17 DEF BumpAttempts, RowMove, RowKept, LedgerTypes, IntentRow
  <2>2. CASE Finish(w, "none") BY <1>b, <2>1, <2>2
  <2>3. CASE /\ UNCHANGED <<workVars, requestVars>>
             /\ \E l \in {"forceBegin", "forceSettle", "begin", "clean"} : Goto(w, l)
    BY <1>a, <2>1, <2>3 DEF workVars, requestVars, outerVars
  <2> QED BY <1>17, <2>2, <2>3 DEF BumpAttempts
<1>18. ASSUME NEW w \in Workers, ForceBegin(w) PROVE WriterMove
  <2>1. RowMove /\ UNCHANGED outerVars
    BY <1>1, <1>18, <1>d DEF ForceBegin, RowMove, Fence
  <2>2. CASE Finish(w, "none") BY <1>b, <2>1, <2>2
  <2>3. CASE UNCHANGED <<workVars, requestVars>> /\ Goto(w, "forceSettle")
    BY <1>a, <2>1, <2>3 DEF workVars, requestVars, outerVars
  <2> QED BY <1>18, <2>2, <2>3 DEF ForceBegin
<1>19. ASSUME NEW w \in Workers, ForceSettle(w) PROVE WriterMove
  <2>1. RowMove BY <1>1, <1>19, <1>e DEF ForceSettle, RowMove, Fence
  <2> QED BY <1>19, <1>b, <2>1 DEF ForceSettle
<1>20. ASSUME NEW w \in Workers, Begin(w) PROVE WriterMove
  <2>1. RowMove /\ UNCHANGED outerVars
    BY <1>1, <1>20, <1>d DEF Begin, RowMove, Fence
  <2>2. CASE Finish(w, "degraded") BY <1>b, <2>1, <2>2
  <2>3. CASE /\ UNCHANGED requestVars
             /\ mine' = [mine EXCEPT ![w].status = "local_settlement"]
             /\ Goto(w, IF Rotates(w) THEN "rotate" ELSE "clean")
    <3>1. \A v \in Workers : v # w => mine'[v] = mine[v]
      BY <1>0, <2>3 DEF WorkerTypes
    <3> QED BY <1>a, <2>1, <2>3, <3>1 DEF requestVars, outerVars
  <2> QED BY <1>20, <2>2, <2>3 DEF Begin
<1>21. ASSUME NEW w \in Workers, Clean(w) PROVE WriterMove
  BY <1>1, <1>21, <1>a DEF Clean, ledgerVars, outerVars, requestVars, RowMove
<1>22. ASSUME NEW w \in Workers, NEW s \in Sessions, CleanOne(w, s)
      PROVE WriterMove
  BY <1>1, <1>22, <1>a, <1>c
  DEF CleanOne, ledgerVars, outerVars, requestVars, RowMove
<1>23. ASSUME NEW w \in Workers, Degrade(w) PROVE WriterMove
  <2>1. RowMove BY <1>1, <1>23, <1>e DEF Degrade, RowMove, Fence
  <2> QED BY <1>23, <1>b, <2>1 DEF Degrade
<1>24. ASSUME NEW w \in Workers, Settle(w) PROVE WriterMove
  <2>1. RowMove /\ UNCHANGED outerVars
    BY <1>1, <1>24, <1>e DEF Settle, RowMove, Fence
  <2> QED BY <1>24, <1>b, <2>1 DEF Settle
<1>25. ASSUME NEW w \in Workers, Crash(w) PROVE WriterMove
  <2>1. RowMove /\ UNCHANGED <<own, password, lateWrites>>
    BY <1>0, <1>1, <1>25 DEF Crash, RowMove, ledgerVars, requestVars, workVars
  <2>2. \A v \in Workers : v # w => mine'[v] = mine[v]
    BY <1>0, <1>25 DEF Crash, workVars, WorkerTypes
  <2> QED BY <1>25, <1>a, <2>1, <2>2 DEF Crash
<1>26. CASE UNCHANGED vars
  BY <1>1, <1>26, <1>c DEF vars, ledgerVars, outerVars, workVars, requestVars, RowMove
<1> QED BY <1>2, <1>3, <1>4, <1>5, <1>6, <1>7, <1>8, <1>9, <1>10, <1>11,
           <1>12, <1>13, <1>14, <1>15, <1>16, <1>17, <1>18, <1>19, <1>20,
           <1>21, <1>22, <1>23, <1>24, <1>25, <1>26
    DEF Next, RequestStep, WorkerStep, RecoverStep, SettleStep

\* The lease protects its owner until it has recorded what it did.
LEMMA WriterKept ==
  ASSUME DeadlinesHold, WriterInv, OwnerInv', WriterMove, OwnerMoves
  PROVE  lateWrites' = {} /\ HoldsLease' /\ DidIt' /\ RecordedIsHeld'
<1>0. /\ OwnersOf /\ lateWrites = {} /\ HoldsLease /\ DidIt /\ RecordedIsHeld
      /\ Punctual /\ LedgerTypes /\ LedgerTypes' /\ intent.id \in Nat
  BY DEF WriterInv, OwnerInv, LedgerInv, TypeInv, TypeOK, DeadlinesHold,
         LedgerTypes, IntentRow
<1>1. \A r \in Requests : pc[r] \in Mutating => own[r] # 0 /\ mine[r].id = own[r]
  BY <1>0 DEF OwnersOf, Mutating, Owned
<1>2. ASSUME NEW r \in Requests, Calls(r)
      PROVE  lateWrites' = {} /\ HoldsLease' /\ DidIt' /\ RecordedIsHeld'
  <2>1. /\ own[r] = intent.id /\ own[r] # 0 /\ intent.status = "active"
        /\ intent.lease = "live" /\ UNCHANGED <<intent, own, lateWrites>>
    BY <1>0, <1>1, <1>2 DEF HoldsLease, Calls, Mutating
  <2>2. \A v \in Requests : v # r =>
          pc[v] \notin Mutating /\ pc'[v] = pc[v] /\ mine'[v] = mine[v]
    BY <1>0, <1>2, <2>1 DEF HoldsLease, Calls, OwnersOf
  <2>3. HoldsLease' BY <2>1, <2>2 DEF HoldsLease
  <2>4. DidIt' BY <1>2, <2>2 DEF DidIt, Calls, Mutating
  <2>5. RecordedIsHeld' BY <2>1 DEF RecordedIsHeld, PostEpoch
  <2> QED BY <1>0, <2>1, <2>3, <2>4, <2>5
<1>3. ASSUME Quiet, RowMove
      PROVE  lateWrites' = {} /\ HoldsLease' /\ DidIt' /\ RecordedIsHeld'
  <2>1. lateWrites' = {} BY <1>0, <1>3 DEF Quiet
  <2>2. ASSUME NEW r \in Requests, pc'[r] \in Mutating
        PROVE  own'[r] = intent'.id /\ intent'.status = "active" /\ intent'.lease = "live"
    <3>1. CASE pc'[r] = "call" /\ RowTaken /\ own'[r] = intent'.id
      BY <3>1 DEF RowTaken, AcquireIntent
    <3>2. CASE pc'[r] = pc[r] /\ own'[r] = own[r]
      <4>1. /\ own[r] = intent.id /\ own[r] # 0 /\ intent.status = "active"
            /\ intent.lease = "live" /\ pc[r] \in Mutating
        BY <1>0, <1>1, <2>2, <3>2 DEF HoldsLease
      <4>2. ~LeaseExpires BY <1>0, <4>1 DEF LeaseExpires, Mutating
      <4>3. ~RowLeft
        BY <1>0, <1>1, <2>2, <4>1 DEF RowLeft, OwnersOf, Mutating
      <4> QED BY <1>3, <3>2, <4>1, <4>2, <4>3
          DEF RowMove, RowKept, RowTaken, NonTerminal, RowSeized, RowSettles, PostEpoch
    <3> QED BY <1>3, <2>2, <3>1, <3>2 DEF Quiet
  <2>3. HoldsLease' BY <2>2 DEF HoldsLease
  <2>4. DidIt' BY <1>0, <1>3 DEF DidIt, Quiet, Mutating
  <2>5. ASSUME NEW r \in Requests, own'[r] = intent'.id, own'[r] # 0, PostEpoch',
               intent'.outcome = "success"
        PROVE  password' = r
    <3>1. intent'.id # intent.id + 1 => own'[r] = own[r]
      BY <2>5
      DEF OwnerMoves, WorkerMove, Walks, Keeps, Acquires, Tries, Copies, Drops,
          Reports, KeepsOwn, Workers
    <3>2. password' = password BY <1>3 DEF Quiet
    <3>3. CASE RowKept
      BY <1>0, <2>5, <3>1, <3>2, <3>3 DEF RowKept, PostEpoch, RecordedIsHeld
    <3>4. CASE RowTaken BY <2>5, <3>4 DEF RowTaken, AcquireIntent, PostEpoch
    <3>5. CASE LeaseExpires
      BY <1>0, <2>5, <3>5 DEF LeaseExpires, PostEpoch, LedgerTypes, IntentRow
    <3>6. CASE RowLeft
      <4>1. PICK v \in Requests :
              /\ pc[v] = "record" /\ mine[v].outcome = "success"
              /\ mine[v].id = intent.id /\ intent'.id = intent.id
        BY <2>5, <3>6 DEF RowLeft
      <4>2. own[v] = intent.id /\ own[v] # 0 /\ password = v
        BY <1>0, <1>1, <4>1 DEF DidIt, Mutating
      <4>3. own[r] = intent.id BY <1>0, <2>5, <3>1, <4>1
      <4> QED BY <1>0, <3>2, <4>2, <4>3 DEF OwnersOf
    <3>7. CASE RowSeized BY <2>5, <3>7 DEF RowSeized
    <3>8. CASE RowSettles
      BY <1>0, <2>5, <3>1, <3>2, <3>8 DEF RowSettles, RecordedIsHeld
    <3> QED BY <1>3, <3>3, <3>4, <3>5, <3>6, <3>7, <3>8 DEF RowMove
  <2>6. RecordedIsHeld' BY <2>5 DEF RecordedIsHeld
  <2> QED BY <2>1, <2>3, <2>4, <2>6
<1> QED BY <1>2, <1>3 DEF WriterMove

\* While deadlines hold, at most one provider call is in flight, and while a
\* confirmed change is settled the provider holds its owner's password.
THEOREM OneWriter == DeadlinesHold => (Spec => []SingleWriter)
<1>1. Init /\ OwnerInv => WriterInv
  BY SecurityAssumption
  DEF SecurityAssumption, Init, WriterInv, HoldsLease, DidIt, RecordedIsHeld,
      Mutating, Workers
<1>2. DeadlinesHold /\ WriterInv /\ OwnerInv' /\ [Next]_vars => WriterInv'
  <2>1. WriterInv /\ [Next]_vars => OwnerMoves BY OwnerStep DEF WriterInv
  <2> QED BY <2>1, WriterStep, WriterKept DEF WriterInv
<1>3. WriterInv => SingleWriter
  <2> SUFFICES ASSUME WriterInv PROVE SingleWriter OBVIOUS
  <2>1. ASSUME NEW r1 \in Requests, NEW r2 \in Requests, pc[r1] = "call", pc[r2] = "call"
        PROVE  r1 = r2
    BY <2>1 DEF WriterInv, OwnerInv, OwnersOf, HoldsLease, Mutating, Owned
  <2> QED BY <2>1 DEF SingleWriter, WriterInv, RecordedIsHeld
<1>4. CASE DeadlinesHold BY OwnersInductive, <1>1, <1>2, <1>3, <1>4, PTL DEF Spec
<1> QED BY <1>4

=============================================================================
