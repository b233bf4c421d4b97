-------------------------- MODULE ConsentDecisionProofs --------------------------
(***************************************************************************)
(* Theorems about the decision of authorization requests.  First           *)
(* ConsentDecision, for any numbers of browsers, reconcilers, requests,    *)
(* users, corrupted rows and faults: the claim makes one browser the       *)
(* holder of a request, and the proofs say what a holder may rely on until *)
(* it has its answer, and that rows and the provider only move forward     *)
(* under it.  Then Authorization, a request's way to the claim, which has  *)
(* a Spec of its own and whose assumption on the constants is a hypothesis *)
(* of each theorem.                                                        *)
(***************************************************************************)
EXTENDS ConsentDecision, Integers, Sequences, TLAPS

-----------------------------------------------------------------------------
(* Types *)

ProviderState == [st: {"open", "expired", "done"}, kind: Kinds \cup {"none"},
                  user: Users \cup {Nobody}]
RowState == [st: {"none", "pending", "provider_succeeded", "succeeded", "failed"},
             kind: Kinds \cup {"none"}, user: Users \cup {Nobody}, at: Nat, stale: BOOLEAN]
GrantState == [st: {"none", "active", "revoked"}, scopes: SUBSET Scopes, revokedAt: Nat]
JobState   == [req: AuthRequests \cup {Nobody}, user: Users \cup {Nobody},
               kind: Kinds \cup {"none"}]
Answers    == {"none", "callback", "decided", "expired", "relogin", "error"}

DataTypes == /\ row \in [AuthRequests -> RowState]
             /\ grant \in [Users -> GrantState]
             /\ audits \in [AuthRequests -> Nat]
BrowserTypes == /\ pc \in [Browsers -> Labels]
                /\ job \in [Browsers -> JobState]
                /\ reply \in [Browsers -> Answers]
OtherTypes == /\ provider \in [AuthRequests -> ProviderState]
              /\ clock \in Nat /\ faults \in Nat
PassTypes == pass \in [Reconcilers ->
               SUBSET [req: AuthRequests, st: {"pending", "provider_succeeded"}]]

\* Past its arrival a browser works on a request, for a user, towards a decision.
JobKnown ==
  \A b \in Browsers : pc[b] # "start" =>
    job[b].req \in AuthRequests /\ job[b].user \in Users /\ job[b].kind \in Kinds

TypeInv == DataTypes /\ BrowserTypes /\ OtherTypes /\ PassTypes /\ JobKnown

LEMMA TypeParts == TypeInv <=> TypeOK /\ JobKnown
  BY DEF TypeInv, TypeOK, DataTypes, BrowserTypes, OtherTypes, PassTypes, ProviderState,
         RowState, GrantState, JobState, Answers

LEMMA InitType == Init => TypeInv
  BY DEF Init, TypeInv, DataTypes, BrowserTypes, OtherTypes, PassTypes, JobKnown,
         ProviderState, RowState, GrantState, JobState, Answers, Labels, NoJob

\* A fault is counted.
LEMMA StumbleTypes == ASSUME OtherTypes, Stumble PROVE faults' \in Nat
  BY DEF Stumble, OtherTypes

\* The operators that several actions share keep the types.
LEMMA GotoTypes ==
  ASSUME BrowserTypes, JobKnown, NEW b \in Browsers, NEW l \in Labels, Goto(b, l),
         pc[b] # "start"
  PROVE  BrowserTypes' /\ JobKnown'
  BY DEF BrowserTypes, JobKnown, Goto

LEMMA EndTypes ==
  ASSUME BrowserTypes, JobKnown, NEW b \in Browsers, NEW x \in Answers, End(b, x),
         pc[b] # "start"
  PROVE  BrowserTypes' /\ JobKnown'
  BY DEF BrowserTypes, JobKnown, End, Labels

LEMMA FailRowTypes ==
  ASSUME DataTypes, NEW a \in AuthRequests, FailRow(a) PROVE DataTypes'
  BY DEF DataTypes, FailRow, RowState

LEMMA CommitTypes ==
  ASSUME DataTypes, NEW a \in AuthRequests, Commit(a) PROVE DataTypes'
<1>1. row' \in [AuthRequests -> RowState] BY DEF DataTypes, Commit, RowState
<1>2. audits' \in [AuthRequests -> Nat] BY DEF DataTypes, Commit
<1>3. Asks[a] \subseteq Scopes BY DEF Scopes
<1>4. grant' \in [Users -> GrantState]
  BY <1>3 DEF DataTypes, Commit, GrantState
<1> QED BY <1>1, <1>2, <1>4 DEF DataTypes

LEMMA RepairTypes ==
  ASSUME DataTypes, OtherTypes, NEW a \in AuthRequests, RepairForward(a)
  PROVE  DataTypes' /\ faults' \in Nat
<1>1. ASSUME UNCHANGED dataVars PROVE DataTypes' BY <1>1 DEF dataVars, DataTypes
<1>2. faults' \in Nat BY StumbleTypes DEF RepairForward, OtherTypes
<1> QED BY <1>1, <1>2, CommitTypes DEF RepairForward

LEMMA InsertTypes ==
  ASSUME DataTypes, OtherTypes, BrowserTypes, NEW b \in Browsers, Insert(b),
         job[b].req \in AuthRequests
  PROVE  DataTypes' /\ clock' \in Nat
<1>1. job[b].kind \in Kinds \cup {"none"} /\ job[b].user \in Users \cup {Nobody}
  BY DEF BrowserTypes, JobState
<1> QED BY <1>1 DEF DataTypes, OtherTypes, Insert, RowState

\* Every step of the handlers, the reconciler and the world keeps the types.
LEMMA StepType == TypeInv /\ [Next]_vars => TypeInv'
<1> SUFFICES ASSUME TypeInv, [Next]_vars PROVE TypeInv' OBVIOUS
<1>0. DataTypes /\ BrowserTypes /\ OtherTypes /\ PassTypes /\ JobKnown BY DEF TypeInv
<1> USE <1>0
<1>k. \A b \in Browsers : pc[b] # "start" =>
        job[b].req \in AuthRequests /\ job[b].user \in Users /\ job[b].kind \in Kinds
  BY DEF JobKnown
<1>d. UNCHANGED dataVars => DataTypes' BY DEF dataVars, DataTypes
<1>f. Stumble => faults' \in Nat BY StumbleTypes
<1>g. faults \in Nat /\ clock \in Nat BY DEF OtherTypes
<1>b. UNCHANGED browserVars => BrowserTypes' /\ JobKnown'
  BY DEF browserVars, BrowserTypes, JobKnown
<1>p. UNCHANGED pass => PassTypes' BY DEF PassTypes
<1>o. UNCHANGED provider /\ clock' \in Nat /\ faults' \in Nat => OtherTypes'
  BY DEF OtherTypes
<1>1. ASSUME NEW b \in Browsers, NEW a \in AuthRequests, NEW u \in Users,
             ArriveInteractive(b, a, u) \/ ArriveSilent(b, a, u)
      PROVE  TypeInv'
  <2>1. UNCHANGED <<provider, dataVars, clock, pass, faults>>
    BY <1>1 DEF ArriveInteractive, ArriveSilent
  <2>2. PICK k \in Kinds : job' = [job EXCEPT ![b] = [req |-> a, user |-> u, kind |-> k]]
    BY <1>1 DEF ArriveInteractive, ArriveSilent, Kinds
  <2>3. job' \in [Browsers -> JobState] BY <2>2 DEF BrowserTypes, JobState
  <2>4. \E l \in Labels : pc' = [pc EXCEPT ![b] = l]
    BY <1>1 DEF ArriveInteractive, ArriveSilent, Labels
  <2>5. reply' = reply \/ \E x \in Answers : reply' = [reply EXCEPT ![b] = x]
    BY <1>1 DEF ArriveInteractive, ArriveSilent, Answers
  <2>6. BrowserTypes' BY <2>3, <2>4, <2>5 DEF BrowserTypes
  <2>7. JobKnown' BY <2>2, <2>4 DEF BrowserTypes, JobKnown
  <2> QED BY <1>d, <1>p, <1>o, <1>g, <2>1, <2>6, <2>7 DEF TypeInv
<1>2. ASSUME NEW b \in Browsers,
             GrantStatus(b) \/ GrantScopes(b) \/ ReadSilent(b)
      PROVE  TypeInv'
  <2>1. UNCHANGED <<provider, dataVars, clock, pass, faults>>
    BY <1>2 DEF GrantStatus, GrantScopes, ReadSilent
  <2>2. pc[b] # "start" BY <1>2 DEF GrantStatus, GrantScopes, ReadSilent
  <2>3. \/ \E l \in Labels : Goto(b, l)
        \/ \E x \in Answers : End(b, x)
    BY <1>2 DEF GrantStatus, GrantScopes, ReadSilent, Labels, Answers
  <2>4. BrowserTypes' /\ JobKnown' BY <2>2, <2>3, GotoTypes, EndTypes
  <2> QED BY <1>d, <1>p, <1>o, <1>g, <2>1, <2>4 DEF TypeInv
<1>3. ASSUME NEW b \in Browsers, ReadForError(b) PROVE TypeInv'
  <2>1. job' \in [Browsers -> JobState]
    BY ZenonT(120), <1>3 DEF ReadForError, BrowserTypes, JobState, Kinds
  <2>2. BrowserTypes' BY <1>3, <2>1 DEF ReadForError, BrowserTypes, Labels, Answers
  <2>3. JobKnown' BY <1>3, <1>k DEF ReadForError, BrowserTypes, JobState, JobKnown, Kinds
  <2> QED BY <1>3, <1>d, <1>p, <1>o, <1>g, <2>2, <2>3 DEF ReadForError, TypeInv
<1>4. ASSUME NEW b \in Browsers, Claim(b) PROVE TypeInv'
  <2>1. pc[b] # "start" BY <1>4 DEF Claim
  <2>2. \/ \E l \in Labels : Goto(b, l)
        \/ \E x \in Answers : End(b, x)
    BY <1>4 DEF Claim, Labels, Answers
  <2>3. BrowserTypes' /\ JobKnown' BY <2>1, <2>2, GotoTypes, EndTypes
  <2>4. Insert(b) \/ UNCHANGED <<dataVars, clock>> BY <1>4 DEF Claim
  <2>5. DataTypes' /\ clock' \in Nat
    BY <1>d, <1>g, <1>k, <2>1, <2>4, InsertTypes
  <2>6. faults' \in Nat BY <1>4, <1>f, <1>g DEF Claim
  <2> QED BY <1>4, <1>p, <1>o, <2>3, <2>5, <2>6 DEF Claim, TypeInv
<1>5. ASSUME NEW b \in Browsers, Complete(b) PROVE TypeInv'
  <2>1. pc[b] # "start" BY <1>5 DEF Complete
  <2>2. \E l \in Labels : Goto(b, l) BY <1>5 DEF Complete, Labels
  <2>3. BrowserTypes' /\ JobKnown' BY <2>1, <2>2, GotoTypes
  <2>4. OtherTypes'
    BY <1>5, <1>k, <2>1 DEF Complete, OtherTypes, ProviderState
  <2> QED BY <1>5, <1>d, <1>p, <2>3, <2>4 DEF Complete, TypeInv
<1>6. ASSUME NEW b \in Browsers, Fail(b) PROVE TypeInv'
  <2>1. pc[b] # "start" BY <1>6 DEF Fail
  <2>2. BrowserTypes' /\ JobKnown' BY <1>6, <2>1, EndTypes DEF Fail, Answers
  <2>3. DataTypes' BY <1>6, <1>d, <1>k, <2>1, FailRowTypes DEF Fail
  <2>4. faults' \in Nat BY <1>6, <1>f, <1>g DEF Fail
  <2> QED BY <1>6, <1>p, <1>o, <1>g, <2>2, <2>3, <2>4 DEF Fail, TypeInv
<1>7. ASSUME NEW b \in Browsers, Prove(b) PROVE TypeInv'
  <2>1. pc[b] # "start" BY <1>7 DEF Prove
  <2>2. \/ \E l \in Labels : Goto(b, l)
        \/ \E x \in Answers : End(b, x)
    BY <1>7 DEF Prove, Labels, Answers
  <2>3. BrowserTypes' /\ JobKnown' BY <2>1, <2>2, GotoTypes, EndTypes
  <2>4. DataTypes' BY <1>7, <1>k, <2>1 DEF Prove, DataTypes, RowState
  <2>5. faults' \in Nat BY <1>7, <1>f, <1>g DEF Prove
  <2> QED BY <1>7, <1>p, <1>o, <1>g, <2>3, <2>4, <2>5 DEF Prove, TypeInv
<1>8. ASSUME NEW b \in Browsers, CommitAndAnswer(b) \/ RepairAsLoser(b) PROVE TypeInv'
  <2>1. pc[b] # "start" BY <1>8 DEF CommitAndAnswer, RepairAsLoser
  <2>2. BrowserTypes' /\ JobKnown'
    BY <1>8, <2>1, EndTypes DEF CommitAndAnswer, RepairAsLoser, Answers
  <2>3. DataTypes' /\ faults' \in Nat
    BY <1>8, <1>k, <2>1, RepairTypes DEF CommitAndAnswer, RepairAsLoser
  <2> QED BY <1>8, <1>p, <1>o, <1>g, <2>2, <2>3 DEF CommitAndAnswer, RepairAsLoser, TypeInv
<1>9. ASSUME NEW b \in Browsers, Crash(b) PROVE TypeInv'
  <2>1. BrowserTypes' /\ JobKnown' BY <1>9, GotoTypes DEF Crash, Labels
  <2> QED BY <1>9, <1>d, <1>f, <1>g, <1>p, <1>o, <2>1 DEF Crash, TypeInv
<1>10. ASSUME NEW r \in Reconcilers, List(r) PROVE TypeInv'
  <2>1. ASSUME NEW a \in AuthRequests, InFlight(a)
        PROVE  [req |-> a, st |-> row[a].st]
                 \in [req: AuthRequests, st: {"pending", "provider_succeeded"}]
    BY <2>1 DEF InFlight
  <2>2. PassTypes' BY <1>10, <2>1 DEF List, PassTypes
  <2> QED BY <1>10, <1>d, <1>b, <1>o, <1>g, <2>2 DEF List, TypeInv
<1>11. ASSUME NEW r \in Reconcilers, Visit(r) PROVE TypeInv'
  <2>1. PICK op \in pass[r] :
          /\ SkipFailed(r, op)
          /\ \/ RepairForward(op.req)
             \/ FailRow(op.req) /\ (UNCHANGED faults \/ Stumble)
             \/ UNCHANGED dataVars /\ (UNCHANGED faults \/ Stumble)
    BY <1>11 DEF Visit
  <2>2. op.req \in AuthRequests BY DEF PassTypes
  <2>3. UNCHANGED <<provider, clock, browserVars>> BY <1>11 DEF Visit
  <2>4. DataTypes' /\ faults' \in Nat
    BY <1>d, <1>f, <1>g, <2>1, <2>2, RepairTypes, FailRowTypes
  <2>5. PassTypes' BY <2>1 DEF SkipFailed, PassTypes
  <2> QED BY <1>b, <1>o, <1>g, <2>3, <2>4, <2>5 DEF TypeInv
<1>12. ASSUME NEW r \in Reconcilers, AbandonPass(r) PROVE TypeInv'
  <2>1. PassTypes' BY <1>12 DEF AbandonPass, PassTypes
  <2> QED BY <1>12, <1>b, <1>d, <1>f, <1>g, <1>o, <2>1 DEF AbandonPass, TypeInv
<1>13. ASSUME NEW a \in AuthRequests, GrowStale(a) PROVE TypeInv'
  <2>1. DataTypes' BY <1>13 DEF GrowStale, DataTypes, RowState
  <2> QED BY <1>13, <1>b, <1>g, <1>p, <1>o, <2>1 DEF GrowStale, TypeInv
<1>14. ASSUME NEW a \in AuthRequests, Expire(a) PROVE TypeInv'
  <2>1. OtherTypes' BY <1>14 DEF Expire, OtherTypes, ProviderState
  <2> QED BY <1>14, <1>b, <1>d, <1>p, <2>1 DEF Expire, TypeInv
<1>15. ASSUME NEW u \in Users, RevokeGrant(u) PROVE TypeInv'
  <2>a. grant \in [Users -> GrantState] BY DEF DataTypes
  <2>b. \A g \in GrantState, n \in Nat :
          [g EXCEPT !.st = "revoked", !.revokedAt = n] \in GrantState
    BY DEF GrantState
  <2>c. clock + 1 \in Nat BY <1>g
  <2>d. grant' = [grant EXCEPT ![u] = [grant[u] EXCEPT !.st = "revoked", !.revokedAt = clock + 1]]
    BY <1>15 DEF RevokeGrant
  <2>e. grant' \in [Users -> GrantState] BY <2>a, <2>b, <2>c, <2>d
  <2>1. DataTypes' /\ clock' \in Nat
    BY <1>15, <1>g, <2>e DEF RevokeGrant, DataTypes
  <2> QED BY <1>15, <1>b, <1>g, <1>p, <1>o, <2>1 DEF RevokeGrant, TypeInv
<1>16. CASE UNCHANGED vars
  BY <1>16, <1>b, <1>d, <1>g, <1>p, <1>o DEF vars, TypeInv
<1> QED
  BY <1>1, <1>2, <1>3, <1>4, <1>5, <1>6, <1>7, <1>8, <1>9, <1>10, <1>11, <1>12, <1>13,
     <1>14, <1>15, <1>16 DEF Next, Work

LEMMA Typed == Spec => []TypeInv
<1> QED BY InitType, StepType, PTL DEF Spec

\* Whatever interleaves, rows, grants, answers and passes keep their shape.
THEOREM TypeCorrect == Spec => []TypeOK
<1>1. TypeInv => TypeOK BY TypeParts
<1> QED BY Typed, <1>1, PTL

-----------------------------------------------------------------------------
(* The holder of a request *)

Proved == {"provider_succeeded", "succeeded"}

\* The browser that claimed a request and has not given up on it.
Holder(b) == pc[b] \in {"complete", "fail", "prove", "commit"} \/ reply[b] = "callback"

\* A callback is the last thing a browser gets.
CallbackLast == \A b \in Browsers : reply[b] = "callback" => pc[b] = "done"

\* A request has one holder, and its row is the holder's decision.
SoleHolder ==
  \A b, c \in Browsers : Holder(b) /\ Holder(c) /\ job[b].req = job[c].req => b = c
HolderRow ==
  \A b \in Browsers : Holder(b) =>
    LET r == row[job[b].req] IN
    r.st # "none" /\ r.kind = job[b].kind /\ r.user = job[b].user

\* A holder about to ask is the first to ask; past its success the provider
\* did what it asked for, and past the proof the row says so.
FirstToAsk == \A b \in Browsers : pc[b] = "complete" => provider[job[b].req].st # "done"
ProviderDid ==
  \A b \in Browsers : pc[b] \in {"prove", "commit"} \/ reply[b] = "callback" =>
    provider[job[b].req] = [st |-> "done", kind |-> job[b].kind, user |-> job[b].user]
ProofOnRow ==
  \A b \in Browsers : pc[b] = "commit" \/ reply[b] = "callback" =>
    row[job[b].req].st \in Proved

\* The provider completes claimed requests only, and a proved row is what it did.
DoneClaimed == \A a \in AuthRequests : provider[a].st = "done" => row[a].st # "none"
ProvedIsDone ==
  \A a \in AuthRequests : row[a].st \in Proved =>
    provider[a] = [st |-> "done", kind |-> row[a].kind, user |-> row[a].user]

HolderInv == /\ TypeInv /\ CallbackLast /\ SoleHolder /\ HolderRow /\ FirstToAsk
             /\ ProviderDid /\ ProofOnRow /\ DoneClaimed /\ ProvedIsDone

-----------------------------------------------------------------------------
(* What a step can do to rows, to the provider and to a holder *)

\* Rows are claimed once, keep their decision, and keep their proof.
RowForward(x, y) ==
  /\ x.st # "none" => y.st # "none" /\ y.kind = x.kind /\ y.user = x.user
  /\ x.st \in Proved => y.st \in Proved
RowsForward == \A a \in AuthRequests : RowForward(row[a], row'[a])

\* What the provider has done it has done, and only a holder makes it.
ProviderForward ==
  \A a \in AuthRequests :
    /\ provider[a].st = "done" => provider'[a] = provider[a]
    /\ provider[a].st # "done" /\ provider'[a].st = "done" =>
         \E b \in Browsers : pc[b] = "complete" /\ pc'[b] # "complete" /\ job[b].req = a

\* Only the holder proves.
ProvedByHolder ==
  \A a \in AuthRequests : row[a].st \notin Proved /\ row'[a].st \in Proved =>
    \E b \in Browsers : pc[b] = "prove" /\ job[b].req = a

\* The ways of a browser as a holder.
Rests(b)  == pc'[b] = pc[b] /\ job'[b] = job[b] /\ reply'[b] = reply[b]
Leaves(b) == ~Holder(b)'
Takes(b) ==
  LET a == job[b].req IN
  /\ pc[b] = "claim" /\ pc'[b] = "complete" /\ job'[b] = job[b] /\ reply'[b] = reply[b]
  /\ row[a].st = "none" /\ UNCHANGED provider
  /\ row'[a].st = "pending" /\ row'[a].kind = job[b].kind /\ row'[a].user = job[b].user
  /\ \A c \in Browsers \ {b} : Rests(c)
Completes(b) ==
  LET a == job[b].req IN
  /\ pc[b] = "complete" /\ pc'[b] \in {"prove", "fail"}
  /\ job'[b] = job[b] /\ reply'[b] = reply[b]
  /\ pc'[b] = "prove" =>
       provider'[a] = [st |-> "done", kind |-> job[b].kind, user |-> job[b].user]
Proves(b) ==
  /\ pc[b] = "prove" /\ pc'[b] = "commit" /\ job'[b] = job[b] /\ reply'[b] = reply[b]
  /\ row'[job[b].req].st \in Proved
Replies(b) ==
  pc[b] = "commit" /\ pc'[b] = "done" /\ job'[b] = job[b]

HolderMove(b) ==
  Rests(b) \/ Leaves(b) \/ Takes(b) \/ Completes(b) \/ Proves(b) \/ Replies(b)
HolderMoves == \A b \in Browsers : HolderMove(b)

Moves == RowsForward /\ ProviderForward /\ ProvedByHolder /\ HolderMoves

\* A browser that goes elsewhere, or ends, leaves the others alone.
LEMMA OthersRest ==
  ASSUME BrowserTypes, NEW b \in Browsers,
         (\E l : Goto(b, l)) \/ (\E x : End(b, x))
  PROVE  (\A c \in Browsers \ {b} : Rests(c)) /\ job' = job
  BY DEF BrowserTypes, Goto, End, Rests

LEMMA GotoLeaves ==
  ASSUME BrowserTypes, CallbackLast, NEW b \in Browsers, NEW l, Goto(b, l), pc[b] # "done",
         l \notin {"complete", "fail", "prove", "commit"}
  PROVE  HolderMoves
<1>1. Leaves(b) BY DEF BrowserTypes, CallbackLast, Goto, Leaves, Holder
<1> QED BY <1>1, OthersRest DEF HolderMoves, HolderMove

LEMMA EndLeaves ==
  ASSUME BrowserTypes, NEW b \in Browsers, NEW x, End(b, x), x # "callback"
  PROVE  HolderMoves
<1>1. Leaves(b) BY DEF BrowserTypes, End, Leaves, Holder
<1> QED BY <1>1, OthersRest DEF HolderMoves, HolderMove

\* The transactions on a row other than its claim and its proof.
LEMMA RowSteps ==
  ASSUME DataTypes, NEW a \in AuthRequests,
         FailRow(a) \/ RepairForward(a) \/ UNCHANGED dataVars
  PROVE  RowsForward /\ ProvedByHolder
<1>1. CASE FailRow(a)
  BY <1>1 DEF DataTypes, RowState, FailRow, RowsForward, RowForward, ProvedByHolder, Proved
<1>2. CASE Commit(a)
  BY <1>2 DEF DataTypes, RowState, Commit, Committable, RowsForward, RowForward,
              ProvedByHolder, Proved
<1>3. CASE UNCHANGED dataVars
  BY <1>3 DEF dataVars, RowsForward, RowForward, ProvedByHolder
<1> QED BY <1>1, <1>2, <1>3 DEF RepairForward

\* Every step is such a move of rows, provider and holders.
LEMMA StepMoves == TypeInv /\ CallbackLast /\ [Next]_vars => Moves
<1> SUFFICES ASSUME TypeInv, CallbackLast, [Next]_vars PROVE Moves OBVIOUS
<1>0. DataTypes /\ BrowserTypes /\ OtherTypes /\ PassTypes /\ JobKnown BY DEF TypeInv
<1> USE <1>0
<1>k. \A b \in Browsers : pc[b] # "start" =>
        job[b].req \in AuthRequests /\ job[b].user \in Users /\ job[b].kind \in Kinds
  BY DEF JobKnown
<1>p. UNCHANGED provider => ProviderForward BY DEF ProviderForward
<1>r. UNCHANGED row => RowsForward /\ ProvedByHolder
  BY DEF RowsForward, RowForward, ProvedByHolder
<1>b. UNCHANGED browserVars => HolderMoves
  BY DEF browserVars, HolderMoves, HolderMove, Rests
<1>1. ASSUME NEW b \in Browsers, NEW a \in AuthRequests, NEW u \in Users,
             ArriveInteractive(b, a, u) \/ ArriveSilent(b, a, u)
      PROVE  Moves
  <2>1. pc[b] = "start" /\ UNCHANGED <<provider, dataVars>>
    BY <1>1 DEF ArriveInteractive, ArriveSilent
  <2>2. \E l \in {"claim", "done", "precheck", "errorRead"} : pc' = [pc EXCEPT ![b] = l]
    BY <1>1 DEF ArriveInteractive, ArriveSilent
  <2>3. \/ reply' = reply
        \/ \E x \in {"expired", "relogin"} : reply' = [reply EXCEPT ![b] = x]
    BY <1>1 DEF ArriveInteractive, ArriveSilent
  <2>4. \E j : job' = [job EXCEPT ![b] = j]
    BY <1>1 DEF ArriveInteractive, ArriveSilent
  <2>5. Leaves(b) BY <2>1, <2>2, <2>3 DEF BrowserTypes, CallbackLast, Leaves, Holder
  <2>6. \A c \in Browsers \ {b} : Rests(c)
    BY <2>2, <2>3, <2>4 DEF BrowserTypes, Rests
  <2> QED BY <1>p, <1>r, <2>1, <2>5, <2>6 DEF dataVars, Moves, HolderMoves, HolderMove
<1>2. ASSUME NEW b \in Browsers,
             GrantStatus(b) \/ GrantScopes(b) \/ ReadSilent(b)
      PROVE  Moves
  <2>1. pc[b] # "done" /\ UNCHANGED <<provider, dataVars>>
    BY <1>2 DEF GrantStatus, GrantScopes, ReadSilent
  <2>2. \/ \E l \in {"errorRead", "prescopes", "rescopes", "silent", "claim", "recheck"} :
             Goto(b, l)
        \/ End(b, "expired")
    BY <1>2 DEF GrantStatus, GrantScopes, ReadSilent
  <2>3. HolderMoves BY <2>1, <2>2, GotoLeaves, EndLeaves
  <2> QED BY <1>p, <1>r, <2>1, <2>3 DEF dataVars, Moves
<1>3. ASSUME NEW b \in Browsers, ReadForError(b) PROVE Moves
  <2>1. Leaves(b) BY <1>3 DEF ReadForError, BrowserTypes, CallbackLast, Leaves, Holder
  <2>2. \A c \in Browsers \ {b} : Rests(c)
    BY <1>3 DEF ReadForError, BrowserTypes, Rests
  <2> QED BY <1>3, <1>p, <1>r, <2>1, <2>2
      DEF ReadForError, dataVars, Moves, HolderMoves, HolderMove
<1>4. ASSUME NEW b \in Browsers, Claim(b) PROVE Moves
  <2>1. pc[b] = "claim" /\ UNCHANGED provider BY <1>4 DEF Claim
  <2>2. CASE Claimable(job[b].req) /\ Insert(b)
    <3>1. RowsForward /\ ProvedByHolder
      BY <2>1, <2>2, <1>k DEF Claimable, Insert, DataTypes, RowState, RowsForward,
         RowForward, ProvedByHolder, Proved
    <3>2. CASE Goto(b, "complete")
      <4>1. Takes(b)
        BY <2>1, <2>2, <3>2, <1>k, OthersRest
        DEF Claimable, Insert, DataTypes, RowState, BrowserTypes, Goto, Takes
      <4> QED BY <2>1, <3>1, <3>2, <4>1, <1>p, OthersRest DEF Moves, HolderMoves, HolderMove
    <3>3. CASE End(b, "error")
      BY <2>1, <3>1, <3>3, <1>p, EndLeaves DEF Moves
    <3> QED BY <1>4, <2>2, <3>2, <3>3 DEF Claim
  <2>3. CASE UNCHANGED dataVars /\ (Goto(b, "repair") \/ End(b, "decided") \/ End(b, "error"))
    <3>1. HolderMoves BY <2>1, <2>3, GotoLeaves, EndLeaves
    <3> QED BY <1>p, <1>r, <2>1, <2>3, <3>1 DEF dataVars, Moves
  <2> QED BY <1>4, <2>2, <2>3 DEF Claim
<1>5. ASSUME NEW b \in Browsers, Complete(b) PROVE Moves
  <2>1. pc[b] = "complete" /\ job[b].req \in AuthRequests BY <1>5, <1>k DEF Complete
  <2>2. PICK l \in {"prove", "fail"} : Goto(b, l) BY <1>5 DEF Complete
  <2>3. Completes(b)
    BY <1>5, <2>1, <2>2 DEF Complete, Goto, BrowserTypes, OtherTypes, Completes
  <2>4. pc'[b] # "complete" BY <2>2 DEF Goto, BrowserTypes
  <2>5. ProviderForward
    BY <1>5, <2>1, <2>4 DEF Complete, OtherTypes, ProviderForward
  <2> QED BY <1>5, <1>r, <2>2, <2>3, <2>5, OthersRest
      DEF Complete, dataVars, Moves, HolderMoves, HolderMove
<1>6. ASSUME NEW b \in Browsers, Fail(b) PROVE Moves
  <2>1. job[b].req \in AuthRequests BY <1>6, <1>k DEF Fail
  <2>2. RowsForward /\ ProvedByHolder BY <1>6, <2>1, RowSteps DEF Fail
  <2>3. HolderMoves BY <1>6, EndLeaves DEF Fail
  <2> QED BY <1>6, <1>p, <2>2, <2>3 DEF Fail, Moves
<1>7. ASSUME NEW b \in Browsers, Prove(b) PROVE Moves
  <2>1. pc[b] = "prove" /\ job[b].req \in AuthRequests BY <1>7, <1>k DEF Prove
  <2>2. RowsForward /\ ProvedByHolder
    BY <1>7, <2>1 DEF Prove, Provable, DataTypes, RowState, RowsForward, RowForward,
       ProvedByHolder, Proved
  <2>3. CASE Goto(b, "commit")
    <3>1. row'[job[b].req].st \in Proved
      BY <1>7, <2>1, <2>3 DEF Prove, End, Goto, BrowserTypes, DataTypes, RowState, Proved
    <3>2. Proves(b) BY <2>1, <2>3, <3>1 DEF Goto, BrowserTypes, Proves
    <3> QED BY <1>7, <1>p, <2>2, <2>3, <3>2, OthersRest
        DEF Prove, Moves, HolderMoves, HolderMove
  <2>4. CASE End(b, "decided")
    BY <1>7, <1>p, <2>2, <2>4, EndLeaves DEF Prove, Moves
  <2> QED BY <1>7, <2>3, <2>4 DEF Prove
<1>8. ASSUME NEW b \in Browsers, CommitAndAnswer(b) PROVE Moves
  <2>1. pc[b] = "commit" /\ job[b].req \in AuthRequests BY <1>8, <1>k DEF CommitAndAnswer
  <2>2. RowsForward /\ ProvedByHolder BY <1>8, <2>1, RowSteps DEF CommitAndAnswer
  <2>3. Replies(b) BY <1>8, <2>1 DEF CommitAndAnswer, End, BrowserTypes, Replies
  <2> QED BY <1>8, <1>p, <2>2, <2>3, OthersRest
      DEF CommitAndAnswer, Moves, HolderMoves, HolderMove
<1>9. ASSUME NEW b \in Browsers, RepairAsLoser(b) PROVE Moves
  <2>1. job[b].req \in AuthRequests BY <1>9, <1>k DEF RepairAsLoser
  <2>2. RowsForward /\ ProvedByHolder BY <1>9, <2>1, RowSteps DEF RepairAsLoser
  <2>3. HolderMoves BY <1>9, EndLeaves DEF RepairAsLoser
  <2> QED BY <1>9, <1>p, <2>2, <2>3 DEF RepairAsLoser, Moves
<1>10. ASSUME NEW b \in Browsers, Crash(b) PROVE Moves
  <2>1. HolderMoves BY <1>10, GotoLeaves DEF Crash
  <2> QED BY <1>10, <1>p, <1>r, <2>1 DEF Crash, dataVars, Moves
<1>11. ASSUME NEW r \in Reconcilers, List(r) \/ AbandonPass(r) PROVE Moves
  BY <1>11, <1>p, <1>r, <1>b DEF List, AbandonPass, dataVars, Moves
<1>12. ASSUME NEW r \in Reconcilers, Visit(r) PROVE Moves
  <2>1. PICK op \in pass[r] : FailRow(op.req) \/ RepairForward(op.req) \/ UNCHANGED dataVars
    BY <1>12 DEF Visit
  <2>2. op.req \in AuthRequests BY DEF PassTypes
  <2> QED BY <1>12, <1>p, <1>b, <2>1, <2>2, RowSteps DEF Visit, Moves
<1>13. ASSUME NEW a \in AuthRequests, GrowStale(a) PROVE Moves
  <2>1. RowsForward /\ ProvedByHolder
    BY <1>13 DEF GrowStale, DataTypes, RowState, RowsForward, RowForward, ProvedByHolder, Proved
  <2> QED BY <1>13, <1>p, <1>b, <2>1 DEF GrowStale, Moves
<1>14. ASSUME NEW a \in AuthRequests, Expire(a) PROVE Moves
  <2>1. ProviderForward BY <1>14 DEF Expire, OtherTypes, ProviderState, ProviderForward
  <2> QED BY <1>14, <1>r, <1>b, <2>1 DEF Expire, dataVars, Moves
<1>15. ASSUME NEW u \in Users, RevokeGrant(u) PROVE Moves
  BY <1>15, <1>p, <1>r, <1>b DEF RevokeGrant, Moves
<1>16. CASE UNCHANGED vars BY <1>16, <1>p, <1>r, <1>b DEF vars, dataVars, Moves
<1> QED
  BY <1>1, <1>2, <1>3, <1>4, <1>5, <1>6, <1>7, <1>8, <1>9, <1>10, <1>11, <1>12, <1>13,
     <1>14, <1>15, <1>16 DEF Next, Work

-----------------------------------------------------------------------------
(* The holder keeps its request *)

LEMMA HolderInit == Init => HolderInv
<1> SUFFICES ASSUME Init PROVE HolderInv OBVIOUS
<1>1. \A b \in Browsers : ~Holder(b) /\ pc[b] = "start" /\ reply[b] = "none"
  BY DEF Init, Holder
<1>2. \A a \in AuthRequests : provider[a].st = "open" /\ row[a].st = "none" BY DEF Init
<1> QED BY <1>1, <1>2, InitType
        DEF HolderInv, CallbackLast, SoleHolder, HolderRow, FirstToAsk, ProviderDid, ProofOnRow,
            DoneClaimed, ProvedIsDone, Proved

LEMMA HolderStep == HolderInv /\ [Next]_vars => HolderInv'
<1> SUFFICES ASSUME HolderInv, [Next]_vars PROVE HolderInv' OBVIOUS
<1>0. /\ TypeInv /\ CallbackLast /\ SoleHolder /\ HolderRow /\ FirstToAsk
      /\ ProviderDid /\ ProofOnRow /\ DoneClaimed /\ ProvedIsDone
  BY DEF HolderInv
<1>1. TypeInv' BY <1>0, StepType
<1>2. RowsForward /\ ProviderForward /\ ProvedByHolder /\ HolderMoves
  BY <1>0, StepMoves DEF Moves
<1>k. \A b \in Browsers : pc[b] # "start" => job[b].req \in AuthRequests
  BY <1>0 DEF TypeInv, JobKnown
<1>h. \A b \in Browsers : Holder(b) => job[b].req \in AuthRequests
  BY <1>0, <1>k DEF Holder, CallbackLast
<1>3. ASSUME NEW b \in Browsers, Holder(b)'
      PROVE  Takes(b) \/ (Holder(b) /\ job'[b] = job[b])
  BY <1>2, <1>3
  DEF HolderMoves, HolderMove, Rests, Leaves, Completes, Proves, Replies, Holder
<1>4. ASSUME NEW b \in Browsers, Takes(b), NEW c \in Browsers, c # b, Holder(c)'
      PROVE  job'[c].req # job'[b].req
  <2>1. Holder(c) /\ job'[c] = job[c] BY <1>4 DEF Takes, Rests, Holder
  <2> QED BY <1>0, <1>4, <2>1 DEF HolderRow, Takes
<1>5. SoleHolder' BY <1>0, <1>3, <1>4 DEF SoleHolder
<1>6. HolderRow'
  <2> SUFFICES ASSUME NEW b \in Browsers, Holder(b)'
               PROVE  LET r == row'[job'[b].req] IN
                      r.st # "none" /\ r.kind = job'[b].kind /\ r.user = job'[b].user
    BY DEF HolderRow
  <2>1. CASE Takes(b) BY <2>1 DEF Takes
  <2>2. CASE Holder(b) /\ job'[b] = job[b]
    BY <1>0, <1>2, <1>h, <2>2 DEF HolderRow, RowsForward, RowForward
  <2> QED BY <1>3, <2>1, <2>2
<1>7. CallbackLast'
  BY <1>0, <1>2 DEF HolderMoves, HolderMove, CallbackLast, Holder, Rests, Leaves, Takes,
     Completes, Proves, Replies
<1>8. FirstToAsk'
  <2> SUFFICES ASSUME NEW b \in Browsers, pc'[b] = "complete"
               PROVE  provider'[job'[b].req].st # "done"
    BY DEF FirstToAsk
  <2>0. Holder(b)' BY DEF Holder
  <2>1. CASE Takes(b)
    BY <1>0, <1>k, <2>1 DEF Takes, DoneClaimed
  <2>2. CASE ~Takes(b)
    <3>1. pc[b] = "complete" /\ job'[b] = job[b]
      BY <1>2, <2>0, <2>2
      DEF HolderMoves, HolderMove, Rests, Leaves, Completes, Proves, Replies
    <3>2. provider[job[b].req].st # "done" BY <1>0, <3>1 DEF FirstToAsk
    <3>3. ASSUME NEW c \in Browsers, pc[c] = "complete", pc'[c] # "complete"
          PROVE  job[c].req # job[b].req
      BY <1>0, <3>1, <3>3 DEF SoleHolder, Holder
    <3>4. job[b].req \in AuthRequests BY <1>k, <3>1
    <3> QED BY <1>2, <3>1, <3>2, <3>3, <3>4 DEF ProviderForward
  <2> QED BY <2>1, <2>2
<1>9. ProviderDid'
  <2> SUFFICES ASSUME NEW b \in Browsers, pc'[b] \in {"prove", "commit"} \/ reply'[b] = "callback"
               PROVE  provider'[job'[b].req] =
                        [st |-> "done", kind |-> job'[b].kind, user |-> job'[b].user]
    BY DEF ProviderDid
  <2>0. Holder(b)' BY DEF Holder
  <2>1. CASE Completes(b)
    BY <1>0, <1>k, <2>1 DEF Completes, CallbackLast
  <2>2. CASE ~Completes(b)
    <3>1. (pc[b] \in {"prove", "commit"} \/ reply[b] = "callback") /\ job'[b] = job[b]
      BY <1>0, <1>2, <2>0, <2>2
      DEF HolderMoves, HolderMove, Rests, Leaves, Takes, Proves, Replies, CallbackLast
    <3>2. Holder(b) /\ job[b].req \in AuthRequests BY <1>h, <3>1 DEF Holder
    <3> QED BY <1>0, <1>2, <3>1, <3>2 DEF ProviderDid, ProviderForward
  <2> QED BY <2>1, <2>2
<1>10. ProofOnRow'
  <2> SUFFICES ASSUME NEW b \in Browsers, pc'[b] = "commit" \/ reply'[b] = "callback"
               PROVE  row'[job'[b].req].st \in Proved
    BY DEF ProofOnRow
  <2>0. Holder(b)' BY DEF Holder
  <2>1. CASE Proves(b) BY <2>1 DEF Proves
  <2>2. CASE ~Proves(b)
    <3>1. (pc[b] = "commit" \/ reply[b] = "callback") /\ job'[b] = job[b]
      BY <1>0, <1>2, <2>0, <2>2
      DEF HolderMoves, HolderMove, Rests, Leaves, Takes, Completes, Replies, CallbackLast
    <3>2. Holder(b) /\ job[b].req \in AuthRequests BY <1>h, <3>1 DEF Holder
    <3> QED BY <1>0, <1>2, <3>1, <3>2 DEF ProofOnRow, RowsForward, RowForward
  <2> QED BY <2>1, <2>2
<1>11. DoneClaimed'
  <2> SUFFICES ASSUME NEW a \in AuthRequests, provider'[a].st = "done"
               PROVE  row'[a].st # "none"
    BY DEF DoneClaimed
  <2>1. row[a].st # "none"
    BY <1>0, <1>2 DEF DoneClaimed, ProviderForward, HolderRow, Holder
  <2> QED BY <1>2, <2>1 DEF RowsForward, RowForward
<1>12. ProvedIsDone'
  <2> SUFFICES ASSUME NEW a \in AuthRequests, row'[a].st \in Proved
               PROVE  provider'[a] = [st |-> "done", kind |-> row'[a].kind, user |-> row'[a].user]
    BY DEF ProvedIsDone
  <2>1. /\ provider[a] = [st |-> "done", kind |-> row[a].kind, user |-> row[a].user]
        /\ row[a].st # "none"
    <3>1. CASE row[a].st \in Proved BY <1>0, <3>1 DEF ProvedIsDone, Proved
    <3>2. CASE row[a].st \notin Proved
      <4>1. PICK b \in Browsers : pc[b] = "prove" /\ job[b].req = a
        BY <1>2, <3>2 DEF ProvedByHolder
      <4> QED BY <1>0, <4>1 DEF ProviderDid, HolderRow, Holder
    <3> QED BY <3>1, <3>2
  <2> QED BY <1>2, <2>1 DEF RowsForward, RowForward, ProviderForward
<1> QED BY <1>1, <1>5, <1>6, <1>7, <1>8, <1>9, <1>10, <1>11, <1>12 DEF HolderInv

LEMMA HolderInductive == Spec => []HolderInv
<1> QED BY HolderInit, HolderStep, PTL DEF Spec

\* A callback URL goes to the one browser that claimed the request, for a decision
\* that the provider took and the row proves (claimCompleteAndCommit).
THEOREM CallbackGoesToWinner == Spec => []CallbackToWinner
<1>1. ASSUME HolderInv PROVE CallbackToWinner
  <2>1. /\ SoleHolder /\ HolderRow /\ ProviderDid /\ ProofOnRow BY <1>1 DEF HolderInv
  <2> QED BY <2>1
          DEF CallbackToWinner, SoleHolder, HolderRow, ProviderDid, ProofOnRow, Holder, Proved
<1> QED BY HolderInductive, <1>1, PTL

\* Nobody is about to call the provider for a request that somebody else calls it
\* for or has called it for (the INSERT of the operation row).
THEOREM ProviderAskedOnce == Spec => []SingleProviderCall
<1>1. ASSUME HolderInv PROVE SingleProviderCall
  <2>1. SoleHolder /\ FirstToAsk BY <1>1 DEF HolderInv
  <2> QED BY <2>1 DEF SingleProviderCall, SoleHolder, FirstToAsk, Holder
<1> QED BY HolderInductive, <1>1, PTL

-----------------------------------------------------------------------------
(* Effects: audits and grants *)

\* The statements of a step on rows, grants and audits.
SameRow(a)  == /\ row'[a].st = row[a].st /\ row'[a].kind = row[a].kind
               /\ row'[a].user = row[a].user
NoEffect    == (\A a \in AuthRequests : SameRow(a)) /\ UNCHANGED <<grant, audits>>
Revokes(u)  == /\ UNCHANGED <<row, audits>> /\ grant[u].st = "active"
               /\ grant' = [grant EXCEPT ![u].st = "revoked", ![u].revokedAt = clock + 1]
Inserts(b)  == Claimable(job[b].req) /\ Insert(b) /\ pc[b] = "claim"
Attests(a)  == /\ Provable(a) /\ row' = [row EXCEPT ![a].st = "provider_succeeded"]
               /\ UNCHANGED <<grant, audits>>

DataMove ==
  \/ NoEffect
  \/ \E u \in Users : Revokes(u)
  \/ \E b \in Browsers : Inserts(b)
  \/ \E a \in AuthRequests : FailRow(a) \/ Attests(a) \/ Commit(a)

\* No browser is given a callback, or loses it.
SameReplies ==
  \A b \in Browsers : /\ reply'[b] = "callback" <=> reply[b] = "callback"
                      /\ reply[b] = "callback" => job'[b] = job[b]

\* Only CommitAndAnswer gives a callback, and only the effect comes with it.
CallbackMove ==
  \E b \in Browsers : /\ pc[b] = "commit" /\ End(b, "callback")
                      /\ Commit(job[b].req) \/ NoEffect

LEMMA DataMoves == TypeInv /\ CallbackLast /\ [Next]_vars => DataMove /\ (SameReplies \/ CallbackMove)
<1> SUFFICES ASSUME TypeInv, CallbackLast, [Next]_vars
             PROVE  DataMove /\ (SameReplies \/ CallbackMove)
  OBVIOUS
<1>0. DataTypes /\ BrowserTypes /\ OtherTypes /\ PassTypes /\ JobKnown BY DEF TypeInv
<1> USE <1>0
<1>k. \A b \in Browsers : pc[b] # "start" => job[b].req \in AuthRequests BY DEF JobKnown
<1>n. UNCHANGED dataVars => NoEffect BY DEF dataVars, NoEffect, SameRow
<1>b. UNCHANGED browserVars => SameReplies BY DEF browserVars, SameReplies
<1>r. ASSUME NEW a \in AuthRequests, RepairForward(a) PROVE Commit(a) \/ NoEffect
  BY <1>n, <1>r DEF RepairForward
<1>g. ASSUME NEW b \in Browsers, NEW l, Goto(b, l) PROVE SameReplies
  BY <1>g DEF Goto, SameReplies
<1>e. ASSUME NEW b \in Browsers, NEW x, End(b, x), x # "callback", pc[b] # "done"
      PROVE  SameReplies
  BY <1>e DEF End, SameReplies, BrowserTypes, CallbackLast
<1>1. ASSUME NEW b \in Browsers, NEW a \in AuthRequests, NEW u \in Users,
             ArriveInteractive(b, a, u) \/ ArriveSilent(b, a, u)
      PROVE  NoEffect /\ SameReplies
  <2>1. pc[b] = "start" /\ UNCHANGED dataVars
    BY <1>1 DEF ArriveInteractive, ArriveSilent, dataVars
  <2>2. \/ reply' = reply
        \/ \E x \in {"expired", "relogin"} : reply' = [reply EXCEPT ![b] = x]
    BY <1>1 DEF ArriveInteractive, ArriveSilent
  <2>3. \E j : job' = [job EXCEPT ![b] = j] BY <1>1 DEF ArriveInteractive, ArriveSilent
  <2>4. SameReplies BY <2>1, <2>2, <2>3 DEF BrowserTypes, CallbackLast, SameReplies
  <2> QED BY <1>n, <2>1, <2>4
<1>2. ASSUME NEW b \in Browsers,
             GrantStatus(b) \/ GrantScopes(b) \/ ReadSilent(b) \/ Complete(b) \/ Crash(b)
      PROVE  NoEffect /\ SameReplies
  <2>1. UNCHANGED dataVars
    BY <1>2 DEF GrantStatus, GrantScopes, ReadSilent, Complete, Crash, dataVars
  <2>2. (\E l : Goto(b, l)) \/ (End(b, "expired") /\ pc[b] # "done")
    BY <1>2 DEF GrantStatus, GrantScopes, ReadSilent, Complete, Crash
  <2> QED BY <1>n, <1>g, <1>e, <2>1, <2>2
<1>3. ASSUME NEW b \in Browsers, ReadForError(b) PROVE NoEffect /\ SameReplies
  BY <1>3, <1>n DEF ReadForError, BrowserTypes, CallbackLast, SameReplies, dataVars
<1>4. ASSUME NEW b \in Browsers, Claim(b) PROVE (Inserts(b) \/ NoEffect) /\ SameReplies
  <2>1. \/ \E l : Goto(b, l)
        \/ \E x \in {"decided", "error"} : End(b, x) /\ pc[b] # "done"
    BY <1>4 DEF Claim
  <2>2. Inserts(b) \/ UNCHANGED dataVars BY <1>4 DEF Claim, Inserts, dataVars
  <2> QED BY <1>n, <1>g, <1>e, <2>1, <2>2
<1>5. ASSUME NEW b \in Browsers, Fail(b)
      PROVE  (FailRow(job[b].req) \/ NoEffect) /\ SameReplies /\ job[b].req \in AuthRequests
  BY <1>5, <1>k, <1>n, <1>e DEF Fail
<1>6. ASSUME NEW b \in Browsers, Prove(b)
      PROVE  (Attests(job[b].req) \/ NoEffect) /\ SameReplies /\ job[b].req \in AuthRequests
  <2>1. (\E l : Goto(b, l)) \/ (End(b, "decided") /\ pc[b] # "done") BY <1>6 DEF Prove
  <2>2. Attests(job[b].req) \/ UNCHANGED dataVars BY <1>6 DEF Prove, Attests, dataVars
  <2>3. job[b].req \in AuthRequests BY <1>6, <1>k DEF Prove
  <2> QED BY <1>n, <1>g, <1>e, <2>1, <2>2, <2>3
<1>7. ASSUME NEW b \in Browsers, CommitAndAnswer(b)
      PROVE  (Commit(job[b].req) \/ NoEffect) /\ CallbackMove /\ job[b].req \in AuthRequests
  <2>1. pc[b] = "commit" /\ End(b, "callback") BY <1>7 DEF CommitAndAnswer
  <2>2. job[b].req \in AuthRequests BY <1>k, <2>1
  <2>3. Commit(job[b].req) \/ NoEffect BY <1>7, <1>r, <2>2 DEF CommitAndAnswer
  <2> QED BY <2>1, <2>2, <2>3 DEF CallbackMove
<1>8. ASSUME NEW b \in Browsers, RepairAsLoser(b)
      PROVE  (Commit(job[b].req) \/ NoEffect) /\ SameReplies /\ job[b].req \in AuthRequests
  BY <1>8, <1>k, <1>r, <1>e DEF RepairAsLoser
<1>9. ASSUME NEW r \in Reconcilers, List(r) \/ AbandonPass(r) PROVE NoEffect /\ SameReplies
  BY <1>9, <1>n, <1>b DEF List, AbandonPass
<1>10. ASSUME NEW r \in Reconcilers, Visit(r) PROVE DataMove /\ SameReplies
  <2>1. PICK op \in pass[r] : FailRow(op.req) \/ RepairForward(op.req) \/ UNCHANGED dataVars
    BY <1>10 DEF Visit
  <2>2. op.req \in AuthRequests BY DEF PassTypes
  <2> QED BY <1>10, <1>n, <1>r, <1>b, <2>1, <2>2 DEF Visit, DataMove
<1>11. ASSUME NEW a \in AuthRequests, GrowStale(a) PROVE NoEffect /\ SameReplies
  <2>1. NoEffect BY <1>11 DEF GrowStale, DataTypes, RowState, NoEffect, SameRow
  <2> QED BY <1>11, <1>b, <2>1 DEF GrowStale
<1>12. ASSUME NEW a \in AuthRequests, Expire(a) PROVE NoEffect /\ SameReplies
  BY <1>12, <1>n, <1>b DEF Expire
<1>13. ASSUME NEW u \in Users, RevokeGrant(u) PROVE Revokes(u) /\ SameReplies
  BY <1>13, <1>b DEF RevokeGrant, Revokes
<1>14. CASE UNCHANGED vars BY <1>14, <1>n, <1>b DEF vars, dataVars, DataMove
<1> QED
  BY <1>1, <1>2, <1>3, <1>4, <1>5, <1>6, <1>7, <1>8, <1>9, <1>10, <1>11, <1>12, <1>13, <1>14
  DEF Next, Work, DataMove

\* A claimed row is a decision for a user.
RowKnown ==
  \A a \in AuthRequests : row[a].st # "none" => row[a].user \in Users /\ row[a].kind \in Kinds

\* The commit and the audit of a row, and what a grant rests on.
EffectInv == HolderInv /\ AuditExactlyOnce /\ GrantBacked /\ RowKnown

LEMMA EffectInit == Init => EffectInv
<1> SUFFICES ASSUME Init PROVE EffectInv OBVIOUS
<1>1. AuditExactlyOnce BY DEF Init, AuditExactlyOnce
<1>2. GrantBacked BY DEF Init, GrantBacked
<1>3. RowKnown BY DEF Init, RowKnown
<1> QED BY <1>1, <1>2, <1>3, HolderInit DEF EffectInv

LEMMA EffectStep == EffectInv /\ [Next]_vars => EffectInv'
<1> SUFFICES ASSUME EffectInv, [Next]_vars PROVE EffectInv' OBVIOUS
<1>0. HolderInv /\ AuditExactlyOnce /\ GrantBacked /\ RowKnown BY DEF EffectInv
<1>1. HolderInv' BY <1>0, HolderStep
<1>2. /\ TypeInv /\ DataTypes /\ ProvedIsDone /\ JobKnown BY <1>0 DEF HolderInv, TypeInv
<1>3. DataMove BY <1>0, DataMoves DEF HolderInv
<1>4. \A a \in AuthRequests : provider[a].st = "done" => provider'[a] = provider[a]
  BY <1>0, StepMoves DEF HolderInv, Moves, ProviderForward
<1>k. \A b \in Browsers : pc[b] = "claim" => job[b].req \in AuthRequests BY <1>2 DEF JobKnown
<1>5. AuditExactlyOnce'
  <2>1. CASE NoEffect BY <1>0, <2>1 DEF NoEffect, SameRow, AuditExactlyOnce
  <2>2. ASSUME NEW u \in Users, Revokes(u) PROVE AuditExactlyOnce'
    BY <1>0, <2>2 DEF Revokes, AuditExactlyOnce
  <2>3. ASSUME NEW b \in Browsers, Inserts(b) PROVE AuditExactlyOnce'
    BY <1>0, <1>2, <1>k, <2>3
    DEF Inserts, Insert, Claimable, DataTypes, RowState, AuditExactlyOnce
  <2>4. ASSUME NEW a \in AuthRequests, FailRow(a) \/ Attests(a) PROVE AuditExactlyOnce'
    BY <1>0, <1>2, <2>4
    DEF FailRow, Attests, Provable, DataTypes, RowState, AuditExactlyOnce
  <2>5. ASSUME NEW a \in AuthRequests, Commit(a) PROVE AuditExactlyOnce'
    BY <1>0, <1>2, <2>5 DEF Commit, Committable, DataTypes, RowState, AuditExactlyOnce
  <2> QED BY <1>3, <2>1, <2>2, <2>3, <2>4, <2>5 DEF DataMove
<1>6. \A a \in AuthRequests : row[a].st = "succeeded" => row'[a].st = "succeeded"
  <2>1. CASE NoEffect BY <2>1 DEF NoEffect, SameRow
  <2>2. ASSUME NEW b \in Browsers, Inserts(b)
        PROVE  \A a \in AuthRequests : row[a].st = "succeeded" => row'[a].st = "succeeded"
    BY <1>2, <1>k, <2>2 DEF Inserts, Insert, Claimable, DataTypes, RowState
  <2>3. ASSUME NEW x \in AuthRequests, FailRow(x) \/ Attests(x) \/ Commit(x)
        PROVE  \A a \in AuthRequests : row[a].st = "succeeded" => row'[a].st = "succeeded"
    BY <1>2, <2>3 DEF FailRow, Attests, Provable, Commit, DataTypes, RowState
  <2> QED BY <1>3, <2>1, <2>2, <2>3 DEF DataMove, Revokes
<1>7. ASSUME NEW u \in Users, grant'[u] = grant[u], grant'[u].st = "active"
      PROVE  \E a \in AuthRequests :
               /\ row'[a].st = "succeeded"
               /\ provider'[a] = [st |-> "done", kind |-> "allow", user |-> u]
               /\ grant'[u].scopes = Asks[a]
  BY <1>0, <1>4, <1>6, <1>7 DEF GrantBacked
<1>8. GrantBacked'
  <2>1. CASE UNCHANGED grant BY <1>7, <2>1 DEF GrantBacked
  <2>2. ASSUME NEW v \in Users, Revokes(v) PROVE GrantBacked'
    <3>1. \A u \in Users : grant'[u] = grant[u] \/ grant'[u].st = "revoked"
      BY <1>2, <2>2 DEF Revokes, DataTypes, GrantState
    <3> QED BY <1>7, <3>1 DEF GrantBacked
  <2>3. ASSUME NEW x \in AuthRequests, Commit(x) PROVE GrantBacked'
    <3>1. CASE row[x].kind # "allow" BY <2>1, <2>3, <3>1 DEF Commit
    <3>2. CASE row[x].kind = "allow"
      <4>1. provider[x] = [st |-> "done", kind |-> "allow", user |-> row[x].user]
        BY <1>2, <2>3, <3>2 DEF Commit, Committable, ProvedIsDone, Proved
      <4>2. provider'[x] = provider[x] BY <1>4, <4>1
      <4>3. row'[x].st = "succeeded" BY <1>2, <2>3 DEF Commit, DataTypes, RowState
      <4>4. \A u \in Users :
              \/ grant'[u] = grant[u]
              \/ u = row[x].user /\ grant'[u].scopes = Asks[x]
        BY <1>2, <2>3, <3>2 DEF Commit, DataTypes, GrantState
      <4> QED BY ZenonT(120), <1>7, <4>1, <4>2, <4>3, <4>4 DEF GrantBacked
    <3> QED BY <3>1, <3>2
  <2> QED BY <1>3, <2>1, <2>2, <2>3
          DEF DataMove, NoEffect, Inserts, Insert, FailRow, Attests
<1>9. RowKnown'
  <2>1. ASSUME NEW b \in Browsers, Inserts(b) PROVE RowKnown'
    <3>1. /\ job[b].req \in AuthRequests /\ job[b].user \in Users /\ job[b].kind \in Kinds
      BY <1>2, <2>1 DEF Inserts, JobKnown
    <3> QED BY <1>0, <1>2, <2>1, <3>1 DEF Inserts, Insert, DataTypes, RowKnown
  <2>2. ASSUME NEW a \in AuthRequests, FailRow(a) \/ Attests(a) \/ Commit(a) PROVE RowKnown'
    BY <1>0, <1>2, <2>2
    DEF FailRow, Attests, Provable, Commit, Committable, DataTypes, RowState, RowKnown
  <2>3. CASE NoEffect BY <1>0, <2>3 DEF NoEffect, SameRow, RowKnown
  <2> QED BY <1>0, <1>3, <2>1, <2>2, <2>3 DEF DataMove, Revokes, RowKnown
<1> QED BY <1>1, <1>5, <1>8, <1>9 DEF EffectInv

LEMMA EffectInductive == Spec => []EffectInv
<1> QED BY EffectInit, EffectStep, PTL DEF Spec

\* The commit and its audit event happen once per operation, whether the winner,
\* a loser of the claim or a reconciler gets to it (CommitAllowDecision).
THEOREM AuditedOnce == Spec => []AuditExactlyOnce
<1>1. EffectInv => AuditExactlyOnce BY DEF EffectInv
<1> QED BY EffectInductive, <1>1, PTL

\* An active grant is an allow of that user that the provider completed, with the
\* scopes of that very request.
THEOREM GrantsBacked == Spec => []GrantBacked
<1>1. EffectInv => GrantBacked BY DEF EffectInv
<1> QED BY EffectInductive, <1>1, PTL

-----------------------------------------------------------------------------
(* The refinement of DecisionOutcome *)

\* The refinement mapping of ConsentDecision, part by part.
PlanOf  == [a \in AuthRequests |-> [kind |-> row[a].kind, user |-> row[a].user]]
Mapped(r) == CASE r.st = "none" -> "open"
               [] r.st = "pending" -> "claimed"
               [] r.st = "failed" -> "void"
               [] r.st = "provider_succeeded" -> "proved"
               [] r.st = "succeeded" -> "effective"
StateOf == [a \in AuthRequests |-> Mapped(row[a])]
HoldersOf == {u \in Users : grant[u].st = "active"}
DeliveredOf == {job[b].req : b \in {c \in Browsers : reply[c] = "callback"}}

LEMMA StateCases ==
  ASSUME NEW r
  PROVE  /\ r.st = "none" => Mapped(r) = "open"
         /\ r.st = "pending" => Mapped(r) = "claimed"
         /\ r.st = "failed" => Mapped(r) = "void"
         /\ r.st = "provider_succeeded" => Mapped(r) = "proved"
         /\ r.st = "succeeded" => Mapped(r) = "effective"
  BY DEF Mapped

\* A row that keeps its status keeps its state, and its plan.
LEMMA SameMapped ==
  ASSUME DataTypes, DataTypes', NEW S \in SUBSET AuthRequests, \A a \in S : SameRow(a)
  PROVE  \A a \in S : StateOf'[a] = StateOf[a] /\ PlanOf'[a] = PlanOf[a]
<1> SUFFICES ASSUME NEW a \in S PROVE StateOf'[a] = StateOf[a] /\ PlanOf'[a] = PlanOf[a]
  OBVIOUS
<1>1. SameRow(a) OBVIOUS
<1>2. PlanOf'[a] = PlanOf[a] BY <1>1 DEF SameRow, PlanOf
<1>4. row[a].st \in {"none", "pending", "provider_succeeded", "succeeded", "failed"}
  BY DEF DataTypes, RowState
<1>5. row'[a].st = row[a].st BY <1>1 DEF SameRow
<1>6. Mapped(row'[a]) = Mapped(row[a]) BY <1>4, <1>5, StateCases
<1>3. StateOf'[a] = StateOf[a] BY <1>6 DEF StateOf
<1> QED BY <1>2, <1>3

\* A step on one row moves the state of that request only.
LEMMA OneMapped ==
  ASSUME DataTypes, DataTypes', NEW a \in AuthRequests,
         \A x \in AuthRequests \ {a} : SameRow(x)
  PROVE  /\ StateOf' = [StateOf EXCEPT ![a] = StateOf'[a]]
         /\ PlanOf' = [PlanOf EXCEPT ![a] = PlanOf'[a]]
<1>1. \A x \in AuthRequests \ {a} : StateOf'[x] = StateOf[x] /\ PlanOf'[x] = PlanOf[x]
  BY SameMapped
<1>2. /\ StateOf = [x \in AuthRequests |-> StateOf[x]]
      /\ StateOf' = [x \in AuthRequests |-> StateOf'[x]]
  BY DEF StateOf
<1>3. /\ PlanOf = [x \in AuthRequests |-> PlanOf[x]]
      /\ PlanOf' = [x \in AuthRequests |-> PlanOf'[x]]
  BY DEF PlanOf
<1> QED BY <1>1, <1>2, <1>3

\* A plan that does not move is the old one.
LEMMA PlanStays ==
  ASSUME \A x \in AuthRequests : row'[x].kind = row[x].kind /\ row'[x].user = row[x].user
  PROVE  PlanOf' = PlanOf
  BY DEF PlanOf

LEMMA MappedInit == Init => Outcome!Init
<1> SUFFICES ASSUME Init PROVE Outcome!Init OBVIOUS
<1>1. PlanOf = [a \in AuthRequests |-> [kind |-> "none", user |-> "none"]]
  BY DEF Init, PlanOf, Nobody
<1>2. StateOf = [a \in AuthRequests |-> "open"]
  <2>1. \A a \in AuthRequests : Mapped(row[a]) = "open" BY StateCases DEF Init
  <2> QED BY <2>1 DEF StateOf
<1>3. HoldersOf = {} BY DEF Init, HoldersOf
<1>4. DeliveredOf = {} BY DEF Init, DeliveredOf
<1> QED BY <1>1, <1>2, <1>3, <1>4
        DEF PlanOf, StateOf, Mapped, HoldersOf, DeliveredOf, Outcome!Init, Outcome!NoPlan

\* The moves of rows and grants are the moves of the outcome.
LEMMA MappedMoves ==
  ASSUME TypeInv, TypeInv', RowKnown
  PROVE  /\ NoEffect => UNCHANGED <<PlanOf, StateOf, HoldersOf>>
         /\ \A u \in Users : Revokes(u) =>
              UNCHANGED <<PlanOf, StateOf>> /\ HoldersOf' = HoldersOf \ {u}
         /\ \A b \in Browsers : Inserts(b) =>
              /\ StateOf[job[b].req] = "open"
              /\ StateOf' = [StateOf EXCEPT ![job[b].req] = "claimed"]
              /\ PlanOf' = [PlanOf EXCEPT ![job[b].req] = [kind |-> job[b].kind, user |-> job[b].user]]
              /\ UNCHANGED HoldersOf
         /\ \A a \in AuthRequests : FailRow(a) =>
              /\ StateOf[a] = "claimed" /\ StateOf' = [StateOf EXCEPT ![a] = "void"]
              /\ UNCHANGED <<PlanOf, HoldersOf>>
         /\ \A a \in AuthRequests : Attests(a) =>
              /\ StateOf[a] = "claimed" /\ StateOf' = [StateOf EXCEPT ![a] = "proved"]
              /\ UNCHANGED <<PlanOf, HoldersOf>>
         /\ \A a \in AuthRequests : Commit(a) =>
              /\ StateOf[a] = "proved" /\ StateOf' = [StateOf EXCEPT ![a] = "effective"]
              /\ UNCHANGED PlanOf
              /\ HoldersOf' = IF PlanOf[a].kind = "allow" THEN HoldersOf \cup {PlanOf[a].user}
                              ELSE HoldersOf
<1>0. DataTypes /\ DataTypes' BY DEF TypeInv
<1> USE <1>0
<1>1. NoEffect => UNCHANGED <<PlanOf, StateOf, HoldersOf>>
  <2> SUFFICES ASSUME NoEffect PROVE UNCHANGED <<PlanOf, StateOf, HoldersOf>> OBVIOUS
  <2>1. \A a \in AuthRequests : StateOf'[a] = StateOf[a] /\ PlanOf'[a] = PlanOf[a]
    BY SameMapped DEF NoEffect
  <2>2. StateOf' = StateOf BY <2>1 DEF StateOf
  <2>3. PlanOf' = PlanOf BY PlanStays DEF NoEffect, SameRow
  <2> QED BY <2>2, <2>3 DEF NoEffect, HoldersOf
<1>2. ASSUME NEW u \in Users, Revokes(u)
      PROVE  UNCHANGED <<PlanOf, StateOf>> /\ HoldersOf' = HoldersOf \ {u}
  <2>1. UNCHANGED <<PlanOf, StateOf>> BY <1>2 DEF Revokes, PlanOf, StateOf
  <2>2. HoldersOf' = HoldersOf \ {u} BY <1>2 DEF Revokes, DataTypes, GrantState, HoldersOf
  <2> QED BY <2>1, <2>2
<1>3. ASSUME NEW b \in Browsers, Inserts(b)
      PROVE  /\ StateOf[job[b].req] = "open"
             /\ StateOf' = [StateOf EXCEPT ![job[b].req] = "claimed"]
             /\ PlanOf' = [PlanOf EXCEPT ![job[b].req] =
                             [kind |-> job[b].kind, user |-> job[b].user]]
             /\ UNCHANGED HoldersOf
  <2> DEFINE a == job[b].req
  <2>1. a \in AuthRequests BY <1>3 DEF TypeInv, JobKnown, Inserts
  <2>2. row[a].st = "none" BY <1>3 DEF Inserts, Claimable
  <2>3. row'[a].st = "pending" /\ row'[a].kind = job[b].kind /\ row'[a].user = job[b].user
    BY <1>3, <2>1 DEF Inserts, Insert, DataTypes
  <2>4. \A x \in AuthRequests \ {a} : SameRow(x)
    BY <1>3, <2>1 DEF Inserts, Insert, DataTypes, SameRow
  <2>5. StateOf[a] = "open" /\ StateOf'[a] = "claimed"
    BY <2>1, <2>2, <2>3, StateCases DEF StateOf
  <2>6. PlanOf'[a] = [kind |-> job[b].kind, user |-> job[b].user] BY <2>1, <2>3 DEF PlanOf
  <2>7. UNCHANGED HoldersOf BY <1>3 DEF Inserts, Insert, HoldersOf
  <2> QED BY <2>1, <2>4, <2>5, <2>6, <2>7, OneMapped
<1>4. ASSUME NEW a \in AuthRequests, FailRow(a) \/ Attests(a) \/ Commit(a)
      PROVE  /\ UNCHANGED PlanOf
             /\ StateOf' = [StateOf EXCEPT ![a] = StateOf'[a]]
             /\ FailRow(a) => StateOf[a] = "claimed" /\ StateOf'[a] = "void"
             /\ Attests(a) => StateOf[a] = "claimed" /\ StateOf'[a] = "proved"
             /\ Commit(a) => StateOf[a] = "proved" /\ StateOf'[a] = "effective"
  <2>1. /\ \A x \in AuthRequests \ {a} : SameRow(x)
        /\ row'[a].kind = row[a].kind /\ row'[a].user = row[a].user
        /\ FailRow(a) => row[a].st = "pending" /\ row'[a].st = "failed"
        /\ Attests(a) => row[a].st = "pending" /\ row'[a].st = "provider_succeeded"
        /\ Commit(a) => row[a].st = "provider_succeeded" /\ row'[a].st = "succeeded"
    BY <1>4 DEF FailRow, Attests, Provable, Commit, Committable, DataTypes, RowState, SameRow
  <2>2. UNCHANGED PlanOf BY <2>1, PlanStays DEF SameRow
  <2>3. StateOf' = [StateOf EXCEPT ![a] = StateOf'[a]] BY <2>1, OneMapped
  <2>4. /\ row[a].st = "pending" => StateOf[a] = "claimed"
        /\ row[a].st = "provider_succeeded" => StateOf[a] = "proved"
    BY StateCases DEF StateOf
  <2>5. /\ row'[a].st = "failed" => StateOf'[a] = "void"
        /\ row'[a].st = "provider_succeeded" => StateOf'[a] = "proved"
        /\ row'[a].st = "succeeded" => StateOf'[a] = "effective"
    BY StateCases DEF StateOf
  <2> QED BY <2>1, <2>2, <2>3, <2>4, <2>5
<1>5. ASSUME NEW a \in AuthRequests, Commit(a)
      PROVE  HoldersOf' = IF PlanOf[a].kind = "allow" THEN HoldersOf \cup {PlanOf[a].user}
                          ELSE HoldersOf
  <2>1. PlanOf[a].kind = row[a].kind /\ PlanOf[a].user = row[a].user BY DEF PlanOf
  <2>2. CASE row[a].kind # "allow" BY <1>5, <2>1, <2>2 DEF Commit, HoldersOf
  <2>3. CASE row[a].kind = "allow"
    <3>1. row[a].user \in Users
      BY <1>5 DEF RowKnown, Commit, Committable
    <3> QED BY <1>5, <2>1, <2>3, <3>1 DEF Commit, DataTypes, GrantState, HoldersOf
  <2> QED BY <2>2, <2>3
<1>6. ASSUME NEW a \in AuthRequests, FailRow(a) \/ Attests(a) PROVE UNCHANGED HoldersOf
  BY <1>6 DEF FailRow, Attests, HoldersOf
<1> QED BY <1>1, <1>2, <1>3, <1>4, <1>5, <1>6

\* Every step of the code is a step of the outcome, or none.
LEMMA StepImplements == EffectInv /\ EffectInv' /\ [Next]_vars => [Outcome!Next]_(Outcome!dvars)
<1> SUFFICES ASSUME EffectInv, EffectInv', [Next]_vars
             PROVE  [Outcome!Next]_(Outcome!dvars)
  OBVIOUS
<1>0. TypeInv /\ TypeInv' /\ RowKnown /\ CallbackLast /\ ProofOnRow /\ BrowserTypes /\ DataTypes
  BY DEF EffectInv, HolderInv, TypeInv
<1>k. \A b \in Browsers : pc[b] # "start" =>
        job[b].req \in AuthRequests /\ job[b].user \in Users /\ job[b].kind \in Kinds
  BY <1>0 DEF TypeInv, JobKnown
<1>1. DataMove /\ (SameReplies \/ CallbackMove) BY <1>0, DataMoves
<1>2. CASE SameReplies
  <2>0. UNCHANGED DeliveredOf BY <1>2 DEF SameReplies, DeliveredOf
  <2>1. CASE NoEffect
    <3>1. UNCHANGED <<PlanOf, StateOf, HoldersOf>> BY <1>0, <2>1, MappedMoves
    <3> QED BY <2>0, <3>1 DEF PlanOf, StateOf, Mapped, HoldersOf, DeliveredOf, Outcome!dvars
  <2>2. ASSUME NEW u \in Users, Revokes(u) PROVE Outcome!Revoke(u)
    <3>1. UNCHANGED <<PlanOf, StateOf>> /\ HoldersOf' = HoldersOf \ {u}
      BY <1>0, <2>2, MappedMoves
    <3> QED BY <2>0, <3>1 DEF PlanOf, StateOf, Mapped, HoldersOf, DeliveredOf, Outcome!Revoke
  <2>3. ASSUME NEW b \in Browsers, Inserts(b), NEW a \in AuthRequests, a = job[b].req
        PROVE  Outcome!Claim(a)
    <3>1. job[b].user \in Users /\ job[b].kind \in {"allow", "deny", "error"}
      BY <1>k, <2>3 DEF Inserts, Kinds
    <3>2. /\ StateOf[a] = "open" /\ StateOf' = [StateOf EXCEPT ![a] = "claimed"]
          /\ PlanOf' = [PlanOf EXCEPT ![a] = [kind |-> job[b].kind, user |-> job[b].user]]
          /\ UNCHANGED HoldersOf
      BY <1>0, <2>3, MappedMoves
    <3> QED BY <2>0, <3>1, <3>2
        DEF PlanOf, StateOf, Mapped, HoldersOf, DeliveredOf, Outcome!Claim
  <2>4. ASSUME NEW a \in AuthRequests, FailRow(a) PROVE Outcome!Void(a)
    <3>1. /\ StateOf[a] = "claimed" /\ StateOf' = [StateOf EXCEPT ![a] = "void"]
          /\ UNCHANGED <<PlanOf, HoldersOf>>
      BY <1>0, <2>4, MappedMoves
    <3> QED BY <2>0, <3>1
        DEF PlanOf, StateOf, Mapped, HoldersOf, DeliveredOf, Outcome!Void, Outcome!Turn
  <2>5. ASSUME NEW a \in AuthRequests, Attests(a) PROVE Outcome!Prove(a)
    <3>1. /\ StateOf[a] = "claimed" /\ StateOf' = [StateOf EXCEPT ![a] = "proved"]
          /\ UNCHANGED <<PlanOf, HoldersOf>>
      BY <1>0, <2>5, MappedMoves
    <3> QED BY <2>0, <3>1
        DEF PlanOf, StateOf, Mapped, HoldersOf, DeliveredOf, Outcome!Prove, Outcome!Turn
  <2>6. ASSUME NEW a \in AuthRequests, Commit(a) PROVE Outcome!Effect(a)
    <3>1. /\ StateOf[a] = "proved" /\ StateOf' = [StateOf EXCEPT ![a] = "effective"]
          /\ UNCHANGED PlanOf
          /\ HoldersOf' = IF PlanOf[a].kind = "allow" THEN HoldersOf \cup {PlanOf[a].user}
                          ELSE HoldersOf
      BY <1>0, <2>6, MappedMoves
    <3> QED BY <2>0, <3>1
        DEF PlanOf, StateOf, Mapped, HoldersOf, DeliveredOf, Outcome!Effect, Outcome!Turn
  <2>k. \A b \in Browsers : Inserts(b) => job[b].req \in AuthRequests BY <1>k DEF Inserts
  <2> QED BY <1>1, <2>1, <2>2, <2>3, <2>4, <2>5, <2>6, <2>k DEF DataMove, Outcome!Next
<1>3. CASE CallbackMove
  <2>1. PICK b \in Browsers :
          pc[b] = "commit" /\ End(b, "callback") /\ (Commit(job[b].req) \/ NoEffect)
    BY <1>3 DEF CallbackMove
  <2>2. PICK a \in AuthRequests : a = job[b].req BY <1>k, <2>1
  <2>3. reply[b] # "callback" BY <1>0, <2>1 DEF CallbackLast
  <2>4. DeliveredOf' = DeliveredOf \cup {a}
    BY <1>0, <2>1, <2>2, <2>3 DEF End, BrowserTypes, DeliveredOf
  <2>5. StateOf[a] \in {"proved", "effective"}
    <3>1. row[a].st \in Proved BY <1>0, <2>1, <2>2 DEF ProofOnRow
    <3> QED BY <2>2, <3>1, StateCases DEF Proved, StateOf
  <2>6. CASE NoEffect
    <3>1. UNCHANGED <<PlanOf, StateOf, HoldersOf>> BY <1>0, <2>6, MappedMoves
    <3>2. Outcome!Deliver(a)
      BY <2>4, <2>5, <3>1
      DEF PlanOf, StateOf, Mapped, HoldersOf, DeliveredOf, Outcome!Deliver
    <3> QED BY <2>2, <3>2 DEF Outcome!Next
  <2>7. CASE Commit(a)
    <3>1. /\ StateOf[a] = "proved" /\ StateOf' = [StateOf EXCEPT ![a] = "effective"]
          /\ UNCHANGED PlanOf
          /\ HoldersOf' = IF PlanOf[a].kind = "allow" THEN HoldersOf \cup {PlanOf[a].user}
                          ELSE HoldersOf
      BY <1>0, <2>2, <2>7, MappedMoves
    <3>2. Outcome!EffectAndDeliver(a)
      BY <2>4, <3>1
      DEF PlanOf, StateOf, Mapped, HoldersOf, DeliveredOf, Outcome!EffectAndDeliver
    <3> QED BY <2>2, <3>2 DEF Outcome!Next
  <2> QED BY <2>1, <2>2, <2>6, <2>7 DEF Commit, Committable
<1> QED BY <1>1, <1>2, <1>3

\* The rows, the proofs, the commits and the answers implement the one decision of
\* each request: claimed by one plan, void or proved, effective once.
THEOREM OutcomeImplemented == Spec => ImplementsOutcome
<1> QED BY MappedInit, EffectInductive, StepImplements, PTL
        DEF Spec, ImplementsOutcome, Outcome!Spec

-----------------------------------------------------------------------------
(***************************************************************************)
(* Theorems about Authorization.  Whatever the world was when a request    *)
(* arrived, or became since, is in its witness; what the request has read  *)
(* was such a state of the world; and what it decides rests on what it has *)
(* read, and on what it still reads when it decides.  FitAt says so of a   *)
(* request at a phase and a step, with the facts it has seen, the kind of  *)
(* decision it has come to and its answer.                                 *)
(***************************************************************************)
CONSTANTS
  MaxChanges,     \* model bound: changes of that world
  FrontRequests,  \* the HTTP requests that may arrive, each once
  FrontInputs,    \* the door each of them takes
  FrontBatches,   \* model bound: the authorization request of a run, and its world
  FrontFaults     \* model bound: failed calls and lost answers

VARIABLES
  batch,    \* the authorization request: prompts, max_age, redirect, scopes
  request,  \* its state at the provider: open or gone
  facts,    \* database: the client, its application and its lists
  session,  \* the browser's session: on, when it signed in, its credential
  claim,    \* database: the operation row of the request
  run,      \* what each HTTP request is doing
  witness,  \* history: what was true at some moment of each request
  changes   \* how many changes of the world so far

Front == INSTANCE Authorization WITH
  Requests <- FrontRequests, InputOf <- FrontInputs, Batches <- FrontBatches, MaxFaults <- FrontFaults

Phases   == {"idle", "route", "resolve", "none", "decide", "silent", "error", "claim", "complete", "done"}
Steps    == {"none", "view", "client", "redirects", "scopes", "grant"}
Outcomes == Front!Kinds \cup {"none"}
FrontReplies  == {"none", "unauthorized", "gone", "bad", "login", "authorize", "valid", "unauthenticated",
             "expired", "not_interactive", "already_authorized", "client_not_found", "redirect_mismatch",
             "scope_not_allowed", "relogin", "decided", "callback", "failed", "error"}
Sessions == {Front!NoSession} \cup [on : {TRUE}, auth : Nat, v2 : BOOLEAN]
Records  == [phase : Phases, step : Steps, sess : Sessions, began : Nat, seen : Front!Facts, kind : Outcomes,
             answer : FrontReplies]

Known(r, w) == <<r, w>> \in witness
InForce(r)  == Known(r, "client") /\ Known(r, "redirect") /\ Known(r, "scopes")

\* The session of a request satisfied the prompts and max_age when it arrived.
Satisfied(r) ==
  /\ run[r].sess.on
  /\ Front!Forced => batch.created # 0 /\ run[r].sess.auth > batch.created
  /\ ~Front!Forced => \A m \in batch.maxAge : run[r].began - run[r].sess.auth <= m

\* The kinds of decision the prompts allow.
Meant == IF Front!HasPrompt("none") THEN {"allow", "login_required", "consent_required"}
         ELSE IF Front!HasPrompt("create") THEN {"request_not_supported"}
         ELSE IF Front!HasPrompt("select_account") THEN {"account_selection_required"}
         ELSE Front!UserKinds

\* Which steps each door takes, and when it has decided and answered.
PlaceFit(r, p, s, k, a) ==
  /\ p \in {"idle", "claim", "complete", "done"} <=> s = "none"
  /\ p \in {"route", "error"} => s = "view"
  /\ p \in {"none"} => s \in {"client", "redirects", "scopes", "grant"}
  /\ p = "decide" => s \in {"view", "client", "redirects", "scopes"}
  /\ p = "done" <=> a # "none"
  /\ p \in {"route", "none", "silent", "error"} => Front!Op(r) = "gateway"
  /\ p = "decide" => Front!Op(r) = "decide"
  /\ p = "resolve" => Front!Op(r) \in {"gateway", "read"}
  /\ p \in {"idle", "route", "resolve", "none", "decide", "silent"} => k = "none"
  /\ p \in {"error", "claim", "complete"} => k # "none"
  /\ p = "error" => k \notin Front!UserKinds
  /\ k = "access_denied" => Front!Op(r) = "decide"

\* What the prompts have been found to be.
PromptFit(r, p, s, k, a) ==
  /\ p \in {"none", "silent"} => Front!HasPrompt("none") /\ Front!Structured
  /\ p = "resolve" /\ Front!Op(r) = "gateway" => ~Front!NotForPages
  /\ p \in {"resolve", "decide"} /\ s # "view" => Front!Interactive
  /\ k # "none" => Front!Structured /\ k \in Meant /\ (Front!Op(r) = "gateway" \/ ~Front!NotForPages)
  /\ a \in Front!Pages => ~Front!NotForPages
  /\ a = "bad" /\ Front!Op(r) = "gateway"
     => ~Front!Structured \/ Front!HasPrompt("none") \/ ~Front!NotForPages

\* What has been read of the client was so after the request, or its silent
\* decision, began.
SeenFit(r, p, s, f) ==
  /\ s \in {"redirects", "scopes", "grant"} =>
       /\ Front!Active(f) => Known(r, "client")
       /\ f.mode = "first_authorization" => Known(r, "mode")
       /\ f.mode # "first_authorization" => Known(r, "nogrant")
  /\ s \in {"scopes", "grant"} /\ Front!RedirectMatches(f) => Known(r, "redirect")
  /\ s = "grant" => InForce(r)
  /\ p = "silent" /\ s = "grant" => Satisfied(r)

\* What a decision rests on.
KindFit(r, k) ==
  /\ k \in Front!UserKinds => Satisfied(r) /\ InForce(r)
  /\ k = "allow" => run[r].sess.v2
  /\ k = "allow" /\ Front!Op(r) = "gateway" => Known(r, "mode") /\ Known(r, "grant")
  /\ k = "consent_required" => Known(r, "nogrant")

\* Who is sent to sign in has not just done so.
Excused(r) ==
  batch.created # 0 /\ run[r].sess.v2 /\ run[r].sess.auth > batch.created
  => \E m \in batch.maxAge : m > 0 /\ clock - run[r].sess.auth > m
LoginFit(r, k, a) ==
  a \in {"login", "unauthenticated", "relogin"} \/ k = "login_required" => Excused(r)

FitAt(r, p, s, f, k, a) ==
  /\ PlaceFit(r, p, s, k, a) /\ PromptFit(r, p, s, k, a) /\ SeenFit(r, p, s, f)
  /\ KindFit(r, k) /\ LoginFit(r, k, a)

ReqAt(r) == /\ FitAt(r, run[r].phase, run[r].step, run[r].seen, run[r].kind, run[r].answer)
            /\ run[r].began <= clock

Shapes ==
  /\ batch \in FrontBatches /\ request \in {"open", "gone"} /\ facts \in Front!Facts /\ clock \in Nat
  /\ session \in Sessions /\ session.auth <= clock
  /\ run \in [FrontRequests -> Records]
  /\ changes \in 0 .. MaxChanges /\ faults \in 0 .. FrontFaults

\* The witness of a request at work holds what is true now.
Witnessed == \A r \in Front!Working : \A w \in Front!TrueOf(facts, grant) : Known(r, w)

\* The row belongs to the request that made it, which went on to the provider.
Won(r) == run[r].phase = "complete" \/ run[r].answer = "callback"
ClaimOf ==
  /\ claim = Front!NoClaim \/ /\ claim.by \in batch.requests /\ claim.kind = run[claim.by].kind
                              /\ claim.kind # "none"
                              /\ \/ run[claim.by].phase = "complete"
                                 \/ run[claim.by].answer \in {"callback", "failed"}
  /\ \A r \in batch.requests : Won(r) => claim.by = r

FrontInv == Shapes /\ Witnessed /\ ClaimOf /\ \A r \in batch.requests : ReqAt(r)

-----------------------------------------------------------------------------
(* What the constants and the batch settle *)

LEMMA Inputs ==
  ASSUME Front!AuthorizationAssumption, Shapes
  PROVE  /\ batch.requests \subseteq FrontRequests /\ "none" \notin FrontRequests
         /\ batch.prompts \in Seq(STRING) /\ batch.maxAge \subseteq Int /\ batch.created \in Nat
         /\ batch.edits \subseteq Front!Facts
         /\ \A r \in batch.requests : /\ Front!Op(r) \in {"gateway", "read", "decide"}
                                      /\ Front!Op(r) = "decide" => Front!Choice(r) \in Front!UserKinds
<1>1. batch \in FrontBatches
  BY DEF Shapes
<1>2. batch.edits \subseteq Front!Rows
  BY <1>1 DEF Front!Rows
<1> QED
  BY <1>1, <1>2 DEF Front!AuthorizationAssumption

LEMMA Bounds == Front!AuthorizationAssumption => MaxChanges \in Nat /\ FrontFaults \in Nat
  BY DEF Front!AuthorizationAssumption

\* An ordered list of prompts that is in structure has "none" alone or not.
LEMMA Prompts ==
  ASSUME Front!AuthorizationAssumption, Shapes
  PROVE  /\ Front!IllFormed <=> ~Front!Structured
         /\ Front!Structured /\ Front!HasPrompt("none") => \A p : Front!HasPrompt(p) => p = "none"
<1>1. batch.prompts \in Seq(STRING)
  BY Inputs
<1> DEFINE t == batch.prompts
<1>2. Len(t) \in Nat /\ DOMAIN t = 1 .. Len(t)
  BY <1>1
<1>3. Front!HasPrompt("none") => Len(t) >= 1
  BY <1>2 DEF Front!HasPrompt
<1>4. Front!IllFormed <=> ~Front!Structured
  <2>1. ASSUME NEW n \in Nat, n >= 1
        PROVE  n > 1 <=> n # 1
    BY <2>1
  <2>2. Front!HasPrompt("none") => (Len(batch.prompts) > 1 <=> Len(batch.prompts) # 1)
    BY <1>2, <1>3, <2>1
  <2> QED
    BY <2>2 DEF Front!IllFormed, Front!Structured
<1>5. ASSUME Front!Structured, Front!HasPrompt("none"), NEW p, Front!HasPrompt(p)
      PROVE  p = "none"
  <2>1. DOMAIN t = {1}
    <3>1. Len(batch.prompts) = 1
      BY <1>5 DEF Front!Structured
    <3> QED
      BY <1>2, <3>1
  <2> QED
    BY <2>1, <1>5 DEF Front!HasPrompt
<1> QED
  BY <1>4, <1>5

\* A session has signed in at some time; the old format has no credential.
LEMMA SessionOf ==
  ASSUME Front!AuthorizationAssumption, Shapes, NEW r \in batch.requests
  PROVE  /\ r \in FrontRequests /\ run[r] \in Records /\ run[r].began \in Nat
         /\ run[r].sess.auth \in Nat /\ (run[r].sess.v2 => run[r].sess.on)
<1>1. r \in FrontRequests /\ run[r] \in Records
  BY Inputs DEF Shapes
<1> DEFINE x == run[r].sess
<1>2. x \in Sessions /\ run[r].began \in Nat
  BY <1>1 DEF Records
<1> HIDE DEF x
<1>3. x.auth \in Nat /\ (x.v2 => x.on)
  <2>1. CASE x = Front!NoSession
    BY <2>1 DEF Front!NoSession
  <2>2. CASE x \in [on : {TRUE}, auth : Nat, v2 : BOOLEAN]
    BY <2>2
  <2> QED
    BY <1>2, <2>1, <2>2 DEF Sessions
<1> QED
  BY <1>1, <1>2, <1>3 DEF x

LEMMA OldSession ==
  ASSUME Shapes
  PROVE  session.auth \in Nat
<1>1. CASE session = Front!NoSession
  BY <1>1 DEF Front!NoSession
<1>2. CASE session \in [on : {TRUE}, auth : Nat, v2 : BOOLEAN]
  BY <1>2
<1> QED
  BY <1>1, <1>2 DEF Shapes, Sessions

\* What is said of the prompts stays while the batch does.
LEMMA BatchStays ==
  ASSUME batch' = batch
  PROVE  /\ \A p : Front!HasPrompt(p)' <=> Front!HasPrompt(p)
         /\ Front!Structured' <=> Front!Structured
         /\ Front!Interactive' <=> Front!Interactive
         /\ Front!NotForPages' <=> Front!NotForPages
         /\ Front!Forced' <=> Front!Forced
         /\ Meant' = Meant
         /\ \A f : /\ Front!RedirectMatches(f)' <=> Front!RedirectMatches(f)
                   /\ Front!ScopesAllowed(f)' <=> Front!ScopesAllowed(f)
  BY DEF Front!HasPrompt, Front!Structured, Front!Interactive, Front!NotForPages, Front!Forced, Meant,
         Front!RedirectMatches, Front!ScopesAllowed,
         Front!Canonical, Front!Requested

\* What fits a request stays fitting while its session does, its witness loses
\* nothing it rests on, and the clock goes on.
LEMMA FitStays ==
  ASSUME Front!AuthorizationAssumption, Shapes, batch' = batch, clock' \in Nat, clock <= clock',
         NEW r \in batch.requests, NEW p, NEW s, NEW f, NEW k, NEW a,
         run'[r].sess = run[r].sess, run'[r].began = run[r].began,
         \/ \A w : Known(r, w) => Known(r, w)'
         \/ k = "none" /\ s \in {"none", "view", "client"},
         FitAt(r, p, s, f, k, a)
  PROVE  FitAt(r, p, s, f, k, a)'
<1>1. batch.maxAge \subseteq Int /\ clock \in Nat /\ run[r].sess.auth \in Nat
  BY Inputs, SessionOf DEF Shapes
<1>3. Satisfied(r)' <=> Satisfied(r)
  BY BatchStays DEF Satisfied
<1>4. PlaceFit(r, p, s, k, a)' /\ PromptFit(r, p, s, k, a)'
  BY BatchStays DEF FitAt, PlaceFit, PromptFit
<1>5. SeenFit(r, p, s, f)'
  BY <1>3, BatchStays DEF FitAt, SeenFit, InForce, Front!Active
<1>6. KindFit(r, k)'
  BY <1>3 DEF FitAt, KindFit, InForce, Front!UserKinds
<1>7. LoginFit(r, k, a)'
  BY <1>1 DEF FitAt, LoginFit, Excused
<1> QED
  BY <1>4, <1>5, <1>6, <1>7 DEF FitAt

-----------------------------------------------------------------------------
(* What a step does to a request, and what keeps the invariant *)

\* The request r comes to be at phase p and step s, having seen f, decided on
\* k and answered a.
Became(r, p, s, f, k, a) ==
  /\ run' \in [FrontRequests -> Records]
  /\ run'[r].phase = p /\ run'[r].step = s /\ run'[r].seen = f
  /\ run'[r].kind = k /\ run'[r].answer = a
  /\ run'[r].sess = run[r].sess /\ run'[r].began = run[r].began
  /\ \A q \in FrontRequests \ {r} : run'[q] = run[q]

LEMMA AnswerIs ==
  ASSUME Shapes, NEW r \in FrontRequests, NEW a \in FrontReplies, Front!Answer(r, a)
  PROVE  Became(r, "done", "none", Front!NoFacts, run[r].kind, a)
<1>1. run \in [FrontRequests -> Records] /\ Front!NoFacts \in Front!Facts
  BY DEF Shapes, Front!NoFacts, Front!Facts
<1>2. run' = [run EXCEPT ![r] = [run[r] EXCEPT !.phase = "done", !.step = "none", !.seen = Front!NoFacts, !.answer = a]]
  BY DEF Front!Answer
<1> QED
  BY <1>1, <1>2 DEF Records, Phases, Steps, Became

LEMMA DecidedIs ==
  ASSUME Shapes, NEW r \in FrontRequests, NEW k \in Outcomes, NEW p \in {"error", "claim"},
         Front!Decided(r, p, k)
  PROVE  Became(r, p, IF p = "error" THEN "view" ELSE "none", Front!NoFacts, k, run[r].answer)
<1> DEFINE s == IF p = "error" THEN "view" ELSE "none"
<1>1. run \in [FrontRequests -> Records] /\ Front!NoFacts \in Front!Facts /\ s \in Steps /\ p \in Phases
  BY DEF Shapes, Front!NoFacts, Front!Facts, Steps, Phases
<1>2. run' = [run EXCEPT ![r] = [run[r] EXCEPT !.phase = p, !.kind = k, !.step = s, !.seen = Front!NoFacts]]
  BY DEF Front!Decided
<1> HIDE DEF s
<1>3. Became(r, p, s, Front!NoFacts, k, run[r].answer)
  BY <1>1, <1>2 DEF Records, Became
<1> QED
  BY <1>3 DEF s

\* A step further, with what it has read.
LEMMA ReadsOn ==
  ASSUME Shapes, NEW r \in FrontRequests, NEW s \in Steps, NEW f \in Front!Facts,
         run' = [run EXCEPT ![r].step = s, ![r].seen = f]
  PROVE  Became(r, run[r].phase, s, f, run[r].kind, run[r].answer)
  BY DEF Shapes, Records, Became

LEMMA GotoIs ==
  ASSUME Shapes, NEW r \in FrontRequests, NEW p \in Phases, NEW s \in Steps, Front!Goto(r, p, s)
  PROVE  Became(r, p, s, IF s \in {"view", "none"} THEN Front!NoFacts ELSE run[r].seen, run[r].kind, run[r].answer)
<1> DEFINE f == IF s \in {"view", "none"} THEN Front!NoFacts ELSE run[r].seen
<1>1. run \in [FrontRequests -> Records] /\ Front!NoFacts \in Front!Facts
  BY DEF Shapes, Front!NoFacts, Front!Facts
<1>2. f \in Front!Facts
  BY <1>1 DEF Records
<1>3. run' = [run EXCEPT ![r].phase = p, ![r].step = s, ![r].seen = f]
  BY <1>1 DEF Front!Goto, Records
<1> HIDE DEF f
<1>4. Became(r, p, s, f, run[r].kind, run[r].answer)
  BY <1>1, <1>2, <1>3 DEF Records, Became
<1> QED
  BY <1>4 DEF f

\* A request has moved on, or started over; the world has not.
LEMMA StepKeeps ==
  ASSUME Front!AuthorizationAssumption, FrontInv, NEW r \in batch.requests,
         run' \in [FrontRequests -> Records], \A q \in FrontRequests \ {r} : run'[q] = run[q],
         UNCHANGED Front!worldVars, request' \in {"open", "gone"}, faults' \in 0 .. FrontFaults,
         (r \in Front!Working /\ witness' = witness) \/ witness' = Front!Since(r, facts, grant),
         ReqAt(r)', ClaimOf'
  PROVE  FrontInv'
<1>1. Shapes /\ Witnessed /\ batch' = batch /\ clock' = clock /\ clock \in Nat
  BY DEF FrontInv, Shapes, Front!worldVars
<1>2. Shapes'
  BY <1>1 DEF Shapes, Front!worldVars
<1>3. \A q, w : q # r => (Known(q, w)' <=> Known(q, w))
  BY DEF Known, Front!Since
<1>4. Witnessed'
  <2> SUFFICES ASSUME NEW q \in Front!Working', NEW w \in Front!TrueOf(facts, grant)
               PROVE  Known(q, w)'
    BY ZenonT(120), <1>1, BatchStays DEF Front!TrueOf, Front!Active, Front!Covers, Front!Requested, Front!worldVars,
                            Witnessed
  <2>1. CASE q # r
    BY <1>1, <2>1, Inputs, <1>3 DEF Front!Working, Witnessed
  <2>2. CASE q = r /\ r \in Front!Working /\ witness' = witness
    BY <1>1, <2>2 DEF Witnessed, Known
  <2>3. CASE q = r /\ witness' = Front!Since(r, facts, grant)
    BY <2>3 DEF Known, Front!Since
  <2> QED
    BY <2>1, <2>2, <2>3
<1>5. ASSUME NEW q \in batch.requests
      PROVE  ReqAt(q)'
  BY <1>5, <1>1, Inputs, <1>3, FitStays DEF FrontInv, ReqAt
<1> QED
  BY <1>1, <1>2, <1>4, <1>5 DEF FrontInv

\* Whose claim it is does not change while a request that is not at the
\* provider does something else there than complete.
LEMMA ClaimStays ==
  ASSUME Front!AuthorizationAssumption, FrontInv, NEW r \in batch.requests, batch' = batch, claim' = claim,
         run' \in [FrontRequests -> Records], \A q \in FrontRequests \ {r} : run'[q] = run[q],
         run[r].phase \notin {"complete", "done"}, run'[r].phase # "complete", run'[r].answer # "callback"
  PROVE  ClaimOf'
  BY Inputs DEF FrontInv, ReqAt, FitAt, PlaceFit, ClaimOf, Won

LEMMA QuietKeeps ==
  ASSUME Front!AuthorizationAssumption, FrontInv, NEW r \in batch.requests,
         NEW p \in Phases \ {"idle", "complete"}, NEW s, NEW f, NEW k, NEW a \in FrontReplies \ {"callback"},
         run[r].phase \notin {"idle", "complete", "done"},
         Became(r, p, s, f, k, a), FitAt(r, p, s, f, k, a),
         UNCHANGED <<Front!worldVars, request, claim>>, faults' \in 0 .. FrontFaults,
         \/ witness' = witness
         \/ witness' = Front!Since(r, facts, grant) /\ k = "none" /\ s \in {"none", "view", "client"}
  PROVE  FrontInv'
  BY FitStays, ClaimStays, StepKeeps DEF FrontInv, Shapes, Front!worldVars, Front!Working, Became, Known, ReqAt

\* What a session still fresh, and one no longer fresh, says of a request.
LEMMA Freshness ==
  ASSUME Front!AuthorizationAssumption, FrontInv, NEW r \in batch.requests
  PROVE  /\ Front!Fresh(run[r].sess) => Satisfied(r)
         /\ ~Front!Fresh(run[r].sess) => Excused(r)
         /\ ~run[r].sess.v2 => Excused(r)
  BY SMTT(40), Inputs, SessionOf DEF FrontInv, Shapes, ReqAt, Front!Fresh, Satisfied, Front!Forced, Excused

\* A request at work has not answered.
LEMMA AtWork ==
  ASSUME Front!AuthorizationAssumption, FrontInv, NEW r \in batch.requests
  PROVE  /\ r \in FrontRequests /\ Shapes /\ run[r] \in Records
         /\ FitAt(r, run[r].phase, run[r].step, run[r].seen, run[r].kind, run[r].answer)
         /\ run[r].phase # "done" => run[r].answer = "none"
         /\ Front!Quiet
            => UNCHANGED <<Front!worldVars, request, claim, witness>> /\ faults' \in 0 .. FrontFaults
         /\ batch.requests \subseteq FrontRequests /\ Front!NoFacts \in Front!Facts
         /\ Front!IllFormed <=> ~Front!Structured
         /\ Front!Structured /\ Front!HasPrompt("none") => \A p : Front!HasPrompt(p) => p = "none"
  BY Inputs, SessionOf, Prompts DEF FrontInv, ReqAt, FitAt, PlaceFit, Front!NoFacts, Front!Facts, Front!Quiet,
                                    Shapes

LEMMA AnswerKeeps ==
  ASSUME Front!AuthorizationAssumption, FrontInv, NEW r \in batch.requests,
         NEW a \in FrontReplies \ {"none", "callback"},
         run[r].phase \notin {"idle", "complete", "done"}, Front!Answer(r, a),
         UNCHANGED <<Front!worldVars, request, claim>>, faults' \in 0 .. FrontFaults,
         witness' = witness \/ (witness' = Front!Since(r, facts, grant) /\ run[r].kind = "none"),
         a \in Front!Pages => ~Front!NotForPages,
         a = "bad" /\ Front!Op(r) = "gateway" => ~Front!Structured \/ Front!HasPrompt("none") \/ ~Front!NotForPages,
         a \in {"login", "unauthenticated", "relogin"} => Excused(r)
  PROVE  FrontInv'
  BY AtWork, AnswerIs, QuietKeeps DEF FitAt, PlaceFit, PromptFit, SeenFit, LoginFit, Phases

LEMMA DecidedKeeps ==
  ASSUME Front!AuthorizationAssumption, FrontInv, NEW r \in batch.requests, NEW p \in {"error", "claim"},
         NEW k \in Front!Kinds,
         run[r].phase \notin {"idle", "complete", "done"}, Front!Decided(r, p, k), Front!Quiet,
         Front!Structured, k \in Meant, Front!Op(r) = "gateway" \/ ~Front!NotForPages, KindFit(r, k),
         k = "login_required" => Excused(r), k = "access_denied" => Front!Op(r) = "decide",
         p = "error" => Front!Op(r) = "gateway" /\ k \notin Front!UserKinds
  PROVE  FrontInv'
<1> DEFINE s == IF p = "error" THEN "view" ELSE "none"
<1>1. Became(r, p, s, Front!NoFacts, k, "none")
  BY AtWork, DecidedIs DEF Outcomes
<1>2. FitAt(r, p, s, Front!NoFacts, k, "none")
  BY DEF Front!Kinds, PlaceFit, PromptFit, Front!Pages, SeenFit, LoginFit, FitAt
<1>3. p \in Phases \ {"idle", "complete"} /\ "none" \in FrontReplies \ {"callback"}
  BY DEF Phases, FrontReplies
<1>4. UNCHANGED <<Front!worldVars, request, claim, witness>> /\ faults' \in 0 .. FrontFaults
  BY AtWork
<1> HIDE DEF s
<1> QED
  BY <1>1, <1>2, <1>3, <1>4, QuietKeeps

\* A request that goes on to phase p and step s without a decision.
LEMMA GoesOn ==
  ASSUME Front!AuthorizationAssumption, FrontInv, NEW r \in batch.requests,
         NEW p \in {"resolve", "none", "decide", "silent"}, NEW s \in Steps \ {"none"}, NEW f,
         run[r].phase \notin {"idle", "complete", "done"}, run[r].kind = "none",
         Became(r, p, s, f, "none", "none"), UNCHANGED <<Front!worldVars, request, claim>>, faults' \in 0 .. FrontFaults,
         witness' = witness \/ (witness' = Front!Since(r, facts, grant) /\ s \in {"view", "client"}),
         PlaceFit(r, p, s, "none", "none"), PromptFit(r, p, s, "none", "none"), SeenFit(r, p, s, f)
  PROVE  FrontInv'
  BY QuietKeeps DEF KindFit, LoginFit, Front!UserKinds, FitAt, Phases, FrontReplies

-----------------------------------------------------------------------------
(* The steps of a request *)

LEMMA RouteKeeps ==
  ASSUME Front!AuthorizationAssumption, FrontInv, NEW r \in batch.requests, Front!Route(r)
  PROVE  FrontInv'
<1>1. /\ run[r].phase = "route" /\ run[r].kind = "none" /\ run[r].answer = "none" /\ Front!Op(r) = "gateway"
      /\ Front!Quiet /\ UNCHANGED <<Front!worldVars, request, claim, witness>> /\ faults' \in 0 .. FrontFaults
      /\ r \in FrontRequests /\ Shapes
  BY AtWork DEF Front!Route, Front!At, FitAt, PlaceFit
<1>2. CASE Front!Answer(r, "gone") \/ (~Front!Structured /\ Front!Answer(r, "bad"))
  BY <1>1, <1>2, AnswerKeeps DEF FrontReplies, Front!Pages
<1>3. CASE Front!Structured /\ Front!HasPrompt("none") /\ Front!Fresh(run[r].sess) /\ Front!Goto(r, "none", "client")
  BY <1>1, <1>3, GotoIs, GoesOn DEF Phases, Steps, PlaceFit, PromptFit, SeenFit, Front!Pages
<1>4. ASSUME NEW k \in {"login_required", "request_not_supported", "account_selection_required"},
             Front!Structured, k \in Meant, Front!ToError(r, k), k = "login_required" => ~Front!Fresh(run[r].sess)
      PROVE  FrontInv'
  BY <1>1, <1>4, Freshness, DecidedKeeps DEF Front!Kinds, Front!UserKinds, KindFit, Front!ToError
<1>5. CASE Front!Structured /\ ~Front!NotForPages /\ Front!Goto(r, "resolve", "view")
  BY <1>1, <1>5, GotoIs, GoesOn DEF Phases, Steps, PlaceFit, PromptFit, SeenFit, Front!Pages
<1> QED
  BY <1>2, <1>3, <1>4, <1>5 DEF Front!Route, Meant, Front!NotForPages

LEMMA ResolveRequestKeeps ==
  ASSUME Front!AuthorizationAssumption, FrontInv, NEW r \in batch.requests, Front!ResolveRequest(r)
  PROVE  FrontInv'
<1>1. /\ run[r].phase = "resolve" /\ run[r].kind = "none" /\ run[r].answer = "none"
      /\ Front!Op(r) \in {"gateway", "read"}
      /\ Front!Quiet /\ UNCHANGED <<Front!worldVars, request, claim, witness>> /\ faults' \in 0 .. FrontFaults
      /\ r \in FrontRequests /\ Shapes /\ (Front!Op(r) = "gateway" => ~Front!NotForPages)
  BY AtWork DEF Front!ResolveRequest, Front!At, FitAt, PlaceFit, PromptFit
<1>2. CASE Front!Show(r, "expired") \/ Front!Show(r, "not_interactive")
  BY <1>1, <1>2, AnswerKeeps DEF Front!Show, Front!RouteInteractive, FrontReplies, Front!Pages
<1>3. CASE Front!Interactive /\ Front!Goto(r, "resolve", "client")
  BY <1>1, <1>3, GotoIs, GoesOn DEF Phases, Steps, PlaceFit, PromptFit, SeenFit, Front!Pages
<1> QED
  BY <1>2, <1>3 DEF Front!ResolveRequest

LEMMA DecideRequestKeeps ==
  ASSUME Front!AuthorizationAssumption, FrontInv, NEW r \in batch.requests, Front!DecideRequest(r)
  PROVE  FrontInv'
<1>1. /\ run[r].phase = "decide" /\ run[r].kind = "none" /\ run[r].answer = "none" /\ Front!Op(r) = "decide"
      /\ Front!Quiet /\ UNCHANGED <<Front!worldVars, request, claim, witness>> /\ faults' \in 0 .. FrontFaults
      /\ r \in FrontRequests /\ Shapes
  BY AtWork DEF Front!DecideRequest, Front!At, FitAt, PlaceFit
<1>2. CASE Front!Answer(r, "expired")
  BY <1>1, <1>2, AnswerKeeps DEF FrontReplies, Front!Pages
<1>3. CASE Front!Interactive /\ Front!Goto(r, "decide", "client")
  BY <1>1, <1>3, GotoIs, GoesOn DEF Phases, Steps, PlaceFit, PromptFit, SeenFit, Front!Pages
<1> QED
  BY <1>2, <1>3 DEF Front!DecideRequest

LEMMA SilentRequestKeeps ==
  ASSUME Front!AuthorizationAssumption, FrontInv, NEW r \in batch.requests, Front!SilentRequest(r)
  PROVE  FrontInv'
<1>1. /\ run[r].phase = "silent" /\ run[r].kind = "none" /\ run[r].answer = "none" /\ Front!Op(r) = "gateway"
      /\ UNCHANGED <<Front!worldVars, request, claim>> /\ faults' \in 0 .. FrontFaults
      /\ witness' = Front!Since(r, facts, grant) /\ r \in FrontRequests /\ Shapes
  BY AtWork DEF Front!SilentRequest, Front!At, FitAt, PlaceFit, Shapes
<1>2. CASE Front!Answer(r, "gone")
  BY <1>1, <1>2, AnswerKeeps DEF FrontReplies, Front!Pages
<1>3. CASE Front!Structured /\ Front!HasPrompt("none") /\ Front!Goto(r, "silent", "client")
  BY <1>1, <1>3, GotoIs, GoesOn DEF Phases, Steps, PlaceFit, PromptFit, SeenFit, Front!Pages
<1> QED
  BY <1>2, <1>3 DEF Front!SilentRequest

LEMMA ErrorRequestKeeps ==
  ASSUME Front!AuthorizationAssumption, FrontInv, NEW r \in batch.requests, Front!ErrorRequest(r)
  PROVE  FrontInv'
<1> DEFINE k == run[r].kind
<1>1. /\ run[r].phase = "error" /\ run[r].answer = "none" /\ FitAt(r, "error", "view", run[r].seen, k, "none")
      /\ Front!Quiet /\ UNCHANGED <<Front!worldVars, request, claim, witness>> /\ faults' \in 0 .. FrontFaults
      /\ r \in FrontRequests /\ Shapes
  BY AtWork DEF Front!ErrorRequest, Front!At
<1>2. CASE Front!Answer(r, "gone")
  BY <1>1, <1>2, AnswerKeeps DEF FrontReplies, Front!Pages
<1>3. CASE Front!Goto(r, "claim", "none")
  BY <1>1, <1>3, GotoIs, QuietKeeps DEF Phases, Steps, FitAt, PlaceFit, PromptFit, SeenFit, FrontReplies
<1> QED
  BY <1>2, <1>3 DEF Front!ErrorRequest

\* A request that reads is at one of four doors, undecided.
LEMMA AtDoor ==
  ASSUME Front!AuthorizationAssumption, FrontInv, NEW r \in batch.requests,
         run[r].step \in {"client", "redirects", "scopes", "grant"}
  PROVE  /\ run[r].phase \in {"resolve", "none", "decide", "silent"}
         /\ run[r].kind = "none" /\ run[r].answer = "none" /\ r \in FrontRequests /\ Shapes
         /\ run[r].phase \in {"none", "silent"}
            => Front!Op(r) = "gateway" /\ Front!HasPrompt("none") /\ Front!Structured
         /\ run[r].phase = "decide" => Front!Op(r) = "decide" /\ Front!Interactive /\ run[r].step # "grant"
         /\ run[r].phase = "resolve" => /\ Front!Op(r) \in {"gateway", "read"} /\ Front!Interactive
                                        /\ Front!Op(r) = "gateway" => ~Front!NotForPages
         /\ PlaceFit(r, run[r].phase, run[r].step, "none", "none")
         /\ SeenFit(r, run[r].phase, run[r].step, run[r].seen)
         /\ \A s \in {"client", "redirects", "scopes", "grant"} :
              /\ PromptFit(r, run[r].phase, s, "none", "none")
              /\ s # "grant" \/ run[r].phase # "decide" => PlaceFit(r, run[r].phase, s, "none", "none")
  BY AtWork DEF FitAt, PlaceFit, Records, Phases, PromptFit, Front!Pages

\* A door that refuses shows no page.
LEMMA RefuseKeeps ==
  ASSUME Front!AuthorizationAssumption, FrontInv, NEW r \in batch.requests,
         NEW v \in {"client_not_found", "redirect_mismatch", "scope_not_allowed"},
         run[r].step \in {"client", "redirects", "scopes", "grant"}, Front!Refuse(r, v), Front!Quiet
  PROVE  FrontInv'
  BY AtDoor, AtWork, AnswerKeeps DEF Front!Refuse, Front!Show, Front!RouteInteractive, FrontReplies, Front!Pages

\* What is true of the world is known of a request at work.
LEMMA NowKnown ==
  ASSUME Front!AuthorizationAssumption, FrontInv, NEW r \in batch.requests,
         run[r].phase \notin {"idle", "done"}
  PROVE  /\ Front!Active(facts) => Known(r, "client")
         /\ Front!RedirectMatches(facts) => Known(r, "redirect")
         /\ Front!ScopesAllowed(facts) => Known(r, "scopes")
         /\ facts.mode = "first_authorization" => Known(r, "mode")
         /\ Front!Covers(grant) => Known(r, "grant")
         /\ facts.mode # "first_authorization" \/ ~Front!Covers(grant) => Known(r, "nogrant")
  BY DEF FrontInv, Front!Working, Front!TrueOf, Witnessed

LEMMA ReadClientKeeps ==
  ASSUME Front!AuthorizationAssumption, FrontInv, NEW r \in batch.requests, Front!ReadClient(r)
  PROVE  FrontInv'
<1>1. run[r].step = "client" /\ Front!Quiet
  BY DEF Front!ReadClient
<1>2. CASE Front!Refuse(r, "client_not_found")
  BY <1>1, <1>2, RefuseKeeps
<1>3. CASE run' = [run EXCEPT ![r].step = "redirects", ![r].seen = [facts EXCEPT !.redirects = {}, !.scopes = {}]]
  <2> DEFINE f == [facts EXCEPT !.redirects = {}, !.scopes = {}]
  <2>1. facts \in Front!Facts
    BY AtWork DEF Shapes
  <2>2. f \in Front!Facts /\ (Front!Active(f) <=> Front!Active(facts)) /\ f.mode = facts.mode
    BY <2>1 DEF Front!Facts, Front!Active
  <2>3. run' = [run EXCEPT ![r].step = "redirects", ![r].seen = f]
    BY <1>3
  <2> HIDE DEF f
  <2>4. Became(r, run[r].phase, "redirects", f, "none", "none")
    BY <1>1, <2>2, <2>3, AtDoor, ReadsOn DEF Steps
  <2>5. SeenFit(r, run[r].phase, "redirects", f)
    BY <1>1, <2>2, AtDoor, NowKnown DEF SeenFit
  <2> QED
    BY <1>1, <2>4, <2>5, AtDoor, AtWork, GoesOn DEF Steps
<1> QED
  BY <1>2, <1>3 DEF Front!ReadClient

LEMMA ReadRedirectsKeeps ==
  ASSUME Front!AuthorizationAssumption, FrontInv, NEW r \in batch.requests, Front!ReadRedirects(r)
  PROVE  FrontInv'
<1> DEFINE f == [run[r].seen EXCEPT !.redirects = facts.redirects]
<1>1. run[r].step = "redirects" /\ Front!Quiet /\ run \in [FrontRequests -> Records] /\ r \in FrontRequests
  BY AtWork DEF Front!ReadRedirects, Shapes
<1>2. facts \in Front!Facts /\ run[r].seen \in Front!Facts
  BY <1>1, AtWork DEF Shapes, Records
<1>3. f \in Front!Facts /\ (Front!Active(f) <=> Front!Active(run[r].seen)) /\ f.mode = run[r].seen.mode
      /\ (Front!RedirectMatches(f) <=> Front!RedirectMatches(facts))
  BY <1>2 DEF Front!Facts, Front!Active, Front!RedirectMatches
<1>4. run' = [run EXCEPT ![r].step = "scopes", ![r].seen = f]
  BY <1>1 DEF Front!ReadRedirects, Records
<1> HIDE DEF f
<1>5. Became(r, run[r].phase, "scopes", f, "none", "none")
  BY <1>1, <1>3, <1>4, AtDoor, ReadsOn DEF Steps
<1>6. SeenFit(r, run[r].phase, "scopes", f)
  BY <1>1, <1>3, AtDoor, NowKnown DEF SeenFit
<1> QED
  BY <1>1, <1>5, <1>6, AtDoor, AtWork, GoesOn DEF Steps

LEMMA ReadScopesKeeps ==
  ASSUME Front!AuthorizationAssumption, FrontInv, NEW r \in batch.requests, Front!ReadScopes(r)
  PROVE  FrontInv'
<1> DEFINE f == [run[r].seen EXCEPT !.scopes = facts.scopes]
           onward == run' = [run EXCEPT ![r].step = "grant", ![r].seen = f]
<1>1. run[r].step = "scopes" /\ Front!Quiet /\ run[r] \in Records /\ UNCHANGED <<Front!worldVars, request, claim, witness>>
      /\ faults' \in 0 .. FrontFaults
  BY AtWork DEF Front!ReadScopes
<1>2. facts \in Front!Facts /\ run[r].seen \in Front!Facts
  BY <1>1, AtWork DEF Shapes, Records
<1>3. f \in Front!Facts /\ (Front!Active(f) <=> Front!Active(run[r].seen)) /\ f.mode = run[r].seen.mode
      /\ (Front!RedirectMatches(f) <=> Front!RedirectMatches(run[r].seen))
      /\ (Front!ScopesAllowed(f) <=> Front!ScopesAllowed(facts))
  BY <1>2 DEF Front!Facts, Front!Active, Front!RedirectMatches, Front!ScopesAllowed
<1>4. \/ \E v \in {"client_not_found", "redirect_mismatch", "scope_not_allowed"} : Front!Refuse(r, v)
      \/ /\ Front!Active(f) /\ Front!RedirectMatches(f) /\ Front!ScopesAllowed(f)
         /\ \/ run[r].phase = "resolve" /\ Front!Resolve(r, f)
            \/ run[r].phase = "none" /\ onward
            \/ run[r].phase = "decide" /\ Front!Decide(r)
            \/ run[r].phase = "silent" /\ Front!Fresh(run[r].sess) /\ onward
            \/ run[r].phase = "silent" /\ Front!Answer(r, "gone")
  BY <1>1, AtDoor DEF Front!ReadScopes, Front!Judged, Front!Verdict
<1>5. CASE \E v \in {"client_not_found", "redirect_mismatch", "scope_not_allowed"} : Front!Refuse(r, v)
  BY <1>1, <1>5, RefuseKeeps
<1>6. CASE Front!Active(f) /\ Front!RedirectMatches(f) /\ Front!ScopesAllowed(f)
  <2>1. InForce(r)
    BY <1>1, <1>3, <1>6, AtDoor, NowKnown DEF SeenFit, InForce
  <2>2. ASSUME onward, run[r].phase # "decide", run[r].phase = "silent" => Front!Fresh(run[r].sess)
        PROVE  FrontInv'
    <3> HIDE DEF f
    <3>1. Became(r, run[r].phase, "grant", f, "none", "none")
      BY <1>1, <1>3, <2>2, AtDoor, ReadsOn DEF Steps
    <3>2. SeenFit(r, run[r].phase, "grant", f)
      BY <1>1, <1>3, <2>1, <2>2, AtDoor, Freshness DEF SeenFit
    <3> QED
      BY <1>1, <2>2, <3>1, <3>2, AtDoor, GoesOn DEF Steps
  <2>3. CASE run[r].phase = "resolve" /\ Front!Resolve(r, f)
    BY <2>2, <2>3, <1>1, AtDoor, Freshness, AnswerKeeps DEF Front!Resolve, Front!Show, Front!RouteInteractive,
                                        FrontReplies, Front!Pages,
       Front!NotForPages, Front!Interactive
  <2>4. CASE run[r].phase = "decide" /\ Front!Decide(r)
    <3>1. Front!Op(r) = "decide" /\ Front!Interactive /\ Front!Choice(r) \in Front!UserKinds
      BY <1>1, <2>4, AtDoor, Inputs, AtWork
    <3>2. CASE Front!Answer(r, "not_interactive") \/ Front!Answer(r, "expired")
      BY <1>1, <2>4, <3>2, AnswerKeeps DEF FrontReplies, Front!Pages
    <3>3. CASE ~run[r].sess.v2 /\ Front!Answer(r, "relogin")
      BY <1>1, <2>4, <3>3, Freshness, AnswerKeeps DEF FrontReplies, Front!Pages
    <3>4. CASE /\ ~Front!HasPrompt("none") /\ Front!Fresh(run[r].sess)
               /\ (Front!Choice(r) = "allow" => run[r].sess.v2)
               /\ Front!ToClaim(r, Front!Choice(r))
      <4>1. ~Front!NotForPages /\ Front!Structured /\ Front!Choice(r) \in Meant /\ Front!Choice(r) \in Front!Kinds
        BY <3>1, <3>4 DEF Front!NotForPages, Front!Interactive, Meant, Front!Kinds, Front!UserKinds
      <4>2. KindFit(r, Front!Choice(r)) /\ Front!Choice(r) # "login_required"
        BY <2>1, <3>1, <3>4, Freshness DEF KindFit, Front!UserKinds
      <4> QED
        BY <1>1, <2>4, <3>1, <3>4, <4>1, <4>2, DecidedKeeps DEF Front!ToClaim
    <3> QED
      BY <2>4, <3>2, <3>3, <3>4 DEF Front!Decide
  <2>5. CASE run[r].phase = "silent" /\ Front!Answer(r, "gone")
    BY <1>1, <2>5, AnswerKeeps DEF FrontReplies, Front!Pages
  <2> QED
    BY <1>4, <1>5, <2>2, <2>3, <2>4, <2>5
<1> QED
  BY <1>4, <1>5, <1>6

LEMMA ReadGrantKeeps ==
  ASSUME Front!AuthorizationAssumption, FrontInv, NEW r \in batch.requests, Front!ReadGrant(r)
  PROVE  FrontInv'
<1> DEFINE f == run[r].seen
           reusable == Front!Reusable(f, grant)
<1>1. run[r].step = "grant" /\ Front!Quiet /\ UNCHANGED <<Front!worldVars, request, claim, witness>> /\ faults' \in 0 .. FrontFaults
  BY AtWork DEF Front!ReadGrant
<1>2. Front!PageGrant(r, reusable) \/ Front!BranchGrant(r, reusable) \/ Front!SilentGrant(r, reusable)
  BY DEF Front!ReadGrant
<1>3. SeenFit(r, run[r].phase, "grant", f)
  BY <1>1, AtDoor
<1>4. CASE Front!PageGrant(r, reusable)
  BY <1>1, <1>4, AtDoor, AnswerKeeps DEF Front!PageGrant, Front!Show, Front!RouteInteractive, FrontReplies,
                                        Front!Pages, Front!NotForPages,
     Front!Interactive
<1>5. ASSUME run[r].phase \in {"none", "silent"}, ~reusable, Front!ToError(r, "consent_required")
      PROVE  FrontInv'
  <2>1. Front!Op(r) = "gateway" /\ Front!HasPrompt("none") /\ Front!Structured
    BY <1>1, <1>5, AtDoor
  <2>2. ~Front!HasPrompt("consent")
    BY <2>1, AtWork
  <2>3. Known(r, "nogrant")
    BY <1>1, <1>3, <1>5, <2>2, NowKnown DEF Front!Reusable, SeenFit
  <2>4. KindFit(r, "consent_required") /\ "consent_required" \in Meant /\ "consent_required" \in Front!Kinds \ Front!UserKinds
    BY <2>1, <2>3 DEF KindFit, Meant, Front!Kinds, Front!UserKinds
  <2> QED
    BY <1>1, <1>5, <2>1, <2>4, DecidedKeeps DEF Front!ToError
<1>6. CASE run[r].phase = "none" /\ Front!Goto(r, "silent", "view")
  BY <1>1, <1>6, AtDoor, GotoIs, GoesOn DEF Phases, Steps, PlaceFit, PromptFit, SeenFit, Front!Pages
<1>7. CASE run[r].phase = "silent" /\ ~run[r].sess.v2 /\ Front!ToError(r, "login_required")
  BY <1>1, <1>7, AtDoor, Freshness, DecidedKeeps DEF KindFit, Meant, Front!Kinds, Front!UserKinds, Front!ToError
<1>8. CASE run[r].phase = "silent" /\ reusable /\ run[r].sess.v2 /\ Front!ToClaim(r, "allow")
  BY <1>1, <1>8, AtDoor, <1>3, NowKnown, DecidedKeeps DEF KindFit, Meant, Front!Kinds, Front!Reusable, SeenFit,
                                        Front!ToClaim
<1> QED
  BY <1>2, <1>4, <1>5, <1>6, <1>7, <1>8 DEF Front!BranchGrant, Front!SilentGrant

LEMMA ClaimKeeps ==
  ASSUME Front!AuthorizationAssumption, FrontInv, NEW r \in batch.requests, Front!Claim(r)
  PROVE  FrontInv'
<1> DEFINE k == run[r].kind
<1>1. /\ run[r].phase = "claim" /\ run[r].answer = "none"
      /\ FitAt(r, "claim", run[r].step, run[r].seen, k, "none")
      /\ UNCHANGED <<Front!worldVars, request, witness>> /\ faults' \in 0 .. FrontFaults
      /\ r \in FrontRequests /\ Shapes /\ batch.requests \subseteq FrontRequests
  BY AtWork DEF Front!Claim, Shapes
<1>2. CASE UNCHANGED claim /\ Front!Answer(r, IF Front!Op(r) = "decide" THEN "decided" ELSE "gone")
  BY <1>2, <1>1, AnswerKeeps DEF FrontReplies, Front!Pages
<1>3. CASE claim = Front!NoClaim /\ claim' = Front!Plan(r) /\ Front!Goto(r, "complete", "none")
  <2>1. Became(r, "complete", "none", Front!NoFacts, k, "none")
    BY <1>1, <1>3, GotoIs DEF Phases, Steps
  <2>2. FitAt(r, "complete", "none", Front!NoFacts, k, "none")
    BY <1>1 DEF FitAt, PlaceFit, PromptFit, SeenFit
  <2>3. FitAt(r, "complete", "none", Front!NoFacts, k, "none")'
    BY <1>1, <2>1, <2>2, FitStays DEF Front!worldVars, Shapes, Known, Became
  <2>4. ReqAt(r)'
    BY <1>1, <2>1, <2>3 DEF FrontInv, ReqAt, Became, Front!worldVars
  <2>5. ClaimOf'
    BY <1>1, <1>3, Inputs, <2>1 DEF FrontInv, ClaimOf, Front!NoClaim, Front!Plan, FitAt, PlaceFit,
                                    Front!worldVars, Won, Became
  <2> QED
    BY <1>1, <2>1, <2>4, <2>5, StepKeeps DEF Became, Front!Working, Shapes
<1> QED
  BY <1>2, <1>3 DEF Front!Claim

LEMMA CompleteKeeps ==
  ASSUME Front!AuthorizationAssumption, FrontInv, NEW r \in batch.requests, Front!Complete(r)
  PROVE  FrontInv'
<1> DEFINE k == run[r].kind
<1>1. /\ run[r].phase = "complete" /\ FitAt(r, "complete", run[r].step, run[r].seen, k, run[r].answer)
      /\ UNCHANGED <<Front!worldVars, claim, witness>> /\ faults' \in 0 .. FrontFaults
      /\ request' \in {"open", "gone"}
      /\ r \in FrontRequests /\ Shapes /\ batch.requests \subseteq FrontRequests
  BY Bounds, AtWork DEF Shapes, Front!Complete
<1>2. PICK a \in {"callback", "failed"} : Front!Answer(r, a)
  BY DEF Front!Complete
<1>3. Became(r, "done", "none", Front!NoFacts, k, a)
  BY <1>1, <1>2, AnswerIs DEF FrontReplies
<1>4. FitAt(r, "done", "none", Front!NoFacts, k, a)
  BY <1>1 DEF FitAt, PlaceFit, PromptFit, SeenFit, LoginFit, Front!Pages
<1>5. FitAt(r, "done", "none", Front!NoFacts, k, a)'
  BY <1>1, <1>3, <1>4, FitStays DEF Front!worldVars, Shapes, Known, Became
<1>6. ReqAt(r)'
  BY <1>1, <1>3, <1>5 DEF FrontInv, ReqAt, Became, Front!worldVars
<1>7. ClaimOf'
  BY <1>1, Inputs, <1>3 DEF FrontInv, ClaimOf, Won, Front!NoClaim, Became, Front!worldVars
<1> QED
  BY <1>1, <1>3, <1>6, <1>7, StepKeeps DEF Became, Front!Working

LEMMA FailsKeeps ==
  ASSUME Front!AuthorizationAssumption, FrontInv, NEW r \in batch.requests, Front!Fails(r)
  PROVE  FrontInv'
  BY AtWork, Bounds, AnswerKeeps DEF Front!Fails, Shapes, FitAt, PlaceFit, FrontReplies, Front!Pages

LEMMA ArriveKeeps ==
  ASSUME Front!AuthorizationAssumption, FrontInv, NEW r \in batch.requests, Front!Arrive(r)
  PROVE  FrontInv'
<1>1. /\ run[r].phase = "idle" /\ run[r].kind = "none" /\ run[r].answer = "none"
      /\ UNCHANGED <<Front!worldVars, request, claim>> /\ faults' \in 0 .. FrontFaults
      /\ request' \in {"open", "gone"}
      /\ witness' = Front!Since(r, facts, grant) /\ r \in FrontRequests /\ Shapes
      /\ run \in [FrontRequests -> Records] /\ Front!Op(r) \in {"gateway", "read", "decide"}
  BY AtWork, Inputs DEF Front!Arrive, FitAt, PlaceFit, Shapes
<1>2. clock \in Nat /\ session \in Sessions /\ Front!NoFacts \in Front!Facts /\ ReqAt(r) /\ clock' = clock
  BY <1>1, AtWork DEF Shapes, FrontInv, Front!worldVars
<1>3. CASE Front!Answer(r, "unauthorized")
  <2>1. Became(r, "done", "none", Front!NoFacts, "none", "unauthorized")
    BY <1>1, <1>3, AnswerIs DEF FrontReplies
  <2>2. FitAt(r, "done", "none", Front!NoFacts, "none", "unauthorized")'
    BY DEF FitAt, PlaceFit, PromptFit, SeenFit, KindFit, LoginFit, Front!Pages, Front!UserKinds
  <2>3. ReqAt(r)'
    BY <1>2, <2>1, <2>2 DEF ReqAt, Became
  <2>4. ClaimOf'
    BY <1>1, <2>1, ClaimStays DEF Became, Front!worldVars
  <2> QED
    BY <1>1, <2>1, <2>3, <2>4, StepKeeps DEF Became
<1>4. ASSUME NEW p \in {"route", "resolve", "decide"},
             (p = "route" <=> Front!Op(r) = "gateway") /\ (p = "resolve" <=> Front!Op(r) = "read") /\ (p = "decide" <=> Front!Op(r) = "decide"),
             run' = [run EXCEPT ![r] = [Front!Idle EXCEPT !.phase = p, !.step = "view", !.sess = session, !.began = clock]]
      PROVE  FrontInv'
  <2>1. /\ run' \in [FrontRequests -> Records] /\ \A q \in FrontRequests \ {r} : run'[q] = run[q]
        /\ run'[r].phase = p /\ run'[r].step = "view" /\ run'[r].began = clock
        /\ run'[r].kind = "none" /\ run'[r].answer = "none"
    BY <1>1, <1>2, <1>4 DEF Front!Idle, Records, Phases, Steps, Outcomes, FrontReplies
  <2>2. FitAt(r, p, "view", run[r].seen, "none", "none")'
    BY <1>1, <1>4 DEF FitAt, PlaceFit, PromptFit, SeenFit, KindFit, LoginFit, Front!Pages, Front!UserKinds
  <2>3. ReqAt(r)'
    BY <1>2, <2>1, <2>2 DEF ReqAt
  <2>4. ClaimOf'
    BY <1>1, <1>4, <2>1, ClaimStays DEF Front!worldVars
  <2> QED
    BY <1>1, <2>1, <2>3, <2>4, StepKeeps
<1>5. \/ Front!Answer(r, "unauthorized")
      \/ \E p \in {"route", "resolve", "decide"} :
           /\ (p = "route" <=> Front!Op(r) = "gateway") /\ (p = "resolve" <=> Front!Op(r) = "read")
           /\ (p = "decide" <=> Front!Op(r) = "decide")
           /\ run' = [run EXCEPT ![r] = [Front!Idle EXCEPT !.phase = p, !.step = "view", !.sess = session, !.began = clock]]
  <2> DEFINE p == CASE Front!Op(r) = "gateway" -> "route" [] Front!Op(r) = "read" -> "resolve" [] Front!Op(r) = "decide" -> "decide"
  <2>1. /\ p \in {"route", "resolve", "decide"}
        /\ (p = "route" <=> Front!Op(r) = "gateway") /\ (p = "resolve" <=> Front!Op(r) = "read")
        /\ (p = "decide" <=> Front!Op(r) = "decide")
    BY <1>1
  <2>2. \/ Front!Answer(r, "unauthorized")
        \/ run' = [run EXCEPT ![r] = [Front!Idle EXCEPT !.phase = p, !.step = "view", !.sess = session, !.began = clock]]
    BY DEF Front!Arrive
  <2> HIDE DEF p
  <2> QED
    BY <2>1, <2>2
<1> QED
  BY <1>3, <1>4, <1>5

-----------------------------------------------------------------------------
(* The world goes on *)

LEMMA WorldKeeps ==
  ASSUME Front!AuthorizationAssumption, FrontInv, Front!World
  PROVE  FrontInv'
<1>1. Shapes /\ Witnessed /\ ClaimOf /\ clock \in Nat
  BY DEF FrontInv, Shapes
<1>2. PICK f \in Front!Facts : \E g : Front!Changed(f, g)
  BY <1>1, Inputs DEF Shapes, Front!World, Front!EditClient, Front!EditGrant, Front!Login, Front!Logout,
                      Front!Wait, Front!Expire
<1>9. PICK g : Front!Changed(f, g)
  BY <1>2
<1>3. /\ session' \in Sessions /\ clock' \in Nat /\ session'.auth <= clock' /\ clock <= clock'
      /\ request' \in {"open", "gone"}
  <2>1. CASE session' = session /\ clock' \in {clock, clock + 1}
    BY <1>1, <2>1, OldSession DEF Front!World, Front!EditClient, Front!EditGrant, Front!Login, Front!Logout,
                                  Front!Wait, Front!Expire, Front!Still, Shapes
  <2>2. CASE session' = [on |-> TRUE, auth |-> clock + 1, v2 |-> TRUE] /\ clock' = clock + 1 /\ request' = request
    BY <1>1, <2>2 DEF Sessions, Shapes
  <2>3. CASE session' = Front!NoSession /\ clock' = clock /\ request' = request
    BY <1>1, <2>3 DEF Sessions, Front!NoSession, Shapes
  <2> QED
    BY <2>1, <2>2, <2>3 DEF Front!World, Front!EditClient, Front!EditGrant, Front!Login, Front!Logout,
                            Front!Wait, Front!Expire, Front!Still
<1>4. /\ changes' \in 0 .. MaxChanges /\ facts' = f /\ grant' = g /\ batch' = batch
      /\ witness' = witness \cup (Front!Working \X Front!TrueOf(f, g)) /\ UNCHANGED <<claim, run, faults>>
  BY <1>1, <1>9, Bounds DEF Front!Changed, Shapes
<1>5. Shapes'
  BY <1>1, <1>3, <1>4 DEF Shapes
<1>6. Witnessed'
  <2>1. Front!TrueOf(facts, grant)' = Front!TrueOf(f, g) /\ Front!Working' = Front!Working
    BY <1>4, BatchStays DEF Front!TrueOf, Front!Active, Front!Covers, Front!Requested, Front!Working
  <2> QED
    BY <1>4, <2>1 DEF Witnessed, Known
<1>7. ClaimOf'
  BY <1>1, <1>4 DEF ClaimOf, Won
<1>8. ASSUME NEW r \in batch.requests
      PROVE  ReqAt(r)'
  BY <1>8, <1>4, <1>1, <1>3, FitStays, SessionOf DEF FrontInv, Known, ReqAt
<1> QED
  BY <1>4, <1>5, <1>6, <1>7, <1>8 DEF FrontInv

-----------------------------------------------------------------------------
(* The invariant, and what follows from it *)

LEMMA FrontInit == Front!AuthorizationAssumption /\ Front!Init => FrontInv
<1> SUFFICES ASSUME Front!AuthorizationAssumption, Front!Init
             PROVE  FrontInv
  OBVIOUS
<1>1. /\ batch \in FrontBatches /\ facts = batch.facts /\ batch.facts \in Front!Rows
      /\ session = batch.session
      /\ batch.session \in {Front!NoSession} \cup [on : {TRUE}, auth : {0, 1}, v2 : BOOLEAN] /\ clock = 1
      /\ batch.requests \subseteq FrontRequests /\ "none" \notin FrontRequests
  <2>1. batch \in FrontBatches
    BY DEF Front!Init
  <2>2. batch.facts \in Front!Rows
    BY <2>1 DEF Front!Rows
  <2> QED
    BY <2>1, <2>2 DEF Front!Init, Front!AuthorizationAssumption
<1>2. facts \in Front!Facts
  BY <1>1 DEF Front!AuthorizationAssumption
<1>3. session \in Sessions /\ session.auth <= clock
  <2>1. CASE session = Front!NoSession
    BY <1>1, <2>1 DEF Sessions, Front!NoSession
  <2>2. CASE session \in [on : {TRUE}, auth : {0, 1}, v2 : BOOLEAN]
    <3>1. PICK n \in {0, 1}, v \in BOOLEAN : session = [on |-> TRUE, auth |-> n, v2 |-> v]
      BY <2>2
    <3>2. session.auth = n /\ n \in Nat /\ n <= 1
      BY <3>1
    <3>3. session \in [on : {TRUE}, auth : Nat, v2 : BOOLEAN]
      BY <3>1, <3>2
    <3>4. clock = 1
      BY <1>1
    <3> QED
      BY <3>2, <3>3, <3>4 DEF Sessions
  <2> QED
    BY <1>1, <2>1, <2>2
<1>4. Front!Idle \in Records
  BY DEF Front!Idle, Records, Sessions, Front!Facts, Front!NoFacts, Phases, Steps, Outcomes, FrontReplies
<1>5. Shapes
  BY <1>1, <1>2, <1>3, <1>4 DEF Shapes, Front!Init, Front!AuthorizationAssumption
<1>6. Witnessed /\ ClaimOf
  BY <1>1 DEF Witnessed, Front!Working, ClaimOf, Won, Front!Init, Front!Idle
<1>7. ASSUME NEW r \in batch.requests
      PROVE  ReqAt(r)
  BY <1>1 DEF ReqAt, FitAt, PlaceFit, PromptFit, SeenFit, KindFit, LoginFit, Front!Pages, Front!UserKinds,
              Front!Init, Front!Idle
<1> QED
  BY <1>5, <1>6, <1>7 DEF FrontInv

LEMMA FrontStep == Front!AuthorizationAssumption /\ FrontInv /\ [Front!Next]_(Front!vars) => FrontInv'
<1> SUFFICES ASSUME Front!AuthorizationAssumption, FrontInv, [Front!Next]_(Front!vars)
             PROVE  FrontInv'
  OBVIOUS
<1>1. CASE Front!World
  BY <1>1, WorldKeeps
<1>2. ASSUME NEW r \in batch.requests,
             Front!Arrive(r) \/ Front!Read(r) \/ Front!Claim(r) \/ Front!Complete(r) \/ Front!Fails(r)
      PROVE  FrontInv'
  BY <1>2, ArriveKeeps, RouteKeeps, ResolveRequestKeeps, DecideRequestKeeps, SilentRequestKeeps,
     ErrorRequestKeeps, ReadClientKeeps, ReadRedirectsKeeps, ReadScopesKeeps, ReadGrantKeeps, ClaimKeeps,
     CompleteKeeps, FailsKeeps
  DEF Front!Read
<1>3. CASE UNCHANGED Front!vars
  <2>1. UNCHANGED <<batch, request, facts, grant, session, clock, claim, run, witness, changes, faults>>
    BY <1>3 DEF Front!vars
  <2>2. Front!TrueOf(facts, grant)' = Front!TrueOf(facts, grant)
    BY <2>1, BatchStays DEF Front!TrueOf, Front!Active, Front!Covers, Front!Requested
  <2>3. Shapes' /\ Witnessed' /\ ClaimOf'
    BY <2>1, <2>2 DEF FrontInv, Shapes, Witnessed, Front!Working, Known, ClaimOf, Won
  <2>4. ASSUME NEW r \in batch.requests
        PROVE  ReqAt(r)'
    BY <2>4, <2>1, FitStays DEF FrontInv, Shapes, ReqAt, Known
  <2> QED
    BY <2>1, <2>3, <2>4 DEF FrontInv
<1> QED
  BY <1>1, <1>2, <1>3 DEF Front!Next

LEMMA FrontInvariant == Front!AuthorizationAssumption => (Front!Spec => []FrontInv)
<1> SUFFICES ASSUME Front!AuthorizationAssumption
             PROVE  Front!Spec => []FrontInv
  OBVIOUS
<1> QED
  BY FrontInit, FrontStep, PTL DEF Front!Spec

\* Types: what a request is doing is one of the places of its door, and an
\* answer is the end of it.
THEOREM FrontTypes == Front!AuthorizationAssumption => (Front!Spec => []Front!TypeOK)
<1> SUFFICES ASSUME Front!AuthorizationAssumption
             PROVE  Front!Spec => []Front!TypeOK
  OBVIOUS
<1>1. FrontInv => Front!TypeOK
  <2> SUFFICES ASSUME FrontInv
               PROVE  Front!TypeOK
    OBVIOUS
  <2>1. Shapes /\ ClaimOf /\ batch.requests \subseteq FrontRequests /\ "none" \notin FrontRequests
    BY Inputs DEF FrontInv
  <2>2. session = Front!NoSession \/ (session.on /\ session.auth <= clock)
    BY <2>1 DEF Shapes, Sessions
  <2>3. claim.kind \in Front!Kinds \cup {"none"} /\ (claim.by = "none" <=> claim = Front!NoClaim)
    BY <2>1 DEF ClaimOf, Front!NoClaim, Shapes, Records, Outcomes
  <2>4. ASSUME NEW r \in batch.requests
        PROVE  /\ run[r].phase \in Phases /\ run[r].step \in Steps /\ run[r].kind \in Outcomes
               /\ run[r].phase = "done" <=> run[r].answer # "none"
    BY AtWork DEF Records, FitAt, PlaceFit
  <2> QED
    BY <2>1, <2>2, <2>3, <2>4 DEF Front!TypeOK, Shapes, Phases, Steps, Outcomes
<1> QED
  BY <1>1, FrontInvariant, PTL

\* FreshClaims: a decision of a person is claimed on a session that satisfied
\* the prompts and max_age when the decision arrived (authenticationSatisfied).
THEOREM ClaimsAreFresh == Front!AuthorizationAssumption => (Front!Spec => []Front!FreshClaims)
<1> SUFFICES ASSUME Front!AuthorizationAssumption
             PROVE  Front!Spec => []Front!FreshClaims
  OBVIOUS
<1>1. FrontInv => Front!FreshClaims
  BY AtWork DEF Front!FreshClaims, FrontInv, ClaimOf, Front!Claimed, FitAt, KindFit, Satisfied, Front!Winner
<1> QED
  BY <1>1, FrontInvariant, PTL

\* FactsInForce: client, redirect and scopes of a decision of a person each
\* held after the decision began (validateBusinessFacts).
THEOREM FactsWereInForce == Front!AuthorizationAssumption => (Front!Spec => []Front!FactsInForce)
<1> SUFFICES ASSUME Front!AuthorizationAssumption
             PROVE  Front!Spec => []Front!FactsInForce
  OBVIOUS
<1>1. FrontInv => Front!FactsInForce
  BY AtWork DEF Front!FactsInForce, FrontInv, ClaimOf, Front!Claimed, FitAt, KindFit, InForce, Known
<1> QED
  BY <1>1, FrontInvariant, PTL

\* ReuseBacked: a silent allow rests on a grant and a mode that allowed reuse
\* after the silent decision began, and "consent required" on their absence.
THEOREM ReuseIsBacked == Front!AuthorizationAssumption => (Front!Spec => []Front!ReuseBacked)
<1> SUFFICES ASSUME Front!AuthorizationAssumption
             PROVE  Front!Spec => []Front!ReuseBacked
  OBVIOUS
<1>1. FrontInv => Front!ReuseBacked
  BY AtWork DEF Front!ReuseBacked, FrontInv, ClaimOf, Front!Claimed, FitAt, KindFit, Known
<1> QED
  BY <1>1, FrontInvariant, PTL

\* ClaimAnswered: only the winner of the claim gets a callback, and the claim
\* is held by a request that went on to the provider.
THEOREM ClaimsAreAnswered == Front!AuthorizationAssumption => (Front!Spec => []Front!ClaimAnswered)
<1> SUFFICES ASSUME Front!AuthorizationAssumption
             PROVE  Front!Spec => []Front!ClaimAnswered
  OBVIOUS
<1>1. FrontInv => Front!ClaimAnswered
  BY DEF FrontInv, ClaimOf, Won, Front!ClaimAnswered, Front!Claimed, Front!Winner
<1> QED
  BY <1>1, FrontInvariant, PTL

\* NoLoginLoop: whoever has just signed in for the request is not sent to sign
\* in again, unless a positive max_age has run out since.
THEOREM SignInSettles == Front!AuthorizationAssumption => (Front!Spec => []Front!NoLoginLoop)
<1> SUFFICES ASSUME Front!AuthorizationAssumption
             PROVE  Front!Spec => []Front!NoLoginLoop
  OBVIOUS
<1>1. FrontInv => Front!NoLoginLoop
  BY AtWork DEF Front!NoLoginLoop, FitAt, LoginFit, Excused
<1> QED
  BY <1>1, FrontInvariant, PTL

\* OneMeaning: the prompts mean the same at the gateway, on the page and at the
\* decision (validatePromptStructure and what each door makes of it).
THEOREM MeaningIsOne == Front!AuthorizationAssumption => (Front!Spec => []Front!OneMeaning)
<1> SUFFICES ASSUME Front!AuthorizationAssumption
             PROVE  Front!Spec => []Front!OneMeaning
  OBVIOUS
<1>1. FrontInv => Front!OneMeaning
  BY AtWork, Prompts DEF FrontInv, ClaimOf, Front!Claimed, FitAt, PromptFit, Front!OneMeaning, Meant
<1> QED
  BY <1>1, FrontInvariant, PTL
=============================================================================
