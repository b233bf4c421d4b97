-------------------------- MODULE CeremoniesProofs --------------------------
(***************************************************************************)
(* What a two-step ceremony earns and what it leaves behind, for any       *)
(* number of requests, attempts, generations and failures.  The right to   *)
(* the reward is one token that is handed on: from the begin request to    *)
(* the live challenge, from the challenge to the request that consumed it, *)
(* and from there to the session or the grant (SoleRight).  What is stored *)
(* about a ceremony never belongs to an earlier one (Ordered, Challenged). *)
(***************************************************************************)
EXTENDS Ceremonies, Sequences, FiniteSetTheorems, TLAPS

(***************************************************************************)
(* The labels a request can be at                                          *)
(***************************************************************************)
Earning == {"revoke", "mint", "audit", "fresh", "undo"}
Trying  == {"judge", "count", "release", "drop", "consume"}
PathOf(r) ==
  IF Op(r) = "use" THEN {"idle", "gate", "done"}
  ELSE {"idle", "done"} \cup (IF Op(r) = "begin" THEN {"store"} ELSE Trying)
         \cup (IF Login(CeremonyOf(r)) THEN {"session"} ELSE Earning)

OnPath(r) ==
  /\ run[r].pc \in PathOf(r)
  /\ run[r].pc \notin {"idle", "gate", "done"} => run[r].gen # 0
  /\ run[r].won => run[r].pc \in {"consume", "done", "session"} \cup Earning
  /\ run[r].answer \in {"challenge", "granted"} => run[r].pc = "done"

\* A request has its grant from the mint on.
GrantTimed(r) ==
  /\ run[r].pc \in {"audit", "fresh", "undo"} => grant[r].state # "none"
  /\ run[r].pc \notin {"audit", "fresh", "undo", "done"} => grant[r].state = "none"

TypedRuns ==
  /\ run \in [Requests -> Runs]
  /\ \A r \in Requests : OnPath(r)
  /\ \A r \in Grantees : GrantTimed(r)

Types ==
  /\ temp \in [Ceremonies -> {"none", "open", "closed"}]
  /\ chal \in [Ceremonies -> 0 .. MaxGen] /\ stamped \in [Ceremonies -> 0 .. MaxGen]
  /\ attempts \in [Ceremonies -> Nat]
  /\ \A c \in Ceremonies : chal[c] = 0 => attempts[c] = 0
  /\ holder \in [Ceremonies -> Requests \cup {"none"}]
  /\ index \subseteq {c \in Ceremonies : ~Login(c)} /\ popped \subseteq Ceremonies \ index
  /\ grant \in [Grantees -> Grants]
  /\ \A r \in Grantees : (grant[r].state = "none") = (grant[r].gen = 0)
  /\ freshness \subseteq Grantees /\ audited \subseteq Grantees /\ leaked \subseteq Ceremonies
  /\ signedIn \in [Ceremonies -> Nat] /\ wrong \in [Ceremonies -> Nat]
  /\ accepted \in [Grantees -> Nat]
  /\ auth \in [gen : 1 .. MaxGen, intent : BOOLEAN] /\ (auth.intent => auth.gen < MaxGen)
  /\ mishaps \in 0 .. MaxFaults
  /\ TypedRuns

(***************************************************************************)
(* What is stored belongs to the ceremony that is under way                *)
(***************************************************************************)
Ordered ==
  \A r \in Requests :
    Op(r) = "complete" /\ (run[r].pc \notin {"idle", "done"} \/ grant[r].state # "none") =>
      run[Of(r)].answer = "challenge"

Starting(c) == run[c].pc \in {"idle", "store"}

Challenged ==
  \A c \in Ceremonies :
    /\ Starting(c) => chal[c] = 0 /\ c \notin index \cup popped
    /\ chal[c] # 0 /\ ~Login(c) => chal[c] = stamped[c]
    /\ wrong[c] # 0 => run[c].answer = "challenge"
    /\ temp[c] = "open" => ~Login(c)
    /\ holder[c] # "none" => Op(holder[c]) = "complete" /\ Of(holder[c]) = c

\* A grant, and a request on its way to one, has the generation the challenge
\* was stamped with.
Stamped ==
  \A r \in Requests : Op(r) = "complete" =>
    /\ /\ ~Login(Of(r))
       /\ run[r].pc \in {"judge", "mint"} \/ (run[r].won /\ run[r].pc \in {"consume", "revoke"})
       => run[r].gen = stamped[Of(r)]
    /\ grant[r].state # "none" => grant[r].gen = stamped[Of(r)]

(***************************************************************************)
(* The one right to the reward of a ceremony                               *)
(***************************************************************************)
Entitled(r) ==
  /\ Op(r) # "use"
  /\ \/ run[r].pc \in {"session", "mint"}
     \/ run[r].pc = "revoke" /\ run[r].won
     \/ grant[r].state # "none"

Open(c)     == Starting(c) \/ chal[c] # 0
Rightful(c) == {r \in Requests : CeremonyOf(r) = c /\ Entitled(r)}
SoleRight ==
  \A c \in Ceremonies :
    /\ Open(c) => Rightful(c) = {} /\ signedIn[c] = 0
    /\ \A r, s \in Rightful(c) : r = s
    /\ signedIn[c] # 0 => signedIn[c] = 1 /\ Rightful(c) = {}

(***************************************************************************)
(* Whoever takes a grant is the only one who can have it accepted          *)
(***************************************************************************)
SoleTaker ==
  \A g \in Grantees :
    /\ \A r \in Requests : Op(r) = "use" /\ Of(r) = g /\ run[r].pc = "gate" =>
         /\ grant[g].state = "gone" /\ accepted[g] = 0
         /\ \A s \in Requests : Op(s) = "use" /\ Of(s) = g /\ run[s].pc = "gate" => s = r
    /\ accepted[g] # 0 => accepted[g] = 1 /\ grant[g].state = "gone"

\* A grant is returned after its audit row.
AuditFirst ==
  \A r \in Grantees :
    /\ run[r].pc = "fresh" => r \in audited
    /\ run[r].answer = "granted" =>
         r \in audited /\ (Freshened(CeremonyOf(r)) => r \in freshness)

(***************************************************************************)
(* The guesses: what has been judged, and what is being judged, is paid    *)
(* for by the counter, by the claim of the request that will count it or   *)
(* end the challenge, or by a failure.                                     *)
(***************************************************************************)
Working(c, l) == {r \in Requests : Op(r) = "complete" /\ Of(r) = c /\ run[r].pc = l}
Room(c)   == IF attempts[c] < MaxAttempts THEN attempts[c] ELSE MaxAttempts - 1
Paying(c) == holder[c] # "none" /\ run[holder[c]].pc \in {"judge", "count", "drop"}
Budget(c) == IF chal[c] = 0 THEN MaxAttempts ELSE Room(c) + (IF Paying(c) THEN 1 ELSE 0)

PaidFor(c) ==
  /\ wrong[c] + Cardinality(Working(c, "judge")) <= Budget(c) + mishaps
  /\ attempts[c] + Cardinality(Working(c, "count")) <= wrong[c]

Paid == \A c \in Ceremonies : PaidFor(c)

CeremoniesInv ==
  /\ Types /\ Ordered /\ Challenged /\ Stamped
  /\ SoleRight /\ SoleTaker /\ AuditFirst /\ Paid /\ TempCovered /\ SweepSpares

-----------------------------------------------------------------------------
(* The requests and the moves they make *)

LEMMA Kinds ==
  ASSUME CeremoniesAssumption, NEW r \in Requests
  PROVE  /\ Op(r) \in {"begin", "complete", "use"} /\ r # "none"
         /\ Op(r) = "begin" => r \in Ceremonies /\ r \in Grantees /\ CeremonyOf(r) = r
         /\ Op(r) = "complete" => Of(r) \in Ceremonies /\ r \in Grantees /\ CeremonyOf(r) = Of(r)
         /\ Op(r) = "use" => Of(r) \in Grantees
         /\ MaxGen \in Nat \ {0} /\ MaxAttempts \in Nat \ {0} /\ MaxFaults \in Nat
  BY DEF CeremoniesAssumption, Ceremonies, Grantees, CeremonyOf

LEMMA OfCeremony ==
  ASSUME NEW c \in Ceremonies
  PROVE  c \in Requests /\ Op(c) = "begin" /\ CeremonyOf(c) = c /\ c \in Grantees
  BY DEF Ceremonies, CeremonyOf, Grantees

\* A request that moves leaves the others where they are.
Moved(r, l, g, w, a) ==
  /\ run' \in [Requests -> Runs]
  /\ run'[r] = [pc |-> l, gen |-> g, won |-> w, answer |-> a]
  /\ run'[r].pc = l /\ run'[r].gen = g /\ run'[r].won = w /\ run'[r].answer = a
  /\ \A s \in Requests \ {r} : run'[s] = run[s]

LEMMA MovedTo ==
  ASSUME run \in [Requests -> Runs], NEW r \in Requests, NEW l \in Labels, To(r, l)
  PROVE  Moved(r, l, run[r].gen, run[r].won, run[r].answer)
  BY DEF To, Moved, Runs

LEMMA MovedNext ==
  ASSUME run \in [Requests -> Runs], NEW r \in Requests, NEW l \in Labels,
         NEW a \in Answers \cup {"none"}, Next2(r, l, a)
  PROVE  Moved(r, l, run[r].gen, run[r].won, a)
  BY DEF Next2, Moved, Runs

LEMMA MovedAnswer ==
  ASSUME run \in [Requests -> Runs], NEW r \in Requests,
         NEW a \in Answers \cup {"none"}, Answer(r, a)
  PROVE  Moved(r, "done", run[r].gen, run[r].won, a)
  BY DEF Answer, Moved, Runs, Labels

LEMMA MovedBegin ==
  ASSUME run \in [Requests -> Runs], NEW r \in Requests, NEW l \in Labels,
         NEW g \in 0 .. MaxGen, NEW w \in BOOLEAN,
         run' = [run EXCEPT ![r].pc = l, ![r].gen = g, ![r].won = w]
  PROVE  Moved(r, l, g, w, run[r].answer)
  BY DEF Moved, Runs

LEMMA MovedClaim ==
  ASSUME run \in [Requests -> Runs], NEW r \in Requests, NEW l \in Labels,
         NEW g \in 0 .. MaxGen, NEW a \in Answers \cup {"none"},
         run' = [run EXCEPT ![r].pc = l, ![r].gen = g, ![r].answer = a]
  PROVE  Moved(r, l, g, run[r].won, a)
  BY DEF Moved, Runs

LEMMA MovedJudge ==
  ASSUME run \in [Requests -> Runs], NEW r \in Requests,
         run' = [run EXCEPT ![r].pc = "consume", ![r].won = TRUE]
  PROVE  Moved(r, "consume", run[r].gen, TRUE, run[r].answer)
  BY DEF Moved, Runs, Labels

-----------------------------------------------------------------------------
(* Type correctness *)

\* A move along the path of a request keeps all requests on theirs.
LEMMA PathMoved ==
  ASSUME TypedRuns, NEW r \in Requests, NEW l, NEW g, NEW w, NEW a,
         Moved(r, l, g, w, a), l \in PathOf(r),
         l \notin {"idle", "gate", "done"} => g # 0,
         w => l \in {"consume", "done", "session"} \cup Earning,
         a \in {"challenge", "granted"} => l = "done"
  PROVE  \A s \in Requests : OnPath(s)'
<1> TAKE s \in Requests
<1>1. CASE s = r
  BY <1>1 DEF OnPath, Moved, PathOf
<1>2. CASE s # r
  BY <1>2 DEF Moved, TypedRuns, OnPath, PathOf
<1> QED BY <1>1, <1>2

\* No grant is minted.
SameGranted == \A x \in Grantees : (grant'[x].state = "none") = (grant[x].state = "none")

LEMMA TimedMoved ==
  ASSUME TypedRuns, NEW r \in Requests, NEW l, NEW g, NEW w, NEW a,
         Moved(r, l, g, w, a), SameGranted,
         r \in Grantees => /\ l \in {"audit", "fresh", "undo"} => grant[r].state # "none"
                           /\ l \notin {"audit", "fresh", "undo", "done"} =>
                                grant[r].state = "none"
  PROVE  \A s \in Grantees : GrantTimed(s)'
<1> TAKE s \in Grantees
<1>1. CASE s = r
  BY <1>1 DEF GrantTimed, Moved, SameGranted
<1>2. CASE s # r
  BY <1>2 DEF Moved, Grantees, TypedRuns, GrantTimed, SameGranted
<1> QED BY <1>1, <1>2

\* The step of request r that leaves the grants alone.
Lawful(r, l, g, w, a) ==
  /\ Moved(r, l, g, w, a) /\ l \in PathOf(r)
  /\ l \notin {"idle", "gate", "done"} => g # 0
  /\ w => l \in {"consume", "done", "session"} \cup Earning
  /\ a \in {"challenge", "granted"} => l = "done"
  /\ r \in Grantees => /\ l \in {"audit", "fresh", "undo"} => grant[r].state # "none"
                       /\ l \notin {"audit", "fresh", "undo", "done"} => grant[r].state = "none"

LEMMA LawfulTypes ==
  ASSUME TypedRuns, NEW r \in Requests, NEW l, NEW g, NEW w, NEW a,
         Lawful(r, l, g, w, a), grant' = grant \/ SameGranted
  PROVE  TypedRuns'
  BY PathMoved, TimedMoved DEF Lawful, SameGranted, TypedRuns, Moved

\* What is known of a request by where it stands.
LEMMA Standing ==
  ASSUME Types, NEW r \in Requests
  PROVE  /\ run[r].pc \in PathOf(r) /\ run[r] \in Runs /\ OnPath(r)
         /\ r \in Grantees => GrantTimed(r)
         /\ run \in [Requests -> Runs]
  BY DEF Types, TypedRuns, OnPath

\* An answer ends a request wherever it stands.
LEMMA Answered ==
  ASSUME Types, NEW r \in Requests, NEW a \in Answers \cup {"none"}, Answer(r, a), grant' = grant
  PROVE  TypedRuns'
  BY MovedAnswer, Standing, LawfulTypes DEF Lawful, PathOf, Types

\* A request that goes from one label of its path to another.
LEMMA Went ==
  ASSUME Types, NEW r \in Requests, NEW l \in Labels, NEW a \in Answers \cup {"none"},
         (To(r, l) /\ a = run[r].answer) \/ Next2(r, l, a), grant' = grant,
         ~At(r, "idle"), ~At(r, "gate"), ~At(r, "done"), a \notin {"challenge", "granted"},
         l \in PathOf(r) \ {"idle", "gate"},
         run[r].won => l \in {"consume", "done", "session"} \cup Earning,
         r \in Grantees => /\ l \in {"audit", "fresh", "undo"} => grant[r].state # "none"
                           /\ l \notin {"audit", "fresh", "undo", "done"} =>
                                grant[r].state = "none"
  PROVE  TypedRuns'
  BY MovedTo, MovedNext, Standing, LawfulTypes DEF OnPath, At, Lawful, Types

\* A request that is still under way has neither the challenge nor the grant
\* for an answer.
LEMMA Unanswered ==
  ASSUME Types, NEW r \in Requests, ~At(r, "done")
  PROVE  run[r].answer \notin {"challenge", "granted"} /\ run[r].answer \in Answers \cup {"none"}
  BY Standing DEF OnPath, At, Runs

LEMMA BeginLoginTypes ==
  ASSUME CeremoniesAssumption, Types, NEW r \in Requests, BeginLogin(r)
  PROVE  Types'
<1>1. /\ At(r, "idle") /\ Op(r) = "begin" /\ Login(r) /\ OnPath(r) /\ GrantTimed(r)
      /\ CeremonyOf(r) = r /\ run \in [Requests -> Runs] /\ r \in Grantees
      /\ auth.gen \in 0 .. MaxGen /\ auth.gen # 0
  BY Standing, Kinds DEF BeginLogin, Types
<1>2. ASSUME NEW l \in {"session", "store"},
             run' = [run EXCEPT ![r].pc = l, ![r].gen = auth.gen, ![r].won = l = "session"]
      PROVE  Lawful(r, l, auth.gen, l = "session", run[r].answer)
  BY ZenonT(120), <1>1, <1>2, MovedBegin DEF Labels, PathOf, Lawful, OnPath, GrantTimed, At
<1>3. TypedRuns'
  BY <1>2, Answered, LawfulTypes DEF BeginLogin, Types, grantVars, Answers
<1> QED BY <1>3 DEF BeginLogin, Types, storeVars, grantVars

LEMMA BeginReauthenticationTypes ==
  ASSUME CeremoniesAssumption, Types, NEW r \in Requests, BeginReauthentication(r)
  PROVE  Types'
<1>1. /\ At(r, "idle") /\ Op(r) = "begin" /\ ~Login(r) /\ OnPath(r) /\ GrantTimed(r)
      /\ CeremonyOf(r) = r /\ run \in [Requests -> Runs] /\ r \in Grantees /\ r \in Ceremonies
      /\ auth.gen \in 0 .. MaxGen /\ auth.gen # 0
  BY Standing, Kinds DEF BeginReauthentication, Types
<1>2. ASSUME NEW l \in {"revoke", "store"},
             run' = [run EXCEPT ![r].pc = l, ![r].gen = auth.gen, ![r].won = l = "revoke"]
      PROVE  Lawful(r, l, auth.gen, l = "revoke", run[r].answer)
  <2>1. Moved(r, l, auth.gen, l = "revoke", run[r].answer)
    BY ZenonT(120), <1>1, <1>2, MovedBegin DEF Labels
  <2>2. l \in PathOf(r)
    BY <1>1 DEF PathOf, Earning
  <2> QED BY <1>1, <2>1, <2>2 DEF Lawful, OnPath, GrantTimed, At, Earning
<1>3. TypedRuns'
  BY <1>2, Answered, LawfulTypes DEF BeginReauthentication, Types, grantVars, Answers
<1>4. temp' \in [Ceremonies -> {"none", "open", "closed"}] /\ leaked' \subseteq Ceremonies
      /\ mishaps' \in 0 .. MaxFaults
  BY <1>1, Kinds DEF BeginReauthentication, Types, Fault, NoFault
<1> QED BY <1>3, <1>4 DEF BeginReauthentication, Types, storeVars, grantVars

LEMMA StoreChallengeTypes ==
  ASSUME CeremoniesAssumption, Types, NEW r \in Requests, StoreChallenge(r), Op(r) = "begin",
         Challenged
  PROVE  Types'
<1>1. /\ At(r, "store") /\ OnPath(r) /\ GrantTimed(r) /\ CeremonyOf(r) = r
      /\ run[r].gen \in 1 .. MaxGen /\ r \in Ceremonies /\ r \notin popped
  BY Standing, Kinds DEF StoreChallenge, OnPath, At, Runs, Challenged, Starting
<1>2. TypedRuns'
  <2>1. ASSUME NEW l, l = IF Login(r) THEN "done" ELSE "revoke", Next2(r, l, "internal")
        PROVE  TypedRuns'
    BY <1>1, <2>1, OfCeremony, Went DEF Labels, PathOf, Earning, Answers, StoreChallenge, grantVars, At,
       GrantTimed, OnPath
  <2> QED BY <2>1, Answered DEF StoreChallenge, grantVars, Answers
<1>3. Stored(r) => /\ chal' \in [Ceremonies -> 0 .. MaxGen]
                   /\ \A c \in Ceremonies : chal'[c] = 0 => attempts[c] = 0
                   /\ index' \subseteq {c \in Ceremonies : ~Login(c)}
                   /\ popped \subseteq Ceremonies \ index'
  BY <1>1, Kinds DEF Stored, CreateMFA, CreateChallenge, Types
<1>4. mishaps' \in 0 .. MaxFaults /\ stamped' \in [Ceremonies -> 0 .. MaxGen]
  BY <1>1, Kinds DEF StoreChallenge, Types, Fault, NoFault
<1> QED BY <1>2, <1>3, <1>4 DEF StoreChallenge, Types, storeVars, grantVars

LEMMA ClaimChallengeTypes ==
  ASSUME CeremoniesAssumption, Types, NEW r \in Requests, ClaimChallenge(r)
  PROVE  Types'
<1>1. /\ At(r, "idle") /\ Op(r) = "complete" /\ OnPath(r) /\ GrantTimed(r)
      /\ Of(r) \in Ceremonies /\ run \in [Requests -> Runs] /\ r \in Grantees
      /\ auth.gen \in 0 .. MaxGen /\ auth.gen # 0
  BY Standing, Kinds DEF ClaimChallenge, Types
<1>2. ASSUME NEW l \in {"drop", "judge"}, NEW a \in {"refused", "none"},
             run' = [run EXCEPT ![r].pc = l, ![r].gen = auth.gen, ![r].answer = a]
      PROVE  Lawful(r, l, auth.gen, run[r].won, a)
  <2>1. Moved(r, l, auth.gen, run[r].won, a)
    BY ZenonT(120), <1>1, <1>2, MovedClaim DEF Labels, Answers
  <2>2. l \in PathOf(r)
    BY <1>1 DEF PathOf, Trying
  <2> QED BY <1>1, <2>1, <2>2 DEF Lawful, OnPath, GrantTimed, At, Earning
<1>3. TypedRuns'
  <2>1. grant' = grant
    BY DEF ClaimChallenge, grantVars
  <2>2. CASE \E a \in Answers : Answer(r, a)
    BY <2>1, <2>2, Answered
  <2>3. CASE run' = [run EXCEPT ![r].pc = IF Foreign(r) THEN "drop" ELSE "judge",
                                ![r].gen = auth.gen,
                                ![r].answer = IF Foreign(r) THEN "refused" ELSE "none"]
    BY <2>3, <1>2, <2>1, LawfulTypes DEF Types
  <2> QED BY <2>2, <2>3 DEF ClaimChallenge, Answers
<1>4. holder' \in [Ceremonies -> Requests \cup {"none"}] /\ mishaps' \in 0 .. MaxFaults
  BY <1>1, Kinds DEF ClaimChallenge, Types, Fault, NoFault
<1> QED BY <1>3, <1>4 DEF ClaimChallenge, Types, grantVars

\* The steps between the claim of a challenge and what it earns.
LEMMA TryingStanding ==
  ASSUME CeremoniesAssumption, Types, NEW r \in Requests, Op(r) = "complete",
         ~At(r, "idle"), ~At(r, "done"),
         run[r].pc \in Trying \cup {"session", "revoke", "mint"}
  PROVE  /\ Of(r) \in Ceremonies /\ CeremonyOf(r) = Of(r) /\ r \in Grantees
         /\ ~At(r, "gate") /\ grant[r].state = "none"
         /\ run[r].answer \in (Answers \cup {"none"}) \ {"challenge", "granted"}
         /\ PathOf(r) = {"idle", "done"} \cup Trying
                          \cup (IF Login(Of(r)) THEN {"session"} ELSE Earning)
         /\ Of(r) \in Requests
<1>1. /\ Of(r) \in Ceremonies /\ CeremonyOf(r) = Of(r) /\ r \in Grantees
      /\ Of(r) \in Requests
  BY Kinds, OfCeremony
<1>2. ~At(r, "gate")
  BY DEF At, Trying
<1>3. grant[r].state = "none"
  BY <1>1, Standing DEF GrantTimed, Trying, At
<1>4. PathOf(r) = {"idle", "done"} \cup Trying
                          \cup (IF Login(Of(r)) THEN {"session"} ELSE Earning)
  BY <1>1 DEF PathOf
<1> QED BY <1>1, <1>2, <1>3, <1>4, Unanswered

LEMMA JudgeTypes ==
  ASSUME CeremoniesAssumption, Types, NEW r \in Requests, Judge(r), Op(r) = "complete"
  PROVE  Types'
<1>1. /\ At(r, "judge") /\ ~At(r, "idle") /\ ~At(r, "done")
      /\ run[r].pc \in Trying \cup {"session", "revoke", "mint"}
      /\ run \in [Requests -> Runs] /\ run[r].gen # 0 /\ ~run[r].won /\ grant' = grant
  BY Standing DEF Judge, At, Trying, OnPath, Earning, grantVars
<1>2. TypedRuns'
  <2>1. CASE run' = [run EXCEPT ![r].pc = "consume", ![r].won = TRUE]
    BY <1>1, <2>1, MovedJudge, TryingStanding, LawfulTypes DEF Lawful, Trying, Types
  <2>2. ASSUME NEW l \in {"count", "drop", "release"}, NEW a \in {"invalid", "refused", "internal"},
               Next2(r, l, a)
        PROVE  TypedRuns'
    BY <1>1, TryingStanding, <2>2, Went DEF Labels, Answers, Trying
  <2> QED BY <2>1, <2>2 DEF Judge
<1>3. wrong' \in [Ceremonies -> Nat] /\ mishaps' \in 0 .. MaxFaults
  BY <1>1, TryingStanding, Kinds DEF Judge, Types, Fault, NoFault
<1> QED BY <1>2, <1>3 DEF Judge, Types, storeVars, grantVars

LEMMA Tried ==
  ASSUME CeremoniesAssumption, Types, NEW r \in Requests, Op(r) = "complete",
         run[r].pc \in Trying,
         NEW l, l \in Trying \cup {"done"} \cup {IF Login(Of(r)) THEN "session" ELSE "revoke"},
         To(r, l) \/ (\E a \in {"invalid", "refused", "internal"} : Next2(r, l, a)),
         At(r, "consume") => l \in {"done", "session", "revoke"}, grant' = grant
  PROVE  TypedRuns'
<1>1. /\ ~At(r, "idle") /\ ~At(r, "done") /\ run[r].pc \in Trying \cup {"session", "revoke", "mint"}
      /\ run[r].won => l \in {"consume", "done", "session"} \cup Earning
  BY Standing DEF At, Trying, OnPath, Earning
<1>2. /\ l \in Labels /\ l \in PathOf(r) \ {"idle", "gate"}
      /\ l \notin {"audit", "fresh", "undo"}
  BY <1>1, TryingStanding DEF Labels, Trying, Earning
<1>3. ~At(r, "gate") /\ grant[r].state = "none"
      /\ run[r].answer \in (Answers \cup {"none"}) \ {"challenge", "granted"}
  BY <1>1, TryingStanding
<1>4. CASE To(r, l)
  BY <1>1, <1>2, <1>3, <1>4, Went
<1>5. ASSUME NEW a \in {"invalid", "refused", "internal"}, Next2(r, l, a)
      PROVE  TypedRuns'
  BY <1>1, <1>2, <1>3, <1>5, Went DEF Answers
<1> QED BY <1>4, <1>5

LEMMA CountAttemptTypes ==
  ASSUME CeremoniesAssumption, Types, NEW r \in Requests, CountAttempt(r), Op(r) = "complete"
  PROVE  Types'
<1>1. run[r].pc \in Trying /\ ~At(r, "consume") /\ Of(r) \in Ceremonies /\ grant' = grant
  BY Kinds DEF CountAttempt, At, Trying, grantVars
<1>2. TypedRuns'
  BY <1>1, Tried DEF CountAttempt, Trying
<1>3. /\ attempts' \in [Ceremonies -> Nat] /\ mishaps' \in 0 .. MaxFaults
      /\ \A c \in Ceremonies : chal[c] = 0 => attempts'[c] = 0
  BY <1>1, Kinds DEF CountAttempt, IncrementAttempts, Types, Fault, NoFault
<1> QED BY <1>2, <1>3 DEF CountAttempt, Types, grantVars

LEMMA ReleaseChallengeTypes ==
  ASSUME CeremoniesAssumption, Types, NEW r \in Requests, ReleaseChallenge(r), Op(r) = "complete"
  PROVE  Types'
  BY Kinds, Tried DEF ReleaseChallenge, At, Trying, grantVars, Unlocked, Types, Fault, NoFault

LEMMA ConsumeTypes ==
  ASSUME CeremoniesAssumption, Types, NEW r \in Requests, Op(r) = "complete",
         ConsumeChallenge(r) \/ UNCHANGED <<chal, attempts, holder>>
  PROVE  /\ chal' \in [Ceremonies -> 0 .. MaxGen] /\ attempts' \in [Ceremonies -> Nat]
         /\ \A c \in Ceremonies : chal'[c] = 0 => attempts'[c] = 0
         /\ holder' \in [Ceremonies -> Requests \cup {"none"}]
  BY Kinds DEF ConsumeChallenge, Unlocked, Types

LEMMA ConsumeWonTypes ==
  ASSUME CeremoniesAssumption, Types, NEW r \in Requests, ConsumeWon(r), Op(r) = "complete"
  PROVE  Types'
<1>1. run[r].pc \in Trying /\ grant' = grant
  BY DEF ConsumeWon, At, Trying, grantVars
<1>2. TypedRuns'
  BY <1>1, Tried DEF After, ConsumeWon, Unconsumed
<1>3. mishaps' \in 0 .. MaxFaults
  BY Kinds DEF ConsumeWon, Types, Fault, NoFault
<1> QED BY <1>2, <1>3, ConsumeTypes DEF ConsumeWon, Types, grantVars

LEMMA ConsumeLostTypes ==
  ASSUME CeremoniesAssumption, Types, NEW r \in Requests, ConsumeLost(r), Op(r) = "complete"
  PROVE  Types'
  BY Tried, Kinds, ConsumeTypes DEF ConsumeLost, At, Trying, grantVars, Types, Fault, NoFault

LEMMA HandleAuthenticatedTypes ==
  ASSUME CeremoniesAssumption, Types, NEW r \in Requests, HandleAuthenticated(r)
  PROVE  Types'
  BY Answered, Standing, Kinds DEF HandleAuthenticated, Answers, grantVars, At, PathOf, Types, Fault, NoFault,
     storeVars

\* A request on its way to a grant.
LEMMA EarningStanding ==
  ASSUME CeremoniesAssumption, Types, NEW r \in Requests, run[r].pc \in Earning
  PROVE  /\ CeremonyOf(r) \in Ceremonies /\ ~Login(CeremonyOf(r)) /\ r \in Grantees
         /\ Op(r) # "use" /\ Earning \subseteq PathOf(r) /\ "done" \in PathOf(r)
         /\ ~At(r, "idle") /\ ~At(r, "gate") /\ ~At(r, "done") /\ run[r].gen \in 1 .. MaxGen
         /\ run[r].answer \in (Answers \cup {"none"}) \ {"challenge", "granted"}
<1>1. run[r].pc \notin {"idle", "gate", "done", "store", "session"} /\ run[r].pc \notin Trying
  BY DEF Earning, Trying
<1>2. run[r].pc \in PathOf(r) /\ OnPath(r) /\ run[r] \in Runs
  BY Standing
<1>3. Op(r) # "use" /\ ~Login(CeremonyOf(r))
  BY <1>1, <1>2 DEF PathOf, Earning
<1>4. CeremonyOf(r) \in Ceremonies /\ r \in Grantees
  BY <1>3, Kinds DEF Grantees
<1>5. Earning \subseteq PathOf(r) /\ "done" \in PathOf(r)
  BY <1>3 DEF PathOf
<1>6. run[r].gen \in 1 .. MaxGen
  BY <1>1, <1>2, Kinds DEF OnPath, Runs
<1> QED BY <1>1, <1>3, <1>4, <1>5, <1>6, Unanswered DEF At

LEMMA RevokeProviderSessionTypes ==
  ASSUME CeremoniesAssumption, Types, NEW r \in Requests, RevokeProviderSession(r)
  PROVE  Types'
<1>1. run[r].pc \in Earning /\ At(r, "revoke")
  BY DEF RevokeProviderSession, At, Earning
<1>2. TypedRuns'
  BY <1>1, EarningStanding, Standing, Went DEF RevokeProviderSession, Labels, Earning, GrantTimed, At,
     grantVars
<1>3. /\ temp' \in [Ceremonies -> {"none", "open", "closed"}] /\ leaked' \subseteq Ceremonies
      /\ mishaps' \in 0 .. MaxFaults
  BY <1>1, EarningStanding, Kinds DEF RevokeProviderSession, Types, Fault, NoFault
<1> QED BY <1>2, <1>3 DEF RevokeProviderSession, Types, storeVars, grantVars

LEMMA MintGrantTypes ==
  ASSUME CeremoniesAssumption, Types, NEW r \in Requests, MintGrant(r)
  PROVE  Types'
<1>1. run[r].pc \in Earning /\ At(r, "mint")
  BY DEF MintGrant, At, Earning
<1>2. CASE UNCHANGED grant
  <2>1. TypedRuns'
    <3>1. CASE Answer(r, "internal")
      BY <1>2, <3>1, Answered DEF Answers
    <3>2. CASE CreateGrant(r)
      BY <1>1, <3>2, EarningStanding, Standing, <1>2 DEF GrantTimed, At, CreateGrant, Types
    <3> QED BY <3>1, <3>2 DEF MintGrant
  <2>2. mishaps' \in 0 .. MaxFaults
    BY Kinds DEF MintGrant, Types, Fault, NoFault
  <2> QED BY <1>2, <2>1, <2>2 DEF MintGrant, Types, storeVars
<1>3. CASE CreateGrant(r)
  <2>1. /\ grant' \in [Grantees -> Grants]
        /\ grant'[r].state = "live" /\ grant'[r].gen = run[r].gen
        /\ \A x \in Grantees \ {r} : grant'[x] = grant[x]
    BY <1>1, <1>3, EarningStanding, Kinds DEF CreateGrant, Types, Grants
  <2>2. \A x \in Grantees : (grant'[x].state = "none") = (grant'[x].gen = 0)
    BY <1>1, <2>1, EarningStanding DEF Types
  <2>3. PICK l \in {"audit", "done"}, a \in {"internal", run[r].answer} :
          Moved(r, l, run[r].gen, run[r].won, a)
    BY MovedTo, Standing, MovedAnswer DEF Labels, Answers, MintGrant
  <2>4. TypedRuns'
    <3>1. \A s \in Requests : OnPath(s)'
      BY <1>1, EarningStanding, <2>3, PathMoved DEF Earning, Types
    <3>2. \A s \in Grantees : GrantTimed(s)'
      <4> TAKE s \in Grantees
      <4>1. CASE s = r
        BY <2>1, <2>3, <4>1 DEF GrantTimed, Moved
      <4>2. CASE s # r
        BY <2>1, <2>3, <4>2, Standing DEF GrantTimed, Moved, Grantees
      <4> QED BY <4>1, <4>2
    <3> QED BY <2>3, <3>1, <3>2 DEF TypedRuns, Moved
  <2>5. mishaps' \in 0 .. MaxFaults
    BY Kinds DEF MintGrant, Types, Fault, NoFault
  <2> QED BY <2>1, <2>2, <2>4, <2>5 DEF MintGrant, Types, storeVars
<1> QED BY <1>2, <1>3 DEF MintGrant

LEMMA AuditGrantTypes ==
  ASSUME CeremoniesAssumption, Types, NEW r \in Requests, AuditGrant(r)
  PROVE  Types'
<1>1. run[r].pc \in Earning /\ At(r, "audit") /\ grant' = grant
  BY DEF AuditGrant, At, Earning, Unaudited
<1>2. TypedRuns'
  <2>1. CASE Answer(r, "granted")
    BY <1>1, <2>1, Answered DEF Answers
  <2>2. ASSUME NEW l \in {"fresh", "undo"}, To(r, l) \/ Next2(r, l, "none")
        PROVE  TypedRuns'
    BY <1>1, EarningStanding, Standing, <2>2, Went DEF Labels, Earning, GrantTimed, At, Answers
  <2> QED BY <2>1, <2>2 DEF AuditGrant, Unaudited
<1>3. audited' \subseteq Grantees /\ mishaps' \in 0 .. MaxFaults
  BY <1>1, EarningStanding, Kinds DEF AuditGrant, Types, Fault, NoFault
<1> QED BY <1>2, <1>3 DEF AuditGrant, Types, storeVars

LEMMA PutStepUpTypes ==
  ASSUME CeremoniesAssumption, Types, NEW r \in Requests, PutStepUp(r)
  PROVE  Types'
<1>1. run[r].pc \in Earning /\ At(r, "fresh") /\ grant' = grant
  BY DEF PutStepUp, At, Earning
<1>2. TypedRuns'
  <2>1. CASE Answer(r, "granted")
    BY <1>1, <2>1, Answered DEF Answers
  <2>2. CASE To(r, "undo")
    BY <1>1, EarningStanding, Standing, <2>2, Went DEF Labels, Earning, GrantTimed, At
  <2> QED BY <2>1, <2>2 DEF PutStepUp
<1>3. freshness' \subseteq Grantees /\ mishaps' \in 0 .. MaxFaults
  BY <1>1, EarningStanding, Kinds DEF PutStepUp, Types, Fault, NoFault
<1> QED BY <1>2, <1>3 DEF PutStepUp, Types, storeVars

\* Taking a grant that exists.
LEMMA GrantGone ==
  ASSUME Types, NEW g \in Grantees, grant[g].state # "none",
         grant' = [grant EXCEPT ![g].state = "gone"]
  PROVE  /\ grant' \in [Grantees -> Grants] /\ SameGranted
         /\ grant'[g].state = "gone" /\ grant'[g].gen = grant[g].gen
         /\ \A x \in Grantees \ {g} : grant'[x] = grant[x]
         /\ \A x \in Grantees : (grant'[x].state = "none") = (grant'[x].gen = 0)
  BY DEF Types, Grants, SameGranted

LEMMA AnsweredGone ==
  ASSUME Types, NEW r \in Requests, NEW a \in Answers \cup {"none"}, Answer(r, a), SameGranted
  PROVE  TypedRuns'
  BY MovedAnswer, Standing, LawfulTypes DEF Lawful, PathOf, Types

LEMMA UndoGrantTypes ==
  ASSUME CeremoniesAssumption, Types, NEW r \in Requests, UndoGrant(r)
  PROVE  Types'
<1>1. run[r].pc \in Earning /\ At(r, "undo")
  BY DEF UndoGrant, At, Earning
<1>2. r \in Grantees /\ grant[r].state # "none"
  BY <1>1, EarningStanding, Standing DEF GrantTimed, At
<1>3. /\ grant' \in [Grantees -> Grants] /\ SameGranted
      /\ \A x \in Grantees : (grant'[x].state = "none") = (grant'[x].gen = 0)
  BY <1>2, GrantGone DEF Types, SameGranted, UndoGrant
<1>4. TypedRuns'
  <2>1. CASE Answer(r, "internal")
    BY <1>3, <2>1, AnsweredGone DEF Answers
  <2>2. CASE To(r, "done")
    BY <2>2, MovedTo, Standing, <1>3, LawfulTypes DEF Labels, Lawful, PathOf, Types
  <2> QED BY <2>1, <2>2 DEF UndoGrant
<1>5. mishaps' \in 0 .. MaxFaults
  BY Kinds DEF UndoGrant, Types, Fault, NoFault
<1> QED BY <1>3, <1>4, <1>5 DEF UndoGrant, Types, storeVars

LEMMA ConsumeGrantTypes ==
  ASSUME CeremoniesAssumption, Types, NEW r \in Requests, ConsumeGrant(r)
  PROVE  Types'
<1>1. At(r, "idle") /\ Op(r) = "use" /\ Of(r) \in Grantees /\ r \notin Grantees
  BY Kinds DEF ConsumeGrant, Grantees
<1>2. /\ grant' \in [Grantees -> Grants] /\ SameGranted
      /\ \A x \in Grantees : (grant'[x].state = "none") = (grant'[x].gen = 0)
  BY <1>1, GrantGone DEF Types, SameGranted, ConsumeGrant, Taken
<1>3. TypedRuns'
  <2>1. CASE \E a \in {"refused", "internal"} : Answer(r, a)
    BY <1>2, <2>1, AnsweredGone DEF Answers
  <2>2. CASE To(r, "gate")
    BY <2>2, MovedTo, Standing, <1>1, <1>2, LawfulTypes DEF Labels, OnPath, At, Earning, PathOf, Lawful, Types
  <2> QED BY <2>1, <2>2 DEF ConsumeGrant
<1>4. mishaps' \in 0 .. MaxFaults
  BY Kinds DEF ConsumeGrant, Types, Fault, NoFault
<1> QED BY <1>2, <1>3, <1>4 DEF ConsumeGrant, Types, storeVars

LEMMA AllowUseTypes ==
  ASSUME CeremoniesAssumption, Types, NEW r \in Requests, AllowUse(r)
  PROVE  Types'
  BY Answered, Standing, Kinds DEF AllowUse, Answers, At, PathOf, Trying, Earning, Types, Fault, NoFault,
     storeVars

LEMMA CrashRequestTypes ==
  ASSUME CeremoniesAssumption, Types, NEW r \in Requests, CrashRequest(r)
  PROVE  Types'
<1>1. TypedRuns'
  BY Answered DEF CrashRequest, Answers, grantVars
<1>2. At(r, "revoke") \/ At(r, "store") => CeremonyOf(r) \in Ceremonies
  BY Standing, Kinds DEF At, PathOf
<1>3. leaked' \subseteq Ceremonies /\ mishaps' \in 0 .. MaxFaults
  BY <1>2, Kinds DEF CrashRequest, Types, Fault
<1> QED BY <1>1, <1>3 DEF CrashRequest, Types, storeVars, grantVars

LEMMA WorldTypes ==
  ASSUME CeremoniesAssumption, Types,
         Sweep \/ CrashWorker \/ SecurityChange
           \/ \E c \in Ceremonies : ChallengeExpires(c) \/ LockExpires(c)
  PROVE  Types'
<1>1. MaxGen \in Nat \ {0} /\ MaxFaults \in Nat
  BY DEF CeremoniesAssumption
<1>2. ASSUME run' = run, grant' = grant, Types PROVE TypedRuns'
  BY <1>2 DEF Types, TypedRuns, OnPath, PathOf, GrantTimed
<1>3. CASE PopExpiredChallenges
  BY <1>2, <1>3 DEF PopExpiredChallenges, Abandoned, Types, grantVars
<1>4. CASE RevokeAbandoned
  BY <1>1, <1>2, <1>4 DEF RevokeAbandoned, Types, grantVars, storeVars, Fault, NoFault
<1>5. CASE CrashWorker
  BY <1>1, <1>2, <1>5 DEF CrashWorker, Types, grantVars, storeVars, Fault
<1>6. ASSUME NEW c \in Ceremonies, ChallengeExpires(c) PROVE Types'
  BY <1>1, <1>2, <1>6 DEF ChallengeExpires, Types, grantVars
<1>7. ASSUME NEW c \in Ceremonies, LockExpires(c) PROVE Types'
  BY <1>1, <1>2, <1>7 DEF LockExpires, Unlocked, Types, grantVars, Fault, NoFault
<1>8. CASE SecurityChange
  <2>1. auth' \in [gen : 1 .. MaxGen, intent : BOOLEAN] /\ (auth'.intent => auth'.gen < MaxGen)
    <3>1. /\ auth \in [gen : 1 .. MaxGen, intent : BOOLEAN] /\ auth.gen \in 1 .. MaxGen
          /\ (auth.intent => auth.gen < MaxGen)
      BY DEF Types
    <3>2. CASE ~auth.intent /\ auth.gen < MaxGen /\ auth' = [auth EXCEPT !.intent = TRUE]
      BY <3>1, <3>2
    <3>3. ASSUME NEW g \in {auth.gen, auth.gen + 1}, auth.intent,
                 auth' = [gen |-> g, intent |-> FALSE]
          PROVE  auth' \in [gen : 1 .. MaxGen, intent : BOOLEAN] /\ ~auth'.intent
      BY <1>1, <3>1, <3>3
    <3> QED BY <1>8, <3>2, <3>3 DEF SecurityChange
  <2> QED BY <1>2, <1>8, <2>1 DEF SecurityChange, Types, grantVars, storeVars
<1> QED BY <1>3, <1>4, <1>5, <1>6, <1>7, <1>8 DEF Sweep

LEMMA TypesInit == CeremoniesAssumption /\ Init => Types
  BY DEF CeremoniesAssumption, Init, Runs, Labels, OnPath, PathOf, GrantTimed, Grantees, NoGrant, TypedRuns,
     Types, Grants

LEMMA TypesStep ==
  CeremoniesAssumption /\ Types /\ Challenged /\ [Next]_ceremonyVars => Types'
<1> SUFFICES ASSUME CeremoniesAssumption, Types, Challenged, [Next]_ceremonyVars PROVE Types'
  OBVIOUS
<1>1. CASE UNCHANGED ceremonyVars
  BY <1>1 DEF ceremonyVars, Types, TypedRuns, OnPath, PathOf, GrantTimed
<1>2. ASSUME NEW r \in Requests, Serve(r) PROVE Types'
  <2>1. CASE LoginHandler(r) \/ Request(r)
    BY <2>1, BeginLoginTypes, BeginReauthenticationTypes, StoreChallengeTypes
    DEF LoginHandler, Request
  <2>2. CASE CompleteMFA(r)
    BY <2>2, ClaimChallengeTypes, JudgeTypes, CountAttemptTypes, ReleaseChallengeTypes,
       ConsumeWonTypes, ConsumeLostTypes DEF CompleteMFA
  <2>3. CASE HandleAuthenticated(r) \/ RevokeProviderSession(r)
    BY <2>3, HandleAuthenticatedTypes, RevokeProviderSessionTypes
  <2>4. CASE IssueGrant(r)
    BY <2>4, MintGrantTypes, AuditGrantTypes, PutStepUpTypes, UndoGrantTypes DEF IssueGrant
  <2>5. CASE VerifyAndConsumeData(r)
    BY <2>5, ConsumeGrantTypes, AllowUseTypes DEF VerifyAndConsumeData
  <2> QED BY <1>2, <2>1, <2>2, <2>3, <2>4, <2>5 DEF Serve
<1>3. ASSUME NEW r \in Requests, CrashRequest(r) PROVE Types'
  BY <1>3, CrashRequestTypes
<1>4. ASSUME Sweep \/ CrashWorker \/ SecurityChange
             \/ \E c \in Ceremonies : ChallengeExpires(c) \/ LockExpires(c)
      PROVE  Types'
  BY <1>4, WorldTypes
<1> QED BY <1>1, <1>2, <1>3, <1>4 DEF Next

-----------------------------------------------------------------------------
(* Where the steps lead *)

LEMMA NowTo ==
  ASSUME Types, NEW r \in Requests, NEW l, To(r, l)
  PROVE  /\ run'[r].pc = l /\ run'[r].gen = run[r].gen /\ run'[r].won = run[r].won
         /\ run'[r].answer = run[r].answer
  BY Standing DEF To, Runs

LEMMA NowNext ==
  ASSUME Types, NEW r \in Requests, NEW l, NEW a, Next2(r, l, a)
  PROVE  /\ run'[r].pc = l /\ run'[r].gen = run[r].gen /\ run'[r].won = run[r].won
         /\ run'[r].answer = a
  BY Standing DEF Next2, Runs

LEMMA NowAnswered ==
  ASSUME Types, NEW r \in Requests, NEW a, Answer(r, a)
  PROVE  run'[r].pc = "done" /\ run'[r].answer = a
  BY Standing DEF Answer, Runs

LEMMA NowBegun ==
  ASSUME Types, NEW r \in Requests, BeginLogin(r) \/ BeginReauthentication(r)
  PROVE  /\ run'[r].pc \in {"session", "revoke", "store", "done"}
         /\ run'[r].pc = "session" => BeginLogin(r)
         /\ run'[r].pc = "revoke" => BeginReauthentication(r)
         /\ run'[r].pc = "store" => ~run'[r].won
<1>1. ASSUME NEW l \in {"session", "revoke", "store"}, NEW w \in BOOLEAN,
             run' = [run EXCEPT ![r].pc = l, ![r].gen = auth.gen, ![r].won = w]
      PROVE  run'[r].pc = l /\ run'[r].won = w
  BY <1>1, Standing DEF Runs
<1>2. CASE BeginLogin(r)
  BY <1>2, NowAnswered, <1>1 DEF BeginLogin
<1>3. CASE BeginReauthentication(r)
  BY <1>3, NowAnswered, <1>1 DEF BeginReauthentication
<1> QED BY <1>2, <1>3

LEMMA NowStored ==
  ASSUME Types, NEW r \in Requests, StoreChallenge(r)
  PROVE  run'[r].pc \in {"done", "revoke"} /\ (run'[r].pc = "revoke" => ~Login(r) /\ ~run'[r].won)
  BY Standing, NowAnswered, NowNext DEF OnPath, StoreChallenge, At, Earning

LEMMA NowClaimed ==
  ASSUME Types, NEW r \in Requests, ClaimChallenge(r)
  PROVE  /\ run'[r].pc = "done" \/ (run'[r].pc \in {"drop", "judge"} /\ ~run'[r].won)
         /\ run'[r].pc = "judge" => /\ ~Foreign(r) /\ run'[r].gen = auth.gen
                                    /\ holder[Of(r)] = "none" /\ chal[Of(r)] # 0
         /\ run'[r].pc \in {"drop", "judge"} => holder' = [holder EXCEPT ![Of(r)] = r] /\ NoFault
<1>1. CASE \E a \in {"refused", "internal"} : Answer(r, a)
  BY <1>1, NowAnswered
<1>2. CASE /\ holder[Of(r)] = "none" /\ chal[Of(r)] # 0 /\ NoFault
           /\ holder' = [holder EXCEPT ![Of(r)] = r]
           /\ run' = [run EXCEPT ![r].pc = IF Foreign(r) THEN "drop" ELSE "judge",
                                 ![r].gen = auth.gen,
                                 ![r].answer = IF Foreign(r) THEN "refused" ELSE "none"]
  BY <1>2, Standing DEF Runs, OnPath, ClaimChallenge, At, Earning
<1> QED BY <1>1, <1>2 DEF ClaimChallenge

LEMMA NowJudged ==
  ASSUME Types, NEW r \in Requests, Judge(r)
  PROVE  /\ run'[r].pc \in {"consume", "count", "drop", "release"}
         /\ run'[r].pc = "count" => wrong' = [wrong EXCEPT ![Of(r)] = @ + 1]
         /\ run'[r].pc # "count" => wrong' = wrong
         /\ run'[r].pc = "release" => Fault
         /\ run'[r].pc # "release" => NoFault
         /\ run'[r].won => run'[r].pc = "consume" /\ run'[r].gen = run[r].gen
<1>1. ~run[r].won
  BY Standing DEF OnPath, Judge, At, Earning
<1>2. CASE run' = [run EXCEPT ![r].pc = "consume", ![r].won = TRUE] /\ NoFault /\ UNCHANGED wrong
  BY <1>2, MovedJudge, Standing DEF Moved
<1>3. CASE Next2(r, "count", "invalid") /\ wrong' = [wrong EXCEPT ![Of(r)] = @ + 1] /\ NoFault
  BY <1>1, <1>3, NowNext
<1>4. CASE Next2(r, "drop", "refused") /\ NoFault /\ UNCHANGED wrong
  BY <1>1, <1>4, NowNext
<1>5. CASE Next2(r, "release", "internal") /\ Fault /\ UNCHANGED wrong
  BY <1>1, <1>5, NowNext
<1> QED BY <1>2, <1>3, <1>4, <1>5 DEF Judge

LEMMA NowCounted ==
  ASSUME Types, NEW r \in Requests, CountAttempt(r)
  PROVE  run'[r].pc \in {"drop", "release"} /\ ~run'[r].won
  BY Standing, NowTo DEF OnPath, CountAttempt, At, Earning

LEMMA NowReleased ==
  ASSUME Types, NEW r \in Requests, ReleaseChallenge(r)
  PROVE  run'[r].pc = "done"
  BY NowTo DEF ReleaseChallenge

LEMMA NowConsumed ==
  ASSUME Types, NEW r \in Requests, ConsumeWon(r)
  PROVE  /\ run'[r].pc \in {"done", After(r)} /\ run'[r].gen = run[r].gen
         /\ run'[r].won = run[r].won
         /\ run'[r].pc # "done" => ConsumeChallenge(r) /\ Consumable(r)
  BY NowTo, NowNext DEF ConsumeWon, Unconsumed

LEMMA NowDropped ==
  ASSUME Types, NEW r \in Requests, ConsumeLost(r)
  PROVE  run'[r].pc \in {"done", "revoke"} /\ ~run'[r].won
  BY Standing, NowTo DEF OnPath, ConsumeLost, At, Earning

LEMMA NowRevoked ==
  ASSUME Types, NEW r \in Requests, RevokeProviderSession(r)
  PROVE  /\ run'[r].pc \in {"mint", "done"} /\ run'[r].gen = run[r].gen
         /\ run'[r].won = run[r].won
         /\ run'[r].pc = "mint" => run[r].won
  BY NowTo DEF RevokeProviderSession

LEMMA NowIssued ==
  ASSUME Types, NEW r \in Requests, IssueGrant(r)
  PROVE  /\ run'[r].pc \in {"audit", "fresh", "undo", "done"}
         /\ run'[r].pc = "audit" => MintGrant(r)
         /\ run'[r].pc = "fresh" => AuditGrant(r) /\ audited' = audited \cup {r}
  BY NowTo, NowAnswered, NowNext DEF MintGrant, AuditGrant, Unaudited, PutStepUp, UndoGrant, IssueGrant

LEMMA NowUsed ==
  ASSUME Types, NEW r \in Requests, VerifyAndConsumeData(r)
  PROVE  /\ run'[r].pc \in {"gate", "done"}
         /\ run'[r].pc = "gate" => /\ ConsumeGrant(r) /\ grant[Of(r)].state = "live"
                                   /\ grant' = [grant EXCEPT ![Of(r)].state = "gone"]
  BY NowTo, NowAnswered DEF ConsumeGrant, Taken, AllowUse, VerifyAndConsumeData

LEMMA NowDone ==
  ASSUME Types, NEW r \in Requests, HandleAuthenticated(r) \/ CrashRequest(r)
  PROVE  run'[r].pc = "done" /\ run'[r].answer \in {"signed_in", "refused", "internal"}
  BY NowAnswered DEF HandleAuthenticated, CrashRequest

-----------------------------------------------------------------------------
(* Whose step it is *)

\* A step of a request moves no other request, and a finished one takes none.
LEMMA Others ==
  ASSUME Types, NEW r \in Requests, Serve(r) \/ CrashRequest(r)
  PROVE  ~At(r, "done") /\ \A s \in Requests \ {r} : run'[s] = run[s]
<1> USE Standing DEF At, To, Answer, Next2
<1>1. CASE LoginHandler(r) \/ Request(r)
  BY <1>1 DEF LoginHandler, Request, BeginLogin, BeginReauthentication, StoreChallenge
<1>2. CASE CompleteMFA(r)
  BY <1>2 DEF CompleteMFA, ClaimChallenge, Judge, CountAttempt, ReleaseChallenge, ConsumeWon,
              ConsumeLost
<1>3. CASE HandleAuthenticated(r) \/ RevokeProviderSession(r) \/ CrashRequest(r)
  BY <1>3 DEF HandleAuthenticated, RevokeProviderSession, CrashRequest
<1>4. CASE IssueGrant(r)
  BY <1>4 DEF IssueGrant, MintGrant, AuditGrant, PutStepUp, UndoGrant
<1>5. CASE VerifyAndConsumeData(r)
  BY <1>5 DEF VerifyAndConsumeData, ConsumeGrant, AllowUse
<1> QED BY <1>1, <1>2, <1>3, <1>4, <1>5 DEF Serve

\* The world leaves the requests and the grants alone.
World ==
  Sweep \/ CrashWorker \/ SecurityChange \/ \E c \in Ceremonies : ChallengeExpires(c) \/ LockExpires(c)

LEMMA NextSplit ==
  ASSUME [Next]_ceremonyVars
  PROVE  \/ \E r \in Requests : Serve(r) \/ CrashRequest(r)
         \/ World \/ UNCHANGED ceremonyVars
  BY DEF Next, World

LEMMA WorldStill ==
  ASSUME World \/ UNCHANGED ceremonyVars
  PROVE  UNCHANGED <<run, grant, freshness, audited, accepted, signedIn, wrong, stamped>>
  BY DEF World, Sweep, PopExpiredChallenges, RevokeAbandoned, CrashWorker, ChallengeExpires,
         LockExpires, SecurityChange, grantVars, storeVars, ceremonyVars

\* The challenge that was handed out stays handed out.
LEMMA ChallengeStays ==
  ASSUME Types, [Next]_ceremonyVars, NEW s \in Requests, run[s].answer = "challenge"
  PROVE  run'[s] = run[s]
  BY Others, Standing, NextSplit, WorldStill DEF OnPath, At

\* A grant appears when its own request mints it.
LEMMA GrantAppears ==
  ASSUME CeremoniesAssumption, Types, NEW r \in Requests, Serve(r) \/ CrashRequest(r),
         NEW x \in Grantees, grant'[x].state # "none"
  PROVE  \/ grant[x].state # "none" /\ grant'[x].gen = grant[x].gen
         \/ /\ x = r /\ At(r, "mint") /\ MintGrant(r) /\ grant'[r].state = "live"
            /\ grant'[r].gen = run[r].gen
<1>1. CASE UNCHANGED grant
  BY <1>1
<1>2. CASE MintGrant(r)
  BY <1>2 DEF MintGrant, CreateGrant, Types
<1>3. CASE UndoGrant(r)
  BY <1>3, EarningStanding, Standing, GrantGone, <1>1 DEF UndoGrant, GrantTimed, At, Earning
<1>4. CASE ConsumeGrant(r)
  BY <1>4, Kinds, GrantGone, <1>1 DEF ConsumeGrant, Taken
<1>5. LoginHandler(r) \/ Request(r) => UNCHANGED grant
  BY DEF LoginHandler, Request, BeginLogin, BeginReauthentication, StoreChallenge, grantVars
<1>6. CompleteMFA(r) => UNCHANGED grant
  BY DEF CompleteMFA, ClaimChallenge, Judge, CountAttempt, ReleaseChallenge, ConsumeWon,
         ConsumeLost, grantVars
<1>7. HandleAuthenticated(r) \/ RevokeProviderSession(r) \/ CrashRequest(r) => UNCHANGED grant
  BY DEF HandleAuthenticated, RevokeProviderSession, CrashRequest, grantVars
<1>8. AuditGrant(r) \/ PutStepUp(r) \/ AllowUse(r) => UNCHANGED grant
  BY DEF AuditGrant, PutStepUp, AllowUse
<1> QED BY <1>1, <1>2, <1>3, <1>4, <1>5, <1>6, <1>7, <1>8
        DEF Serve, IssueGrant, VerifyAndConsumeData

\* A completion starts by claiming a challenge that was handed out.
LEMMA StartsByClaim ==
  ASSUME CeremoniesAssumption, Types, NEW r \in Requests, Serve(r), Op(r) = "complete",
         At(r, "idle")
  PROVE  ClaimChallenge(r)
  BY DEF Serve, LoginHandler, Request, CompleteMFA, Judge, CountAttempt, ReleaseChallenge,
         ConsumeWon, ConsumeLost, HandleAuthenticated, RevokeProviderSession, IssueGrant,
         MintGrant, AuditGrant, PutStepUp, UndoGrant, VerifyAndConsumeData, ConsumeGrant, AllowUse, At

LEMMA OrderedStep ==
  CeremoniesAssumption /\ Types /\ Ordered /\ [Next]_ceremonyVars => Ordered'
<1> SUFFICES ASSUME CeremoniesAssumption, Types, Ordered, [Next]_ceremonyVars,
                    NEW s \in Requests, Op(s) = "complete",
                    run'[s].pc \notin {"idle", "done"} \/ grant'[s].state # "none"
             PROVE  run'[Of(s)].answer = "challenge"
  BY DEF Ordered
<1>0. Of(s) \in Requests /\ s \in Grantees
  BY Kinds, OfCeremony
<1> SUFFICES run[Of(s)].answer = "challenge"
  BY <1>0, ChallengeStays
<1>1. CASE World \/ UNCHANGED ceremonyVars
  BY <1>1, WorldStill DEF Ordered
<1>2. ASSUME NEW r \in Requests, Serve(r) \/ CrashRequest(r)
      PROVE  run[Of(s)].answer = "challenge"
  <2>1. CASE run[s].pc \notin {"idle", "done"} \/ grant[s].state # "none"
    BY <2>1 DEF Ordered
  <2>2. CASE run[s].pc \in {"idle", "done"} /\ grant[s].state = "none"
    BY ZenonT(120), <1>0, <1>2, <2>2, GrantAppears, Others, StartsByClaim DEF At, CrashRequest, ClaimChallenge
  <2> QED BY <2>1, <2>2
<1> QED BY <1>1, <1>2, NextSplit

-----------------------------------------------------------------------------
(* What is stored about a ceremony *)

\* Only the store step of a ceremony creates its challenge and its entry.
LEMMA StoreMoves ==
  ASSUME CeremoniesAssumption, Types, [Next]_ceremonyVars, NEW c \in Ceremonies
  PROVE  \/ StoreChallenge(c) /\ Op(c) = "begin"
         \/ /\ chal'[c] \in {0, chal[c]} /\ stamped'[c] = stamped[c]
            /\ c \in index' \cup popped' => c \in index \cup popped
<1>1. CASE UNCHANGED <<chal, stamped, index, popped>>
  BY <1>1
<1>2. CASE World
  BY <1>2, <1>1 DEF Sweep, PopExpiredChallenges, RevokeAbandoned, CrashWorker, Abandoned, storeVars,
     ChallengeExpires, LockExpires, Types, SecurityChange, World
<1>3. ASSUME NEW r \in Requests, LoginHandler(r) \/ Request(r)
      PROVE  StoreChallenge(r) \/ UNCHANGED <<chal, stamped, index, popped>>
  BY <1>3 DEF LoginHandler, Request, BeginLogin, BeginReauthentication, storeVars
<1>4. ASSUME NEW r \in Requests, LoginHandler(r) \/ Request(r), StoreChallenge(r), r # c
      PROVE  /\ chal'[c] \in {0, chal[c]} /\ stamped'[c] = stamped[c]
             /\ c \in index' \cup popped' => c \in index \cup popped
  BY <1>4 DEF StoreChallenge, Stored, CreateMFA, CreateChallenge, Types
<1>5. ASSUME NEW r \in Requests, CompleteMFA(r)
      PROVE  chal'[c] \in {0, chal[c]} /\ UNCHANGED <<stamped, index, popped>>
  BY <1>5 DEF CompleteMFA, ClaimChallenge, Judge, CountAttempt, ReleaseChallenge, ConsumeWon,
         ConsumeLost, ConsumeChallenge, storeVars, Types
<1>6. ASSUME NEW r \in Requests,
             HandleAuthenticated(r) \/ RevokeProviderSession(r) \/ CrashRequest(r)
      PROVE  UNCHANGED <<chal, stamped, index, popped>>
  BY <1>6 DEF HandleAuthenticated, RevokeProviderSession, CrashRequest, storeVars
<1>7. ASSUME NEW r \in Requests, IssueGrant(r) \/ VerifyAndConsumeData(r)
      PROVE  UNCHANGED <<chal, stamped, index, popped>>
  BY <1>7 DEF IssueGrant, MintGrant, AuditGrant, PutStepUp, UndoGrant, VerifyAndConsumeData,
         ConsumeGrant, AllowUse, storeVars
<1>8. ASSUME NEW r \in Requests, LoginHandler(r) \/ Request(r) PROVE Op(r) = "begin"
  BY <1>8 DEF LoginHandler, Request
<1>9. UNCHANGED ceremonyVars => UNCHANGED <<chal, stamped, index, popped>>
  BY DEF ceremonyVars
<1> QED BY <1>1, <1>2, <1>3, <1>4, <1>5, <1>6, <1>7, <1>8, <1>9, NextSplit DEF Serve

\* Who stores has been starting and no longer is; nobody starts again.
LEMMA StartsOnce ==
  ASSUME CeremoniesAssumption, Types, [Next]_ceremonyVars, NEW c \in Ceremonies
  PROVE  /\ Starting(c)' => Starting(c) /\ ~StoreChallenge(c)
         /\ StoreChallenge(c) => Starting(c)
<1>0. c \in Requests /\ Op(c) = "begin" /\ CeremonyOf(c) = c
  BY OfCeremony
<1>1. StoreChallenge(c) => Starting(c) /\ run'[c].pc \notin {"idle", "store"}
  BY <1>0, NowStored DEF StoreChallenge, Starting, At
<1>2. CASE run'[c] = run[c]
  BY <1>1, <1>2 DEF Starting
<1>3. CASE LoginHandler(c) \/ Request(c)
  BY <1>0, <1>1, <1>3 DEF BeginLogin, BeginReauthentication, LoginHandler, Request, At, Starting,
     StoreChallenge
<1>4. CASE ~(LoginHandler(c) \/ Request(c)) /\ (Serve(c) \/ CrashRequest(c))
  BY <1>0, <1>4, NowDone, NowRevoked, NowIssued, NowUsed, <1>1 DEF CompleteMFA, Serve, Starting
<1> QED BY <1>0, <1>2, <1>3, <1>4, NextSplit, Others, WorldStill

\* A code is judged when the challenge has been handed out.
LEMMA WrongMoves ==
  ASSUME CeremoniesAssumption, Types, Ordered, [Next]_ceremonyVars, NEW c \in Ceremonies
  PROVE  wrong'[c] = wrong[c] \/ run[c].answer = "challenge"
<1>1. CASE UNCHANGED wrong
  BY <1>1
<1>2. ASSUME NEW r \in Requests, Judge(r), CompleteMFA(r)
      PROVE  wrong'[c] = wrong[c] \/ run[c].answer = "challenge"
  BY <1>2, Kinds DEF CompleteMFA, Judge, At, Ordered, Types
<1>3. ASSUME NEW r \in Requests, Serve(r) \/ CrashRequest(r)
      PROVE  UNCHANGED wrong \/ (Judge(r) /\ CompleteMFA(r))
  BY <1>3 DEF Serve, CrashRequest, LoginHandler, Request, BeginLogin, BeginReauthentication,
         StoreChallenge, CompleteMFA, ClaimChallenge, CountAttempt, ReleaseChallenge, ConsumeWon,
         ConsumeLost, HandleAuthenticated, RevokeProviderSession, IssueGrant, MintGrant,
         AuditGrant, PutStepUp, UndoGrant, VerifyAndConsumeData, ConsumeGrant, AllowUse
<1> QED BY <1>1, <1>2, <1>3, NextSplit, WorldStill

\* A provider session is opened for the reauthentication that asks for it.
LEMMA TempMoves ==
  ASSUME CeremoniesAssumption, Types, [Next]_ceremonyVars, NEW c \in Ceremonies,
         temp'[c] = "open"
  PROVE  \/ temp[c] = "open"
         \/ BeginReauthentication(c) /\ ~Login(c) /\ (c \in leaked' \/ run'[c].pc \in {"revoke", "store"})
<1>1. CASE UNCHANGED temp
  BY <1>1
<1>2. CASE World
  BY <1>2 DEF World, Sweep, PopExpiredChallenges, RevokeAbandoned, CrashWorker, ChallengeExpires,
         LockExpires, SecurityChange, Types
<1>3. ASSUME NEW r \in Requests, BeginReauthentication(r)
      PROVE  \/ temp[c] = "open"
             \/ BeginReauthentication(c) /\ ~Login(c)
                  /\ (c \in leaked' \/ run'[c].pc \in {"revoke", "store"})
  <2>1. CASE r # c
    BY <1>3, <2>1 DEF BeginReauthentication, Types
  <2>2. CASE r = c /\ c \in leaked'
    BY <1>3, <2>2 DEF BeginReauthentication
  <2>3. CASE r = c /\ c \notin leaked' /\ temp' # temp
    BY <1>3, <2>3, Standing DEF BeginReauthentication, Runs
  <2> QED BY <2>1, <2>2, <2>3
<1>4. ASSUME NEW r \in Requests, RevokeProviderSession(r)
      PROVE  temp[c] = "open"
  BY <1>4 DEF RevokeProviderSession, Types
<1>5. ASSUME NEW r \in Requests, Serve(r) \/ CrashRequest(r)
      PROVE  UNCHANGED temp \/ BeginReauthentication(r) \/ RevokeProviderSession(r)
  BY <1>5 DEF Serve, CrashRequest, LoginHandler, Request, BeginLogin,
         StoreChallenge, CompleteMFA, ClaimChallenge, Judge, CountAttempt, ReleaseChallenge,
         ConsumeWon, ConsumeLost, HandleAuthenticated, IssueGrant, MintGrant,
         AuditGrant, PutStepUp, UndoGrant, VerifyAndConsumeData, ConsumeGrant, AllowUse
<1>6. UNCHANGED ceremonyVars => UNCHANGED temp
  BY DEF ceremonyVars
<1> QED BY <1>1, <1>2, <1>3, <1>4, <1>5, <1>6, NextSplit

\* The lock of a challenge is given to a completion of its ceremony.
LEMMA HolderMoves ==
  ASSUME CeremoniesAssumption, Types, [Next]_ceremonyVars, NEW c \in Ceremonies
  PROVE  \/ holder'[c] \in {"none", holder[c]}
         \/ holder'[c] \in Requests /\ Op(holder'[c]) = "complete" /\ Of(holder'[c]) = c
<1>1. CASE UNCHANGED holder
  BY <1>1
<1>2. CASE World
  BY <1>2 DEF World, Sweep, PopExpiredChallenges, RevokeAbandoned, CrashWorker, ChallengeExpires,
         LockExpires, Unlocked, SecurityChange, storeVars, Types
<1>3. ASSUME NEW r \in Requests, ClaimChallenge(r)
      PROVE  \/ holder'[c] \in {"none", holder[c]}
             \/ holder'[c] \in Requests /\ Op(holder'[c]) = "complete" /\ Of(holder'[c]) = c
  BY <1>3 DEF ClaimChallenge, Types
<1>4. ASSUME NEW r \in Requests, ReleaseChallenge(r) \/ ConsumeWon(r) \/ ConsumeLost(r)
      PROVE  holder'[c] \in {"none", holder[c]}
  BY <1>4 DEF ReleaseChallenge, ConsumeWon, ConsumeLost, ConsumeChallenge, Unlocked, Types
<1>5. ASSUME NEW r \in Requests, Serve(r) \/ CrashRequest(r)
      PROVE  \/ UNCHANGED holder \/ ClaimChallenge(r)
             \/ ReleaseChallenge(r) \/ ConsumeWon(r) \/ ConsumeLost(r)
  BY <1>5 DEF Serve, CrashRequest, LoginHandler, Request, BeginLogin, BeginReauthentication,
         StoreChallenge, CompleteMFA, Judge, CountAttempt, HandleAuthenticated,
         RevokeProviderSession, IssueGrant, MintGrant, AuditGrant, PutStepUp, UndoGrant,
         VerifyAndConsumeData, ConsumeGrant, AllowUse, storeVars
<1>6. UNCHANGED ceremonyVars => UNCHANGED holder
  BY DEF ceremonyVars
<1> QED BY <1>1, <1>2, <1>3, <1>4, <1>5, <1>6, NextSplit

LEMMA ChallengedStep ==
  CeremoniesAssumption /\ Types /\ Ordered /\ Challenged /\ [Next]_ceremonyVars => Challenged'
<1> SUFFICES ASSUME CeremoniesAssumption, Types, Ordered, Challenged, [Next]_ceremonyVars,
                    NEW c \in Ceremonies
             PROVE  /\ Starting(c)' => chal'[c] = 0 /\ c \notin index' \cup popped'
                    /\ chal'[c] # 0 /\ ~Login(c) => chal'[c] = stamped'[c]
                    /\ wrong'[c] # 0 => run'[c].answer = "challenge"
                    /\ temp'[c] = "open" => ~Login(c)
                    /\ holder'[c] # "none" => Op(holder'[c]) = "complete" /\ Of(holder'[c]) = c
  BY DEF Challenged
<1>1. Starting(c)' => chal'[c] = 0 /\ c \notin index' \cup popped'
  BY StartsOnce, StoreMoves DEF Challenged
<1>2. chal'[c] # 0 /\ ~Login(c) => chal'[c] = stamped'[c]
  <2>1. CASE StoreChallenge(c)
    BY ZenonT(120), <2>1, StartsOnce DEF Challenged, StoreChallenge, Stored, CreateChallenge, CreateMFA, Types
  <2>2. CASE chal'[c] \in {0, chal[c]} /\ stamped'[c] = stamped[c]
    BY <2>2 DEF Challenged
  <2> QED BY <2>1, <2>2, StoreMoves
<1>3. wrong'[c] # 0 => run'[c].answer = "challenge"
  BY WrongMoves, ChallengeStays, OfCeremony DEF Challenged
<1>4. temp'[c] = "open" => ~Login(c)
  BY TempMoves DEF Challenged
<1>5. holder'[c] # "none" => Op(holder'[c]) = "complete" /\ Of(holder'[c]) = c
  BY HolderMoves DEF Challenged
<1> QED BY <1>1, <1>2, <1>3, <1>4, <1>5

-----------------------------------------------------------------------------
(* The generation of a grant *)

\* The stamp of a ceremony does not change under a completion.
LEMMA StampStays ==
  ASSUME CeremoniesAssumption, Types, [Next]_ceremonyVars, NEW c \in Ceremonies,
         run[c].answer = "challenge"
  PROVE  stamped'[c] = stamped[c] /\ ~Starting(c)
<1>1. ~Starting(c)
  BY OfCeremony, Standing DEF OnPath, Starting
<1> QED BY <1>1, StoreMoves, StartsOnce

LEMMA StampedStep ==
  CeremoniesAssumption /\ Types /\ Ordered /\ Challenged /\ Stamped /\ [Next]_ceremonyVars
    => Stamped'
<1> SUFFICES ASSUME CeremoniesAssumption, Types, Ordered, Challenged, Stamped,
                    [Next]_ceremonyVars,
                    NEW s \in Requests, Op(s) = "complete"
             PROVE  /\ /\ ~Login(Of(s))
                       /\ \/ run'[s].pc \in {"judge", "mint"}
                          \/ run'[s].won /\ run'[s].pc \in {"consume", "revoke"}
                       => run'[s].gen = stamped'[Of(s)]
                    /\ grant'[s].state # "none" => grant'[s].gen = stamped'[Of(s)]
  BY DEF Stamped
<1>0. Of(s) \in Ceremonies /\ s \in Grantees
  BY Kinds
<1>1. run[s].pc \notin {"idle", "done"} \/ grant[s].state # "none" =>
        stamped'[Of(s)] = stamped[Of(s)]
  BY <1>0, StampStays DEF Ordered
<1>2. grant'[s].state # "none" => grant'[s].gen = stamped'[Of(s)]
  <2>1. CASE World \/ UNCHANGED ceremonyVars
    BY <1>0, <1>1, <2>1, WorldStill DEF Stamped
  <2>2. ASSUME NEW r \in Requests, Serve(r) \/ CrashRequest(r), grant'[s].state # "none"
        PROVE  grant'[s].gen = stamped'[Of(s)]
    <3>1. CASE grant[s].state # "none" /\ grant'[s].gen = grant[s].gen
      BY <1>0, <1>1, <3>1 DEF Stamped
    <3>2. CASE s = r /\ At(r, "mint") /\ grant'[r].gen = run[r].gen
      BY <1>0, <3>2, EarningStanding, Kinds, <1>1 DEF At, Earning, Stamped
    <3> QED BY <1>0, <2>2, <3>1, <3>2, GrantAppears
  <2> QED BY <2>1, <2>2, NextSplit
<1>3. ASSUME ~Login(Of(s)),
             \/ run'[s].pc \in {"judge", "mint"}
             \/ run'[s].won /\ run'[s].pc \in {"consume", "revoke"}
      PROVE  run'[s].gen = stamped'[Of(s)]
  <2>1. CASE run'[s] = run[s]
    BY <1>1, <1>3, <2>1 DEF Stamped
  <2>2. CASE CompleteMFA(s)
    <3>1. CASE ClaimChallenge(s)
      BY ZenonT(120), <1>3, <3>1, NowClaimed, <1>0, StampStays DEF Foreign, ClaimChallenge, Challenged
    <3>2. CASE Judge(s)
      BY <1>1, <1>3, <3>2, NowJudged DEF Stamped, Judge, At
    <3>3. CASE ConsumeWon(s)
      BY <1>3, <3>3, NowConsumed, <1>1 DEF ConsumeWon, After, Stamped, At
    <3>4. CASE CountAttempt(s) \/ ReleaseChallenge(s) \/ ConsumeLost(s)
      BY <1>3, <3>4, NowCounted, NowReleased, NowDropped
    <3> QED BY <2>2, <3>1, <3>2, <3>3, <3>4 DEF CompleteMFA
  <2>3. CASE RevokeProviderSession(s)
    BY <1>3, <2>3, NowRevoked, <1>1 DEF RevokeProviderSession, Stamped, At
  <2>4. Serve(s) \/ CrashRequest(s) => CompleteMFA(s) \/ RevokeProviderSession(s)
    BY <1>3, NowDone, NowIssued, NowUsed DEF Serve, LoginHandler, Request
  <2> QED BY <2>1, <2>2, <2>3, <2>4, NextSplit, WorldStill, Others
<1> QED BY <1>2, <1>3

-----------------------------------------------------------------------------
(* The one right to the reward *)

\* A ceremony never opens again.
LEMMA OpensOnce ==
  ASSUME CeremoniesAssumption, Types, [Next]_ceremonyVars, NEW c \in Ceremonies, Open(c)'
  PROVE  Open(c)
  BY StoreMoves, StartsOnce DEF Open

\* Who gains the right takes it out of an open ceremony, which closes.
LEMMA RightGained ==
  ASSUME CeremoniesAssumption, Types, Ordered, Challenged, [Next]_ceremonyVars,
         NEW c \in Ceremonies, NEW r \in Requests, Serve(r) \/ CrashRequest(r),
         NEW s \in Requests, CeremonyOf(s) = c, Entitled(s)', ~Entitled(s)
  PROVE  s = r /\ Open(c) /\ ~Open(c)' /\ UNCHANGED signedIn
<1>1. s \in Grantees
  BY DEF Entitled, Grantees
<1>2. s = r
  BY <1>1, GrantAppears, Others DEF Entitled
<1>3. grant'[s].state = "none"
  BY <1>1, <1>2, GrantAppears DEF Entitled, At
<1>4. run'[s].pc \in {"session", "mint"} \/ (run'[s].pc = "revoke" /\ run'[s].won)
  BY <1>3 DEF Entitled
<1>5. BeginLogin(s) \/ BeginReauthentication(s) \/ ConsumeWon(s)
  <2>1. ~HandleAuthenticated(s) /\ ~CrashRequest(s) /\ ~IssueGrant(s) /\ ~VerifyAndConsumeData(s)
    BY <1>4, NowDone, NowIssued, NowUsed
  <2>2. ~RevokeProviderSession(s)
    BY <1>4, NowRevoked DEF RevokeProviderSession, At, Entitled
  <2>3. ~StoreChallenge(s)
    BY <1>4, NowStored
  <2>4. CompleteMFA(s) => ConsumeWon(s)
    BY <1>4, NowClaimed, NowJudged, NowCounted, NowReleased, NowDropped DEF CompleteMFA
  <2> QED BY <1>2, <2>1, <2>2, <2>3, <2>4 DEF Serve, LoginHandler, Request
<1>6. CASE BeginLogin(s) \/ BeginReauthentication(s)
  BY <1>6, Kinds, <1>4, <1>2 DEF BeginLogin, BeginReauthentication, At, Starting, storeVars, Challenged, Open
<1>7. CASE ConsumeWon(s)
  <2>1. ConsumeChallenge(s) /\ Consumable(s) /\ UNCHANGED signedIn
    BY <1>4, <1>7, NowConsumed DEF ConsumeWon
  <2>2. Op(s) = "complete" /\ Of(s) = c
    BY <1>7, Standing, Kinds DEF ConsumeWon, At, PathOf, Earning, Entitled
  <2>3. chal[c] # 0 /\ chal'[c] = 0
    BY <2>1, <2>2 DEF Consumable, ConsumeChallenge, Types
  <2>4. run[c].answer = "challenge"
    BY <1>7, <2>2 DEF Ordered, ConsumeWon, At
  <2>5. ~Starting(c)'
    BY <2>4, StampStays, StartsOnce
  <2> QED BY <1>2, <2>1, <2>3, <2>5 DEF Open
<1> QED BY <1>5, <1>6, <1>7

\* A session is created by the one who has the right, and with it the right is
\* gone.
LEMMA SignedIn ==
  ASSUME CeremoniesAssumption, Types, [Next]_ceremonyVars, NEW c \in Ceremonies,
         signedIn'[c] # signedIn[c]
  PROVE  \E r \in Rightful(c) : /\ Serve(r) /\ ~Entitled(r)' /\ signedIn'[c] = signedIn[c] + 1
<1>1. ASSUME NEW r \in Requests, Serve(r) \/ CrashRequest(r)
      PROVE  UNCHANGED signedIn \/ HandleAuthenticated(r)
  <2>1. CASE LoginHandler(r) \/ Request(r)
    BY <2>1 DEF LoginHandler, Request, BeginLogin, BeginReauthentication, StoreChallenge
  <2>2. CASE CompleteMFA(r)
    BY <2>2 DEF CompleteMFA, ClaimChallenge, Judge, CountAttempt, ReleaseChallenge, ConsumeWon,
                ConsumeLost
  <2>3. CASE RevokeProviderSession(r) \/ CrashRequest(r)
    BY <2>3 DEF RevokeProviderSession, CrashRequest
  <2>4. CASE IssueGrant(r) \/ VerifyAndConsumeData(r)
    BY <2>4 DEF IssueGrant, MintGrant, AuditGrant, PutStepUp, UndoGrant, VerifyAndConsumeData,
                ConsumeGrant, AllowUse
  <2> QED BY <1>1, <2>1, <2>2, <2>3, <2>4 DEF Serve
<1>2. PICK r \in Requests : HandleAuthenticated(r)
  BY <1>1, NextSplit, WorldStill
<1>3. CeremonyOf(r) = c /\ signedIn'[c] = signedIn[c] + 1
  BY <1>2 DEF HandleAuthenticated, Types
<1>4. At(r, "session") /\ Op(r) # "use" /\ r \in Grantees /\ grant' = grant
  BY <1>2, Standing DEF HandleAuthenticated, At, PathOf, Grantees, grantVars
<1>5. grant[r].state = "none"
  BY <1>4, Standing DEF GrantTimed, At
<1>6. r \in Rightful(c)
  BY <1>3, <1>4 DEF Rightful, Entitled, At
<1>7. ~Entitled(r)'
  BY <1>2, <1>4, <1>5, NowDone DEF Entitled
<1> QED BY <1>2, <1>3, <1>6, <1>7 DEF Serve

LEMMA SoleRightStep ==
  CeremoniesAssumption /\ Types /\ Ordered /\ Challenged /\ SoleRight /\ [Next]_ceremonyVars
    => SoleRight'
<1> SUFFICES ASSUME CeremoniesAssumption, Types, Ordered, Challenged, SoleRight,
                    [Next]_ceremonyVars, NEW c \in Ceremonies
             PROVE  /\ Open(c)' => Rightful(c)' = {} /\ signedIn'[c] = 0
                    /\ \A s, t \in Rightful(c)' : s = t
                    /\ signedIn'[c] # 0 => signedIn'[c] = 1 /\ Rightful(c)' = {}
  BY DEF SoleRight
<1>1. CASE Rightful(c)' \subseteq Rightful(c) /\ signedIn'[c] = signedIn[c]
  BY <1>1, OpensOnce DEF SoleRight
<1>2. CASE signedIn'[c] # signedIn[c]
  <2>1. PICK r \in Rightful(c) : /\ Serve(r) /\ ~Entitled(r)' /\ signedIn'[c] = signedIn[c] + 1
    BY <1>2, SignedIn
  <2>2. signedIn[c] = 0 /\ ~Open(c) /\ \A s \in Rightful(c) : s = r
    BY <2>1 DEF SoleRight
  <2>3. ASSUME NEW s \in Rightful(c)' PROVE FALSE
    BY <2>1, <2>3, <2>2, RightGained DEF Rightful
  <2> QED BY <2>1, <2>2, <2>3, OpensOnce
<1>3. CASE signedIn'[c] = signedIn[c] /\ ~(Rightful(c)' \subseteq Rightful(c))
  <2>1. PICK s \in Requests : CeremonyOf(s) = c /\ Entitled(s)' /\ ~Entitled(s)
    BY <1>3 DEF Rightful
  <2>2. PICK r \in Requests : Serve(r) \/ CrashRequest(r)
    BY <2>1, NextSplit, WorldStill DEF Entitled
  <2>3. s = r /\ Open(c) /\ ~Open(c)'
    BY <2>1, <2>2, RightGained
  <2>4. Rightful(c) = {} /\ signedIn[c] = 0
    BY <2>3 DEF SoleRight
  <2>5. ASSUME NEW t \in Rightful(c)' PROVE t = r
    BY <2>4, <2>5, <2>2, RightGained DEF Rightful
  <2> QED BY <1>3, <2>3, <2>4, <2>5
<1> QED BY <1>1, <1>2, <1>3

\* One reward: what the ceremony has given is part of the one right.
LEMMA SoleRightOneReward ==
  ASSUME CeremoniesAssumption, Types, SoleRight
  PROVE  OneReward
<1> SUFFICES ASSUME NEW c \in Ceremonies
             PROVE  signedIn[c] + Cardinality({r \in Grantees : CeremonyOf(r) = c
                                                 /\ grant[r].state # "none"}) <= 1
  BY DEF OneReward
<1> DEFINE G == {r \in Grantees : CeremonyOf(r) = c /\ grant[r].state # "none"}
<1>1. G \subseteq Rightful(c)
  BY DEF Rightful, Entitled, Grantees
<1>2. signedIn[c] \in Nat
  BY DEF Types
<1>3. CASE G = {}
  <2>1. Cardinality(G) = 0
    BY <1>3, FS_EmptySet
  <2>2. signedIn[c] <= 1
    BY <1>2 DEF SoleRight
  <2> QED BY <1>2, <2>1, <2>2
<1>4. CASE G # {}
  <2>1. PICK r \in G : TRUE
    BY <1>4
  <2>2. G = {r} /\ signedIn[c] = 0
    BY <1>1, <2>1 DEF SoleRight
  <2>3. Cardinality(G) = 1
    BY <2>2, FS_Singleton
  <2> QED BY <2>2, <2>3
<1> QED BY <1>3, <1>4

-----------------------------------------------------------------------------
(* Using a grant *)

\* A grant that is gone stays gone.
LEMMA GoneStays ==
  ASSUME CeremoniesAssumption, Types, [Next]_ceremonyVars, NEW g \in Grantees,
         grant[g].state = "gone"
  PROVE  grant'[g].state = "gone"
<1>1. CASE UNCHANGED grant
  BY <1>1
<1>2. ASSUME NEW r \in Requests, IssueGrant(r), grant' # grant
      PROVE  grant'[g].state = "gone"
  <2>1. CASE MintGrant(r)
    BY <2>1, EarningStanding, Standing, <1>2 DEF MintGrant, At, Earning, GrantTimed, CreateGrant, Types
  <2>2. CASE UndoGrant(r)
    BY <1>2, <2>2 DEF UndoGrant, Types, Grants
  <2> QED BY <1>2, <2>1, <2>2 DEF IssueGrant, AuditGrant, PutStepUp
<1>3. ASSUME NEW r \in Requests, ConsumeGrant(r)
      PROVE  grant'[g].state = "gone"
  BY <1>3 DEF ConsumeGrant, Taken, Types, Grants
<1>4. ASSUME NEW r \in Requests, Serve(r) \/ CrashRequest(r)
      PROVE  UNCHANGED grant \/ IssueGrant(r) \/ ConsumeGrant(r)
  <2>1. LoginHandler(r) \/ Request(r) => UNCHANGED grant
    BY DEF LoginHandler, Request, BeginLogin, BeginReauthentication, StoreChallenge, grantVars
  <2>2. CompleteMFA(r) => UNCHANGED grant
    BY DEF CompleteMFA, ClaimChallenge, Judge, CountAttempt, ReleaseChallenge, ConsumeWon,
           ConsumeLost, grantVars
  <2>3. HandleAuthenticated(r) \/ RevokeProviderSession(r) \/ CrashRequest(r) => UNCHANGED grant
    BY DEF HandleAuthenticated, RevokeProviderSession, CrashRequest, grantVars
  <2>4. AllowUse(r) => UNCHANGED grant
    BY DEF AllowUse
  <2> QED BY <1>4, <2>1, <2>2, <2>3, <2>4 DEF Serve, VerifyAndConsumeData
<1> QED BY <1>1, <1>2, <1>3, <1>4, NextSplit, WorldStill

AtGate(r, g) == Op(r) = "use" /\ Of(r) = g /\ run[r].pc = "gate"

\* Who comes to the gate has just taken a live grant.
LEMMA GateReached ==
  ASSUME CeremoniesAssumption, Types, [Next]_ceremonyVars, NEW s \in Requests, NEW g \in Grantees,
         AtGate(s, g)', ~AtGate(s, g)
  PROVE  /\ grant[g].state = "live" /\ grant'[g].state = "gone" /\ UNCHANGED accepted
         /\ \A t \in Requests \ {s} : run'[t] = run[t]
<1>1. PICK r \in Requests : Serve(r) \/ CrashRequest(r)
  BY NextSplit, WorldStill DEF AtGate
<1>2. s = r
  BY <1>1, Others DEF AtGate
<1>3. VerifyAndConsumeData(s)
  BY NowDone, NowRevoked, NowIssued, <1>1, <1>2 DEF AtGate, CompleteMFA, LoginHandler, Request, Serve
<1>4. /\ ConsumeGrant(s) /\ grant[g].state = "live"
      /\ grant' = [grant EXCEPT ![g].state = "gone"]
  BY <1>3, NowUsed DEF AtGate
<1>5. grant'[g].state = "gone"
  BY <1>4, GrantGone
<1> QED BY <1>1, <1>2, <1>4, <1>5, Others DEF ConsumeGrant

\* Accepting a grant takes the acceptor from the gate.
LEMMA AcceptMoves ==
  ASSUME CeremoniesAssumption, Types, [Next]_ceremonyVars, NEW g \in Grantees,
         accepted'[g] # accepted[g]
  PROVE  \E r \in Requests : /\ AtGate(r, g) /\ ~AtGate(r, g)' /\ accepted'[g] = accepted[g] + 1
                             /\ \A t \in Requests \ {r} : run'[t] = run[t]
<1>1. ASSUME NEW r \in Requests, Serve(r) \/ CrashRequest(r)
      PROVE  UNCHANGED accepted \/ AllowUse(r)
  <2>1. LoginHandler(r) \/ Request(r) => UNCHANGED accepted
    BY DEF LoginHandler, Request, BeginLogin, BeginReauthentication, StoreChallenge, grantVars
  <2>2. CompleteMFA(r) => UNCHANGED accepted
    BY DEF CompleteMFA, ClaimChallenge, Judge, CountAttempt, ReleaseChallenge, ConsumeWon,
           ConsumeLost, grantVars
  <2>3. HandleAuthenticated(r) \/ RevokeProviderSession(r) \/ CrashRequest(r) => UNCHANGED accepted
    BY DEF HandleAuthenticated, RevokeProviderSession, CrashRequest, grantVars
  <2>4. IssueGrant(r) \/ ConsumeGrant(r) => UNCHANGED accepted
    BY DEF IssueGrant, MintGrant, AuditGrant, PutStepUp, UndoGrant, ConsumeGrant
  <2> QED BY <1>1, <2>1, <2>2, <2>3, <2>4 DEF Serve, VerifyAndConsumeData
<1>2. PICK r \in Requests : Serve(r) /\ AllowUse(r)
  BY <1>1, NextSplit, WorldStill DEF Serve, VerifyAndConsumeData
<1>3. At(r, "gate") /\ Of(r) = g /\ accepted'[g] = accepted[g] + 1
  BY <1>2 DEF AllowUse, Types
<1>4. AtGate(r, g)
  BY <1>3, Standing, Kinds DEF AtGate, At, PathOf, Trying, Earning
<1>5. run'[r].pc = "done"
  BY <1>2, NowAnswered DEF AllowUse
<1> QED BY <1>2, <1>3, <1>4, <1>5, Others DEF AtGate

LEMMA SoleTakerStep ==
  CeremoniesAssumption /\ Types /\ SoleTaker /\ [Next]_ceremonyVars => SoleTaker'
<1> SUFFICES ASSUME CeremoniesAssumption, Types, SoleTaker, [Next]_ceremonyVars,
                    NEW g \in Grantees
             PROVE  /\ \A r \in Requests : AtGate(r, g)' =>
                         /\ grant'[g].state = "gone" /\ accepted'[g] = 0
                         /\ \A s \in Requests : AtGate(s, g)' => s = r
                    /\ accepted'[g] # 0 => accepted'[g] = 1 /\ grant'[g].state = "gone"
  BY DEF SoleTaker, AtGate
<1>1. \A r \in Requests : AtGate(r, g) =>
        /\ grant[g].state = "gone" /\ accepted[g] = 0
        /\ \A s \in Requests : AtGate(s, g) => s = r
  BY DEF SoleTaker, AtGate
<1>2. accepted[g] # 0 => accepted[g] = 1 /\ grant[g].state = "gone"
  BY DEF SoleTaker
<1>3. CASE accepted'[g] # accepted[g]
  BY <1>3, AcceptMoves, <1>1, GoneStays DEF AtGate
<1>4. CASE accepted'[g] = accepted[g] /\ \E s \in Requests : AtGate(s, g)' /\ ~AtGate(s, g)
  BY <1>4, GateReached, <1>1, <1>2 DEF AtGate
<1>5. CASE accepted'[g] = accepted[g] /\ \A s \in Requests : AtGate(s, g)' => AtGate(s, g)
  BY <1>1, <1>2, <1>5, GoneStays
<1> QED BY <1>3, <1>4, <1>5

-----------------------------------------------------------------------------
(* Returning a grant *)

\* Audit rows and step-up states are only added.
LEMMA RecordsGrow ==
  ASSUME [Next]_ceremonyVars
  PROVE  audited \subseteq audited' /\ freshness \subseteq freshness'
<1>1. ASSUME NEW r \in Requests, Serve(r) \/ CrashRequest(r)
      PROVE  audited \subseteq audited' /\ freshness \subseteq freshness'
  <2>1. LoginHandler(r) \/ Request(r) => UNCHANGED <<audited, freshness>>
    BY DEF LoginHandler, Request, BeginLogin, BeginReauthentication, StoreChallenge, grantVars
  <2>2. CompleteMFA(r) => UNCHANGED <<audited, freshness>>
    BY DEF CompleteMFA, ClaimChallenge, Judge, CountAttempt, ReleaseChallenge, ConsumeWon,
           ConsumeLost, grantVars
  <2>3. HandleAuthenticated(r) \/ RevokeProviderSession(r) \/ CrashRequest(r) =>
          UNCHANGED <<audited, freshness>>
    BY DEF HandleAuthenticated, RevokeProviderSession, CrashRequest, grantVars
  <2>4. IssueGrant(r) \/ VerifyAndConsumeData(r) =>
          audited \subseteq audited' /\ freshness \subseteq freshness'
    BY DEF IssueGrant, MintGrant, AuditGrant, PutStepUp, UndoGrant, VerifyAndConsumeData,
           ConsumeGrant, AllowUse
  <2> QED BY <1>1, <2>1, <2>2, <2>3, <2>4 DEF Serve
<1> QED BY <1>1, NextSplit, WorldStill

\* A grant is returned by the audit of a plain one and the step-up state of a
\* DreamUp one.
LEMMA GrantedBy ==
  ASSUME Types, NEW r \in Requests, Serve(r) \/ CrashRequest(r), run'[r].answer = "granted"
  PROVE  \/ AuditGrant(r) /\ r \in audited' /\ ~Freshened(CeremonyOf(r))
         \/ PutStepUp(r) /\ r \in freshness'
<1>0. run[r].answer # "granted"
  BY Others, Unanswered
<1>1. ~LoginHandler(r) /\ ~Request(r)
  <2>1. ASSUME NEW l, NEW w, run' = [run EXCEPT ![r].pc = l, ![r].gen = auth.gen, ![r].won = w]
        PROVE  FALSE
    BY <1>0, <2>1, Standing DEF Runs
  <2>2. ~BeginLogin(r)
    <3>1. ~Answer(r, "invalid")
      BY NowAnswered
    <3>2. ASSUME NEW l \in {"session", "store"},
                 run' = [run EXCEPT ![r].pc = l, ![r].gen = auth.gen, ![r].won = l = "session"]
          PROVE  FALSE
      BY <2>1, <3>2
    <3> QED BY <3>1, <3>2 DEF BeginLogin
  <2>4. ~BeginReauthentication(r)
    <3>1. ~Answer(r, "invalid") /\ ~Answer(r, "internal")
      BY NowAnswered
    <3>2. ASSUME NEW l \in {"revoke", "store"},
                 run' = [run EXCEPT ![r].pc = l, ![r].gen = auth.gen, ![r].won = l = "revoke"]
          PROVE  FALSE
      BY <2>1, <3>2
    <3> QED BY <3>1, <3>2 DEF BeginReauthentication
  <2>3. ~StoreChallenge(r)
    BY NowAnswered, NowNext DEF StoreChallenge
  <2> QED BY <2>2, <2>3, <2>4 DEF LoginHandler, Request
<1>2. ~CompleteMFA(r)
  <2>1. ~ClaimChallenge(r)
    BY Standing, NowAnswered DEF Runs, ClaimChallenge
  <2>2. ~Judge(r)
    BY <1>0, Standing, NowNext DEF Runs, Judge
  <2>3. ~CountAttempt(r) /\ ~ReleaseChallenge(r) /\ ~ConsumeLost(r)
    BY <1>0, NowTo DEF CountAttempt, ReleaseChallenge, ConsumeLost
  <2>4. ~ConsumeWon(r)
    BY <1>0, NowTo, NowNext DEF ConsumeWon
  <2> QED BY <2>1, <2>2, <2>3, <2>4 DEF CompleteMFA
<1>3. ~HandleAuthenticated(r) /\ ~CrashRequest(r)
  BY NowDone
<1>4. ~RevokeProviderSession(r)
  BY <1>0, NowTo DEF RevokeProviderSession
<1>5. ~MintGrant(r) /\ ~UndoGrant(r)
  BY <1>0, NowTo, NowAnswered DEF MintGrant, UndoGrant
<1>6. ~VerifyAndConsumeData(r)
  BY <1>0, NowTo, NowAnswered DEF VerifyAndConsumeData, ConsumeGrant, AllowUse
<1>7. AuditGrant(r) => r \in audited' /\ ~Freshened(CeremonyOf(r))
  BY <1>0, NowTo, NowNext DEF AuditGrant, Unaudited
<1>8. PutStepUp(r) => r \in freshness'
  BY <1>0, NowTo DEF PutStepUp
<1> QED BY <1>1, <1>2, <1>3, <1>4, <1>5, <1>6, <1>7, <1>8 DEF Serve, IssueGrant

LEMMA AuditFirstStep ==
  CeremoniesAssumption /\ Types /\ AuditFirst /\ [Next]_ceremonyVars => AuditFirst'
<1> SUFFICES ASSUME CeremoniesAssumption, Types, AuditFirst, [Next]_ceremonyVars,
                    NEW s \in Grantees
             PROVE  /\ run'[s].pc = "fresh" => s \in audited'
                    /\ run'[s].answer = "granted" =>
                         s \in audited' /\ (Freshened(CeremonyOf(s)) => s \in freshness')
  BY DEF AuditFirst
<1>1. CASE run'[s] = run[s]
  BY <1>1, RecordsGrow DEF AuditFirst
<1>2. CASE s \in Requests /\ (Serve(s) \/ CrashRequest(s))
  <2>1. ASSUME run'[s].pc = "fresh" PROVE s \in audited'
    <3>1. ~LoginHandler(s) /\ ~Request(s)
      BY <1>2, <2>1, NowBegun, NowStored DEF LoginHandler, Request
    <3>2. ~CompleteMFA(s)
      BY <1>2, <2>1, NowClaimed, NowJudged, NowCounted, NowReleased, NowConsumed, NowDropped
      DEF CompleteMFA, After
    <3>3. IssueGrant(s)
      BY <1>2, <2>1, <3>1, <3>2, NowDone, NowRevoked, NowUsed DEF Serve
    <3> QED BY <1>2, <2>1, <3>3, NowIssued
  <2>2. ASSUME run'[s].answer = "granted"
        PROVE  s \in audited' /\ (Freshened(CeremonyOf(s)) => s \in freshness')
    BY RecordsGrow, <1>2, <2>2, GrantedBy DEF AuditFirst, PutStepUp, At
  <2> QED BY <2>1, <2>2
<1>3. s \in Requests
  BY DEF Grantees
<1> QED BY <1>1, <1>2, <1>3, NextSplit, WorldStill, Others

-----------------------------------------------------------------------------
(* The temporary sessions and the worker *)

LEMMA LeakedGrows ==
  ASSUME [Next]_ceremonyVars
  PROVE  leaked \subseteq leaked'
<1>1. ASSUME NEW r \in Requests, Serve(r) \/ CrashRequest(r)
      PROVE  leaked \subseteq leaked'
  <2>1. LoginHandler(r) \/ Request(r) => leaked \subseteq leaked'
    BY DEF LoginHandler, Request, BeginLogin, BeginReauthentication, StoreChallenge
  <2>2. CompleteMFA(r) => UNCHANGED leaked
    BY DEF CompleteMFA, ClaimChallenge, Judge, CountAttempt, ReleaseChallenge, ConsumeWon,
           ConsumeLost
  <2>3. HandleAuthenticated(r) \/ RevokeProviderSession(r) \/ CrashRequest(r) =>
          leaked \subseteq leaked'
    BY DEF HandleAuthenticated, RevokeProviderSession, CrashRequest
  <2>4. IssueGrant(r) \/ VerifyAndConsumeData(r) => UNCHANGED leaked
    BY DEF IssueGrant, MintGrant, AuditGrant, PutStepUp, UndoGrant, VerifyAndConsumeData,
           ConsumeGrant, AllowUse
  <2> QED BY <1>1, <2>1, <2>2, <2>3, <2>4 DEF Serve
<1>2. World => leaked \subseteq leaked'
  BY DEF World, Sweep, PopExpiredChallenges, RevokeAbandoned, CrashWorker, ChallengeExpires,
         LockExpires, SecurityChange
<1> QED BY <1>1, <1>2, NextSplit DEF ceremonyVars

\* An entry leaves the index for the worker, and the worker for a closed
\* session or the record of a failure.
LEMMA EntryMoves ==
  ASSUME CeremoniesAssumption, Types, [Next]_ceremonyVars, NEW c \in index \cup popped
  PROVE  c \in index' \cup popped' \cup leaked' \/ temp'[c] # "open"
<1>0. c \in Ceremonies
  BY DEF Types
<1>1. ASSUME NEW r \in Requests, Serve(r) \/ CrashRequest(r)
      PROVE  index \subseteq index' /\ popped' = popped
  <2>1. LoginHandler(r) \/ Request(r) => index \subseteq index' /\ popped' = popped
    BY DEF LoginHandler, Request, BeginLogin, BeginReauthentication, StoreChallenge, Stored,
           CreateMFA, CreateChallenge, storeVars
  <2>2. CompleteMFA(r) => UNCHANGED <<index, popped>>
    BY DEF CompleteMFA, ClaimChallenge, Judge, CountAttempt, ReleaseChallenge, ConsumeWon,
           ConsumeLost, storeVars
  <2>3. HandleAuthenticated(r) \/ RevokeProviderSession(r) \/ CrashRequest(r) =>
          UNCHANGED <<index, popped>>
    BY DEF HandleAuthenticated, RevokeProviderSession, CrashRequest, storeVars
  <2>4. IssueGrant(r) \/ VerifyAndConsumeData(r) => UNCHANGED <<index, popped>>
    BY DEF IssueGrant, MintGrant, AuditGrant, PutStepUp, UndoGrant, VerifyAndConsumeData,
           ConsumeGrant, AllowUse, storeVars
  <2> QED BY <1>1, <2>1, <2>2, <2>3, <2>4 DEF Serve
<1>2. CASE PopExpiredChallenges
  BY <1>2 DEF PopExpiredChallenges
<1>3. CASE RevokeAbandoned
  BY <1>0, <1>3 DEF RevokeAbandoned, storeVars, Types
<1>4. CASE CrashWorker
  BY <1>4 DEF CrashWorker, storeVars
<1>5. CASE SecurityChange \/ \E d \in Ceremonies : ChallengeExpires(d) \/ LockExpires(d)
  BY <1>5 DEF SecurityChange, ChallengeExpires, LockExpires, storeVars
<1>6. UNCHANGED ceremonyVars => UNCHANGED <<index, popped>>
  BY DEF ceremonyVars
<1> QED BY <1>1, <1>2, <1>3, <1>4, <1>5, <1>6, NextSplit DEF World, Sweep

\* A request that was to store or to revoke has stored, revoked, left the
\* failure on record, or is to revoke now.
LEMMA RevokerMoves ==
  ASSUME CeremoniesAssumption, Types, NEW r \in Requests, Serve(r) \/ CrashRequest(r),
         run[r].pc \in {"store", "revoke"}, ~Login(CeremonyOf(r))
  PROVE  \/ CeremonyOf(r) \in index' \cup leaked' \/ temp'[CeremonyOf(r)] # "open"
         \/ run'[r].pc = "revoke"
<1>1. CASE At(r, "store") /\ ~CrashRequest(r)
  <2>1. Op(r) = "begin" /\ CeremonyOf(r) = r /\ StoreChallenge(r)
    <3>1. Op(r) = "begin"
      BY <1>1, Standing DEF At, PathOf, Trying, Earning
    <3> QED BY <1>1, <3>1, Kinds
        DEF Serve, LoginHandler, Request, CompleteMFA, BeginLogin, BeginReauthentication,
            HandleAuthenticated, RevokeProviderSession, IssueGrant, MintGrant, AuditGrant,
            PutStepUp, UndoGrant, VerifyAndConsumeData, ConsumeGrant, AllowUse, At
  <2>2. CASE Stored(r)
    BY <2>1, <2>2 DEF Stored, CreateChallenge
  <2>3. CASE Next2(r, IF Login(r) THEN "done" ELSE "revoke", "internal")
    BY <2>1, <2>3, NowNext
  <2> QED BY <2>1, <2>2, <2>3 DEF StoreChallenge
<1>2. CASE At(r, "revoke") /\ ~CrashRequest(r)
  <2>1. RevokeProviderSession(r) /\ CeremonyOf(r) \in Ceremonies
    <3>1. CeremonyOf(r) \in Ceremonies
      BY <1>2, EarningStanding DEF At, Earning
    <3>2. Serve(r) /\ run[r].pc = "revoke"
      BY <1>2 DEF At
    <3>3. ~LoginHandler(r) /\ ~Request(r) /\ ~HandleAuthenticated(r) /\ ~VerifyAndConsumeData(r)
      BY <3>2 DEF LoginHandler, Request, BeginLogin, BeginReauthentication, StoreChallenge,
                  HandleAuthenticated, VerifyAndConsumeData, ConsumeGrant, AllowUse, At
    <3>4. ~CompleteMFA(r) /\ ~IssueGrant(r)
      BY <3>2 DEF CompleteMFA, ClaimChallenge, Judge, CountAttempt, ReleaseChallenge, ConsumeWon,
                  ConsumeLost, IssueGrant, MintGrant, AuditGrant, PutStepUp, UndoGrant, At
    <3> QED BY <3>1, <3>2, <3>3, <3>4 DEF Serve
  <2> QED BY <2>1 DEF RevokeProviderSession, Types
<1>3. CASE CrashRequest(r)
  BY Standing, Kinds, <1>3 DEF At, PathOf, Trying, Earning, CrashRequest
<1> QED BY <1>1, <1>2, <1>3 DEF At

LEMMA TempCoveredStep ==
  CeremoniesAssumption /\ Types /\ Challenged /\ TempCovered /\ [Next]_ceremonyVars => TempCovered'
<1> SUFFICES ASSUME CeremoniesAssumption, Types, Challenged, TempCovered, [Next]_ceremonyVars,
                    NEW c \in Ceremonies, temp'[c] = "open"
             PROVE  \/ c \in index' \cup popped' \cup leaked'
                    \/ \E r \in Requests : run'[r].pc \in {"store", "revoke"} /\ CeremonyOf(r) = c
  BY DEF TempCovered
<1>1. CASE temp[c] # "open"
  BY <1>1, TempMoves, OfCeremony
<1>2. CASE temp[c] = "open" /\ c \in leaked
  BY <1>2, LeakedGrows
<1>3. CASE temp[c] = "open" /\ c \in index \cup popped
  BY <1>3, EntryMoves
<1>4. ASSUME temp[c] = "open",
             NEW r \in Requests, run[r].pc \in {"store", "revoke"}, CeremonyOf(r) = c
      PROVE  \/ c \in index' \cup popped' \cup leaked'
             \/ \E q \in Requests : run'[q].pc \in {"store", "revoke"} /\ CeremonyOf(q) = c
  BY <1>4, RevokerMoves, NextSplit, WorldStill, Others DEF Challenged
<1> QED BY <1>1, <1>2, <1>3, <1>4 DEF TempCovered

LEMMA SweepSparesStep ==
  CeremoniesAssumption /\ Types /\ Challenged /\ SweepSpares /\ [Next]_ceremonyVars => SweepSpares'
<1> SUFFICES ASSUME CeremoniesAssumption, Types, Challenged, SweepSpares, [Next]_ceremonyVars,
                    NEW c \in popped'
             PROVE  chal'[c] = 0
  BY DEF SweepSpares
<1>1. CASE PopExpiredChallenges
  BY <1>1 DEF PopExpiredChallenges, Abandoned
<1>2. CASE ~PopExpiredChallenges
  <2>1. c \in popped
    <3>1. World => popped' \subseteq popped
      BY <1>2 DEF World, Sweep, RevokeAbandoned, CrashWorker, ChallengeExpires, LockExpires,
                  SecurityChange
    <3>2. ASSUME NEW r \in Requests, Serve(r) \/ CrashRequest(r)
          PROVE  UNCHANGED popped
      <4>1. LoginHandler(r) \/ Request(r) => UNCHANGED popped
        BY DEF LoginHandler, Request, BeginLogin, BeginReauthentication, StoreChallenge
      <4>2. CompleteMFA(r) => UNCHANGED popped
        BY DEF CompleteMFA, ClaimChallenge, Judge, CountAttempt, ReleaseChallenge, ConsumeWon,
               ConsumeLost
      <4>3. HandleAuthenticated(r) \/ RevokeProviderSession(r) \/ CrashRequest(r) => UNCHANGED popped
        BY DEF HandleAuthenticated, RevokeProviderSession, CrashRequest
      <4>4. IssueGrant(r) \/ VerifyAndConsumeData(r) => UNCHANGED popped
        BY DEF IssueGrant, MintGrant, AuditGrant, PutStepUp, UndoGrant, VerifyAndConsumeData,
               ConsumeGrant, AllowUse
      <4> QED BY <3>2, <4>1, <4>2, <4>3, <4>4 DEF Serve
    <3> QED BY <3>1, <3>2, NextSplit DEF ceremonyVars
  <2>2. c \in Ceremonies /\ chal[c] = 0 /\ ~Starting(c)
    BY <2>1 DEF Types, SweepSpares, Challenged
  <2> QED BY <2>2, StoreMoves, StartsOnce
<1> QED BY <1>1, <1>2

-----------------------------------------------------------------------------
(* Counting the guesses *)

IsAt(r, c, l) == Op(r) = "complete" /\ Of(r) = c /\ run[r].pc = l

LEMMA WorkingFinite ==
  ASSUME CeremoniesAssumption, NEW S \in SUBSET Requests
  PROVE  IsFiniteSet(S) /\ Cardinality(S) \in Nat
  BY FS_Subset, FS_CardinalityType DEF CeremoniesAssumption

\* A step of one request changes the counts by that request.
LEMMA CountMoves ==
  ASSUME CeremoniesAssumption, NEW r \in Requests, \A s \in Requests \ {r} : run'[s] = run[s],
         NEW c, NEW l
  PROVE  /\ Cardinality(Working(c, l)) \in Nat /\ Cardinality(Working(c, l)') \in Nat
         /\ IsAt(r, c, l) /\ ~IsAt(r, c, l)' =>
              Cardinality(Working(c, l)') = Cardinality(Working(c, l)) - 1
         /\ ~IsAt(r, c, l) /\ IsAt(r, c, l)' =>
              Cardinality(Working(c, l)') = Cardinality(Working(c, l)) + 1
         /\ (IsAt(r, c, l) <=> IsAt(r, c, l)') =>
              Cardinality(Working(c, l)') = Cardinality(Working(c, l))
<1>1. Working(c, l) \in SUBSET Requests /\ Working(c, l)' \in SUBSET Requests
  BY DEF Working
<1>2. /\ IsFiniteSet(Working(c, l)) /\ Cardinality(Working(c, l)) \in Nat
      /\ IsFiniteSet(Working(c, l)') /\ Cardinality(Working(c, l)') \in Nat
  BY <1>1, WorkingFinite
<1>3. ASSUME IsAt(r, c, l), ~IsAt(r, c, l)'
      PROVE  Cardinality(Working(c, l)') = Cardinality(Working(c, l)) - 1
  BY <1>3, <1>2, FS_RemoveElement DEF Working, IsAt
<1>4. ASSUME ~IsAt(r, c, l), IsAt(r, c, l)'
      PROVE  Cardinality(Working(c, l)') = Cardinality(Working(c, l)) + 1
  <2>1. Working(c, l)' = Working(c, l) \cup {r} /\ r \notin Working(c, l)
    BY <1>4 DEF Working, IsAt
  <2> QED BY <1>2, <2>1, FS_AddElement
<1>5. ASSUME (IsAt(r, c, l) <=> IsAt(r, c, l)')
      PROVE  Cardinality(Working(c, l)') = Cardinality(Working(c, l))
  BY <1>5 DEF Working, IsAt
<1> QED BY <1>2, <1>3, <1>4, <1>5

\* The budget is at most the maximum, and all of it once the challenge is gone.
LEMMA Budgets ==
  ASSUME CeremoniesAssumption, Types, NEW c \in Ceremonies
  PROVE  /\ Budget(c) \in Nat /\ Budget(c) <= MaxAttempts /\ Room(c) \in Nat
         /\ chal[c] = 0 => Budget(c) = MaxAttempts
         /\ wrong[c] \in Nat /\ attempts[c] \in Nat /\ mishaps \in Nat
  BY DEF CeremoniesAssumption, Types, Room, Budget

\* The steps that neither judge nor count: what they take from the budget is a
\* failure.
LEMMA PaidStays ==
  ASSUME CeremoniesAssumption, Types, Types', NEW c \in Ceremonies, PaidFor(c),
         Cardinality(Working(c, "judge")) \in Nat, Cardinality(Working(c, "judge")') \in Nat,
         Cardinality(Working(c, "count")) \in Nat, Cardinality(Working(c, "count")') \in Nat,
         Cardinality(Working(c, "judge")') <= Cardinality(Working(c, "judge")),
         Cardinality(Working(c, "count")') <= Cardinality(Working(c, "count")),
         wrong'[c] = wrong[c],
         \/ chal'[c] = 0 /\ attempts'[c] \in {0, attempts[c]}
         \/ chal'[c] = chal[c] /\ attempts'[c] = attempts[c],
         \/ mishaps' = mishaps /\ (Paying(c) => Paying(c)' \/ chal'[c] = 0)
         \/ mishaps' = mishaps + 1
  PROVE  PaidFor(c)'
<1>1. /\ Budget(c) \in Nat /\ Budget(c) <= MaxAttempts /\ Room(c) \in Nat
      /\ wrong[c] \in Nat /\ attempts[c] \in Nat /\ mishaps \in Nat
  BY Budgets
<1>2. /\ MaxAttempts \in Nat \ {0} /\ mishaps' \in Nat /\ attempts'[c] \in Nat
      /\ Budget(c)' = IF chal'[c] = 0 THEN MaxAttempts
                      ELSE Room(c)' + (IF Paying(c)' THEN 1 ELSE 0)
      /\ Budget(c) = IF chal[c] = 0 THEN MaxAttempts
                     ELSE Room(c) + (IF Paying(c) THEN 1 ELSE 0)
      /\ attempts'[c] = attempts[c] => Room(c)' = Room(c)
  BY DEF CeremoniesAssumption, Types, Budget, Room
<1>3. Budget(c)' + mishaps' >= Budget(c) + mishaps
  <2>1. CASE chal'[c] = 0
    BY <1>1, <1>2, <2>1
  <2>2. CASE chal'[c] # 0
    BY <1>2, <2>2, <1>1
  <2> QED BY <2>1, <2>2
<1>4. attempts'[c] <= attempts[c]
  BY <1>1, <1>2
<1>5. Budget(c)' \in Nat
  BY <1>1, <1>2
<1> QED BY <1>1, <1>2, <1>3, <1>4, <1>5 DEF PaidFor

\* What a step leaves alone that is no completion of the ceremony.
LEMMA ElsewhereStays ==
  ASSUME CeremoniesAssumption, Types, NEW c \in Ceremonies, NEW r \in Requests,
         Serve(r) \/ CrashRequest(r), ~(CompleteMFA(r) /\ Of(r) = c), ~StoreChallenge(c)
  PROVE  /\ wrong'[c] = wrong[c] /\ attempts'[c] = attempts[c] /\ chal'[c] = chal[c]
         /\ holder'[c] = holder[c] /\ mishaps' \in {mishaps, mishaps + 1}
<1>1. CASE LoginHandler(r) \/ Request(r)
  <2>1. CASE StoreChallenge(r)
    BY <2>1 DEF StoreChallenge, Stored, CreateMFA, CreateChallenge, Types, Fault, NoFault
  <2> QED BY <1>1, <2>1
      DEF LoginHandler, Request, BeginLogin, BeginReauthentication, storeVars, Fault, NoFault
<1>2. CASE CompleteMFA(r)
  <2>1. Of(r) \in Ceremonies /\ Of(r) # c
    BY <1>2, Kinds DEF CompleteMFA
  <2>2. CASE ClaimChallenge(r)
    BY <2>1, <2>2 DEF ClaimChallenge, Types, Fault, NoFault
  <2>3. CASE Judge(r)
    BY <2>1, <2>3 DEF Judge, Types, storeVars, Fault, NoFault
  <2>4. CASE CountAttempt(r)
    BY <2>1, <2>4 DEF CountAttempt, IncrementAttempts, Types, Fault, NoFault
  <2>5. CASE ReleaseChallenge(r)
    BY <2>1, <2>5 DEF ReleaseChallenge, Unlocked, Types, Fault, NoFault
  <2>6. CASE ConsumeWon(r) \/ ConsumeLost(r)
    BY <2>1, <2>6 DEF ConsumeWon, ConsumeLost, ConsumeChallenge, Unlocked, Types, Fault, NoFault
  <2> QED BY <1>2, <2>2, <2>3, <2>4, <2>5, <2>6 DEF CompleteMFA
<1>3. CASE HandleAuthenticated(r) \/ RevokeProviderSession(r) \/ CrashRequest(r)
  BY <1>3 DEF HandleAuthenticated, RevokeProviderSession, CrashRequest, storeVars, Fault, NoFault
<1>4. CASE IssueGrant(r) \/ VerifyAndConsumeData(r)
  BY <1>4 DEF IssueGrant, MintGrant, AuditGrant, PutStepUp, UndoGrant, VerifyAndConsumeData,
              ConsumeGrant, AllowUse, storeVars, Fault, NoFault
<1> QED BY <1>1, <1>2, <1>3, <1>4 DEF Serve

\* Only a completion of the ceremony comes to its judge and count steps.
LEMMA ElsewhereCounts ==
  ASSUME CeremoniesAssumption, Types, NEW c \in Ceremonies, NEW r \in Requests,
         Serve(r), ~(CompleteMFA(r) /\ Of(r) = c),
         NEW l \in {"judge", "count"}
  PROVE  ~IsAt(r, c, l) /\ ~IsAt(r, c, l)'
<1>1. CASE Op(r) = "complete" /\ Of(r) = c /\ ~CompleteMFA(r)
  <2>1. ~LoginHandler(r) /\ ~Request(r)
    BY <1>1 DEF LoginHandler, Request
  <2>2. run'[r].pc \notin {"judge", "count"}
    BY <1>1, <2>1, NowDone, NowRevoked, NowIssued, NowUsed DEF Serve
  <2>3. run[r].pc \notin {"judge", "count"}
    BY <1>1, <2>1 DEF Serve, HandleAuthenticated, RevokeProviderSession, IssueGrant, MintGrant,
       AuditGrant, PutStepUp, UndoGrant, VerifyAndConsumeData, ConsumeGrant, AllowUse, At
  <2> QED BY <2>2, <2>3 DEF IsAt
<1> QED BY <1>1 DEF IsAt, CompleteMFA

LEMMA PaidElsewhere ==
  ASSUME CeremoniesAssumption, Types, Types', Challenged, NEW c \in Ceremonies, PaidFor(c),
         NEW r \in Requests, Serve(r), ~(CompleteMFA(r) /\ Of(r) = c), ~StoreChallenge(c)
  PROVE  PaidFor(c)'
<1>1. \A s \in Requests \ {r} : run'[s] = run[s]
  BY Others
<1>2. /\ wrong'[c] = wrong[c] /\ attempts'[c] = attempts[c] /\ chal'[c] = chal[c]
      /\ holder'[c] = holder[c] /\ mishaps' \in {mishaps, mishaps + 1}
  BY ElsewhereStays
<1>3. \A l \in {"judge", "count"} :
        /\ Cardinality(Working(c, l)) \in Nat /\ Cardinality(Working(c, l)') \in Nat
        /\ Cardinality(Working(c, l)') = Cardinality(Working(c, l))
  <2> TAKE l \in {"judge", "count"}
  <2>1. ~IsAt(r, c, l) /\ ~IsAt(r, c, l)'
    BY ElsewhereCounts
  <2> QED BY <1>1, <2>1, CountMoves
<1>4. Paying(c) => Paying(c)'
  <2>1. SUFFICES ASSUME Paying(c), holder[c] = r PROVE FALSE
    BY <1>1, <1>2 DEF Paying, Types
  <2>2. Op(r) = "complete" /\ Of(r) = c /\ run[r].pc \in {"judge", "count", "drop"}
    BY <2>1 DEF Paying, Challenged
  <2>3. Serve(r) /\ ~CompleteMFA(r)
    BY <2>2
  <2>4. ~LoginHandler(r) /\ ~Request(r)
    BY <2>2 DEF LoginHandler, Request
  <2> QED BY <2>2, <2>3, <2>4 DEF Serve, HandleAuthenticated, RevokeProviderSession, IssueGrant,
       MintGrant, AuditGrant, PutStepUp, UndoGrant, VerifyAndConsumeData, ConsumeGrant, AllowUse, At
<1> QED BY <1>2, <1>3, <1>4, PaidStays

LEMMA PaidCrash ==
  ASSUME CeremoniesAssumption, Types, Types', NEW c \in Ceremonies, PaidFor(c),
         NEW r \in Requests, CrashRequest(r)
  PROVE  PaidFor(c)'
<1>1. \A s \in Requests \ {r} : run'[s] = run[s]
  BY Others
<1>2. /\ wrong'[c] = wrong[c] /\ attempts'[c] = attempts[c] /\ chal'[c] = chal[c]
      /\ mishaps' = mishaps + 1
  BY DEF CrashRequest, storeVars, Fault
<1>3. run'[r].pc = "done"
  BY NowDone
<1>4. \A l \in {"judge", "count"} :
        /\ Cardinality(Working(c, l)) \in Nat /\ Cardinality(Working(c, l)') \in Nat
        /\ Cardinality(Working(c, l)') <= Cardinality(Working(c, l))
  <2> TAKE l \in {"judge", "count"}
  <2>1. ~IsAt(r, c, l)'
    BY <1>3 DEF IsAt
  <2> QED BY <1>1, <2>1, CountMoves
<1> QED BY <1>2, <1>4, PaidStays

\* A new challenge meets no guess of an earlier one.
LEMMA PaidStore ==
  ASSUME CeremoniesAssumption, Types, Types', Ordered, Challenged, NEW c \in Ceremonies,
         PaidFor(c), StoreChallenge(c), Serve(c)
  PROVE  PaidFor(c)'
<1>1. c \in Requests /\ Op(c) = "begin" /\ CeremonyOf(c) = c
  BY OfCeremony
<1>2. Starting(c) /\ run[c].answer # "challenge"
  BY <1>1, Unanswered DEF StoreChallenge, Starting, At
<1>3. wrong[c] = 0 /\ chal[c] = 0 /\ attempts[c] = 0
  BY <1>2 DEF Challenged, Types
<1>4. \A l \in {"judge", "count"} : Working(c, l) = {}
  BY <1>2 DEF Ordered, Working
<1>5. \A l \in {"judge", "count"} : Working(c, l)' = {}
  BY <1>1, <1>4, Others DEF Working
<1>6. \A l \in {"judge", "count"} : Cardinality(Working(c, l)') = 0
  BY <1>5, FS_EmptySet
<1>7. wrong'[c] = 0 /\ attempts'[c] = 0
  BY <1>3 DEF StoreChallenge
<1>8. Budget(c)' \in Nat /\ mishaps' \in Nat
  BY <1>7 DEF CeremoniesAssumption, Types, Budget, Room
<1> QED BY <1>6, <1>7, <1>8 DEF PaidFor

LEMMA PaidWorld ==
  ASSUME CeremoniesAssumption, Types, Types', Challenged, NEW c \in Ceremonies, PaidFor(c),
         World \/ UNCHANGED ceremonyVars
  PROVE  PaidFor(c)'
<1>1. run' = run /\ wrong'[c] = wrong[c]
  BY WorldStill
<1>2. \A l \in {"judge", "count"} :
        /\ Cardinality(Working(c, l)) \in Nat /\ Cardinality(Working(c, l)') \in Nat
        /\ Cardinality(Working(c, l)') = Cardinality(Working(c, l))
  <2> TAKE l \in {"judge", "count"}
  <2>1. Working(c, l)' = Working(c, l) /\ Working(c, l) \in SUBSET Requests
    BY <1>1 DEF Working
  <2> QED BY <2>1, WorkingFinite
<1>3. CASE UNCHANGED <<chal, attempts, holder>> /\ mishaps' \in {mishaps, mishaps + 1}
  BY <1>1, <1>3, <1>2, PaidStays DEF Paying
<1>4. ASSUME NEW d \in Ceremonies, ChallengeExpires(d) PROVE PaidFor(c)'
  BY <1>4, <1>1, <1>2, PaidStays DEF ChallengeExpires, Types, Paying
<1>5. ASSUME NEW d \in Ceremonies, LockExpires(d) PROVE PaidFor(c)'
  <2>1. chal' = chal /\ attempts' = attempts
    BY <1>5 DEF LockExpires
  <2>2. CASE mishaps' = mishaps + 1
    BY <1>1, <1>2, <2>1, <2>2, PaidStays
  <2>3. CASE At(holder[d], "done") /\ mishaps' = mishaps
    BY SMTT(40), <1>1, <1>5, <2>3, <1>2, <2>1, PaidStays DEF LockExpires, Unlocked, Paying, At, Types
  <2> QED BY <1>5, <2>2, <2>3 DEF LockExpires, Fault, NoFault
<1>6. Sweep \/ CrashWorker \/ SecurityChange \/ UNCHANGED ceremonyVars =>
        UNCHANGED <<chal, attempts, holder>> /\ mishaps' \in {mishaps, mishaps + 1}
  BY DEF Sweep, PopExpiredChallenges, RevokeAbandoned, CrashWorker, SecurityChange, storeVars,
         ceremonyVars, Fault, NoFault
<1> QED BY <1>3, <1>4, <1>5, <1>6 DEF World

\* The shape of the budget before and after a step, for the arithmetic.
LEMMA BudgetShape ==
  ASSUME CeremoniesAssumption, Types, Types', NEW c \in Ceremonies
  PROVE  /\ MaxAttempts \in Nat \ {0}
         /\ wrong[c] \in Nat /\ attempts[c] \in Nat /\ mishaps \in Nat
         /\ wrong'[c] \in Nat /\ attempts'[c] \in Nat /\ mishaps' \in Nat
         /\ Budget(c) = IF chal[c] = 0 THEN MaxAttempts
                        ELSE Room(c) + (IF Paying(c) THEN 1 ELSE 0)
         /\ Budget(c)' = IF chal'[c] = 0 THEN MaxAttempts
                         ELSE Room(c)' + (IF Paying(c)' THEN 1 ELSE 0)
         /\ Room(c) = IF attempts[c] < MaxAttempts THEN attempts[c] ELSE MaxAttempts - 1
         /\ Room(c)' = IF attempts'[c] < MaxAttempts THEN attempts'[c] ELSE MaxAttempts - 1
  BY DEF CeremoniesAssumption, Types, Budget, Room

LEMMA PaidClaim ==
  ASSUME CeremoniesAssumption, Types, Types', NEW c \in Ceremonies, PaidFor(c),
         NEW r \in Requests, ClaimChallenge(r), CompleteMFA(r), Of(r) = c
  PROVE  PaidFor(c)'
<1>1. /\ At(r, "idle") /\ Op(r) = "complete" /\ \A s \in Requests \ {r} : run'[s] = run[s]
      /\ wrong'[c] = wrong[c] /\ attempts'[c] = attempts[c] /\ chal'[c] = chal[c]
  BY Others DEF ClaimChallenge, Serve
<1>2. /\ Cardinality(Working(c, "judge")) \in Nat /\ Cardinality(Working(c, "judge")') \in Nat
      /\ Cardinality(Working(c, "count")) \in Nat /\ Cardinality(Working(c, "count")') \in Nat
      /\ Cardinality(Working(c, "count")') = Cardinality(Working(c, "count"))
      /\ Cardinality(Working(c, "judge")') =
           Cardinality(Working(c, "judge")) + (IF run'[r].pc = "judge" THEN 1 ELSE 0)
  BY <1>1, NowClaimed, CountMoves DEF IsAt, At
<1>3. CASE run'[r].pc = "judge"
  BY <1>3, NowClaimed, Kinds, <1>1, BudgetShape, <1>2 DEF NoFault, Types, Paying, PaidFor
<1>4. CASE run'[r].pc # "judge"
  <2>1. mishaps' \in {mishaps, mishaps + 1}
    BY DEF ClaimChallenge, Fault, NoFault
  <2>2. Paying(c) => Paying(c)'
    BY <1>1 DEF Paying, At, Types, ClaimChallenge
  <2>3. Cardinality(Working(c, "judge")') <= Cardinality(Working(c, "judge"))
    BY <1>2, <1>4
  <2>4. Cardinality(Working(c, "count")') <= Cardinality(Working(c, "count"))
    BY <1>2
  <2> QED BY <1>1, <1>2, <2>1, <2>2, <2>3, <2>4, PaidStays
<1> QED BY <1>3, <1>4

LEMMA PaidJudge ==
  ASSUME CeremoniesAssumption, Types, Types', NEW c \in Ceremonies, PaidFor(c),
         NEW r \in Requests, Judge(r), CompleteMFA(r), Of(r) = c
  PROVE  PaidFor(c)'
<1>1. /\ At(r, "judge") /\ Op(r) = "complete" /\ \A s \in Requests \ {r} : run'[s] = run[s]
      /\ attempts'[c] = attempts[c] /\ chal'[c] = chal[c] /\ holder'[c] = holder[c]
      /\ mishaps' \in {mishaps, mishaps + 1} /\ run'[r].pc # "judge"
      /\ wrong'[c] = IF run'[r].pc = "count" THEN wrong[c] + 1 ELSE wrong[c]
  <2>1. /\ At(r, "judge") /\ Op(r) = "complete" /\ \A s \in Requests \ {r} : run'[s] = run[s]
        /\ attempts'[c] = attempts[c] /\ chal'[c] = chal[c] /\ holder'[c] = holder[c]
        /\ mishaps' \in {mishaps, mishaps + 1}
    BY Others DEF Judge, storeVars, CompleteMFA, Serve, Fault, NoFault
  <2>2. run'[r].pc # "judge"
    BY NowJudged
  <2>3. wrong'[c] = IF run'[r].pc = "count" THEN wrong[c] + 1 ELSE wrong[c]
    BY NowJudged DEF Types
  <2> QED BY <2>1, <2>2, <2>3
<1>2. /\ Cardinality(Working(c, "judge")) \in Nat /\ Cardinality(Working(c, "judge")') \in Nat
      /\ Cardinality(Working(c, "count")) \in Nat /\ Cardinality(Working(c, "count")') \in Nat
      /\ Cardinality(Working(c, "judge")') = Cardinality(Working(c, "judge")) - 1
      /\ Cardinality(Working(c, "count")') =
           Cardinality(Working(c, "count")) + (IF run'[r].pc = "count" THEN 1 ELSE 0)
  BY <1>1, CountMoves DEF IsAt, At
<1>3. Budget(c)' + mishaps' + (IF run'[r].pc = "count" THEN 0 ELSE 1) >= Budget(c) + mishaps
  <2>1. CASE run'[r].pc = "count"
    BY <1>1, <2>1, BudgetShape DEF Paying, Types
  <2>2. CASE run'[r].pc # "count"
    BY <1>1, <2>2, BudgetShape
  <2> QED BY <2>1, <2>2
<1>4. Budget(c)' \in Nat /\ Budget(c) \in Nat
  BY BudgetShape
<1>5. wrong[c] \in Nat /\ attempts[c] \in Nat /\ mishaps \in Nat /\ mishaps' \in Nat
  BY BudgetShape
<1>6. CASE run'[r].pc = "count"
  BY <1>1, <1>2, <1>3, <1>4, <1>5, <1>6 DEF PaidFor
<1>7. CASE run'[r].pc # "count"
  BY <1>1, <1>2, <1>3, <1>4, <1>5, <1>7 DEF PaidFor
<1> QED BY <1>6, <1>7

LEMMA PaidCount ==
  ASSUME CeremoniesAssumption, Types, Types', NEW c \in Ceremonies, PaidFor(c),
         NEW r \in Requests, CountAttempt(r), CompleteMFA(r), Of(r) = c
  PROVE  PaidFor(c)'
<1>1. /\ At(r, "count") /\ Op(r) = "complete" /\ \A s \in Requests \ {r} : run'[s] = run[s]
      /\ wrong'[c] = wrong[c] /\ chal'[c] = chal[c] /\ holder'[c] = holder[c]
      /\ mishaps' \in {mishaps, mishaps + 1} /\ run'[r].pc \in {"drop", "release"}
  BY Others, NowCounted DEF CountAttempt, CompleteMFA, Serve, Fault, NoFault
<1>2. /\ Cardinality(Working(c, "judge")) \in Nat /\ Cardinality(Working(c, "judge")') \in Nat
      /\ Cardinality(Working(c, "count")) \in Nat /\ Cardinality(Working(c, "count")') \in Nat
      /\ Cardinality(Working(c, "judge")') = Cardinality(Working(c, "judge"))
      /\ Cardinality(Working(c, "count")') = Cardinality(Working(c, "count")) - 1
  BY <1>1, CountMoves DEF IsAt, At
<1>3. attempts'[c] \in {attempts[c], attempts[c] + 1}
  BY DEF CountAttempt, IncrementAttempts, Types
<1>4. Budget(c)' >= Budget(c) /\ Budget(c)' \in Nat /\ Budget(c) \in Nat
  <2>1. CASE run'[r].pc = "drop"
    <3>1. Paying(c) => Paying(c)'
      BY <1>1, <2>1 DEF Paying, Types
    <3> QED BY <1>1, <1>3, <3>1, BudgetShape
  <2>2. CASE run'[r].pc = "release"
    <3>1. To(r, "drop") => run'[r].pc = "drop"
      BY NowTo
    <3>2. /\ attempts' = IncrementAttempts(c)
          /\ To(r, IF chal[c] = 0 \/ MaxReached(c) THEN "drop" ELSE "release")
      BY <2>2, <3>1 DEF CountAttempt
    <3>3. chal[c] # 0 /\ ~MaxReached(c)
      BY <2>2, <3>1, <3>2
    <3>4. attempts'[c] = attempts[c] + 1 /\ attempts'[c] < MaxAttempts
      BY <3>2, <3>3, BudgetShape DEF IncrementAttempts, Types, MaxReached
    <3> QED BY <1>1, <3>3, <3>4, BudgetShape
  <2> QED BY <1>1, <2>1, <2>2
<1>5. wrong[c] \in Nat /\ attempts[c] \in Nat /\ mishaps \in Nat /\ mishaps' \in Nat
  BY BudgetShape
<1> QED BY <1>1, <1>2, <1>3, <1>4, <1>5 DEF PaidFor

LEMMA PaidGiveUp ==
  ASSUME CeremoniesAssumption, Types, Types', NEW c \in Ceremonies, PaidFor(c),
         NEW r \in Requests, ReleaseChallenge(r) \/ ConsumeWon(r) \/ ConsumeLost(r),
         CompleteMFA(r), Of(r) = c
  PROVE  PaidFor(c)'
<1>1. /\ run[r].pc \in {"release", "consume", "drop"} /\ Op(r) = "complete"
      /\ \A s \in Requests \ {r} : run'[s] = run[s]
      /\ wrong'[c] = wrong[c] /\ mishaps' \in {mishaps, mishaps + 1}
  BY Others
  DEF ReleaseChallenge, ConsumeWon, ConsumeLost, CompleteMFA, Serve, At, Fault, NoFault
<1>2. run'[r].pc \notin {"judge", "count"}
  BY NowReleased, NowConsumed, NowDropped DEF After
<1>3. \A l \in {"judge", "count"} :
        /\ Cardinality(Working(c, l)) \in Nat /\ Cardinality(Working(c, l)') \in Nat
        /\ Cardinality(Working(c, l)') = Cardinality(Working(c, l))
  <2> TAKE l \in {"judge", "count"}
  <2>1. ~IsAt(r, c, l) /\ ~IsAt(r, c, l)'
    BY <1>1, <1>2 DEF IsAt
  <2> QED BY <1>1, <2>1, CountMoves
<1>4. \/ chal'[c] = 0 /\ attempts'[c] \in {0, attempts[c]}
      \/ chal'[c] = chal[c] /\ attempts'[c] = attempts[c]
  BY DEF ReleaseChallenge, ConsumeWon, ConsumeLost, ConsumeChallenge, Types
<1>5. mishaps' = mishaps => (Paying(c) => Paying(c)' \/ chal'[c] = 0)
  <2>1. SUFFICES ASSUME mishaps' = mishaps, Paying(c), chal'[c] # 0 PROVE Paying(c)'
    OBVIOUS
  <2>2. ~Fault
    BY <2>1, BudgetShape DEF Fault
  <2>3. holder[c] # r \/ run[r].pc = "drop"
    BY <1>1, <2>1 DEF Paying
  <2>4. CASE ReleaseChallenge(r)
    BY <2>3, <2>4, <1>1, <2>1 DEF ReleaseChallenge, At, Unlocked, Types, Paying
  <2>5. CASE ConsumeWon(r) \/ ConsumeLost(r)
    BY <2>2, <2>5, <2>1, <1>1 DEF ConsumeWon, ConsumeLost, ConsumeChallenge, Consumable, Types, Paying
  <2> QED BY <2>4, <2>5
<1> QED BY <1>1, <1>3, <1>4, <1>5, PaidStays

LEMMA PaidStep ==
  CeremoniesAssumption /\ Types /\ Types' /\ Ordered /\ Challenged /\ Paid /\ [Next]_ceremonyVars
    => Paid'
<1> SUFFICES ASSUME CeremoniesAssumption, Types, Types', Ordered, Challenged, Paid,
                    [Next]_ceremonyVars, NEW c \in Ceremonies
             PROVE  PaidFor(c)'
  BY DEF Paid
<1>1. PaidFor(c)
  BY DEF Paid
<1>2. ASSUME NEW r \in Requests, CompleteMFA(r), Of(r) = c PROVE PaidFor(c)'
  BY <1>1, <1>2, PaidClaim, PaidJudge, PaidCount, PaidGiveUp DEF CompleteMFA
<1>3. ASSUME NEW r \in Requests, Serve(r), ~(CompleteMFA(r) /\ Of(r) = c), ~StoreChallenge(c)
      PROVE  PaidFor(c)'
  BY <1>1, <1>3, PaidElsewhere
<1>4. ASSUME NEW r \in Requests, Serve(r), StoreChallenge(c) PROVE PaidFor(c)'
  BY <1>4, OfCeremony, NowStored, Others, <1>1, PaidStore DEF StoreChallenge, At
<1>5. ASSUME NEW r \in Requests, CrashRequest(r) PROVE PaidFor(c)'
  BY <1>1, <1>5, PaidCrash
<1>6. ASSUME World \/ UNCHANGED ceremonyVars PROVE PaidFor(c)'
  BY <1>1, <1>6, PaidWorld
<1> QED BY <1>2, <1>3, <1>4, <1>5, <1>6, NextSplit

-----------------------------------------------------------------------------
(* The invariant *)

LEMMA CeremoniesInit == CeremoniesAssumption /\ Init => CeremoniesInv
<1> SUFFICES ASSUME CeremoniesAssumption, Init PROVE CeremoniesInv
  OBVIOUS
<1>1. Types
  BY TypesInit
<1>2. \A r \in Requests : run[r].pc \in {"idle", "done"} /\ ~run[r].won /\ run[r].answer = "none"
  BY DEF Init
<1>3. \A r \in Grantees : grant[r].state = "none" /\ accepted[r] = 0
  BY DEF Init, NoGrant
<1>4. Ordered /\ Stamped
  BY <1>2, <1>3, Kinds DEF Ordered, Stamped
<1>5. Challenged
  BY <1>2 DEF Init, Challenged
<1>6. SoleRight
  BY <1>2, <1>3 DEF Entitled, Grantees, SoleRight, Rightful, Init
<1>7. SoleTaker /\ AuditFirst
  BY <1>2, <1>3 DEF SoleTaker, AuditFirst, Grantees
<1>8. Paid
  <2> SUFFICES ASSUME NEW c \in Ceremonies PROVE PaidFor(c)
    BY DEF Paid
  <2>1. Working(c, "judge") = {} /\ Working(c, "count") = {}
    BY <1>2 DEF Working
  <2>2. Cardinality(Working(c, "judge")) = 0 /\ Cardinality(Working(c, "count")) = 0
    BY <2>1, FS_EmptySet
  <2>3. wrong[c] = 0 /\ attempts[c] = 0 /\ chal[c] = 0 /\ mishaps = 0 /\ MaxAttempts \in Nat
    BY DEF Init, CeremoniesAssumption
  <2> QED BY <2>2, <2>3 DEF PaidFor, Budget
<1>9. TempCovered /\ SweepSpares
  BY DEF Init, TempCovered, SweepSpares
<1> QED BY <1>1, <1>4, <1>5, <1>6, <1>7, <1>8, <1>9 DEF CeremoniesInv

LEMMA CeremoniesStep ==
  CeremoniesAssumption /\ CeremoniesInv /\ [Next]_ceremonyVars => CeremoniesInv'
  BY TypesStep, OrderedStep, ChallengedStep, StampedStep, SoleRightStep, SoleTakerStep, AuditFirstStep,
     PaidStep, TempCoveredStep, SweepSparesStep DEF CeremoniesInv

\* The inductive invariant of the two-step ceremonies, whatever requests
\* arrive together, whichever locks run out and whichever calls fail.
THEOREM CeremoniesInvariant == ASSUME CeremoniesAssumption PROVE Spec => []CeremoniesInv
<1>1. Init => CeremoniesInv
  BY CeremoniesInit
<1>2. CeremoniesInv /\ [Next]_ceremonyVars => CeremoniesInv'
  BY CeremoniesStep
<1> QED BY <1>1, <1>2, PTL DEF Spec

-----------------------------------------------------------------------------
(* What follows from it *)

\* No more guesses than MaxAttempts, and one for each failure.
LEMMA PaidGuessesBounded ==
  ASSUME CeremoniesAssumption, Types, Paid
  PROVE  GuessesBounded
<1> SUFFICES ASSUME NEW c \in Ceremonies PROVE wrong[c] <= MaxAttempts + mishaps
  BY DEF GuessesBounded
<1>1. Working(c, "judge") \in SUBSET Requests
  BY DEF Working
<1>2. Cardinality(Working(c, "judge")) \in Nat
  BY <1>1, WorkingFinite
<1>3. PaidFor(c) /\ MaxAttempts \in Nat
  BY DEF Paid, CeremoniesAssumption
<1>4. /\ Budget(c) \in Nat /\ Budget(c) <= MaxAttempts
      /\ wrong[c] \in Nat /\ mishaps \in Nat
  BY Budgets
<1> QED BY <1>2, <1>3, <1>4 DEF PaidFor

\* The counter is bounded by the codes that were judged.
LEMMA PaidTypeOK ==
  ASSUME CeremoniesAssumption, Types, Paid
  PROVE  TypeOK
<1>1. ASSUME NEW c \in Ceremonies PROVE attempts[c] \in 0 .. MaxAttempts + MaxFaults
  <2>1. Working(c, "count") \in SUBSET Requests
    BY DEF Working
  <2>2. Cardinality(Working(c, "count")) \in Nat
    BY <2>1, WorkingFinite
  <2>3. PaidFor(c) /\ attempts[c] \in Nat /\ wrong[c] \in Nat
    BY Budgets DEF Paid
  <2>4. attempts[c] <= wrong[c]
    BY <2>2, <2>3 DEF PaidFor
  <2>5. wrong[c] <= MaxAttempts + mishaps
    BY PaidGuessesBounded DEF GuessesBounded
  <2>6. MaxAttempts \in Nat /\ MaxFaults \in Nat /\ mishaps \in 0 .. MaxFaults
    BY DEF CeremoniesAssumption, Types
  <2> QED BY <2>3, <2>4, <2>5, <2>6
<1>2. attempts \in [Ceremonies -> 0 .. MaxAttempts + MaxFaults]
  BY <1>1 DEF Types
<1> QED BY <1>2 DEF Types, TypedRuns, TypeOK

\* Every variable of the ceremonies keeps to its type: no challenge has a
\* generation that does not exist, no counter survives its challenge, and an
\* entry is with the index or with the worker.
THEOREM CeremonyTypes == ASSUME CeremoniesAssumption PROVE Spec => []TypeOK
<1>1. CeremoniesInv => TypeOK
  BY PaidTypeOK DEF CeremoniesInv
<1> QED BY <1>1, CeremoniesInvariant, PTL

\* A ceremony earns at most one session or one grant, however many requests
\* complete it (CompleteMFA, ConsumeChallenge).
THEOREM EarnsOnce == ASSUME CeremoniesAssumption PROVE Spec => []OneReward
<1>1. CeremoniesInv => OneReward
  BY SoleRightOneReward DEF CeremoniesInv
<1> QED BY <1>1, CeremoniesInvariant, PTL

\* A challenge takes MaxAttempts wrong codes, and one more for each failed call,
\* crash or lapsed lock (IncrementAttempts, ClaimChallenge).
THEOREM GuessesAreBounded == ASSUME CeremoniesAssumption PROVE Spec => []GuessesBounded
<1>1. CeremoniesInv => GuessesBounded
  BY PaidGuessesBounded DEF CeremoniesInv
<1> QED BY <1>1, CeremoniesInvariant, PTL

\* A grant token reaches the caller after the audit row that reports it and,
\* for a DreamUp action, after the step-up state (CompleteMFA, issueGrant).
THEOREM GrantsAreAudited == ASSUME CeremoniesAssumption PROVE Spec => []GrantAudited
<1>1. CeremoniesInv => GrantAudited
  BY DEF CeremoniesInv, AuditFirst, GrantAudited
<1> QED BY <1>1, CeremoniesInvariant, PTL

\* A grant carries the security generation in which its challenge was made.
THEOREM GrantsKeepGeneration == ASSUME CeremoniesAssumption PROVE Spec => []GrantOfChallenge
<1>1. CeremoniesAssumption /\ CeremoniesInv => GrantOfChallenge
  BY Kinds DEF GrantOfChallenge, Grantees, CeremoniesInv, Stamped
<1> QED BY <1>1, CeremoniesInvariant, PTL

\* A grant is accepted at most once (VerifyAndConsumeData).
THEOREM AcceptsOnce == ASSUME CeremoniesAssumption PROVE Spec => []AcceptedOnce
<1>1. CeremoniesInv => AcceptedOnce
  BY DEF AcceptedOnce, CeremoniesInv, SoleTaker
<1> QED BY <1>1, CeremoniesInvariant, PTL

\* Every temporary provider session that is open will be revoked by somebody, or
\* its failure is on record (BeginReauthentication, RevokeProviderSession).
THEOREM TempsAreCovered == ASSUME CeremoniesAssumption PROVE Spec => []TempCovered
<1>1. CeremoniesInv => TempCovered
  BY DEF CeremoniesInv
<1> QED BY <1>1, CeremoniesInvariant, PTL

\* The worker takes no ceremony whose challenge can still be completed
\* (PopExpiredChallenges).
THEOREM WorkerSpares == ASSUME CeremoniesAssumption PROVE Spec => []SweepSpares
<1>1. CeremoniesInv => SweepSpares
  BY DEF CeremoniesInv
<1> QED BY <1>1, CeremoniesInvariant, PTL

-----------------------------------------------------------------------------
(***************************************************************************)
(* Theorems about Enrollment.  A claim lock names the one request that may *)
(* act for a token, until it ends or its time runs out; a passkey lock     *)
(* outlives its request.  The cleanup worker comes to a passkey only when  *)
(* neither the challenge nor the lock is there, and neither returns.       *)
(***************************************************************************)
CONSTANTS
  Workers,      \* passkey cleanup workers
  MFARequests,  \* the HTTP requests that may arrive, each once
  MFAInputs,    \* operation, factor kind, session and enrollment of each
  MFABatches    \* model bound: the sets of requests that arrive in one run

VARIABLES
  factor,     \* the provider: state of each factor and the begin that registered it
  lock,       \* Redis: who holds the claim lock of each enrollment
  work,       \* Redis: cleanup record and index of each passkey enrollment
  worker,     \* what each cleanup worker is doing
  sec,        \* the security state row of the user
  req,        \* what each request is doing
  unsettled,  \* history: enrollments whose settlement, lock or provider answer was lost
  stranded,   \* history: registrations whose begin died before it stored anything
  faults      \* how many of them so far

MFA == INSTANCE Enrollment WITH Requests <- MFARequests, InputOf <- MFAInputs, Batches <- MFABatches

\* Enrolling counts as the standard modules do.
LEMMA MFACounts ==
  \A S : MFA!Cardinality(S) = Cardinality(S) /\ (MFA!IsFiniteSet(S) <=> IsFiniteSet(S))
BY DEF MFA!Cardinality, MFA!IsFiniteSet, Cardinality, IsFiniteSet

MFALabels   == {"idle", "store", "compensate", "gate", "provider", "cleanup", "finalize", "done"}
Factors  == [state : {"absent", "pending", "active"}, by : MFA!Tokens \cup {"none"}]
Enrolls  == [pc : MFALabels, gen : 0 .. MaxGen, mode : MFA!Modes \cup {"none"}, answer : MFA!Answers \cup {"none"}]
Cleaners == [at : {"idle", "list", "remove", "complete"}, token : MFA!Passkeys \cup {"none"}]

Shapes ==
  /\ factor \in [MFA!Slots -> Factors]
  /\ chal \in [MFA!Tokens -> 0 .. MaxGen]
  /\ lock \in [MFA!Tokens -> MFARequests \cup {"none"}]
  /\ work \in [MFA!Tokens -> {"none", "due", "leased"}]
  /\ worker \in [Workers -> Cleaners]
  /\ sec \in [gen : 1 .. MaxGen, intent : BOOLEAN] /\ (sec.intent => sec.gen < MaxGen)
  /\ req \in [MFARequests -> Enrolls]
  /\ unsettled \subseteq MFA!Tokens /\ stranded \subseteq MFA!Slots
  /\ faults \in 0 .. MaxFaults

\* A request that has claimed a token and has not finished with it.
InFlight(r) == req[r].pc \in {"gate", "provider", "cleanup", "finalize"}

ReqAt(r) ==
  /\ MFA!Op(r) = "begin" => /\ req[r].pc \in {"idle", "store", "compensate", "done"}
                            /\ req[r].answer # "none" => MFA!At(r, "done")
  /\ MFA!Op(r) \in {"confirm", "cancel"} => req[r].pc \notin {"store", "compensate"}
  /\ MFA!Op(r) = "remove" => req[r].pc \in {"idle", "done"} /\ req[r].answer # "denied"
  /\ MFA!At(r, "finalize") <=> req[r].mode \in MFA!Modes
  /\ MFA!At(r, "cleanup") => MFA!Op(r) = "confirm" /\ MFA!Kind(r) = "totp"
  /\ req[r].pc \in {"gate", "provider", "cleanup"} => ~MFA!Foreign(r)
  /\ MFA!At(r, "finalize") /\ MFA!Foreign(r) => req[r].mode \in {"abandon", "consume"}
  /\ InFlight(r) => /\ MFA!At(MFA!Token(r), "done")
                    /\ \/ lock[MFA!Token(r)] = r
                       \/ MFA!Kind(MFA!Token(r)) = "totp" /\ MFA!Token(r) \in unsettled
  /\ MFA!Op(r) # "begin" /\ req[r].answer = "denied" => MFA!At(MFA!Token(r), "done")
  /\ MFA!At(r, "finalize") /\ req[r].mode = "consume" /\ MFA!Token(r) \in MFA!Passkeys =>
       factor[MFA!Token(r)].state # "pending"

\* A token that has not been given out has nothing but its registration.
TokenAt(t) ==
  /\ req[t].pc \in {"idle", "store"} => chal[t] = 0 /\ work[t] = "none"
  /\ ~MFA!At(t, "done") => lock[t] = "none"
  /\ MFA!At(t, "idle") => \A s \in MFA!Slots : factor[s].by # t
  /\ t \notin MFA!Passkeys => work[t] = "none"

\* An active factor was activated through its token, which is being consumed,
\* has been, or was lost.
SlotAt(s) ==
  /\ factor[s] # MFA!Absent =>
       factor[s].state \in {"pending", "active"} /\ factor[s].by \in MFA!Tokens /\ MFA!Slot(factor[s].by) = s
  /\ factor[s].state = "active" =>
       LET t == factor[s].by
           flight == {q \in MFARequests : MFA!Token(q) = t /\ InFlight(q)}
       IN  /\ MFA!At(t, "done")
           /\ \/ t \in unsettled
              \/ /\ chal[t] = 0 \/ flight # {}
                 /\ \A q \in flight : MFA!At(q, "finalize") /\ req[q].mode = "consume"

\* What a cleanup worker has found stays so.
WorkerAt(w) ==
  LET t == worker[w].token IN
  /\ worker[w].at = "idle" <=> t = "none"
  /\ t # "none" =>
       /\ chal[t] = 0 /\ lock[t] = "none" /\ req[t].pc \in {"compensate", "done"}
       /\ worker[w].at = "remove" => factor[t].state # "active"
       /\ worker[w].at = "complete" => factor[t].state # "pending"

Claims   == \A r \in MFARequests : ReqAt(r)
Minted   == \A t \in MFA!Tokens : TokenAt(t)
Settled  == \A s \in MFA!Slots : SlotAt(s)
Cleaning == \A w \in Workers : WorkerAt(w)

EnrollInv ==
  Shapes /\ Claims /\ Minted /\ Settled /\ Cleaning /\ MFA!PendingCovered /\ MFA!ForeignBurns

LEMMA EnrollInit == MFA!EnrollmentAssumption /\ MFA!Init => EnrollInv
<1> SUFFICES ASSUME MFA!EnrollmentAssumption, MFA!Init PROVE EnrollInv
  OBVIOUS
<1>1. MFA!Tokens \subseteq MFARequests /\ "none" \notin MFA!Tokens /\ \A s \in MFA!Slots : factor[s] = MFA!Absent
  BY DEF MFA!EnrollmentAssumption, MFA!Init, MFA!Tokens
<1>2. Shapes
  BY DEF MFA!EnrollmentAssumption, MFA!Init, Shapes, Factors, Enrolls, Cleaners, MFALabels, MFA!Absent,
         MFA!Idle, MFA!Passkeys
<1>3. Claims
  BY <1>1 DEF MFA!EnrollmentAssumption, MFA!Init, Claims, ReqAt, MFA!At, InFlight, MFA!Modes
<1>4. Minted
  BY <1>1 DEF MFA!Init, Minted, TokenAt, MFA!At, MFA!Absent
<1>5. Settled
  BY <1>1 DEF Settled, SlotAt, MFA!Absent
<1>6. Cleaning
  BY DEF MFA!Init, Cleaning, WorkerAt, MFA!Idle
<1>7. MFA!PendingCovered
  <2>1. \A t \in MFA!Passkeys : factor[t] = MFA!Absent
    BY <1>1 DEF MFA!Slots
  <2> QED
    BY <2>1 DEF MFA!PendingCovered, MFA!Absent
<1>8. MFA!ForeignBurns
  BY DEF MFA!Init, MFA!ForeignBurns
<1> QED
  BY <1>2, <1>3, <1>4, <1>5, <1>6, <1>7, <1>8 DEF EnrollInv

\* What a request becomes by a step of its own.
Became(r, l, g, m, a) ==
  /\ req' \in [MFARequests -> Enrolls]
  /\ req'[r].pc = l /\ req'[r].gen = g /\ req'[r].mode = m /\ req'[r].answer = a
  /\ \A q \in MFARequests \ {r} : req'[q] = req[q]

LEMMA Moves ==
  ASSUME Shapes, NEW r \in MFARequests
  PROVE  /\ \A l \in MFALabels : MFA!To(r, l) => Became(r, l, req[r].gen, req[r].mode, req[r].answer)
         /\ \A a \in MFA!Answers \cup {"none"} : MFA!Answer(r, a) => Became(r, "done", req[r].gen, "none", a)
         /\ \A m \in MFA!Modes, a \in MFA!Answers : MFA!Settle(r, m, a)
            => Became(r, "finalize", req[r].gen, m, a)
<1>1. req \in [MFARequests -> Enrolls]
  BY DEF Shapes
<1>2. ASSUME NEW l \in MFALabels, MFA!To(r, l)
      PROVE  Became(r, l, req[r].gen, req[r].mode, req[r].answer)
  BY <1>1, <1>2 DEF MFA!To, Enrolls, Became
<1>3. ASSUME NEW a \in MFA!Answers \cup {"none"}, MFA!Answer(r, a)
      PROVE  Became(r, "done", req[r].gen, "none", a)
  BY ZenonT(120), <1>1, <1>3 DEF MFA!Answer, Enrolls, MFALabels, Became
<1>4. ASSUME NEW m \in MFA!Modes, NEW a \in MFA!Answers, MFA!Settle(r, m, a)
      PROVE  Became(r, "finalize", req[r].gen, m, a)
  BY ZenonT(120), <1>1, <1>4 DEF MFA!Settle, Enrolls, MFALabels, Became
<1> QED
  BY <1>2, <1>3, <1>4

\* What keeps a failure within its bound.
LEMMA Faults ==
  ASSUME MFA!EnrollmentAssumption, Shapes, MFA!NoFault \/ MFA!Fault
  PROVE  faults' \in 0 .. MaxFaults
  BY DEF MFA!EnrollmentAssumption, Shapes, MFA!NoFault, MFA!Fault

\* Factors that go, and no others.
Fades ==
  /\ factor' \in [MFA!Slots -> Factors]
  /\ \A s \in MFA!Slots : factor'[s] = factor[s] \/ factor'[s] = MFA!Absent

LEMMA Removals ==
  ASSUME Shapes, NEW s \in MFA!Slots
  PROVE  /\ factor' = MFA!Removed(s) => Fades /\ factor'[s] = MFA!Absent
  BY DEF Shapes, MFA!Removed, Fades, Factors, MFA!Absent

LEMMA Stays == Shapes /\ UNCHANGED factor => Fades
  BY DEF Shapes, Fades

\* A token and its slot.
LEMMA TokensAndSlots ==
  ASSUME MFA!EnrollmentAssumption
  PROVE  /\ MFA!Tokens \subseteq MFARequests /\ "none" \notin MFARequests /\ "totp" \notin MFARequests
         /\ \A r \in MFARequests : MFA!Token(r) \in MFA!Tokens /\ (MFA!Op(r) = "begin" => r \in MFA!Tokens /\ MFA!Token(r) = r)
         /\ \A t \in MFA!Tokens : MFA!Op(t) = "begin" /\ MFA!Slot(t) \in MFA!Slots /\ (t \notin MFA!Passkeys <=> MFA!Kind(t) = "totp")
                              /\ (MFA!Kind(t) = "totp" <=> MFA!Slot(t) = "totp")
         /\ \A t \in MFA!Passkeys : t \in MFA!Tokens /\ MFA!Slot(t) = t /\ t \in MFA!Slots /\ MFA!Kind(t) = "passkey"
         /\ \A s \in MFA!Passkeys, t \in MFA!Tokens : MFA!Slot(t) = s => t = s
  BY DEF MFA!EnrollmentAssumption, MFA!Tokens, MFA!Passkeys, MFA!Slots, MFA!Slot

\* A step of a request that neither takes a claim nor touches the store, nor
\* ends a settlement well; factors may go.
LEMMA StepKeeps ==
  ASSUME MFA!EnrollmentAssumption, EnrollInv, NEW r \in MFARequests, NEW l, NEW g, NEW m, NEW a,
         Became(r, l, g, m, a), ~MFA!At(r, "done"), l # "idle", l # "store", Fades, ReqAt(r)',
         UNCHANGED <<chal, lock, work, worker, sec>>,
         unsettled \subseteq unsettled', unsettled' \subseteq MFA!Tokens,
         stranded \subseteq stranded', stranded' \subseteq MFA!Slots, MFA!NoFault \/ MFA!Fault,
         l \in {"gate", "provider", "cleanup", "finalize"} => InFlight(r) /\ ~MFA!At(r, "finalize"),
         MFA!At(r, "finalize") => MFA!Token(r) \in unsettled',
         MFA!Op(r) = "begin" /\ ~MFA!At(r, "idle") => l = "done",
         l = "done" /\ a = "denied" /\ MFA!Op(r) # "begin" /\ MFA!Foreign(r) =>
           chal[MFA!Token(r)] = 0 \/ MFA!Token(r) \in unsettled',
         r \in MFA!Passkeys /\ req[r].pc \in {"store", "compensate"} /\ factor'[r].state = "pending" =>
           r \in stranded'
  PROVE  EnrollInv'
<1>1. Shapes
  BY DEF EnrollInv
<1> USE TokensAndSlots DEF Became
<1>2. Shapes'
  BY <1>1, Faults DEF Shapes, Fades
<1>3. \A q \in MFARequests : MFA!At(q, "done") => MFA!At(q, "done")'
  BY DEF MFA!At
<1>4. \A t \in MFA!Passkeys : factor[t].state # "pending" => factor'[t].state # "pending"
  BY DEF Fades, MFA!Absent
<1>5. Claims'
  <2>1. ASSUME NEW q \in MFARequests, q # r
        PROVE  ReqAt(q)'
    BY <2>1, <1>3, <1>4 DEF EnrollInv, Claims, MFA!At, ReqAt, InFlight, MFA!Foreign
  <2> QED
    BY <2>1 DEF Claims
<1>6. Minted'
  BY DEF EnrollInv, Minted, TokenAt, MFA!At, Fades, MFA!Absent
<1>7. Settled'
  <2>1. ASSUME NEW s \in MFA!Slots
        PROVE  SlotAt(s)'
    <3>1. CASE factor'[s] = MFA!Absent
      BY <3>1 DEF SlotAt, MFA!Absent
    <3>2. CASE factor'[s] = factor[s]
      <4>1. SlotAt(s)
        BY DEF EnrollInv, Settled
      <4>2. \A q \in MFARequests : InFlight(q)' => InFlight(q)
        BY DEF InFlight
      <4>3. CASE factor[s].state = "active"
        <5> DEFINE t == factor[s].by
        <5>1. t \in MFA!Tokens /\ MFA!At(t, "done")' /\ MFA!Slot(t) = s
          BY <4>3, <4>1, <1>3, <3>2, TokensAndSlots DEF MFA!Absent, SlotAt, MFA!At
        <5>2. CASE t \in unsettled'
          BY <3>2, <4>1, <5>1, <5>2 DEF SlotAt
        <5>3. CASE t \notin unsettled'
          BY <4>1, <4>3, <5>3, <4>2, <3>2, <5>1 DEF SlotAt, InFlight, MFA!At
        <5> QED
          BY <5>2, <5>3
      <4> QED
        BY <3>2, <4>1, <4>3 DEF SlotAt
    <3> QED
      BY <3>1, <3>2 DEF Fades
  <2> QED
    BY <2>1 DEF Settled
<1>8. Cleaning'
  <2>1. ASSUME NEW w \in Workers
        PROVE  WorkerAt(w)'
    BY <2>1, <1>1, <1>4 DEF EnrollInv, Cleaning, Shapes, Cleaners, MFA!At, Fades, MFA!Absent, WorkerAt
  <2> QED
    BY <2>1 DEF Cleaning
<1>9. MFA!PendingCovered'
  BY <1>4 DEF EnrollInv, MFA!PendingCovered, MFA!At
<1>10. MFA!ForeignBurns'
  BY DEF EnrollInv, MFA!ForeignBurns, MFA!At, MFA!Foreign
<1> QED
  BY <1>2, <1>5, <1>6, <1>7, <1>8, <1>9, <1>10 DEF EnrollInv

\* A request ends, or goes on to its settlement, on an answer.
LEMMA EndsKeeps ==
  ASSUME MFA!EnrollmentAssumption, EnrollInv, NEW r \in MFARequests, NEW a \in MFA!Answers \cup {"none"},
         MFA!Answer(r, a),
         ~MFA!At(r, "done"), Fades, UNCHANGED <<chal, lock, work, worker, sec>>,
         unsettled \subseteq unsettled', unsettled' \subseteq MFA!Tokens,
         stranded \subseteq stranded', stranded' \subseteq MFA!Slots, MFA!NoFault \/ MFA!Fault,
         MFA!At(r, "finalize") => MFA!Token(r) \in unsettled',
         a = "denied" => MFA!Op(r) # "begin" /\ MFA!Token(r) \in unsettled' /\ MFA!At(MFA!Token(r), "done") /\ MFA!Op(r) # "remove",
         r \in MFA!Passkeys /\ req[r].pc \in {"store", "compensate"} /\ factor'[r].state = "pending" =>
           r \in stranded'
  PROVE  EnrollInv'
  BY Moves, TokensAndSlots, StepKeeps DEF EnrollInv, Became, ReqAt, MFA!At, InFlight, MFA!Modes, Claims
LEMMA SettlesKeep ==
  ASSUME MFA!EnrollmentAssumption, EnrollInv, NEW r \in MFARequests, NEW m \in MFA!Modes,
         NEW a \in MFA!Answers,
         MFA!Settle(r, m, a),
         req[r].pc \in {"gate", "provider", "cleanup"}, Fades, UNCHANGED <<chal, lock, work, worker, sec>>,
         unsettled \subseteq unsettled', unsettled' \subseteq MFA!Tokens,
         UNCHANGED stranded, MFA!NoFault \/ MFA!Fault,
         m = "consume" /\ MFA!Token(r) \in MFA!Passkeys => factor'[MFA!Token(r)].state # "pending"
  PROVE  EnrollInv'
  BY Moves, TokensAndSlots, StepKeeps DEF EnrollInv, Claims, ReqAt, MFA!At, InFlight, Became, MFA!Modes,
     MFA!Foreign, Shapes

\* Begin.
LEMMA RegisterKeeps ==
  ASSUME MFA!EnrollmentAssumption, EnrollInv, NEW r \in MFARequests, MFA!Register(r)
  PROVE  EnrollInv'
<1> DEFINE s == MFA!Slot(r)
<1> USE TokensAndSlots
<1>1. /\ MFA!Op(r) = "begin" /\ req[r].pc = "idle" /\ r \in MFA!Tokens /\ s \in MFA!Slots /\ MFA!Token(r) = r
      /\ UNCHANGED <<chal, lock, work, worker, sec, unsettled>> /\ (MFA!NoFault \/ MFA!Fault)
  BY DEF MFA!Register, MFA!At
<1>2. Shapes /\ chal[r] = 0 /\ work[r] = "none" /\ lock[r] = "none" /\ \A x \in MFA!Slots : factor[x].by # r
  BY <1>1 DEF EnrollInv, Minted, TokenAt, MFA!At
<1>3. ASSUME NEW a \in {"already_set", "unavailable"}, MFA!Answer(r, a), UNCHANGED <<factor, stranded>>
      PROVE  EnrollInv'
  BY <1>1, <1>2, <1>3, Stays, EndsKeeps DEF Shapes, MFA!At, MFA!Answers
<1>4. CASE /\ factor[s] = MFA!Absent /\ factor' = [factor EXCEPT ![s] = [state |-> "pending", by |-> r]]
           /\ \/ req' = [req EXCEPT ![r].pc = "store", ![r].gen = sec.gen] /\ UNCHANGED stranded
              \/ MFA!Answer(r, "unavailable") /\ stranded' = stranded \cup {s}
  <2> DEFINE new == [state |-> "pending", by |-> r]
  <2>1. /\ factor' \in [MFA!Slots -> Factors] /\ factor'[s] = new /\ new.state = "pending" /\ new.by = r
        /\ \A x \in MFA!Slots \ {s} : factor'[x] = factor[x]
    BY <1>1, <1>2, <1>4 DEF Shapes, Factors
  <2>2. \/ Became(r, "store", sec.gen, "none", "none")
        \/ Became(r, "done", req[r].gen, "none", "unavailable") /\ s \in stranded'
    <3>1. req[r].mode = "none" /\ req[r].answer = "none" /\ sec.gen \in 0 .. MaxGen
      BY <1>1, <1>2 DEF EnrollInv, Claims, ReqAt, MFA!At, Shapes, Enrolls, MFA!EnrollmentAssumption
    <3>2. CASE req' = [req EXCEPT ![r].pc = "store", ![r].gen = sec.gen]
      <4>1. req \in [MFARequests -> Enrolls] /\ "store" \in MFALabels
        BY <1>2 DEF Shapes, MFALabels
      <4> DEFINE now == [[req[r] EXCEPT !.pc = "store"] EXCEPT !.gen = sec.gen]
      <4>2. req' = [req EXCEPT ![r] = now]
        BY <3>2, <4>1
      <4>3. now \in Enrolls /\ now.pc = "store" /\ now.gen = sec.gen /\ now.mode = "none" /\ now.answer = "none"
        <5>1. req[r] \in Enrolls
          BY <4>1
        <5> HIDE TokensAndSlots
        <5> QED
          BY <3>1, <4>1, <5>1 DEF Enrolls
      <4> HIDE DEF now
      <4> QED
        BY <4>1, <4>2, <4>3 DEF Became
    <3>3. CASE MFA!Answer(r, "unavailable") /\ stranded' = stranded \cup {s}
      BY <1>2, <3>3, Moves DEF MFA!Answers
    <3> QED
      BY <1>4, <3>2, <3>3
  <2>3. /\ req' \in [MFARequests -> Enrolls] /\ \A q \in MFARequests \ {r} : req'[q] = req[q]
        /\ req'[r].mode = "none" /\ req'[r].answer # "denied"
        /\ \/ req'[r].pc = "store" /\ req'[r].answer = "none"
           \/ req'[r].pc = "done" /\ s \in stranded'
    BY <2>2 DEF Became
  <2>4. stranded \subseteq stranded' /\ stranded' \subseteq MFA!Slots
    BY <1>1, <1>2, <1>4 DEF Shapes
  <2>5. \A q \in MFARequests : (InFlight(q)' <=> InFlight(q)) /\ (InFlight(q) => q # r /\ req'[q] = req[q])
    BY <1>1, <2>3 DEF Became, InFlight
  <2> HIDE DEF new
  <2> USE DEF Became
  <2>6. Shapes'
    BY <1>1, <1>2, <2>1, <2>3, <2>4, Faults DEF Shapes
  <2>7. Claims'
    <3>1. ASSUME NEW q \in MFARequests, q # r
          PROVE  ReqAt(q)'
      <4>1. ReqAt(q) /\ req'[q] = req[q]
        BY <2>3, <3>1 DEF EnrollInv, Claims
      <4>2. MFA!At(MFA!Token(q), "done") => MFA!Token(q) # r
        BY <1>1 DEF MFA!At
      <4>3. MFA!At(MFA!Token(q), "done") => MFA!At(MFA!Token(q), "done")'
        BY <2>3, <4>2 DEF MFA!At
      <4>4. InFlight(q) /\ MFA!Token(q) \in MFA!Passkeys => factor'[MFA!Token(q)] = factor[MFA!Token(q)]
        BY <1>1, <4>1, <4>2, <2>1 DEF ReqAt
      <4>5. MFA!At(q, "finalize") => InFlight(q)
        BY DEF MFA!At, InFlight
      <4> QED
        BY <1>1, <4>1, <4>3, <4>4, <4>5 DEF ReqAt, MFA!At, InFlight, MFA!Foreign
    <3>2. ReqAt(r)'
      BY <1>1, <2>3 DEF ReqAt, MFA!At, InFlight, MFA!Modes
    <3> QED
      BY <3>1, <3>2 DEF Claims
  <2>8. Minted'
    BY <2>1, <1>1, <1>2, <2>3 DEF EnrollInv, Minted, TokenAt, MFA!At
  <2>9. Settled'
    <3>1. SlotAt(s)'
      BY <1>1, <2>1 DEF SlotAt
    <3>2. ASSUME NEW x \in MFA!Slots \ {s}
          PROVE  SlotAt(x)'
      BY <1>2, <2>1, <3>2, <2>5, <2>3, <1>1 DEF EnrollInv, Settled, MFA!Absent, MFA!At, SlotAt
    <3> QED
      BY <3>1, <3>2 DEF Settled
  <2>10. Cleaning'
    <3>1. ASSUME NEW w \in Workers
          PROVE  WorkerAt(w)'
      BY <3>1, <1>2, <1>1, <2>1, <2>3 DEF EnrollInv, Cleaning, Shapes, Cleaners, WorkerAt
    <3> QED
      BY <3>1 DEF Cleaning
  <2>11. MFA!PendingCovered'
    BY <1>1, <2>1, <2>3, <2>4 DEF EnrollInv, MFA!PendingCovered, MFA!At
  <2>12. MFA!ForeignBurns'
    BY <1>1, <2>3 DEF EnrollInv, MFA!ForeignBurns, MFA!At, MFA!Foreign
  <2> QED
    BY <2>6, <2>7, <2>8, <2>9, <2>10, <2>11, <2>12 DEF EnrollInv
<1> QED
  BY <1>3, <1>4 DEF MFA!Register

\* The enrollment is stored, and the answer given or the registration undone.
LEMMA IssueKeeps ==
  ASSUME MFA!EnrollmentAssumption, EnrollInv, NEW r \in MFARequests, MFA!IssueEnrollment(r),
         MFA!Op(r) = "begin"
  PROVE  EnrollInv'
<1> USE TokensAndSlots
<1>1. /\ req[r].pc = "store" /\ req[r].mode = "none" /\ req[r].answer = "none" /\ r \in MFA!Tokens
      /\ MFA!Token(r) = r
      /\ UNCHANGED <<factor, lock, worker, sec, unsettled, stranded>> /\ (MFA!NoFault \/ MFA!Fault)
  BY DEF MFA!IssueEnrollment, MFA!At, EnrollInv, Claims, ReqAt, Shapes, Enrolls
<1>2. Shapes /\ chal[r] = 0 /\ work[r] = "none" /\ lock[r] = "none"
  BY <1>1 DEF EnrollInv, Minted, TokenAt, MFA!At
<1>3. /\ chal' \in [MFA!Tokens -> 0 .. MaxGen] /\ work' \in [MFA!Tokens -> {"none", "due", "leased"}]
      /\ \A t \in MFA!Tokens \ {r} : chal'[t] = chal[t] /\ work'[t] = work[t]
      /\ r \notin MFA!Passkeys => work'[r] = "none"
  <2>1. CASE UNCHANGED <<chal, work>>
    BY <1>2, <2>1 DEF Shapes
  <2>2. CASE MFA!CreateEnrollment(r)
    BY <1>2, <1>1, <2>2 DEF Shapes, Enrolls, MFA!CreateEnrollment
  <2> QED
    BY <2>1, <2>2 DEF MFA!IssueEnrollment
<1>4. \/ Became(r, "done", req[r].gen, "none", "ok") /\ (r \in MFA!Passkeys => work'[r] = "due")
      \/ Became(r, "compensate", req[r].gen, "none", "none")
  <2>1. CASE MFA!To(r, "compensate")
    BY <1>1, <1>2, <2>1, Moves DEF MFALabels
  <2>2. CASE MFA!CreateEnrollment(r) /\ MFA!Answer(r, "ok")
    BY <1>2, <2>2, Moves, <1>1 DEF MFA!Answers, Shapes, MFA!CreateEnrollment
  <2> QED
    BY <2>1, <2>2 DEF MFA!IssueEnrollment
<1>5. /\ req' \in [MFARequests -> Enrolls] /\ \A q \in MFARequests \ {r} : req'[q] = req[q]
      /\ req'[r].mode = "none" /\ req'[r].answer # "denied"
      /\ \/ req'[r].pc = "compensate" /\ req'[r].answer = "none"
         \/ req'[r].pc = "done" /\ (r \in MFA!Passkeys => work'[r] = "due")
  BY <1>4 DEF Became
<1>6. \A q \in MFARequests : MFA!At(q, "done") => q # r /\ MFA!At(q, "done")'
  BY <1>1, <1>5 DEF MFA!At
<1>7. \A q \in MFARequests : (InFlight(q)' <=> InFlight(q)) /\ (InFlight(q) => q # r /\ req'[q] = req[q])
  BY <1>1, <1>5 DEF InFlight
<1>8. Shapes'
  BY <1>1, <1>2, <1>3, <1>5, Faults DEF Shapes
<1>9. Claims'
  <2>1. ASSUME NEW q \in MFARequests, q # r
        PROVE  ReqAt(q)'
    BY <1>5, <2>1, <1>6, <1>1 DEF EnrollInv, Claims, ReqAt, MFA!At, InFlight, MFA!Foreign
  <2>2. ReqAt(r)'
    BY <1>1, <1>5 DEF ReqAt, MFA!At, InFlight, MFA!Modes
  <2> QED
    BY <2>1, <2>2 DEF Claims
<1>10. Minted'
  BY <1>1, <1>2, <1>3, <1>5 DEF EnrollInv, Minted, TokenAt, MFA!At
<1>11. Settled'
  <2>1. ASSUME NEW s \in MFA!Slots
        PROVE  SlotAt(s)'
    <3> DEFINE t == factor[s].by
    <3>1. SlotAt(s) /\ factor' = factor
      BY <1>1 DEF EnrollInv, Settled
    <3>2. CASE factor[s].state = "active"
      BY <3>2, <3>1, <1>3, <1>6, <1>7, <1>1 DEF MFA!Absent, SlotAt, MFA!At
    <3>3. CASE factor[s].state # "active"
      BY <3>1, <3>3 DEF SlotAt
    <3> QED
      BY <3>2, <3>3
  <2> QED
    BY <2>1 DEF Settled
<1>12. Cleaning'
  <2>1. ASSUME NEW w \in Workers
        PROVE  WorkerAt(w)'
    BY <2>1, <1>2, <1>1, <1>3, <1>5 DEF EnrollInv, Cleaning, Shapes, Cleaners, WorkerAt
  <2> QED
    BY <2>1 DEF Cleaning
<1>13. MFA!PendingCovered'
  BY <1>1, <1>3, <1>5 DEF EnrollInv, MFA!PendingCovered, MFA!At
<1>14. MFA!ForeignBurns'
  <2>1. ASSUME NEW q \in MFARequests, MFA!Op(q) # "begin", MFA!Foreign(q), (req[q].answer = "denied")',
               MFA!At(q, "done")'
        PROVE  (chal[MFA!Token(q)] = 0 \/ MFA!Token(q) \in unsettled)'
    BY <1>1, <1>5, <2>1, <1>6, <1>3 DEF EnrollInv, Claims, ReqAt, MFA!ForeignBurns, MFA!At
  <2> QED
    BY <2>1 DEF MFA!ForeignBurns, MFA!Foreign
<1> QED
  BY <1>8, <1>9, <1>10, <1>11, <1>12, <1>13, <1>14 DEF EnrollInv

LEMMA CompensateKeeps ==
  ASSUME MFA!EnrollmentAssumption, EnrollInv, NEW r \in MFARequests, MFA!Compensate(r), MFA!Op(r) = "begin"
  PROVE  EnrollInv'
<1>1. /\ MFA!At(r, "compensate") /\ MFA!Answer(r, "internal")
      /\ UNCHANGED <<chal, lock, work, worker, sec, unsettled>>
      /\ MFA!Slot(r) \in MFA!Slots /\ unsettled' \subseteq MFA!Tokens /\ Shapes /\ (MFA!NoFault \/ MFA!Fault)
  BY TokensAndSlots DEF MFA!Compensate, EnrollInv, Shapes
<1>2. CASE factor' = MFA!Removed(MFA!Slot(r)) /\ UNCHANGED stranded
  BY <1>1, <1>2, Removals, TokensAndSlots, EndsKeeps DEF MFA!Absent, MFA!At, MFA!Answers, Shapes
<1>3. CASE UNCHANGED factor /\ stranded' = stranded \cup {MFA!Slot(r)}
  BY <1>1, <1>3, Stays, TokensAndSlots, EndsKeeps DEF Shapes, MFA!At, MFA!Answers
<1> QED
  BY <1>1, <1>2, <1>3 DEF MFA!Compensate

\* A request takes the claim of a token, and goes on to its check, or to its
\* rejection, or fails without knowing that it holds the lock.
LEMMA TakesKeep ==
  ASSUME MFA!EnrollmentAssumption, EnrollInv, NEW r \in MFARequests, MFA!At(r, "idle"),
         MFA!Op(r) \in {"confirm", "cancel"},
         MFA!At(MFA!Token(r), "done"), ~MFA!Held(MFA!Token(r)), chal[MFA!Token(r)] # 0,
         lock' \in [MFA!Tokens -> MFARequests \cup {"none"}], lock'[MFA!Token(r)] = r,
         \A x \in MFA!Tokens \ {MFA!Token(r)} : lock'[x] = lock[x],
         UNCHANGED <<factor, chal, work, worker, sec, unsettled, stranded>>, MFA!NoFault \/ MFA!Fault,
         NEW l \in {"gate", "finalize", "done"}, NEW g, NEW m, NEW a, Became(r, l, g, m, a), ReqAt(r)',
         l = "done" => a # "denied", m # "consume" \/ MFA!Kind(MFA!Token(r)) # "passkey"
  PROVE  EnrollInv'
<1> DEFINE t == MFA!Token(r)
<1> USE TokensAndSlots
<1>1. /\ Shapes /\ t \in MFA!Tokens /\ req[r].pc = "idle" /\ r \notin MFA!Tokens /\ t # r
      /\ lock[t] = "none" /\ req[t].pc = "done" /\ req'[t] = req[t]
  BY DEF EnrollInv, MFA!At, MFA!Held, Became
<1>2. lock' \in [MFA!Tokens -> MFARequests \cup {"none"}] /\ lock'[t] = r /\ \A x \in MFA!Tokens \ {t} : lock'[x] = lock[x]
  BY <1>1 DEF Shapes
<1> USE DEF Became
<1>3. \A q \in MFARequests : q # r => req'[q] = req[q] /\ (InFlight(q)' <=> InFlight(q))
  BY DEF InFlight
<1>4. \A x \in MFA!Tokens : req'[x] = req[x]
  BY <1>1
<1>5. Shapes'
  BY <1>1, <1>2, Faults DEF Shapes
<1>6. Claims'
  <2>1. ASSUME NEW q \in MFARequests, q # r
        PROVE  ReqAt(q)'
    BY <1>4, <2>1, <1>1, <1>2 DEF EnrollInv, Claims, ReqAt, MFA!At, InFlight, MFA!Foreign
  <2> QED
    BY <2>1 DEF Claims
<1>7. Minted'
  BY <1>1, <1>2, <1>4 DEF EnrollInv, Minted, TokenAt, MFA!At
<1>8. Settled'
  <2>1. ASSUME NEW s \in MFA!Slots
        PROVE  SlotAt(s)'
    <3> DEFINE b == factor[s].by
    <3>1. SlotAt(s) /\ factor' = factor
      BY DEF EnrollInv, Settled
    <3>2. CASE factor[s].state = "active"
      <4>1. factor[s] # MFA!Absent
        BY <3>2 DEF MFA!Absent
      <4>2. b \in MFA!Tokens /\ MFA!At(b, "done") /\ MFA!At(b, "done")'
        BY <1>4, <3>1, <3>2, <4>1 DEF SlotAt, MFA!At
      <4>3. CASE b \in unsettled
        BY <3>1, <4>1, <4>2, <4>3 DEF SlotAt
      <4>4. CASE b \notin unsettled
        <5>1. chal[b] = 0 \/ \E q \in MFARequests : MFA!Token(q) = b /\ InFlight(q)
          BY <3>1, <3>2, <4>4 DEF SlotAt
        <5>2. b # t
          BY <4>4, <1>1, <5>1 DEF EnrollInv, Claims, ReqAt
        <5>3. \A q \in MFARequests : MFA!Token(q) = b => q # r
          BY <5>2
        <5>4. {q \in MFARequests : MFA!Token(q) = b /\ InFlight(q)}' = {q \in MFARequests : MFA!Token(q) = b /\ InFlight(q)}
          BY <1>3, <3>1, <5>3
        <5>5. \A q \in MFARequests : MFA!Token(q) = b => MFA!At(q, "finalize")' = MFA!At(q, "finalize") /\ req'[q].mode = req[q].mode
          BY <1>3, <5>3 DEF MFA!At
        <5> QED
          BY <3>1, <4>1, <4>2, <5>4, <5>5 DEF SlotAt
      <4> QED
        BY <4>3, <4>4
    <3>3. CASE factor[s].state # "active"
      BY <3>1, <3>3 DEF SlotAt
    <3> QED
      BY <3>2, <3>3
  <2> QED
    BY <2>1 DEF Settled
<1>9. Cleaning'
  <2>1. ASSUME NEW w \in Workers
        PROVE  WorkerAt(w)'
    BY <2>1, <1>1, <1>2, <1>4 DEF EnrollInv, Cleaning, Shapes, Cleaners, WorkerAt
  <2> QED
    BY <2>1 DEF Cleaning
<1>10. MFA!PendingCovered'
  BY <1>4 DEF EnrollInv, MFA!PendingCovered, MFA!At
<1>11. MFA!ForeignBurns'
  BY DEF EnrollInv, MFA!ForeignBurns, MFA!At, MFA!Foreign
<1> QED
  BY <1>5, <1>6, <1>7, <1>8, <1>9, <1>10, <1>11 DEF EnrollInv

\* How a claim ends that is refused, and what the gate makes of one that is not.
LEMMA ClaimKeeps ==
  ASSUME MFA!EnrollmentAssumption, EnrollInv, NEW r \in MFARequests, MFA!ClaimEnrollment(r)
  PROVE  EnrollInv'
<1> DEFINE t == MFA!Token(r)
<1>1. /\ MFA!At(r, "idle") /\ ~MFA!At(r, "done") /\ req[r].pc = "idle" /\ MFA!Op(r) \in {"confirm", "cancel"}
      /\ MFA!At(t, "done")
      /\ t \in MFA!Tokens
      /\ req[r].mode \notin MFA!Modes /\ Shapes /\ r \notin MFA!Tokens /\ r \notin MFA!Passkeys
      /\ UNCHANGED <<factor, chal, work, worker, sec, unsettled, stranded>> /\ (MFA!NoFault \/ MFA!Fault)
  BY TokensAndSlots DEF MFA!ClaimEnrollment, EnrollInv, Claims, ReqAt, MFA!At
<1>2. ASSUME NEW a \in {"gone", "internal"}, MFA!Answer(r, a), UNCHANGED lock
      PROVE  EnrollInv'
  BY <1>1, Stays, <1>2, EndsKeeps DEF Shapes, MFA!At, MFA!Answers
<1>3. ASSUME ~MFA!Held(t), chal[t] # 0, lock' = [lock EXCEPT ![t] = r]
      PROVE  /\ MFA!Answer(r, "internal") => EnrollInv'
             /\ MFA!Foreign(r) /\ MFA!Settle(r, MFA!Rejected(t), "denied") => EnrollInv'
             /\ ~MFA!Foreign(r) /\ req' = [req EXCEPT ![r].pc = "gate", ![r].gen = chal[t]] => EnrollInv'
  <2>1. /\ UNCHANGED factor /\ t # r /\ t \in MFARequests
        /\ lock' \in [MFA!Tokens -> MFARequests \cup {"none"}] /\ lock'[t] = r
        /\ \A x \in MFA!Tokens \ {t} : lock'[x] = lock[x]
    BY <1>1, <1>3, TokensAndSlots DEF Shapes
  <2>2. CASE MFA!Answer(r, "internal")
    BY <1>1, <2>2, Moves, <1>3, <2>1, TakesKeep DEF MFA!Answers, Became, ReqAt, MFA!At, InFlight, MFA!Modes
  <2>3. CASE MFA!Foreign(r) /\ MFA!Settle(r, MFA!Rejected(t), "denied")
    <3>1. MFA!Rejected(t) \in {"abandon", "consume"} /\ (MFA!Rejected(t) = "consume" => MFA!Kind(t) # "passkey")
      BY DEF MFA!Rejected
    <3>2. Became(r, "finalize", req[r].gen, MFA!Rejected(t), "denied")
      BY <1>1, <2>3, <3>1, Moves DEF MFA!Answers, MFA!Modes
    <3>3. t \in MFA!Passkeys => MFA!Kind(t) = "passkey"
      BY TokensAndSlots
    <3> HIDE DEF t
    <3>4. ReqAt(r)'
      BY <1>1, <2>1, <3>1, <3>2, <3>3 DEF Became, ReqAt, MFA!At, InFlight, MFA!Modes, t
    <3> QED
      BY <1>1, <1>3, <2>1, <3>1, <3>2, <3>4, TakesKeep DEF t
  <2>4. CASE ~MFA!Foreign(r) /\ req' = [req EXCEPT ![r].pc = "gate", ![r].gen = chal[t]]
    <3>1. Became(r, "gate", chal[t], req[r].mode, req[r].answer)
      <4>1. req \in [MFARequests -> Enrolls] /\ req[r] \in Enrolls /\ "gate" \in MFALabels /\ chal[t] \in 0 .. MaxGen
        BY <1>1 DEF Shapes, MFALabels
      <4> DEFINE now == [[req[r] EXCEPT !.pc = "gate"] EXCEPT !.gen = chal[t]]
      <4>2. req' = [req EXCEPT ![r] = now]
        BY <2>4, <4>1
      <4>3. now \in Enrolls /\ now.pc = "gate" /\ now.gen = chal[t] /\ now.mode = req[r].mode
            /\ now.answer = req[r].answer
        BY <4>1 DEF Enrolls
      <4> HIDE DEF now
      <4> QED
        BY <4>1, <4>2, <4>3 DEF Became
    <3>2. ReqAt(r)'
      BY <1>1, <2>1, <2>4, <3>1 DEF Became, ReqAt, MFA!At, InFlight, MFA!Modes, MFA!Foreign
    <3> QED
      BY <1>1, <1>3, <2>1, <3>1, <3>2, TakesKeep DEF MFA!Modes
  <2> QED
    BY <2>2, <2>3, <2>4
<1> QED
  BY <1>2, <1>3 DEF MFA!ClaimEnrollment

LEMMA GateKeeps ==
  ASSUME MFA!EnrollmentAssumption, EnrollInv, NEW r \in MFARequests, MFA!Gate(r)
  PROVE  EnrollInv'
<1>1. /\ req[r].pc = "gate" /\ UNCHANGED <<factor, chal, lock, work, worker, sec, unsettled, stranded>>
      /\ Shapes /\ Fades /\ unsettled' \subseteq MFA!Tokens /\ (MFA!NoFault \/ MFA!Fault)
  BY Stays DEF MFA!Gate, MFA!At, EnrollInv, Shapes
<1>2. ASSUME NEW m \in {"release", "abandon", "consume"}, m = "consume" => MFA!Kind(MFA!Token(r)) # "passkey",
             MFA!Settle(r, m, "denied")
      PROVE  EnrollInv'
  BY <1>1, <1>2, SettlesKeep, TokensAndSlots DEF MFA!Modes, MFA!Answers
<1>3. MFA!Rejected(MFA!Token(r)) \in {"abandon", "consume"} /\ (MFA!Rejected(MFA!Token(r)) = "consume" => MFA!Kind(MFA!Token(r)) # "passkey")
  BY DEF MFA!Rejected
<1>4. CASE MFA!To(r, "provider")
  <2>1. Became(r, "provider", req[r].gen, req[r].mode, req[r].answer)
    BY <1>1, <1>4, Moves DEF MFALabels
  <2>2. ReqAt(r) /\ MFA!Op(r) # "begin" /\ MFA!Op(r) # "remove" /\ r \notin MFA!Tokens /\ MFA!Token(r) # r /\ MFA!Token(r) \in MFARequests
    BY <1>1, TokensAndSlots DEF EnrollInv, Claims, ReqAt, MFA!At, InFlight
  <2>3. ReqAt(r)'
    BY <1>1, <2>1, <2>2 DEF Became, ReqAt, MFA!At, InFlight, MFA!Modes, MFA!Foreign
  <2>4. InFlight(r) /\ ~MFA!At(r, "finalize") /\ ~MFA!At(r, "done") /\ r \notin MFA!Passkeys /\ stranded' \subseteq MFA!Slots
    BY <1>1, <2>2, TokensAndSlots DEF InFlight, MFA!At, Shapes
  <2> QED
    BY <1>1, <2>1, <2>2, <2>3, <2>4, StepKeeps
<1> QED
  BY <1>2, <1>3, <1>4 DEF MFA!Gate

\* What is known of the token of a request that calls the provider for it.
LEMMA Calling ==
  ASSUME MFA!EnrollmentAssumption, EnrollInv, NEW r \in MFARequests,
         req[r].pc \in {"gate", "provider", "cleanup"}
  PROVE  /\ MFA!Token(r) \in MFA!Tokens /\ MFA!Slot(MFA!Token(r)) \in MFA!Slots
         /\ MFA!At(MFA!Token(r), "done") /\ InFlight(r)
         /\ ~MFA!At(r, "done")
         /\ MFA!Op(r) # "begin" /\ r \notin MFA!Tokens /\ r \notin MFA!Passkeys /\ MFA!Token(r) # r
         /\ ~MFA!At(r, "finalize")
         /\ lock[MFA!Token(r)] = r \/ (MFA!Kind(MFA!Token(r)) = "totp" /\ MFA!Token(r) \in unsettled)
         /\ Shapes /\ ~MFA!Foreign(r) /\ MFA!Kind(MFA!Token(r)) = MFA!Kind(r) /\ ReqAt(r)
  BY TokensAndSlots DEF EnrollInv, Claims, InFlight, MFA!At, ReqAt, MFA!Foreign

\* A factor is activated through its token.
LEMMA ActivateKeeps ==
  ASSUME MFA!EnrollmentAssumption, EnrollInv, NEW r \in MFARequests, MFA!At(r, "provider"),
         MFA!Op(r) = "confirm",
         "ok" \in MFA!Verdicts(MFA!Token(r)), factor' = MFA!Activated(MFA!Token(r)),
         NEW m \in MFA!Modes, NEW a \in MFA!Answers \ {"denied"}, MFA!Settle(r, m, a),
         \/ m = "consume" /\ UNCHANGED unsettled
         \/ m = "release" /\ unsettled' = unsettled \cup {MFA!Token(r)},
         UNCHANGED <<chal, lock, work, worker, sec, stranded>>, MFA!NoFault \/ MFA!Fault
  PROVE  EnrollInv'
<1> DEFINE t == MFA!Token(r)
           s == MFA!Slot(t)
<1>1. /\ t \in MFA!Tokens /\ s \in MFA!Slots /\ MFA!At(t, "done") /\ InFlight(r) /\ r \notin MFA!Tokens
      /\ t # r
      /\ ~MFA!Foreign(r)
      /\ lock[t] = r \/ (MFA!Kind(t) = "totp" /\ t \in unsettled)
      /\ Shapes /\ t \in MFARequests
  BY Calling, TokensAndSlots DEF MFA!At
<1>2. factor[s].state = "pending" /\ factor[s].by = t
  BY <1>1 DEF MFA!Verdicts, Shapes, Factors
<1>3. /\ factor' \in [MFA!Slots -> Factors] /\ factor'[s].state = "active" /\ factor'[s].by = t
      /\ \A x \in MFA!Slots \ {s} : factor'[x] = factor[x]
  BY <1>1, <1>2 DEF MFA!Activated, Shapes, Factors
<1>4. Became(r, "finalize", req[r].gen, m, a)
  BY <1>1, Moves
<1>5. unsettled \subseteq unsettled' /\ unsettled' \subseteq MFA!Tokens /\ (m = "consume" \/ t \in unsettled')
  BY <1>1 DEF Shapes
<1> USE TokensAndSlots DEF Became
<1>6. \A x \in MFA!Tokens : req'[x] = req[x]
  BY <1>1, <1>4
<1>7. \A q \in MFARequests : InFlight(q)' <=> InFlight(q)
  BY <1>1, <1>4 DEF InFlight
<1>8. Shapes'
  BY <1>1, <1>3, <1>4, <1>5, Faults DEF Shapes
<1>9. Claims'
  <2>1. ASSUME NEW q \in MFARequests, q # r
        PROVE  ReqAt(q)'
    BY <1>4, <1>6, <2>1, <1>3, <1>5 DEF EnrollInv, Claims, ReqAt, MFA!At, InFlight, MFA!Foreign
  <2>2. ReqAt(r)'
    BY <1>3, <1>1, <1>4, <1>5, <1>6 DEF EnrollInv, Claims, ReqAt, MFA!At, InFlight, MFA!Foreign
  <2> QED
    BY <2>1, <2>2 DEF Claims
<1>10. Minted'
  <2>1. ASSUME NEW x \in MFA!Tokens
        PROVE  TokenAt(x)'
    BY <2>1, <1>6, <1>1, <1>3 DEF EnrollInv, Minted, MFA!At, TokenAt
  <2> QED
    BY <2>1 DEF Minted
<1>11. Settled'
  <2>1. SlotAt(s)'
    <3>1. factor'[s] # MFA!Absent
      BY <1>3 DEF MFA!Absent
    <3>2. MFA!At(t, "done")'
      BY <1>1, <1>6 DEF MFA!At
    <3>3. ASSUME t \notin unsettled', NEW q \in MFARequests, MFA!Token(q) = t, InFlight(q)
          PROVE  q = r
      BY <1>1, <1>5, <3>3 DEF EnrollInv, Claims, ReqAt
    <3>4. CASE t \in unsettled'
      BY <1>1, <1>3, <3>1, <3>2, <3>4 DEF SlotAt
    <3>5. CASE t \notin unsettled'
      BY <1>4, <1>5, <3>5, <1>7, <3>3, <1>1, <1>3, <3>1, <3>2 DEF MFA!At, SlotAt
    <3> QED
      BY <3>4, <3>5
  <2>2. ASSUME NEW x \in MFA!Slots \ {s}
        PROVE  SlotAt(x)'
    <3> DEFINE b == factor[x].by
    <3>1. SlotAt(x) /\ factor'[x] = factor[x]
      BY <1>3, <2>2 DEF EnrollInv, Settled
    <3>2. CASE factor[x].state = "active"
      BY <3>2, <2>2, <3>1, <1>6, <1>4, <1>7, <1>5 DEF MFA!Absent, SlotAt, MFA!At
    <3>3. CASE factor[x].state # "active"
      BY <3>1, <3>3 DEF SlotAt
    <3> QED
      BY <3>2, <3>3
  <2> QED
    BY <2>1, <2>2 DEF Settled
<1>12. Cleaning'
  <2>1. ASSUME NEW w \in Workers
        PROVE  WorkerAt(w)'
    BY <2>1, <1>1, <1>3, <1>6 DEF EnrollInv, Cleaning, Shapes, Cleaners, WorkerAt
  <2> QED
    BY <2>1 DEF Cleaning
<1>13. MFA!PendingCovered'
  BY <1>3, <1>6 DEF EnrollInv, MFA!PendingCovered, MFA!At
<1>14. MFA!ForeignBurns'
  BY <1>1, <1>4, <1>5 DEF EnrollInv, MFA!ForeignBurns, MFA!At, MFA!Foreign
<1> QED
  BY <1>8, <1>9, <1>10, <1>11, <1>12, <1>13, <1>14 DEF EnrollInv

\* An answer of the provider that leaves the factor, or takes it away.
LEMMA AnswersKeep ==
  ASSUME MFA!EnrollmentAssumption, EnrollInv, NEW r \in MFARequests, req[r].pc \in {"provider", "cleanup"},
         NEW m \in MFA!Modes, NEW a \in MFA!Answers, MFA!Settle(r, m, a), Fades, MFA!NoFault \/ MFA!Fault,
         unsettled' = unsettled \/ unsettled' = unsettled \cup {MFA!Token(r)},
         UNCHANGED <<chal, lock, work, worker, sec, stranded>>,
         m = "consume" /\ MFA!Token(r) \in MFA!Passkeys => factor'[MFA!Token(r)].state # "pending"
  PROVE  EnrollInv'
  BY Calling, SettlesKeep DEF Shapes

LEMMA ConfirmKeeps ==
  ASSUME MFA!EnrollmentAssumption, EnrollInv, NEW r \in MFARequests, MFA!Confirm(r),
         MFA!Kind(r) = "passkey" \/ MFA!Kind(r) = "totp"
  PROVE  EnrollInv'
<1> DEFINE t == MFA!Token(r)
<1>1. /\ req[r].pc = "provider" /\ MFA!At(r, "provider") /\ MFA!Op(r) = "confirm" /\ Shapes
      /\ t \in MFA!Tokens
      /\ MFA!Slot(t) \in MFA!Slots
      /\ UNCHANGED <<chal, lock, work, worker, sec, stranded>> /\ (MFA!NoFault \/ MFA!Fault)
  BY Calling DEF MFA!Confirm, MFA!At, MFA!ProviderLost
<1>2. MFA!Verdicts(t) \subseteq {"ok", "invalid", "not_set", "already_set"}
  BY <1>1 DEF MFA!Verdicts, Shapes, Factors
<1>3. CASE MFA!ProviderLost(r, IF "ok" \in MFA!Verdicts(t) THEN MFA!Activated(t) ELSE factor)
  BY <1>1, <1>3, Stays, AnswersKeep, ActivateKeeps DEF MFA!ProviderLost, MFA!Modes, MFA!Answers
<1>4. ASSUME NEW v \in MFA!Verdicts(t), factor' = IF v = "ok" THEN MFA!Activated(t) ELSE factor,
             UNCHANGED unsettled,
             IF v = "invalid" /\ MFA!Kind(t) = "totp"
             THEN req' = [req EXCEPT ![r].pc = "cleanup", ![r].answer = v]
             ELSE MFA!Settle(r, MFA!SettleEnrollment(t, v), v)
      PROVE  EnrollInv'
  <2>1. CASE v = "ok"
    BY <1>4, <2>1, <1>1, ActivateKeeps DEF MFA!SettleEnrollment, MFA!Modes, MFA!Answers
  <2>2. CASE v # "ok" /\ ~(v = "invalid" /\ MFA!Kind(t) = "totp")
    BY <1>2, <1>4, <2>2, <1>1, Stays, AnswersKeep, TokensAndSlots DEF MFA!SettleEnrollment, MFA!Modes,
       MFA!Answers
  <2>3. CASE v = "invalid" /\ MFA!Kind(t) = "totp"
    <3>1. req' = [req EXCEPT ![r].pc = "cleanup", ![r].answer = "invalid"] /\ UNCHANGED factor
      BY <1>4, <2>3
    <3>2. Became(r, "cleanup", req[r].gen, req[r].mode, "invalid")
      <4>1. req \in [MFARequests -> Enrolls] /\ req[r] \in Enrolls /\ "cleanup" \in MFALabels /\ "invalid" \in MFA!Answers
        BY <1>1 DEF Shapes, MFALabels, MFA!Answers
      <4> DEFINE now == [[req[r] EXCEPT !.pc = "cleanup"] EXCEPT !.answer = "invalid"]
      <4>2. req' = [req EXCEPT ![r] = now]
        BY <3>1, <4>1
      <4>3. now \in Enrolls /\ now.pc = "cleanup" /\ now.gen = req[r].gen /\ now.mode = req[r].mode
            /\ now.answer = "invalid"
        BY <4>1 DEF Enrolls
      <4> HIDE DEF now
      <4> QED
        BY <4>1, <4>2, <4>3 DEF Became
    <3>3. /\ ReqAt(r) /\ ~MFA!Foreign(r) /\ MFA!Kind(r) = "totp" /\ InFlight(r) /\ ~MFA!At(r, "finalize")
          /\ ~MFA!At(r, "done")
          /\ t # r
          /\ MFA!Op(r) # "begin" /\ r \notin MFA!Passkeys /\ t \in MFARequests
      BY <1>1, <2>3, Calling, TokensAndSlots
    <3>4. ReqAt(r)'
      BY <1>1, <1>4, <3>2, <3>3 DEF Became, ReqAt, MFA!At, InFlight, MFA!Foreign
    <3>5. Fades /\ unsettled' \subseteq MFA!Tokens /\ stranded' \subseteq MFA!Slots
      BY <1>1, <1>4, <3>1, Stays DEF Shapes
    <3> QED
      BY <1>1, <1>4, <3>2, <3>3, <3>4, <3>5, StepKeeps
  <2> QED
    BY <2>1, <2>2, <2>3
<1> QED
  BY <1>3, <1>4 DEF MFA!Confirm

LEMMA RemovePendingKeeps ==
  ASSUME MFA!EnrollmentAssumption, EnrollInv, NEW r \in MFARequests, MFA!RemovePendingTOTP(r)
  PROVE  EnrollInv'
  BY Calling, TokensAndSlots, Removals, Stays, AnswersKeep DEF MFA!RemovePendingTOTP, MFA!At,
     MFA!ProviderLost, ReqAt, MFA!Slots, MFA!SettleEnrollment, MFA!Modes, MFA!Answers

LEMMA CancelKeeps ==
  ASSUME MFA!EnrollmentAssumption, EnrollInv, NEW r \in MFARequests, MFA!Cancel(r)
  PROVE  EnrollInv'
  BY Calling, TokensAndSlots, Removals, Stays, AnswersKeep DEF MFA!Cancel, MFA!At, MFA!ProviderLost,
     MFA!Absent, MFA!Modes, MFA!Answers

LEMMA RemoveKeeps ==
  ASSUME MFA!EnrollmentAssumption, EnrollInv, NEW r \in MFARequests, MFA!Remove(r)
  PROVE  EnrollInv'
  BY TokensAndSlots, Removals, Stays, EndsKeeps DEF MFA!Remove, MFA!At, EnrollInv, Shapes, MFA!Answers

\* A script of the settlement that finds the caller's lock.
LEMMA ScriptKeeps ==
  ASSUME MFA!EnrollmentAssumption, EnrollInv, NEW r \in MFARequests, MFA!At(r, "finalize"),
         lock[MFA!Token(r)] = r,
         lock' = [lock EXCEPT ![MFA!Token(r)] = "none"], MFA!Answer(r, req[r].answer),
         \/ req[r].mode = "release" /\ MFA!ReleaseEnrollment(MFA!Token(r))
         \/ req[r].mode = "consume" /\ MFA!ConsumeEnrollment(MFA!Token(r))
         \/ req[r].mode = "abandon" /\ MFA!AbandonEnrollment(MFA!Token(r)),
         UNCHANGED <<factor, worker, sec, unsettled, stranded>>, MFA!NoFault
  PROVE  EnrollInv'
<1> DEFINE t == MFA!Token(r)
<1> USE TokensAndSlots
<1>1. /\ Shapes /\ t \in MFA!Tokens /\ InFlight(r) /\ MFA!At(t, "done") /\ MFA!Op(r) # "begin"
      /\ r \notin MFA!Tokens
      /\ t # r
      /\ req[r].pc = "finalize" /\ t \in MFARequests
  BY DEF EnrollInv, Claims, ReqAt, InFlight, MFA!At
<1>2. Became(r, "done", req[r].gen, "none", req[r].answer)
  BY <1>1, Moves DEF Shapes, Enrolls
<1>3. lock' \in [MFA!Tokens -> MFARequests \cup {"none"}] /\ lock'[t] = "none" /\ \A x \in MFA!Tokens \ {t} : lock'[x] = lock[x]
  BY <1>1 DEF Shapes
<1>4. /\ chal' \in [MFA!Tokens -> 0 .. MaxGen] /\ \A x \in MFA!Tokens \ {t} : chal'[x] = chal[x]
      /\ work' \in [MFA!Tokens -> {"none", "due", "leased"}] /\ \A x \in MFA!Tokens \ {t} : work'[x] = work[x]
      /\ chal'[t] = chal[t] \/ chal'[t] = 0
      /\ req[r].mode \in {"consume", "abandon"} => chal'[t] = 0
      /\ req[r].mode # "consume" /\ work[t] # "none" => work'[t] # "none"
      /\ work[t] = "none" => work'[t] = "none"
  BY <1>1 DEF MFA!ReleaseEnrollment, Shapes, MFA!ConsumeEnrollment, MFA!EnrollmentAssumption,
     MFA!AbandonEnrollment
<1> USE DEF Became
<1>5. \A x \in MFA!Tokens : req'[x] = req[x]
  BY <1>1, <1>2
<1>6. \A q \in MFARequests : q # r => req'[q] = req[q] /\ (InFlight(q)' <=> InFlight(q))
  BY <1>2 DEF InFlight
<1>7. ~InFlight(r)'
  BY <1>2 DEF InFlight
<1>8. Shapes'
  BY <1>1, <1>2, <1>3, <1>4, Faults DEF Shapes
<1>9. Claims'
  <2>1. ASSUME NEW q \in MFARequests, q # r
        PROVE  ReqAt(q)'
    BY <1>2, <1>5, <2>1, <1>3 DEF EnrollInv, Claims, ReqAt, MFA!At, InFlight, MFA!Foreign
  <2>2. ReqAt(r)'
    BY <1>1, <1>2, <1>5 DEF EnrollInv, Claims, ReqAt, MFA!At, InFlight, MFA!Modes
  <2> QED
    BY <2>1, <2>2 DEF Claims
<1>10. Minted'
  <2>1. ASSUME NEW x \in MFA!Tokens
        PROVE  TokenAt(x)'
    BY <2>1, <1>5, <1>1, <1>3, <1>4 DEF EnrollInv, Minted, TokenAt, MFA!At
  <2> QED
    BY <2>1 DEF Minted
<1>11. Settled'
  <2>1. ASSUME NEW s \in MFA!Slots
        PROVE  SlotAt(s)'
    <3> DEFINE b == factor[s].by
    <3>1. SlotAt(s) /\ factor' = factor
      BY DEF EnrollInv, Settled
    <3>2. CASE factor[s].state = "active"
      <4>1. factor[s] # MFA!Absent
        BY <3>2 DEF MFA!Absent
      <4>2. b \in MFA!Tokens /\ MFA!At(b, "done") /\ MFA!At(b, "done")'
        BY <1>5, <3>1, <3>2, <4>1 DEF SlotAt, MFA!At
      <4>3. CASE b \in unsettled
        BY <3>1, <4>1, <4>2, <4>3 DEF SlotAt
      <4>4. CASE b \notin unsettled /\ b = t
        BY <1>1, <3>1, <3>2, <4>4, <1>4, <1>6, <1>7, <4>1, <4>2 DEF SlotAt, MFA!At
      <4>5. CASE b \notin unsettled /\ b # t
        BY <1>4, <4>2, <4>5, <1>6, <3>1, <4>1 DEF SlotAt, MFA!At
      <4> QED
        BY <4>3, <4>4, <4>5
    <3>3. CASE factor[s].state # "active"
      BY <3>1, <3>3 DEF SlotAt
    <3> QED
      BY <3>2, <3>3
  <2> QED
    BY <2>1 DEF Settled
<1>12. Cleaning'
  <2>1. ASSUME NEW w \in Workers
        PROVE  WorkerAt(w)'
    BY <2>1, <1>1, <1>3, <1>4, <1>5 DEF EnrollInv, Cleaning, Shapes, Cleaners, WorkerAt
  <2> QED
    BY <2>1 DEF Cleaning
<1>13. MFA!PendingCovered'
  BY <1>1, <1>4, <1>5 DEF EnrollInv, Claims, ReqAt, MFA!At, MFA!PendingCovered
<1>14. MFA!ForeignBurns'
  BY <1>1, <1>4, <1>2 DEF EnrollInv, Claims, ReqAt, MFA!At, MFA!ForeignBurns, MFA!Foreign
<1> QED
  BY <1>8, <1>9, <1>10, <1>11, <1>12, <1>13, <1>14 DEF EnrollInv

LEMMA FinalizeKeeps ==
  ASSUME MFA!EnrollmentAssumption, EnrollInv, NEW r \in MFARequests, MFA!Finalize(r)
  PROVE  EnrollInv'
<1> DEFINE t == MFA!Token(r)
<1>1. /\ MFA!At(r, "finalize") /\ ~MFA!At(r, "done") /\ req[r].pc = "finalize"
      /\ MFA!Answer(r, req[r].answer) /\ Shapes
      /\ t \in MFA!Tokens
      /\ UNCHANGED <<factor, worker, sec, stranded>> /\ (MFA!NoFault \/ MFA!Fault)
  BY TokensAndSlots DEF MFA!Finalize, MFA!At, EnrollInv
<1>2. ReqAt(r) /\ MFA!At(t, "done") /\ MFA!Op(r) # "begin" /\ MFA!Op(r) # "remove"
  BY <1>1 DEF EnrollInv, Claims, ReqAt, InFlight, MFA!At
<1>3. req[r].mode \in MFA!Modes /\ req[r].answer \in MFA!Answers \cup {"none"}
  BY <1>1, <1>2 DEF ReqAt, Shapes, Enrolls
<1>4. CASE UNCHANGED <<chal, lock, work>> /\ unsettled' = unsettled \cup {t}
  BY <1>1, <1>4, Stays, <1>2, <1>3, EndsKeeps DEF Shapes
<1>5. CASE /\ lock[t] = r /\ lock' = [lock EXCEPT ![t] = "none"] /\ MFA!NoFault /\ UNCHANGED unsettled
           /\ CASE req[r].mode = "release" -> MFA!ReleaseEnrollment(t)
                [] req[r].mode = "consume" -> MFA!ConsumeEnrollment(t)
                [] req[r].mode = "abandon" -> MFA!AbandonEnrollment(t)
  BY <1>3, <1>5, <1>1, ScriptKeeps DEF MFA!Modes
<1> QED
  BY <1>4, <1>5 DEF MFA!Finalize

\* A step of nobody's request: of a worker, of time, of another handler.
LEMMA OthersKeep ==
  ASSUME MFA!EnrollmentAssumption, EnrollInv, UNCHANGED <<req, stranded>>, Fades,
         chal' \in [MFA!Tokens -> 0 .. MaxGen], \A t \in MFA!Tokens : chal'[t] = chal[t] \/ chal'[t] = 0,
         lock' \in [MFA!Tokens -> MFARequests \cup {"none"}],
         \A t \in MFA!Tokens : \/ lock'[t] = lock[t]
                               \/ /\ lock[t] # "none" /\ lock'[t] = "none"
                                  /\ ~InFlight(lock[t]) \/ (MFA!Kind(t) = "totp" /\ t \in unsettled'),
         unsettled \subseteq unsettled', unsettled' \subseteq MFA!Tokens,
         work' \in [MFA!Tokens -> {"none", "due", "leased"}],
         \A t \in MFA!Tokens : /\ work[t] = "none" => work'[t] = "none"
                               /\ t \in MFA!Passkeys /\ work[t] # "none" /\ work'[t] = "none"
                                  => factor'[t].state # "pending",
         worker' \in [Workers -> Cleaners], Cleaning',
         sec' \in [gen : 1 .. MaxGen, intent : BOOLEAN], sec'.intent => sec'.gen < MaxGen,
         faults' \in 0 .. MaxFaults
  PROVE  EnrollInv'
<1> USE TokensAndSlots
<1>1. Shapes
  BY DEF EnrollInv
<1>2. Shapes'
  BY <1>1 DEF Shapes, Fades
<1>3. Claims'
  <2>1. ASSUME NEW q \in MFARequests
        PROVE  ReqAt(q)'
    BY <2>1 DEF EnrollInv, Claims, ReqAt, Fades, MFA!Absent, MFA!At, InFlight, MFA!Foreign
  <2> QED
    BY <2>1 DEF Claims
<1>4. Minted'
  <2>1. ASSUME NEW x \in MFA!Tokens
        PROVE  TokenAt(x)'
    BY <2>1 DEF EnrollInv, Minted, TokenAt, MFA!At, Fades, MFA!Absent
  <2> QED
    BY <2>1 DEF Minted
<1>5. Settled'
  <2>1. ASSUME NEW s \in MFA!Slots
        PROVE  SlotAt(s)'
    <3> DEFINE b == factor[s].by
    <3>1. CASE factor'[s] = MFA!Absent
      BY <3>1 DEF SlotAt, MFA!Absent
    <3>2. CASE factor'[s] = factor[s] /\ factor[s].state = "active"
      BY <3>2 DEF MFA!Absent, EnrollInv, Settled, SlotAt, MFA!At, InFlight
    <3>3. CASE factor'[s] = factor[s] /\ factor[s].state # "active"
      BY <3>3 DEF SlotAt, EnrollInv, Settled
    <3> QED
      BY <3>1, <3>2, <3>3 DEF Fades
  <2> QED
    BY <2>1 DEF Settled
<1>6. MFA!PendingCovered'
  BY DEF Fades, MFA!Absent, EnrollInv, MFA!PendingCovered, MFA!At
<1>7. MFA!ForeignBurns'
  BY DEF EnrollInv, MFA!ForeignBurns, MFA!At, MFA!Foreign
<1> QED
  BY <1>2, <1>3, <1>4, <1>5, <1>6, <1>7 DEF EnrollInv

\* A step of a cleanup worker: it alone moves, with the record of its token.
LEMMA WorkersKeep ==
  ASSUME MFA!EnrollmentAssumption, EnrollInv, UNCHANGED <<chal, lock, sec, req, unsettled, stranded>>, Fades,
         NEW w \in Workers, worker' \in [Workers -> Cleaners],
         \A v \in Workers \ {w} : worker'[v] = worker[v],
         WorkerAt(w)', work' \in [MFA!Tokens -> {"none", "due", "leased"}],
         \A t \in MFA!Tokens : /\ work[t] = "none" => work'[t] = "none"
                               /\ t \in MFA!Passkeys /\ work[t] # "none" /\ work'[t] = "none"
                                  => factor'[t].state # "pending",
         faults' \in 0 .. MaxFaults
  PROVE  EnrollInv'
<1>1. Shapes
  BY DEF EnrollInv
<1>2. Cleaning'
  <2>1. ASSUME NEW v \in Workers, v # w
        PROVE  WorkerAt(v)'
    BY <1>1, <2>1, TokensAndSlots DEF EnrollInv, Cleaning, Shapes, Cleaners, Fades, MFA!Absent, WorkerAt
  <2> QED
    BY <2>1 DEF Cleaning
<1> QED
  BY <1>1, <1>2, OthersKeep DEF Shapes

LEMMA WorkerStepKeeps ==
  ASSUME MFA!EnrollmentAssumption, EnrollInv, NEW w \in Workers, MFA!WorkerStep(w) \/ MFA!CrashWorker(w)
  PROVE  EnrollInv'
<1> DEFINE t == worker[w].token
<1>1. /\ Shapes /\ WorkerAt(w) /\ worker \in [Workers -> Cleaners] /\ worker[w] \in Cleaners
      /\ work \in [MFA!Tokens -> {"none", "due", "leased"}] /\ faults \in 0 .. MaxFaults
  BY DEF EnrollInv, Shapes, Cleaning
<1>2. MFA!Idle \in Cleaners /\ MFA!Idle.at = "idle" /\ MFA!Idle.token = "none"
  BY DEF MFA!Idle, Cleaners
<1>3. ASSUME worker[w].at # "idle"
      PROVE  t \in MFA!Passkeys /\ t \in MFA!Tokens /\ t \in MFA!Slots
  BY <1>1, <1>3, TokensAndSlots DEF WorkerAt, Cleaners
<1>4. ASSUME worker' = [worker EXCEPT ![w] = MFA!Idle], Fades, faults' \in 0 .. MaxFaults,
             UNCHANGED <<chal, lock, sec, req, unsettled, stranded>>,
             work' \in [MFA!Tokens -> {"none", "due", "leased"}],
             \A x \in MFA!Tokens : /\ work[x] = "none" => work'[x] = "none"
                                   /\ x \in MFA!Passkeys /\ work[x] # "none" /\ work'[x] = "none"
                                      => factor'[x].state # "pending"
      PROVE  EnrollInv'
  BY <1>1, <1>2, <1>4, WorkersKeep DEF WorkerAt
<1>5. ASSUME NEW l \in {"remove", "complete"}, worker' = [worker EXCEPT ![w].at = l], worker[w].at # "idle",
             UNCHANGED <<chal, lock, sec, req, unsettled, stranded, work>>, Fades, faults' \in 0 .. MaxFaults,
             l = "remove" => factor'[t].state # "active",
             l = "complete" => factor'[t].state # "pending"
      PROVE  EnrollInv'
  BY <1>1, <1>5, <1>3, WorkersKeep DEF Cleaners, WorkerAt
<1>6. ASSUME MFA!Requeue(w), worker[w].at # "idle", Fades, faults' \in 0 .. MaxFaults,
             UNCHANGED <<chal, lock, sec, req, unsettled, stranded>>
      PROVE  EnrollInv'
  BY <1>1, <1>3, <1>6, <1>4 DEF MFA!Requeue
<1>7. CASE MFA!ClaimExpiredPasskeyEnrollments(w)
  <2>1. PICK x \in MFA!Passkeys : MFA!Due(x) /\ work' = MFA!Leased(x) /\ worker' = [worker EXCEPT ![w] = [at |-> "list", token |-> x]]
    BY <1>7 DEF MFA!ClaimExpiredPasskeyEnrollments
  <2>2. /\ worker' \in [Workers -> Cleaners] /\ worker'[w].at = "list" /\ worker'[w].token = x
        /\ \A v \in Workers \ {w} : worker'[v] = worker[v]
    BY <1>1, <2>1 DEF Cleaners
  <2>3. x \in MFA!Tokens /\ work[x] = "due" /\ chal[x] = 0 /\ lock[x] = "none" /\ x # "none"
    BY <2>1, TokensAndSlots DEF MFA!Due
  <2>4. /\ work' \in [MFA!Tokens -> {"none", "due", "leased"}]
        /\ \A y \in MFA!Tokens : (work[y] = "none" => work'[y] = "none") /\ (work[y] # "none" => work'[y] # "none")
    BY <1>1, <2>1, <2>3 DEF MFA!Leased
  <2>5. req[x].pc \in {"compensate", "done"}
    BY <2>3, TokensAndSlots DEF EnrollInv, Minted, Claims, TokenAt, ReqAt
  <2>6. UNCHANGED <<chal, lock, sec, req, unsettled, stranded>> /\ Fades /\ faults' \in 0 .. MaxFaults
    BY <1>1, <1>7, Stays DEF MFA!ClaimExpiredPasskeyEnrollments
  <2>7. WorkerAt(w)'
    BY <2>2, <2>3, <2>5, <2>6 DEF WorkerAt
  <2> QED
    BY <2>2, <2>4, <2>6, <2>7, WorkersKeep
<1>8. CASE MFA!ListPasskeys(w)
  <2>1. /\ worker[w].at = "list" /\ UNCHANGED <<factor, chal, lock, sec, req, unsettled, stranded>> /\ Fades
        /\ faults' \in 0 .. MaxFaults
    BY <1>1, <1>8, Stays, Faults DEF MFA!ListPasskeys
  <2>2. CASE worker' = [worker EXCEPT ![w].at = IF MFA!Preserved(t) THEN "complete" ELSE "remove"] /\ UNCHANGED work
    BY <1>5, <2>1, <2>2 DEF MFA!Preserved
  <2> QED
    BY <1>6, <1>8, <2>1, <2>2 DEF MFA!ListPasskeys
<1>9. CASE MFA!RemoveAbandoned(w)
  BY <1>1, <1>3, <1>9, Faults, Removals, Stays, <1>5, <1>6 DEF MFA!RemoveAbandoned, MFA!Absent
<1>10. CASE MFA!CompletePasskeyEnrollmentCleanup(w)
  <2>1. /\ worker[w].at = "complete" /\ UNCHANGED <<factor, chal, lock, sec, req, unsettled, stranded>>
        /\ Fades
        /\ faults' \in 0 .. MaxFaults /\ factor'[t].state # "pending"
    BY <1>1, <1>3, <1>10, Stays, Faults DEF MFA!CompletePasskeyEnrollmentCleanup, WorkerAt
  <2>2. CASE work' = [work EXCEPT ![t] = "none"] /\ worker' = [worker EXCEPT ![w] = MFA!Idle]
    BY <1>1, <1>3, <2>1, <2>2, <1>4
  <2> QED
    BY <1>6, <1>10, <2>1, <2>2 DEF MFA!CompletePasskeyEnrollmentCleanup
<1>11. CASE MFA!CrashWorker(w)
  BY <1>1, <1>11, Stays, Faults, <1>4 DEF MFA!CrashWorker
<1> QED
  BY <1>7, <1>8, <1>9, <1>10, <1>11 DEF MFA!WorkerStep

\* Time, and another handler.
LEMMA TimeKeeps ==
  ASSUME MFA!EnrollmentAssumption, EnrollInv, NEW t \in MFA!Tokens,
         MFA!TokenExpires(t) \/ MFA!LockExpires(t) \/ (t \in MFA!Passkeys /\ MFA!CleanupLeaseExpires(t))
  PROVE  EnrollInv'
<1>1. Shapes /\ UNCHANGED <<factor, worker, req, stranded>> /\ Fades
  BY Stays DEF EnrollInv, MFA!TokenExpires, MFA!LockExpires, MFA!CleanupLeaseExpires
<1>3. CASE MFA!TokenExpires(t)
  <2>1. chal' \in [MFA!Tokens -> 0 .. MaxGen] /\ \A x \in MFA!Tokens : chal'[x] = chal[x] \/ chal'[x] = 0
    BY <1>1, <1>3 DEF MFA!TokenExpires, Shapes, MFA!EnrollmentAssumption
  <2>2. Cleaning'
    BY <2>1, TokensAndSlots, <1>1, <1>3 DEF EnrollInv, Cleaning, WorkerAt, MFA!TokenExpires, Shapes, Cleaners
  <2> QED
    BY <1>1, <1>3, <2>1, <2>2, OthersKeep DEF MFA!TokenExpires, Shapes
<1>4. CASE MFA!LockExpires(t)
  <2>1. lock' \in [MFA!Tokens -> MFARequests \cup {"none"}] /\ lock'[t] = "none" /\ \A x \in MFA!Tokens \ {t} : lock'[x] = lock[x]
    BY <1>1, <1>4 DEF MFA!LockExpires, Shapes
  <2>2. lock[t] # "none" /\ (~InFlight(lock[t]) \/ (MFA!Kind(t) = "totp" /\ t \in unsettled'))
        /\ unsettled \subseteq unsettled' /\ unsettled' \subseteq MFA!Tokens /\ (MFA!NoFault \/ MFA!Fault)
    BY <1>1, <1>4 DEF MFA!LockExpires, MFA!Held, InFlight, Shapes
  <2>3. Cleaning'
    BY <2>1, TokensAndSlots, <1>1, <1>4 DEF EnrollInv, Cleaning, WorkerAt, MFA!LockExpires, Shapes, Cleaners
  <2>4. faults' \in 0 .. MaxFaults
    BY <1>1, <2>2, Faults
  <2> QED
    BY <1>1, <1>4, <2>1, <2>2, <2>3, <2>4, OthersKeep DEF MFA!LockExpires, Shapes
<1>5. CASE t \in MFA!Passkeys /\ MFA!CleanupLeaseExpires(t)
  BY <1>1, <1>5, OthersKeep DEF MFA!CleanupLeaseExpires, Shapes, EnrollInv, Cleaning, WorkerAt
<1> QED
  BY <1>3, <1>4, <1>5

LEMMA SecurityKeeps ==
  ASSUME MFA!EnrollmentAssumption, EnrollInv, MFA!SecurityChange
  PROVE  EnrollInv'
<1>1. Shapes /\ UNCHANGED <<factor, chal, lock, work, worker, req, unsettled, stranded, faults>> /\ Fades
  BY Stays DEF EnrollInv, MFA!SecurityChange
<1>2. sec \in [gen : 1 .. MaxGen, intent : BOOLEAN] /\ (sec.intent => sec.gen < MaxGen) /\ MaxGen \in Nat
  BY <1>1 DEF Shapes, MFA!EnrollmentAssumption
<1>3. sec' \in [gen : 1 .. MaxGen, intent : BOOLEAN] /\ (sec'.intent => sec'.gen < MaxGen)
  <2>1. CASE sec.gen < MaxGen /\ sec' = [sec EXCEPT !.intent = TRUE]
    BY <1>2, <2>1
  <2>2. CASE sec.intent /\ sec' = [gen |-> sec.gen, intent |-> FALSE]
    BY <1>2, <2>2
  <2>3. CASE sec.intent /\ sec' = [gen |-> sec.gen + 1, intent |-> FALSE]
    BY <1>2, <2>3
  <2> QED
    BY <2>1, <2>2, <2>3 DEF MFA!SecurityChange
<1>4. Cleaning'
  BY <1>1 DEF EnrollInv, Cleaning, WorkerAt
<1> QED
  BY <1>1, <1>3, <1>4, OthersKeep DEF Shapes

LEMMA CrashKeeps ==
  ASSUME MFA!EnrollmentAssumption, EnrollInv, NEW r \in MFARequests, MFA!CrashRequest(r)
  PROVE  EnrollInv'
<1>1. /\ req[r].pc \notin {"idle", "done"} /\ ~MFA!At(r, "done") /\ MFA!Answer(r, "internal")
      /\ (MFA!NoFault \/ MFA!Fault)
      /\ UNCHANGED <<factor, chal, lock, work, worker, sec>> /\ Shapes /\ ReqAt(r) /\ Fades
  BY Stays DEF MFA!CrashRequest, MFA!At, EnrollInv, Claims
<1>2. /\ unsettled \subseteq unsettled' /\ unsettled' \subseteq MFA!Tokens
      /\ MFA!At(r, "finalize") => MFA!Token(r) \in unsettled'
  BY <1>1, TokensAndSlots DEF MFA!CrashRequest, Shapes, MFA!At, ReqAt
<1>3. stranded \subseteq stranded' /\ stranded' \subseteq MFA!Slots
  BY <1>1, TokensAndSlots DEF ReqAt, MFA!EnrollmentAssumption, MFA!CrashRequest, Shapes
<1>4. r \in MFA!Passkeys /\ req[r].pc \in {"store", "compensate"} => r \in stranded'
  BY <1>1, TokensAndSlots DEF MFA!CrashRequest
<1> QED
  BY <1>1, <1>2, <1>3, <1>4, EndsKeeps DEF MFA!Answers

LEMMA ServeKeeps ==
  ASSUME MFA!EnrollmentAssumption, EnrollInv, NEW r \in MFARequests, MFA!Serve(r)
  PROVE  EnrollInv'
<1>1. (MFA!At(r, "store") \/ MFA!At(r, "compensate")) => MFA!Op(r) = "begin"
  BY DEF EnrollInv, Claims, ReqAt, MFA!At, MFA!EnrollmentAssumption
<1>2. MFA!Kind(r) = "passkey" \/ MFA!Kind(r) = "totp"
  BY DEF MFA!EnrollmentAssumption
<1>3. CASE MFA!Register(r)
  BY <1>3, RegisterKeeps
<1>4. CASE MFA!IssueEnrollment(r)
  BY <1>1, <1>4, IssueKeeps DEF MFA!IssueEnrollment
<1>5. CASE MFA!Compensate(r)
  BY <1>1, <1>5, CompensateKeeps DEF MFA!Compensate
<1>6. CASE MFA!ClaimEnrollment(r)
  BY <1>6, ClaimKeeps
<1>7. CASE MFA!Gate(r)
  BY <1>7, GateKeeps
<1>8. CASE MFA!Confirm(r)
  BY <1>2, <1>8, ConfirmKeeps
<1>9. CASE MFA!RemovePendingTOTP(r)
  BY <1>9, RemovePendingKeeps
<1>10. CASE MFA!Cancel(r)
  BY <1>10, CancelKeeps
<1>11. CASE MFA!Finalize(r)
  BY <1>11, FinalizeKeeps
<1>12. CASE MFA!Remove(r)
  BY <1>12, RemoveKeeps
<1> QED
  BY <1>3, <1>4, <1>5, <1>6, <1>7, <1>8, <1>9, <1>10, <1>11, <1>12
     DEF MFA!Serve, MFA!BeginTOTPEnrollment, MFA!BeginPasskeyEnrollment, MFA!ClaimEnrollmentData,
         MFA!ConfirmTOTPEnrollment,
         MFA!ConfirmPasskeyEnrollment, MFA!CancelTOTPEnrollment, MFA!CancelPasskeyEnrollment, MFA!RemoveTOTP,
         MFA!RemovePasskey

LEMMA EnrollNext == MFA!EnrollmentAssumption /\ EnrollInv /\ [MFA!Next]_(MFA!enrollVars) => EnrollInv'
<1> SUFFICES ASSUME MFA!EnrollmentAssumption, EnrollInv, [MFA!Next]_(MFA!enrollVars)
             PROVE  EnrollInv'
  OBVIOUS
<1>1. CASE MFA!Next
  BY <1>1, ServeKeeps, CrashKeeps, WorkerStepKeeps, TimeKeeps, SecurityKeeps, TokensAndSlots DEF MFA!Next
<1>2. CASE UNCHANGED MFA!enrollVars
  BY <1>2 DEF MFA!enrollVars, EnrollInv, Shapes, Claims, ReqAt, Minted, TokenAt, Settled, SlotAt, Cleaning,
              WorkerAt,
              MFA!PendingCovered, MFA!ForeignBurns, MFA!At, InFlight
<1> QED
  BY <1>1, <1>2

\* The inductive invariant of the enrollments.
THEOREM EnrollmentInvariant == MFA!EnrollmentAssumption => (MFA!Spec => []EnrollInv)
<1> SUFFICES ASSUME MFA!EnrollmentAssumption PROVE MFA!Spec => []EnrollInv
  OBVIOUS
<1>1. MFA!Init => EnrollInv
  BY EnrollInit
<1>2. EnrollInv /\ [MFA!Next]_(MFA!enrollVars) => EnrollInv'
  BY EnrollNext
<1> QED
  BY <1>1, <1>2, PTL DEF MFA!Spec

\* The rows, keys and records keep the shape their stores can hold.
THEOREM EnrollmentTypes == MFA!EnrollmentAssumption => (MFA!Spec => []MFA!TypeOK)
<1> SUFFICES ASSUME MFA!EnrollmentAssumption PROVE MFA!Spec => []MFA!TypeOK
  OBVIOUS
<1>1. EnrollInv => MFA!TypeOK
  <2> SUFFICES ASSUME EnrollInv PROVE MFA!TypeOK
    OBVIOUS
  <2>1. Shapes /\ "none" \notin MFA!Tokens
    BY TokensAndSlots DEF EnrollInv
  <2>2. \A s \in MFA!Slots : /\ factor[s].state \in {"absent", "pending", "active"}
                             /\ (factor[s] = MFA!Absent) = (factor[s].by \notin MFA!Tokens)
    BY <2>1 DEF EnrollInv, Shapes, Factors, Settled, SlotAt, MFA!Absent
  <2>3. \A t \in MFA!Tokens \ MFA!Passkeys : work[t] = "none"
    BY DEF EnrollInv, Minted, TokenAt
  <2>4. \A r \in MFARequests : (req[r].pc = "finalize") = (req[r].mode \in MFA!Modes)
    BY DEF EnrollInv, Claims, ReqAt, MFA!At
  <2> QED
    BY <2>1, <2>2, <2>3, <2>4 DEF MFA!TypeOK, Shapes, Cleaners, Enrolls, MFALabels
<1> QED
  BY <1>1, EnrollmentInvariant, PTL

\* Every pending passkey at the provider can still be settled.
THEOREM PendingIsCovered == MFA!EnrollmentAssumption => (MFA!Spec => []MFA!PendingCovered)
<1> SUFFICES ASSUME MFA!EnrollmentAssumption PROVE MFA!Spec => []MFA!PendingCovered
  OBVIOUS
<1>1. EnrollInv => MFA!PendingCovered
  BY DEF EnrollInv
<1> QED
  BY <1>1, EnrollmentInvariant, PTL

\* A token that a foreign session presented is burned for its owner too.
THEOREM ForeignIsBurned == MFA!EnrollmentAssumption => (MFA!Spec => []MFA!ForeignBurns)
<1> SUFFICES ASSUME MFA!EnrollmentAssumption PROVE MFA!Spec => []MFA!ForeignBurns
  OBVIOUS
<1>1. EnrollInv => MFA!ForeignBurns
  BY DEF EnrollInv
<1> QED
  BY <1>1, EnrollmentInvariant, PTL

\* A passkey enrollment is in the hands of one request or of the workers.
THEOREM SingleActor == MFA!EnrollmentAssumption => (MFA!Spec => []MFA!OneActor)
<1> SUFFICES ASSUME MFA!EnrollmentAssumption PROVE MFA!Spec => []MFA!OneActor
  OBVIOUS
<1>1. EnrollInv => MFA!OneActor
  <2> USE MFACounts
  <2> SUFFICES ASSUME EnrollInv, NEW t \in MFA!Passkeys
               PROVE  LET calling == {r \in MFARequests : MFA!Op(r) # "begin" /\ MFA!Token(r) = t /\ MFA!At(r, "provider")}
                      IN  /\ Cardinality(calling) <= 1
                          /\ calling # {} => \A w \in Workers : worker[w].token # t
    BY DEF MFA!OneActor
  <2> DEFINE calling == {r \in MFARequests : MFA!Op(r) # "begin" /\ MFA!Token(r) = t /\ MFA!At(r, "provider")}
  <2>1. \A r \in calling : lock[t] = r /\ r \in MFARequests /\ r # "none"
    BY Calling, TokensAndSlots DEF MFA!At
  <2>2. calling \subseteq {lock[t]}
    BY <2>1
  <2>3. Cardinality(calling) <= 1
    <3>1. Cardinality({lock[t]}) = 1 /\ IsFiniteSet({lock[t]})
      BY FS_Singleton
    <3>2. Cardinality(calling) <= Cardinality({lock[t]})
      BY <2>2, <3>1, FS_Subset
    <3> QED
      BY <3>1, <3>2
  <2>4. calling # {} => lock[t] # "none"
    BY <2>1
  <2>5. ASSUME NEW w \in Workers, worker[w].token = t
        PROVE  lock[t] = "none"
    BY TokensAndSlots, <2>5 DEF EnrollInv, Cleaning, WorkerAt
  <2> QED
    BY <2>3, <2>4, <2>5
<1> QED
  BY <1>1, EnrollmentInvariant, PTL

\* What a step may take away from an active factor.
LEMMA ActiveRests ==
  ASSUME MFA!EnrollmentAssumption, EnrollInv, MFA!Next
  PROVE  MFA!ActiveKept
<1> SUFFICES ASSUME NEW s \in MFA!Slots, factor[s].state = "active", factor'[s].state # "active"
             PROVE  \/ \E r \in MFARequests : MFA!Op(r) = "remove" /\ MFA!Slot(MFA!Token(r)) = s /\ req[r].pc # req'[r].pc
                    \/ factor[s].by \in unsettled
                    \/ s = "totp" /\ \E t \in MFA!Tokens \ {factor[s].by} : MFA!Kind(t) = "totp" /\ factor'[s] = MFA!Absent
                         /\ \E r \in MFARequests : MFA!Token(r) = t /\ req[r].pc # req'[r].pc
  BY DEF MFA!ActiveKept
<1> DEFINE b == factor[s].by
<1> USE TokensAndSlots
<1>1. Shapes /\ factor[s] # MFA!Absent /\ SlotAt(s)
  BY DEF EnrollInv, Settled, MFA!Absent
<1>2. b \in MFA!Tokens /\ MFA!Slot(b) = s /\ MFA!At(b, "done")
  BY <1>1 DEF SlotAt
<1>3. factor' # factor
  OBVIOUS
<1>4. ASSUME NEW r \in MFARequests, NEW x \in MFA!Slots, factor' = MFA!Removed(x) \/ factor' = factor
      PROVE  x = s /\ factor'[s] = MFA!Absent
  BY <1>1, <1>4 DEF MFA!Removed, Shapes
<1>5. ASSUME NEW r \in MFARequests, NEW t \in MFA!Tokens, factor' = MFA!Activated(t) \/ factor' = factor,
             "ok" \in MFA!Verdicts(t)
      PROVE  FALSE
  BY <1>1, <1>5, <1>3 DEF MFA!Activated, Shapes, Factors
\* A request about another token of the slot: a TOTP, then.
<1>6. ASSUME NEW r \in MFARequests, MFA!Slot(MFA!Token(r)) = s, MFA!Token(r) # b, factor'[s] = MFA!Absent,
             req[r].pc # req'[r].pc
      PROVE  s = "totp" /\ \E t \in MFA!Tokens \ {b} : MFA!Kind(t) = "totp" /\ factor'[s] = MFA!Absent
                         /\ \E q \in MFARequests : MFA!Token(q) = t /\ req[q].pc # req'[q].pc
  BY <1>2, <1>6
<1>7. ASSUME NEW r \in MFARequests, req[r].pc \in {"provider", "cleanup"}, MFA!Token(r) = b
      PROVE  b \in unsettled
  BY <1>7, <1>1 DEF InFlight, MFA!At, SlotAt
<1>8. ASSUME NEW r \in MFARequests, NEW l \in MFALabels, NEW g, NEW m, NEW a, Became(r, l, g, m, a)
      PROVE  req[r].pc # l => req[r].pc # req'[r].pc
  BY <1>8 DEF Became
<1>9. ASSUME NEW r \in MFARequests, MFA!Serve(r)
      PROVE  \/ MFA!Register(r) \/ MFA!Compensate(r) \/ MFA!Confirm(r) \/ MFA!RemovePendingTOTP(r)
             \/ MFA!Cancel(r)
             \/ MFA!Remove(r)
  BY <1>3, <1>9
     DEF MFA!Serve, MFA!BeginTOTPEnrollment, MFA!BeginPasskeyEnrollment, MFA!ClaimEnrollmentData,
         MFA!ConfirmTOTPEnrollment,
         MFA!ConfirmPasskeyEnrollment, MFA!CancelTOTPEnrollment, MFA!CancelPasskeyEnrollment, MFA!RemoveTOTP,
         MFA!RemovePasskey,
         MFA!IssueEnrollment, MFA!ClaimEnrollment, MFA!Gate, MFA!Finalize
<1>10. ASSUME NEW r \in MFARequests, MFA!Register(r)
       PROVE  FALSE
  BY <1>3, <1>10, <1>1 DEF MFA!Register, Shapes
<1>11. ASSUME NEW r \in MFARequests, MFA!Compensate(r)
       PROVE  \E t \in MFA!Tokens \ {b} : MFA!Kind(t) = "totp" /\ factor'[s] = MFA!Absent /\ s = "totp"
                         /\ \E q \in MFARequests : MFA!Token(q) = t /\ req[q].pc # req'[q].pc
  <2>1. req[r].pc = "compensate" /\ MFA!Op(r) = "begin" /\ r \in MFA!Tokens /\ MFA!Token(r) = r /\ r # b
    BY <1>2, <1>11 DEF MFA!Compensate, MFA!At, EnrollInv, Claims, ReqAt, MFA!EnrollmentAssumption
  <2>2. MFA!Slot(r) = s /\ factor'[s] = MFA!Absent
    BY <1>3, <1>4, <1>11, <2>1 DEF MFA!Compensate
  <2>3. req[r].pc # req'[r].pc
    BY <1>1, <1>11, <2>1, Moves DEF MFA!Compensate, Became, MFA!Answers
  <2> QED
    BY <1>6, <2>1, <2>2, <2>3
<1>12. ASSUME NEW r \in MFARequests, MFA!Confirm(r)
       PROVE  FALSE
  BY <1>3, <1>12, <1>5 DEF MFA!Confirm, MFA!ProviderLost
<1>13. ASSUME NEW r \in MFARequests, MFA!RemovePendingTOTP(r) \/ MFA!Cancel(r)
       PROVE  \/ b \in unsettled
              \/ s = "totp" /\ \E t \in MFA!Tokens \ {b} : MFA!Kind(t) = "totp" /\ factor'[s] = MFA!Absent
                         /\ \E q \in MFARequests : MFA!Token(q) = t /\ req[q].pc # req'[q].pc
  <2>1. req[r].pc \in {"provider", "cleanup"} /\ MFA!Slot(MFA!Token(r)) \in MFA!Slots
        /\ (MFA!RemovePendingTOTP(r) => MFA!Slot(MFA!Token(r)) = "totp")
    BY <1>13, Calling DEF MFA!RemovePendingTOTP, MFA!Cancel, MFA!At, ReqAt
  <2>2. factor' = MFA!Removed(MFA!Slot(MFA!Token(r)))
    BY <1>3, <1>13, <2>1 DEF MFA!RemovePendingTOTP, MFA!Cancel, MFA!ProviderLost
  <2>3. MFA!Slot(MFA!Token(r)) = s /\ factor'[s] = MFA!Absent
    BY <1>4, <2>1, <2>2
  <2>4. req[r].pc # req'[r].pc
    BY <1>13, <1>1, <2>1, Moves DEF MFA!RemovePendingTOTP, MFA!Cancel, MFA!ProviderLost, MFA!Modes,
       MFA!Answers, MFA!SettleEnrollment, Became
  <2> QED
    BY <1>6, <1>7, <2>1, <2>3, <2>4
<1>14. ASSUME NEW r \in MFARequests, MFA!Remove(r)
       PROVE  MFA!Op(r) = "remove" /\ MFA!Slot(MFA!Token(r)) = s /\ req[r].pc # req'[r].pc
  BY <1>14, <1>4, <1>1, Moves DEF MFA!Remove, MFA!At, Became, MFA!Answers
<1>15. ASSUME NEW w \in Workers, MFA!WorkerStep(w)
       PROVE  FALSE
  <2>1. MFA!RemoveAbandoned(w)
    BY <1>3, <1>15 DEF MFA!WorkerStep, MFA!ClaimExpiredPasskeyEnrollments, MFA!ListPasskeys,
                       MFA!CompletePasskeyEnrollmentCleanup
  <2>2. /\ WorkerAt(w) /\ worker[w].at = "remove" /\ worker[w].token \in MFA!Passkeys
        /\ factor' = factor \/ factor' = MFA!Removed(worker[w].token)
    BY <1>1, <2>1 DEF MFA!RemoveAbandoned, EnrollInv, Cleaning, WorkerAt, Shapes, Cleaners
  <2>3. factor[worker[w].token].state # "active"
    BY <2>2 DEF WorkerAt
  <2>4. worker[w].token # s
    BY <2>3
  <2> QED
    BY <1>1, <1>3, <2>2, <2>4 DEF MFA!Removed, Shapes
<1>16. CASE \E r \in MFARequests : MFA!Serve(r)
  BY <1>9, <1>10, <1>11, <1>12, <1>13, <1>14, <1>16
<1>17. CASE ~\E r \in MFARequests : MFA!Serve(r)
  BY <1>3, <1>15, <1>17
     DEF MFA!Next, MFA!CrashRequest, MFA!CrashWorker, MFA!TokenExpires, MFA!LockExpires,
         MFA!CleanupLeaseExpires, MFA!SecurityChange
<1> QED
  BY <1>16, <1>17

\* An active factor is not removed by the worker, nor by a request that comes
\* late, but for those whose own settlement was lost.
THEOREM ActiveStays == MFA!EnrollmentAssumption => (MFA!Spec => [][MFA!WorkerSpares /\ MFA!ActiveKept]_(MFA!enrollVars))
<1> SUFFICES ASSUME MFA!EnrollmentAssumption PROVE MFA!Spec => [][MFA!WorkerSpares /\ MFA!ActiveKept]_(MFA!enrollVars)
  OBVIOUS
<1>1. EnrollInv /\ [MFA!Next]_(MFA!enrollVars) => [MFA!WorkerSpares /\ MFA!ActiveKept]_(MFA!enrollVars)
  <2> SUFFICES ASSUME EnrollInv, MFA!Next
               PROVE  MFA!WorkerSpares /\ MFA!ActiveKept
    OBVIOUS
  <2>1. ASSUME NEW w \in Workers, NEW t \in MFA!Passkeys, MFA!RemoveAbandoned(w), worker[w].token = t,
               factor[t].state = "active"
        PROVE  FALSE
    BY <2>1, TokensAndSlots DEF EnrollInv, Cleaning, MFA!RemoveAbandoned, WorkerAt
  <2> QED
    BY <2>1, ActiveRests DEF MFA!WorkerSpares
<1> QED
  BY <1>1, EnrollmentInvariant, PTL DEF MFA!Spec

-----------------------------------------------------------------------------
(***************************************************************************)
(* Theorems about WeChatOnboarding.  A request that holds a challenge, or  *)
(* has consumed it, or is about to revoke its provider session is engaged  *)
(* with it; unless a live request has lost the lock, there is at most one. *)
(* The cleanup worker comes to a provider session only when neither the    *)
(* challenge nor a promotion is there, and neither returns.                *)
(***************************************************************************)
CONSTANTS
  Subjects,     \* WeChat identities
  PhoneOf,      \* the phone WeChat verifies for each of them
  MaxVersion,   \* model bound: versions of an account
  WXRequests,   \* the HTTP requests that may arrive, each once
  WXInputs,     \* what each of them asks for
  WXScenarios,  \* model bound: the requests of a run and the accounts it finds
  WXWorkers     \* cleanup workers, one per API instance

VARIABLES
  account,     \* database: version, status, WeChat link and phone of each account
  obligation,  \* Redis: provider sessions with an encrypted revocation obligation
  due,         \* Redis: the index of obligations
  promotion,   \* Redis: the live promotion leases
  promoted,    \* Redis: the tombstones of completed promotions
  lease,       \* Redis: the worker that holds the cleanup claim
  provider,    \* provider sessions, by completion
  native,      \* native sessions, by the request that created them
  registered,  \* history: reservations made with each token
  moved,       \* history: completions whose account changed since its lookup
  lapsed       \* history: challenges whose lock a live request has lost

WX == INSTANCE WeChatOnboarding WITH Requests <- WXRequests, InputOf <- WXInputs, Scenarios <- WXScenarios, Workers <- WXWorkers

\* Onboarding counts as the standard modules do.
LEMMA WXCounts ==
  \A S : WX!Cardinality(S) = Cardinality(S) /\ (WX!IsFiniteSet(S) <=> IsFiniteSet(S))
BY DEF WX!Cardinality, WX!IsFiniteSet, Cardinality, IsFiniteSet
USE WXCounts

\* The lists of chores of a failing request, and what is left of them.
Lists == {<<>>, <<"drop">>, <<"release">>, <<"revoke">>, <<"drop", "revoke">>,
          <<"revoke", "drop">>, <<"revoke", "release">>, <<"schedule", "revoke">>,
          <<"schedule", "unsession", "revoke">>, <<"unsession", "revoke">>}
Left(list) == {list[i] : i \in DOMAIN list}

Records == [version : Nat \ {0}, active : BOOLEAN, link : Subjects \cup {"none"},
            phone : WX!Phones, verified : BOOLEAN]
Visits    == [pc : WX!Labels, seen : Nat \cup WX!Accounts, mfa : BOOLEAN, todo : Lists,
            answer : WX!Answers \cup {"none"}]
Tasks   == [pc : {"idle", "revoke", "complete", "retry"}, of : WX!Completes \cup {"none"}]

Wholes ==
  /\ account \in [WX!Accounts -> Records]
  /\ chal \subseteq WX!Tokens /\ holder \in [WX!Tokens -> WXRequests \cup {"none"}]
  /\ attempts \in [WX!Tokens -> Nat]
  /\ obligation \subseteq due /\ due \subseteq WX!Completes
  /\ promotion \subseteq obligation
  /\ promoted \subseteq WX!Completes /\ promoted \cap obligation = {}
  /\ lease \in [WX!Completes -> WXWorkers \cup {"none"}]
  /\ provider \in [WX!Completes -> {"none", "open", "closed"}]
  /\ native \in [WXRequests -> {"none", "live", "gone"}]
  /\ work \in [WXWorkers -> Tasks]
  /\ run \in [WXRequests -> Visits]
  /\ registered \in [WX!Tokens -> Nat] /\ moved \subseteq WX!Completes /\ lapsed \subseteq WX!Tokens
  /\ leaked \subseteq WX!Completes /\ faults \in 0 .. MaxFaults

\* Each request moves a version, and counts an attempt, at most once.
Bound   == {"federated", "consume", "session", "promote", "tidy", "done"}
Scored  == {"free", "tidy", "done"}
Passed  == {r \in WXRequests : run[r].pc \in Bound}
Judged  == {r \in WXRequests : run[r].pc \in Scored}
Counted == /\ \A a \in WX!Accounts : account[a].version <= MaxVersion + Cardinality(Passed)
           /\ \A t \in WX!Tokens : attempts[t] <= Cardinality(Judged)

\* A token is presented only after it has been handed out.
Issued(t)   == WX!At(t, "done") /\ run[t].answer \in {"onboarding", "mfa"}
Rewarded(r) == run[r].answer \in {"session", "mfa", "registered"}

BeginAt(r) ==
  /\ run[r].pc \in {"idle", "phone", "federated", "create", "done"}
  /\ run[r].answer \notin {"mfa", "registered"}
  /\ native[r] # "gone"

CompleteAt(r) ==
  /\ run[r].pc \notin {"phone", "federated", "create", "judge", "promote"}
  /\ run[r].answer # "onboarding"
  /\ run[r].pc \notin {"idle", "tidy", "done"} => WX!Of(r) \in WX!Begins
  /\ run[r].pc \in {"idle", "lookup", "register"} \/ WX!Account(r) = "new" => run[r].seen = 0
  /\ run[r].pc \in {"password", "bind", "challenge", "count", "free", "session"}
     => WX!Account(r) \in WX!Accounts
  /\ WX!At(r, "register") => WX!Account(r) = "new"
  /\ run[r].mfa => /\ run[r].pc \in {"consume", "tidy", "done"} /\ WX!Of(r) \in WX!Begins
                   /\ WX!Account(r) \in WX!Accounts /\ run[r].answer # "session"
  /\ run[r].answer = "mfa" => run[r].mfa
  /\ "unsession" \notin Left(run[r].todo) /\ native[r] # "gone"

MFAAt(r) ==
  /\ run[r].pc \in {"idle", "judge", "count", "free", "bind", "consume", "session", "promote",
                    "tidy", "done"}
  /\ run[r].answer \notin {"onboarding", "mfa", "registered"} /\ ~run[r].mfa
  /\ run[r].pc \notin {"idle", "tidy", "done"} \/ run[r].answer = "session" => WX!Of(r) \in WX!Completes
  /\ WX!At(r, "bind") => run[r].seen = run[WX!Of(r)].seen
  /\ WX!At(r, "promote") => native[r] = "live"
  /\ native[r] = "gone" => run[r].pc \in {"tidy", "done"}

\* Which steps a request can be at, by what it asks for.
PlaceAt(r) ==
  /\ WX!Op(r) = "begin" => BeginAt(r)
  /\ WX!Op(r) = "complete" => CompleteAt(r)
  /\ WX!Op(r) = "mfa" => MFAAt(r)
  /\ run[r].answer # "none" => run[r].pc \in {"tidy", "done"}
  /\ WX!At(r, "tidy") => run[r].answer \in {"refused", "internal"}
  /\ WX!Op(r) # "begin" /\ (WX!Busy(r) \/ Rewarded(r)) => Issued(WX!Of(r))
Placed == \A r \in WXRequests : PlaceAt(r)

\* A request whose session lives, or that will still revoke the provider's.
Backs(r) == native[r] = "live" \/ (WX!At(r, "tidy") /\ "revoke" \in Left(run[r].todo))

\* What there is of a completion's provider session and challenge.
StoredAt(c) ==
  /\ run[c].pc \in {"idle", "lookup", "password", "register", "count", "free"} \/ WX!Account(c) = "new"
       => provider[c] = "none"
  /\ WX!Of(c) \notin WX!Begins => provider[c] = "none"
  /\ run[c].pc \in {"bind", "challenge", "session"} \/ run[c].answer = "session"
       => provider[c] = "open"
  /\ WX!At(c, "consume") /\ ~run[c].mfa /\ WX!Account(c) # "new" => provider[c] = "open"
  /\ c \in chal \cup obligation => run[c].mfa \/ run[c].answer = "internal"
  /\ c \in obligation => provider[c] # "none"
  /\ run[c].mfa => c \in obligation \cup promoted \/ provider[c] = "closed"
  /\ provider[c] = "open" /\ ~run[c].mfa =>
       c \in leaked \/ Backs(c) \/ run[c].pc \in {"bind", "challenge", "consume", "session"}
  /\ provider[c] = "open" /\ c \in promoted =>
       c \in leaked \/ \E m \in WXRequests : WX!Op(m) = "mfa" /\ WX!Of(m) = c /\ Backs(m)
  /\ c \in promotion \cup promoted => c \notin chal /\ Issued(c)
WXStored == /\ \A c \in WX!Completes : StoredAt(c)
            /\ \A t \in chal : run[t].pc \in {"consume", "tidy", "done"}

\* Who has been given what the token is worth.
Earned(r) == WX!Op(r) # "begin" /\ (run[r].pc \in {"session", "promote"} \/ Rewarded(r))
Spent == /\ \A r \in WXRequests : Earned(r) => WX!Of(r) \notin chal
         /\ \A p, q \in WXRequests : Earned(p) /\ Earned(q) /\ WX!Of(p) = WX!Of(q) => p = q

Holding(r) == WX!Op(r) # "begin" /\ run[r].pc \in {"judge", "lookup", "password", "register", "bind",
                                                   "challenge", "count", "free", "consume"}
Engaged(r) == Holding(r) \/ Earned(r) \/ (WX!At(r, "tidy") /\ "revoke" \in Left(run[r].todo))
EngagedAt(r) ==
  WX!Of(r) \notin lapsed => /\ holder[WX!Of(r)] = r \/ WX!Of(r) \notin chal
                            /\ Holding(r) => holder[WX!Of(r)] = r
Exclusive == /\ \A r \in WXRequests : Engaged(r) => EngagedAt(r)
             /\ \A p, q \in WXRequests : Engaged(p) /\ Engaged(q) /\ WX!Of(p) = WX!Of(q)
                                         /\ WX!Of(p) \notin lapsed => p = q

\* What the second step relies on while it has the lock, and afterwards.
ReliesAt(r) ==
  LET c == WX!Of(r) IN
  c \notin lapsed =>
    /\ Holding(r) => /\ c \notin promoted /\ \A w \in WXWorkers : work[w].of # c
                     /\ run[r].pc \in {"bind", "consume"} => provider[c] = "open"
    /\ run[r].pc \in {"session", "promote"} =>
         c \notin promoted /\ (c \in promotion => provider[c] = "open")
    /\ run[r].answer = "session" => c \in promoted /\ provider[c] = "open"
Relied == \A r \in WXRequests : WX!Op(r) = "mfa" /\ WX!Of(r) \in WX!Completes => ReliesAt(r)

\* What a cleanup worker has found stays so.
WorkAt(w) ==
  LET c == work[w].of IN
  /\ c = "none" <=> work[w].pc = "idle"
  /\ c # "none" => /\ run[c].mfa \/ run[c].answer = "internal"
                   /\ c \notin chal \cup promotion \cup promoted /\ provider[c] # "none"
  /\ work[w].pc = "complete" => provider[c] = "closed"
Sweeping == \A w \in WXWorkers : WorkAt(w)

\* A version only grows; an account that moves leaves its readers behind.
SeenAt(c) ==
  /\ run[c].seen # 0 => /\ WX!Account(c) \in WX!Accounts /\ run[c].seen \in Nat
                        /\ run[c].seen <= account[WX!Account(c)].version
  /\ c \in moved => run[c].seen # 0 /\ run[c].seen < account[WX!Account(c)].version
Versioned == \A c \in WX!Completes : SeenAt(c)

OnboardingInv ==
  Wholes /\ Counted /\ Placed /\ WXStored /\ Spent /\ Exclusive /\ Relied /\ Sweeping /\ Versioned
    /\ WX!LinksOneToOne

-----------------------------------------------------------------------------
(* What the steps are made of *)

LEMMA Inputs ==
  ASSUME WX!OnboardingAssumption
  PROVE  /\ WX!Begins \subseteq WX!Tokens /\ WX!Completes \subseteq WX!Tokens
         /\ WX!Tokens \subseteq WXRequests
         /\ "none" \notin WXRequests /\ "none" \notin WXWorkers
         /\ "none" \notin WX!Accounts /\ "new" \notin WX!Accounts
         /\ \A r \in WXRequests :
              /\ WX!Op(r) \in {"begin", "complete", "mfa"}
              /\ r \in WX!Begins <=> WX!Op(r) = "begin"
              /\ r \in WX!Completes <=> WX!Op(r) = "complete"
              /\ WX!Op(r) # "begin" => WX!Of(r) \in WX!Tokens
              /\ WX!Op(r) = "complete"
                 => WX!Account(r) \in WX!Accounts \cup {"new"} /\ WX!Account(r) = WXInputs[r].account
         /\ \A t \in WX!Tokens : t \in WX!Completes <=> t \notin WX!Begins
         /\ MaxAttempts \in Nat /\ MaxVersion \in Nat \ {0} /\ MaxFaults \in Nat
         /\ \A s \in Subjects : PhoneOf[s] \in WX!Phones
         /\ \A b \in WX!Begins : WX!Subject(b) \in Subjects
BY DEF WX!OnboardingAssumption, WX!Begins, WX!Completes, WX!Tokens, WX!Account, WX!Phones, WX!Subject

LEMMA ListFacts ==
  /\ \A x \in WX!Chores : <<x>> \in Lists => Left(<<x>>) = {x}
  /\ Left(<<>>) = {}
  /\ \A x, y \in WX!Chores : <<x, y>> \in Lists => Left(<<x, y>>) = {x, y}
  /\ \A x, y, z \in WX!Chores : <<x, y, z>> \in Lists => Left(<<x, y, z>>) = {x, y, z}
<1>1. Left(<<>>) = {}
  BY DEF Left
<1>2. \A x : Left(<<x>>) = {x}
  <2> TAKE x
  <2>1. DOMAIN <<x>> = {1} /\ <<x>>[1] = x
    OBVIOUS
  <2> QED
    BY <2>1 DEF Left
<1>3. \A x, y : Left(<<x, y>>) = {x, y}
  <2> TAKE x, y
  <2>1. DOMAIN <<x, y>> = {1, 2} /\ <<x, y>>[1] = x /\ <<x, y>>[2] = y
    OBVIOUS
  <2> QED
    BY <2>1 DEF Left
<1>4. \A x, y, z : Left(<<x, y, z>>) = {x, y, z}
  <2> TAKE x, y, z
  <2>1. DOMAIN <<x, y, z>> = {1, 2, 3} /\ <<x, y, z>>[1] = x /\ <<x, y, z>>[2] = y
          /\ <<x, y, z>>[3] = z
    OBVIOUS
  <2> QED
    BY <2>1 DEF Left
<1> QED
  BY <1>1, <1>2, <1>3, <1>4

\* What is left of a list when its first chore is done.
LEMMA Tails ==
  ASSUME NEW list \in Lists, list # <<>>
  PROVE  /\ Tail(list) \in Lists /\ Left(Tail(list)) \subseteq Left(list)
         /\ Head(list) \in Left(list) /\ Left(list) \subseteq Left(Tail(list)) \cup {Head(list)}
         /\ Head(list) = "unsession" => "revoke" \in Left(Tail(list))
         /\ Head(list) = "release" => Left(Tail(list)) = {}
<1>1. \A x : Head(<<x>>) = x /\ Tail(<<x>>) = <<>>
  OBVIOUS
<1>2. \A x, y : Head(<<x, y>>) = x /\ Tail(<<x, y>>) = <<y>>
  OBVIOUS
<1>3. \A x, y, z : Head(<<x, y, z>>) = x /\ Tail(<<x, y, z>>) = <<y, z>>
  OBVIOUS
<1> DEFINE Fine(s) == /\ Tail(s) \in Lists /\ Left(Tail(s)) \subseteq Left(s)
                      /\ Head(s) \in Left(s) /\ Left(s) \subseteq Left(Tail(s)) \cup {Head(s)}
                      /\ Head(s) = "unsession" => "revoke" \in Left(Tail(s))
                      /\ Head(s) = "release" => Left(Tail(s)) = {}
<1>4. \A x \in {"drop", "release", "revoke"} : Fine(<<x>>)
  BY <1>1, ListFacts DEF Lists, WX!Chores
<1>5. /\ Fine(<<"drop", "revoke">>) /\ Fine(<<"revoke", "drop">>) /\ Fine(<<"revoke", "release">>)
      /\ Fine(<<"schedule", "revoke">>) /\ Fine(<<"unsession", "revoke">>)
  BY <1>2, ListFacts DEF Lists, WX!Chores
<1>6. Fine(<<"schedule", "unsession", "revoke">>)
  BY <1>3, ListFacts DEF Lists, WX!Chores
<1> QED
  BY ZenonT(120), <1>4, <1>5, <1>6 DEF Lists

\* What a request becomes by a step of its own.
Turned(r, l, s, m, d, a) ==
  /\ run' \in [WXRequests -> Visits]
  /\ run'[r].pc = l /\ run'[r].seen = s /\ run'[r].mfa = m /\ run'[r].todo = d /\ run'[r].answer = a
  /\ \A q \in WXRequests \ {r} : run'[q] = run[q]

LEMMA Turns ==
  ASSUME Wholes, NEW r \in WXRequests
  PROVE  /\ \A l \in WX!Labels : WX!To(r, l) =>
              Turned(r, l, run[r].seen, run[r].mfa, run[r].todo, run[r].answer)
         /\ \A a \in WX!Answers : WX!Answer(r, a) =>
              Turned(r, "done", run[r].seen, run[r].mfa, run[r].todo, a)
         /\ \A d \in Lists, a \in WX!Answers : WX!Tidying(r, d, a) =>
              Turned(r, "tidy", run[r].seen, run[r].mfa, d, a)
<1>1. run \in [WXRequests -> Visits]
  BY DEF Wholes
<1>2. ASSUME NEW l \in WX!Labels, WX!To(r, l)
      PROVE  Turned(r, l, run[r].seen, run[r].mfa, run[r].todo, run[r].answer)
  BY <1>1, <1>2 DEF WX!To, Visits, Turned
<1>3. ASSUME NEW a \in WX!Answers, WX!Answer(r, a)
      PROVE  Turned(r, "done", run[r].seen, run[r].mfa, run[r].todo, a)
  BY ZenonT(120), <1>1, <1>3 DEF WX!Answer, Visits, WX!Labels, Turned
<1>4. ASSUME NEW d \in Lists, NEW a \in WX!Answers, WX!Tidying(r, d, a)
      PROVE  Turned(r, "tidy", run[r].seen, run[r].mfa, d, a)
  BY ZenonT(120), <1>1, <1>4 DEF WX!Tidying, Visits, WX!Labels, Turned
<1> QED
  BY <1>2, <1>3, <1>4

LEMMA Chored ==
  ASSUME Wholes, NEW r \in WXRequests, NEW x, WX!Chore(r, x), WX!Next1(r)
  PROVE  /\ Turned(r, "tidy", run[r].seen, run[r].mfa, Tail(run[r].todo), run[r].answer)
         /\ Tail(run[r].todo) \in Lists /\ Left(Tail(run[r].todo)) \subseteq Left(run[r].todo)
         /\ x \in Left(run[r].todo) /\ Left(run[r].todo) \subseteq Left(Tail(run[r].todo)) \cup {x}
         /\ x = "unsession" => "revoke" \in Left(Tail(run[r].todo))
         /\ x = "release" => Left(Tail(run[r].todo)) = {}
  BY ZenonT(120), Tails DEF Wholes, Visits, WX!Chore, WX!Next1, WX!At, Turned

LEMMA WXFaults ==
  ASSUME WX!OnboardingAssumption, Wholes, WX!NoFault \/ WX!Fault
  PROVE  faults' \in 0 .. MaxFaults
BY Inputs DEF Wholes, WX!NoFault, WX!Fault

LEMMA OnboardingInit == WX!OnboardingAssumption /\ WX!Init => OnboardingInv
<1> SUFFICES ASSUME WX!OnboardingAssumption, WX!Init PROVE OnboardingInv
  OBVIOUS
<1> USE Inputs
<1>1. PICK s \in WXScenarios :
        /\ account = s.accounts
        /\ run = [r \in WXRequests |-> [pc |-> IF r \in s.requests THEN "idle" ELSE "done",
                                      seen |-> 0, mfa |-> FALSE, todo |-> <<>>, answer |-> "none"]]
  BY DEF WX!Init
<1>2. \A r \in WXRequests : /\ run[r].pc \in {"idle", "done"} /\ run[r].seen = 0 /\ ~run[r].mfa
                            /\ run[r].todo = <<>> /\ run[r].answer = "none"
  BY <1>1
<1>3. account \in [WX!Accounts -> [version : 1 .. MaxVersion, active : BOOLEAN,
            link : Subjects \cup {"none"}, phone : WX!Phones, verified : BOOLEAN]] /\ WX!OneToOne(account)
  BY <1>1 DEF WX!OnboardingAssumption
<1>4. account \in [WX!Accounts -> Records] /\ \A a \in WX!Accounts : account[a].version \in 1 .. MaxVersion
  BY <1>3 DEF Records
<1>5. run \in [WXRequests -> Visits]
  BY <1>1 DEF Visits, WX!Labels, Lists
<1>6. Wholes
  BY <1>4, <1>5 DEF WX!Init, Wholes, Tasks, WX!Idle
<1>7. Counted
  <2>1. IsFiniteSet(Passed) /\ IsFiniteSet(Judged)
    BY FS_Subset DEF WX!OnboardingAssumption, Passed, Judged
  <2>2. Cardinality(Passed) \in Nat /\ Cardinality(Judged) \in Nat
    BY <2>1, FS_CardinalityType
  <2> QED
    BY <1>4, <2>2 DEF Counted, WX!Init
<1>8. Placed
  BY <1>2, ListFacts DEF Placed, PlaceAt, BeginAt, CompleteAt, MFAAt, WX!At, WX!Busy, Rewarded, WX!Init
<1>9. WXStored
  BY <1>2 DEF WXStored, StoredAt, Backs, WX!Init, WX!At
<1>10. Spent
  BY <1>2 DEF Spent, Earned, Rewarded
<1>11. Exclusive
  BY <1>2, ListFacts DEF Exclusive, Engaged, Holding, Earned, Rewarded, WX!At
<1>12. Relied
  BY <1>2 DEF Relied, ReliesAt, Holding
<1>13. Sweeping
  BY DEF Sweeping, WorkAt, WX!Idle, WX!Init
<1>14. Versioned
  BY <1>2 DEF Versioned, SeenAt, WX!Init
<1> QED
  BY <1>3, <1>6, <1>7, <1>8, <1>9, <1>10, <1>11, <1>12, <1>13, <1>14 DEF OnboardingInv, WX!LinksOneToOne

-----------------------------------------------------------------------------
(* What a step of a request does to each part of the invariant *)

\* A token that has been handed out stays so; its request is over.
LEMMA StaysIssued ==
  ASSUME WX!OnboardingAssumption, OnboardingInv, NEW r \in WXRequests, NEW l, NEW s, NEW m, NEW d, NEW a,
         Turned(r, l, s, m, d, a), ~WX!At(r, "done")
  PROVE  /\ ~Issued(r)
         /\ \A q \in WXRequests : Issued(q) => q # r /\ run'[q] = run[q] /\ Issued(q)'
         /\ \A q \in WXRequests : WX!Op(q) # "begin" /\ (WX!Busy(q) \/ Rewarded(q)) =>
              WX!Of(q) \in WX!Tokens /\ WX!Of(q) \in WXRequests /\ Issued(WX!Of(q)) /\ WX!Of(q) # r
  BY Inputs DEF Issued, Turned, WX!At, OnboardingInv, Placed, PlaceAt

LEMMA PlacedKeeps ==
  ASSUME WX!OnboardingAssumption, OnboardingInv, NEW r \in WXRequests, NEW l, NEW s, NEW m, NEW d, NEW a,
         Turned(r, l, s, m, d, a), ~WX!At(r, "done"), PlaceAt(r)',
         \A q \in WXRequests : q # r => native'[q] = native[q]
  PROVE  Placed'
<1> SUFFICES ASSUME NEW q \in WXRequests, q # r PROVE PlaceAt(q)'
  BY DEF Placed
<1>1. PlaceAt(q) /\ run'[q] = run[q] /\ native'[q] = native[q]
  BY DEF OnboardingInv, Placed, Turned
<1>2. BeginAt(q) => BeginAt(q)'
  BY <1>1 DEF BeginAt
<1>3. CompleteAt(q) => CompleteAt(q)'
  BY <1>1 DEF CompleteAt, WX!At
<1>4. WX!Op(q) # "begin" /\ (WX!Busy(q) \/ Rewarded(q)) => run'[WX!Of(q)] = run[WX!Of(q)] /\ Issued(WX!Of(q))'
  BY StaysIssued
<1>5. WX!Op(q) = "mfa" /\ MFAAt(q) => MFAAt(q)'
  BY <1>1, <1>4 DEF WX!At, WX!Busy, MFAAt
<1> QED
  BY <1>1, <1>2, <1>3, <1>4, <1>5 DEF PlaceAt, WX!At, WX!Busy, Rewarded

LEMMA SpentKeeps ==
  ASSUME WX!OnboardingAssumption, OnboardingInv, NEW r \in WXRequests, NEW l, NEW s, NEW m, NEW d, NEW a,
         Turned(r, l, s, m, d, a), ~WX!At(r, "done"), chal' \subseteq chal \cup {r},
         Earned(r)' => Earned(r) \/ (WX!Consumable(r) /\ WX!Of(r) \notin chal')
  PROVE  Spent'
<1>1. \A q \in WXRequests : q # r => (Earned(q)' <=> Earned(q))
  BY DEF Turned, Earned, Rewarded
<1>2. \A q \in WXRequests : Earned(q) => WX!Of(q) # r /\ WX!Of(q) \notin chal
  BY StaysIssued DEF Earned, WX!Busy, OnboardingInv, Spent
<1>3. \A q \in WXRequests : Earned(q)' => WX!Of(q) \notin chal'
  BY <1>1, <1>2
<1>4. ASSUME NEW p \in WXRequests, NEW q \in WXRequests, Earned(p)', Earned(q)', WX!Of(p) = WX!Of(q)
      PROVE  p = q
  BY <1>1, <1>2, <1>4 DEF OnboardingInv, Spent, WX!Consumable
<1> QED
  BY <1>3, <1>4 DEF Spent

LEMMA ExclusiveKeeps ==
  ASSUME WX!OnboardingAssumption, OnboardingInv, NEW r \in WXRequests, NEW l, NEW s, NEW m, NEW d, NEW a,
         Turned(r, l, s, m, d, a), ~WX!At(r, "done"), chal' \subseteq chal \cup {r},
         lapsed \subseteq lapsed',
         \A t \in WX!Tokens : holder'[t] # holder[t] => holder[t] \in {r, "none"},
         Engaged(r)' => (Engaged(r) \/ WX!ClaimFree(WX!Of(r))) /\ EngagedAt(r)'
  PROVE  Exclusive'
<1> USE Inputs
<1>1. \A q \in WXRequests : q # r => (Engaged(q)' <=> Engaged(q)) /\ (Holding(q)' <=> Holding(q))
  BY DEF Turned, Engaged, Earned, Rewarded, Holding, WX!At
<1>2. \A q \in WXRequests : Engaged(q) /\ WX!Op(q) # "begin" => WX!Of(q) \in WX!Tokens /\ WX!Of(q) # r
  BY StaysIssued DEF Engaged, Holding, Earned, WX!Busy, WX!At
<1>3. \A q \in WXRequests : WX!Op(q) = "begin" => ~Engaged(q)
  BY DEF OnboardingInv, Placed, PlaceAt, BeginAt, Engaged, Holding, Earned, WX!At
<1>4. ASSUME NEW q \in WXRequests, q # r, Engaged(q)'
      PROVE  EngagedAt(q)'
  BY <1>1, <1>4, <1>2, <1>3 DEF OnboardingInv, Exclusive, EngagedAt
<1>5. ASSUME NEW q \in WXRequests, q # r, Engaged(q), Engaged(r)', WX!Of(q) = WX!Of(r),
             WX!Of(r) \notin lapsed'
      PROVE  FALSE
  BY <1>5 DEF OnboardingInv, Exclusive, EngagedAt, WX!ClaimFree
<1>6. ASSUME NEW p \in WXRequests, NEW q \in WXRequests, Engaged(p)', Engaged(q)', WX!Of(p) = WX!Of(q),
             WX!Of(p) \notin lapsed'
      PROVE  p = q
  BY <1>1, <1>6, <1>5 DEF OnboardingInv, Exclusive
<1> QED
  BY <1>4, <1>6 DEF Exclusive

\* A provider session is closed for a request that is engaged with its token.
LEMMA ReliedKeeps ==
  ASSUME WX!OnboardingAssumption, OnboardingInv, NEW r \in WXRequests, NEW l, NEW s, NEW m, NEW d, NEW a,
         Turned(r, l, s, m, d, a), ~WX!At(r, "done"), lapsed \subseteq lapsed', UNCHANGED work,
         promoted \subseteq promoted',
         promoted' # promoted => promoted' \subseteq promoted \cup {WX!Of(r)} /\ Engaged(r),
         promotion' \subseteq promotion \cup chal,
         \A c \in WX!Completes : provider'[c] # provider[c] => c = r \/ (WX!Of(r) = c /\ Engaged(r)),
         WX!Op(r) = "mfa" /\ WX!Of(r) \in WX!Completes => ReliesAt(r)'
  PROVE  Relied'
<1> USE Inputs
<1> SUFFICES ASSUME NEW q \in WXRequests, q # r, WX!Op(q) = "mfa", WX!Of(q) \in WX!Completes PROVE ReliesAt(q)'
  BY DEF Relied
<1> DEFINE c == WX!Of(q)
<1>1. ReliesAt(q) /\ run'[q] = run[q]
  BY DEF OnboardingInv, Relied, Turned
<1> SUFFICES ASSUME c \notin lapsed' PROVE ReliesAt(q)'
  BY DEF ReliesAt
<1>2. Holding(q) \/ Earned(q) => Engaged(q) /\ c # r
  BY StaysIssued DEF Holding, Earned, WX!Busy, Engaged
<1>3. Earned(q) => c \notin chal
  BY DEF OnboardingInv, Spent
<1>4. Engaged(q) /\ Engaged(r) => WX!Of(r) # c
  BY DEF OnboardingInv, Exclusive
<1>5. Holding(q) \/ Earned(q) => provider'[c] = provider[c] /\ (c \in promoted' <=> c \in promoted)
  BY <1>2, <1>4
<1>6. Holding(q)' <=> Holding(q)
  BY <1>1 DEF Holding
<1>7. CASE Holding(q)
  BY <1>7, <1>1, <1>5 DEF Holding, OnboardingInv, Placed, PlaceAt, ReliesAt
<1>8. CASE ~Holding(q) /\ Earned(q)
  BY <1>1, <1>3, <1>5, <1>6, <1>8 DEF ReliesAt
<1>9. CASE ~Holding(q) /\ ~Earned(q)
  BY <1>1, <1>6, <1>9 DEF ReliesAt, Earned, Rewarded
<1> QED
  BY <1>7, <1>8, <1>9

LEMMA WorkingKeeps ==
  ASSUME WX!OnboardingAssumption, OnboardingInv, NEW r \in WXRequests, NEW l, NEW s, NEW m, NEW d, NEW a,
         Turned(r, l, s, m, d, a), ~WX!At(r, "done"), UNCHANGED work,
         chal' \subseteq chal \cup {r}, r \in chal' => r \in chal \/ (~run[r].mfa /\ run[r].answer # "internal"),
         promotion' \subseteq promotion \cup chal, promoted' \subseteq promoted \cup promotion,
         \A c \in WX!Completes : provider[c] # "none" => provider'[c] \in {provider[c], "closed"},
         run[r].mfa => m, run[r].answer = "internal" => a = "internal"
  PROVE  Sweeping'
<1> USE Inputs
<1> SUFFICES ASSUME NEW w \in WXWorkers PROVE WorkAt(w)'
  BY DEF Sweeping
<1> DEFINE c == work[w].of
<1>1. WorkAt(w) /\ c \in WX!Completes \cup {"none"}
  BY DEF OnboardingInv, Sweeping, Wholes, Tasks
<1>2. CASE c = "none"
  BY <1>1, <1>2 DEF WorkAt
<1>3. CASE c # "none"
  BY <1>1, <1>3 DEF WorkAt, Turned
<1> QED
  BY <1>2, <1>3

LEMMA VersionedKeeps ==
  ASSUME WX!OnboardingAssumption, OnboardingInv, NEW r \in WXRequests, NEW l, NEW s, NEW m, NEW d, NEW a,
         Turned(r, l, s, m, d, a), UNCHANGED <<account, moved>>,
         r \in WX!Completes /\ s # run[r].seen =>
           run[r].seen = 0 /\ WX!Account(r) \in WX!Accounts /\ s = account[WX!Account(r)].version
  PROVE  Versioned'
  BY Inputs DEF Versioned, OnboardingInv, Wholes, Records, SeenAt, Turned

LEMMA StoredKeeps ==
  ASSUME WX!OnboardingAssumption, OnboardingInv, NEW r \in WXRequests, NEW l, NEW s, NEW m, NEW d, NEW a,
         Turned(r, l, s, m, d, a), ~WX!At(r, "done"),
         chal' \subseteq chal \cup {r}, r \in chal' => l \in {"consume", "tidy", "done"},
         obligation' \subseteq obligation \cup {r}, promoted \subseteq promoted', leaked \subseteq leaked',
         \A c \in WX!Completes : c # r => /\ c \in obligation => c \in obligation' \cup promoted'
                                          /\ \/ provider'[c] = provider[c]
                                             \/ provider'[c] = "closed" /\ Issued(c),
         \A c \in promotion' \cup promoted' :
           c \in promotion \cup promoted \/ (c \notin chal' /\ Issued(c)),
         \A q \in WXRequests : q # r => native'[q] = native[q],
         WX!Op(r) = "mfa" /\ WX!Of(r) \in WX!Completes /\ Backs(r) => Backs(r)' \/ WX!Of(r) \in leaked' \/ provider'[WX!Of(r)] # "open",
         \A c \in promoted' : c \in promoted \/ (WX!Op(r) = "mfa" /\ WX!Of(r) = c /\ Backs(r)'),
         r \in WX!Completes => StoredAt(r)'
  PROVE  WXStored'
<1> USE Inputs
<1>1. \A c \in WX!Completes : StoredAt(c)
  BY DEF OnboardingInv, WXStored
<1>2. \A q \in WXRequests : q # r => run'[q] = run[q] /\ (Backs(q)' <=> Backs(q))
  BY DEF Turned, Backs, WX!At
<1>3. ASSUME NEW c \in WX!Completes, c # r
      PROVE  StoredAt(c)'
  <2>1. StoredAt(c) /\ run'[c] = run[c] /\ native'[c] = native[c] /\ (Backs(c)' <=> Backs(c))
    BY <1>1, <1>2, <1>3
  <2>2. c \in promotion' \cup promoted' => c \notin chal' /\ Issued(c)'
    BY StaysIssued, <1>3, <2>1 DEF StoredAt
  <2>3. Issued(c) => WX!At(c, "done") /\ run[c].mfa /\ run[c].answer = "mfa" /\ WX!Account(c) # "new"
    BY DEF OnboardingInv, Placed, PlaceAt, CompleteAt, Issued
  <2>4. provider'[c] = "open" /\ c \in promoted' =>
          c \in leaked' \/ \E q \in WXRequests : WX!Op(q) = "mfa" /\ WX!Of(q) = c /\ Backs(q)'
    BY <1>2, <1>3, <2>1 DEF StoredAt
  <2>5. provider'[c] = provider[c] \/ (provider'[c] = "closed" /\ Issued(c))
    BY <1>3
  <2>6. c \in chal' => c \in chal
    BY <1>3
  <2>7. c \in obligation' => c \in obligation
    BY <1>3
  <2>8. c \in obligation => c \in obligation' \cup promoted'
    BY <1>3
  <2>9. /\ run[c].pc \in {"idle", "lookup", "password", "register", "count", "free"} \/ WX!Account(c) = "new"
             => provider'[c] = "none"
        /\ WX!Of(c) \notin WX!Begins => provider'[c] = "none"
    BY <1>3, <2>3, <2>1, <2>5 DEF OnboardingInv, Placed, PlaceAt, CompleteAt, StoredAt, WX!At
  <2>10. /\ run[c].pc \in {"bind", "challenge", "session"} \/ run[c].answer = "session"
              => provider'[c] = "open"
         /\ WX!At(c, "consume") /\ ~run[c].mfa /\ WX!Account(c) # "new" => provider'[c] = "open"
    BY <2>1, <2>3, <2>5 DEF StoredAt, WX!At
  <2>11. /\ c \in chal' \cup obligation' => run[c].mfa \/ run[c].answer = "internal"
         /\ run[c].mfa => c \in obligation' \cup promoted' \/ provider'[c] = "closed"
    BY <2>1, <2>5, <2>6, <2>7, <2>8 DEF StoredAt
  <2>12. provider'[c] = "open" /\ ~run[c].mfa =>
           c \in leaked' \/ Backs(c) \/ run[c].pc \in {"bind", "challenge", "consume", "session"}
    BY <2>1, <2>5 DEF StoredAt
  <2> QED
    BY <2>1, <2>2, <2>4, <2>9, <2>10, <2>11, <2>12 DEF StoredAt, WX!At
<1>4. \A t \in chal' : run'[t].pc \in {"consume", "tidy", "done"}
  BY <1>2 DEF OnboardingInv, Wholes, WXStored, Turned
<1> QED
  BY <1>3, <1>4 DEF WXStored

LEMMA CountedKeeps ==
  ASSUME WX!OnboardingAssumption, OnboardingInv, NEW r \in WXRequests, NEW l, NEW s, NEW m, NEW d, NEW a,
         Turned(r, l, s, m, d, a), Wholes',
         run[r].pc \in Bound => l \in Bound, run[r].pc \in Scored => l \in Scored,
         \A b \in WX!Accounts : \/ account'[b].version <= account[b].version
                                \/ /\ run[r].pc \notin Bound /\ l \in Bound
                                   /\ account'[b].version = account[b].version + 1,
         \A t \in WX!Tokens : \/ attempts'[t] <= attempts[t]
                              \/ /\ run[r].pc \notin Scored /\ l \in Scored
                                 /\ attempts'[t] = attempts[t] + 1
  PROVE  Counted'
<1> USE Inputs
<1>1. IsFiniteSet(Passed) /\ IsFiniteSet(Judged) /\ IsFiniteSet(Passed') /\ IsFiniteSet(Judged')
  BY FS_Subset DEF WX!OnboardingAssumption, Passed, Judged
<1>2. /\ Cardinality(Passed) \in Nat /\ Cardinality(Judged) \in Nat
      /\ Cardinality(Passed') \in Nat /\ Cardinality(Judged') \in Nat
  BY <1>1, FS_CardinalityType
<1>3. Passed' = IF l \in Bound THEN Passed \cup {r} ELSE Passed
  BY DEF Turned, Passed
<1>4. Judged' = IF l \in Scored THEN Judged \cup {r} ELSE Judged
  BY DEF Turned, Judged
<1>5. /\ Cardinality(Passed) <= Cardinality(Passed')
      /\ run[r].pc \notin Bound /\ l \in Bound => Cardinality(Passed') = Cardinality(Passed) + 1
  <2>1. r \in Passed <=> run[r].pc \in Bound
    BY DEF Passed
  <2>2. Cardinality(Passed \cup {r}) = IF r \in Passed THEN Cardinality(Passed)
                                                     ELSE Cardinality(Passed) + 1
    BY <1>1, FS_AddElement
  <2> QED
    BY <1>2, <1>3, <2>1, <2>2
<1>6. /\ Cardinality(Judged) <= Cardinality(Judged')
      /\ run[r].pc \notin Scored /\ l \in Scored => Cardinality(Judged') = Cardinality(Judged) + 1
  <2>1. r \in Judged <=> run[r].pc \in Scored
    BY DEF Judged
  <2>2. Cardinality(Judged \cup {r}) = IF r \in Judged THEN Cardinality(Judged)
                                                     ELSE Cardinality(Judged) + 1
    BY <1>1, FS_AddElement
  <2> QED
    BY <1>2, <1>4, <2>1, <2>2
<1>7. \A b \in WX!Accounts : account'[b].version <= MaxVersion + Cardinality(Passed')
  <2> TAKE b \in WX!Accounts
  <2>1. account[b].version \in Nat /\ account'[b].version \in Nat
    BY DEF OnboardingInv, Wholes, Records
  <2>2. account[b].version <= MaxVersion + Cardinality(Passed)
    BY DEF OnboardingInv, Counted
  <2> QED
    BY <1>2, <1>5, <2>1, <2>2
<1>8. \A t \in WX!Tokens : attempts'[t] <= Cardinality(Judged')
  <2> TAKE t \in WX!Tokens
  <2>1. attempts[t] \in Nat /\ attempts'[t] \in Nat
    BY DEF OnboardingInv, Wholes
  <2>2. attempts[t] <= Cardinality(Judged)
    BY DEF OnboardingInv, Counted
  <2> QED
    BY <1>2, <1>6, <2>1, <2>2
<1> QED
  BY <1>7, <1>8 DEF Counted

LEMMA PartsMake ==
  ASSUME OnboardingInv, NEW r \in WXRequests, UNCHANGED <<account, moved>>, Wholes', Counted', Placed',
         WXStored', Spent', Exclusive', Relied', Sweeping', Versioned'
  PROVE  OnboardingInv'
BY DEF OnboardingInv, WX!LinksOneToOne, WX!OneToOne

\* A step that leaves challenges, obligations and provider sessions alone.
Quiet(r) ==
  /\ UNCHANGED <<account, chal, obligation, promoted, lease, provider, work, moved>>
  /\ promotion' \subseteq promotion /\ obligation \subseteq due' /\ due' \subseteq due
  /\ promotion' = promotion \/ ~(Holding(r) \/ run[r].pc \in {"session", "promote"})
  /\ holder' \in [WX!Tokens -> WXRequests \cup {"none"}]
  /\ \A t \in WX!Tokens : holder'[t] # holder[t] => holder[t] \in {r, "none"}
  /\ native' \in [WXRequests -> {"none", "live", "gone"}]
  /\ \A q \in WXRequests : q # r => native'[q] = native[q]
  /\ registered' \in [WX!Tokens -> Nat] /\ lapsed \subseteq lapsed' /\ lapsed' \subseteq WX!Tokens
  /\ leaked \subseteq leaked' /\ leaked' \subseteq WX!Completes
  /\ WX!NoFault \/ WX!Fault

LEMMA QuietKeeps ==
  ASSUME WX!OnboardingAssumption, OnboardingInv, NEW r \in WXRequests, NEW l, NEW s, NEW m, NEW d, NEW a,
         Turned(r, l, s, m, d, a), ~WX!At(r, "done"), Quiet(r), attempts' \in [WX!Tokens -> Nat],
         run[r].pc \in Bound => l \in Bound, run[r].pc \in Scored => l \in Scored,
         \A t \in WX!Tokens : \/ attempts'[t] <= attempts[t]
                              \/ /\ run[r].pc \notin Scored /\ l \in Scored
                                 /\ attempts'[t] = attempts[t] + 1,
         PlaceAt(r)', r \in WX!Completes => StoredAt(r)', r \in chal => l \in {"consume", "tidy", "done"},
         WX!Op(r) = "mfa" /\ WX!Of(r) \in WX!Completes /\ Backs(r) => Backs(r)' \/ WX!Of(r) \in leaked',
         Earned(r)' => Earned(r),
         Engaged(r)' => (Engaged(r) \/ WX!ClaimFree(WX!Of(r))) /\ EngagedAt(r)',
         WX!Op(r) = "mfa" /\ WX!Of(r) \in WX!Completes => ReliesAt(r)',
         r \in WX!Completes /\ s # run[r].seen =>
           run[r].seen = 0 /\ WX!Account(r) \in WX!Accounts /\ s = account[WX!Account(r)].version,
         run[r].mfa => m, run[r].answer = "internal" => a = "internal"
  PROVE  OnboardingInv'
<1> USE DEF Quiet
<1>1. Wholes'
  BY WXFaults DEF OnboardingInv, Wholes, Turned
<1>2. Counted'
  BY <1>1, CountedKeeps DEF OnboardingInv, Wholes, Records
<1>3. Placed'
  BY PlacedKeeps
<1>4. WXStored'
  BY StoredKeeps
<1>5. Spent'
  BY SpentKeeps
<1>6. Exclusive'
  BY ExclusiveKeeps
<1>7. Relied'
  BY ReliedKeeps
<1>8. Sweeping'
  BY WorkingKeeps
<1>9. Versioned'
  BY VersionedKeeps
<1> QED
  BY <1>1, <1>2, <1>3, <1>4, <1>5, <1>6, <1>7, <1>8, <1>9, PartsMake

-----------------------------------------------------------------------------
(* The steps of a request that leave the stores alone *)

LEMMA FederatedKeeps ==
  ASSUME WX!OnboardingAssumption, OnboardingInv, NEW r \in WXRequests,
         WX!BeginService(r) \/ WX!CreateFederatedSession(r) \/ (WX!CreateOnboarding(r) /\ UNCHANGED chal)
  PROVE  OnboardingInv'
<1> USE Inputs
<1>1. Wholes /\ PlaceAt(r) /\ run \in [WXRequests -> Visits]
  BY DEF OnboardingInv, Placed, Wholes
<1>2. WX!Op(r) = "begin" /\ ~WX!At(r, "done") /\ run[r].pc \in {"idle", "federated", "create"}
  BY <1>1 DEF WX!BeginService, WX!CreateFederatedSession, WX!CreateOnboarding, PlaceAt, CompleteAt, MFAAt, WX!At
<1>3. r \notin WX!Completes /\ r \notin chal
  BY <1>2 DEF OnboardingInv, WXStored
<1>4. \A l \in {"create", "phone", "done"}, s \in {run[r].seen} \cup WX!Accounts,
         a \in {"none", "refused", "internal", "onboarding", "session"} :
        /\ Turned(r, l, s, run[r].mfa, run[r].todo, a) /\ (a # "none" => l = "done")
        /\ WX!At(r, "federated") => l = "done"
        /\ native' = native \/ native' = [native EXCEPT ![r] = "live"]
        /\ UNCHANGED <<account, chal, holder, attempts, WX!cleanupVars, provider, work, WX!historyVars>>
        /\ WX!NoFault \/ WX!Fault
        => OnboardingInv'
  <2> SUFFICES ASSUME NEW l \in {"create", "phone", "done"}, NEW s \in {run[r].seen} \cup WX!Accounts,
                      NEW a \in {"none", "refused", "internal", "onboarding", "session"},
                      Turned(r, l, s, run[r].mfa, run[r].todo, a), a # "none" => l = "done", WX!At(r, "federated") => l = "done",
                      native' = native \/ native' = [native EXCEPT ![r] = "live"],
                      UNCHANGED <<account, chal, holder, attempts, WX!cleanupVars, provider, work,
                                  WX!historyVars>>,
                      WX!NoFault \/ WX!Fault
               PROVE  OnboardingInv'
    OBVIOUS
  <2>1. Quiet(r)
    BY <1>1 DEF Quiet, Wholes, WX!cleanupVars, WX!historyVars
  <2>2. PlaceAt(r)'
    BY <1>1, <1>2, <2>1 DEF PlaceAt, BeginAt, Turned, Quiet, WX!At, Wholes
  <2>3. ~Earned(r)' /\ ~Engaged(r)'
    BY <1>2, <2>2 DEF Earned, Engaged, Holding, PlaceAt, BeginAt, WX!At
  <2>4. run[r].pc \in Bound => l \in Bound
    BY <1>2 DEF Bound, WX!At
  <2>5. \A t \in WX!Tokens : attempts'[t] <= attempts[t]
    BY <1>1 DEF Wholes
  <2>6. run[r].answer = "none" /\ ~(run[r].pc \in Scored)
    BY <1>1, <1>2 DEF PlaceAt, Scored
  <2>7. attempts' \in [WX!Tokens -> Nat]
    BY <1>1 DEF Wholes
  <2> QED
    BY <1>1, <1>2, <1>3, <2>1, <2>2, <2>3, <2>4, <2>5, <2>6, <2>7, QuietKeeps
<1>5. CASE WX!BeginService(r)
  <2>1. \A b \in WX!LinkedTo(WX!Subject(r)) : b \in WX!Accounts
    BY DEF WX!LinkedTo
  <2>2. ASSUME NEW b \in WX!Accounts, run' = [run EXCEPT ![r].pc = "phone", ![r].seen = b]
        PROVE  Turned(r, "phone", b, run[r].mfa, run[r].todo, "none")
    <3> DEFINE now == [[run[r] EXCEPT !.pc = "phone"] EXCEPT !.seen = b]
    <3>4. "phone" \in WX!Labels /\ run[r] \in Visits
      BY <1>1 DEF WX!Labels
    <3>1. run' = [run EXCEPT ![r] = now]
      <4>1. run \in [WXRequests -> Visits] /\ run[r] \in Visits
        BY <1>1
      <4> HIDE Inputs
      <4> QED
        BY <2>2, <3>4, <4>1 DEF Visits
    <3>2. now \in Visits /\ now.pc = "phone" /\ now.seen = b /\ now.mfa = run[r].mfa
          /\ now.todo = run[r].todo /\ now.answer = run[r].answer
      BY <3>4 DEF Visits
    <3>3. run[r].answer = "none"
      BY <1>1, <1>2 DEF PlaceAt
    <3> HIDE DEF now
    <3> QED
      BY <1>1, <3>1, <3>2, <3>3 DEF Turned
  <2>3. WX!At(r, "idle") /\ ~WX!At(r, "federated") /\ run[r].answer = "none"
    BY <1>1, <1>2, <1>5 DEF WX!BeginService, WX!At, PlaceAt
  <2> QED
    BY <1>1, <1>2, <1>4, <1>5, <2>1, <2>2, <2>3, Turns
      DEF WX!BeginService, WX!Labels, WX!Answers, WX!NoFault, PlaceAt, WX!cleanupVars, WX!historyVars
<1>6. CASE WX!CreateFederatedSession(r)
  BY <1>1, <1>2, <1>4, <1>6, Turns DEF WX!CreateFederatedSession, WX!Labels, WX!Answers
<1>7. CASE WX!CreateOnboarding(r) /\ UNCHANGED chal
  BY <1>1, <1>2, <1>4, <1>7, Turns DEF WX!CreateOnboarding, WX!Labels, WX!Answers
<1> QED
  BY <1>5, <1>6, <1>7

\* What a request has not done before it gives up.
LEMMA Working_NoAnswer ==
  ASSUME WX!OnboardingAssumption, OnboardingInv, NEW r \in WXRequests, run[r].pc \notin {"tidy", "done"}
  PROVE  /\ PlaceAt(r) /\ run[r].answer = "none" /\ ~Rewarded(r)
         /\ run[r].pc \notin Scored \/ WX!At(r, "free")
         /\ r \notin promotion /\ r \notin promoted
         /\ r \in WX!Completes => StoredAt(r)
  BY DEF OnboardingInv, Placed, PlaceAt, Rewarded, Scored, WX!At, Wholes, WXStored, StoredAt, Issued

\* A request that gives up, with chores or without.
LEMMA GivingUpKeeps ==
  ASSUME WX!OnboardingAssumption, OnboardingInv, NEW r \in WXRequests, NEW l \in {"tidy", "done"}, NEW d,
         NEW a,
         Turned(r, l, run[r].seen, run[r].mfa, d, a), Quiet(r), WX!Op(r) # "begin",
         run[r].pc \notin {"tidy", "done"}, a \in {"none", "invalid", "refused", "internal"},
         l = "tidy" => a \in {"refused", "internal"}, attempts' \in [WX!Tokens -> Nat],
         \A t \in WX!Tokens : \/ attempts'[t] <= attempts[t]
                              \/ run[r].pc \notin Scored /\ attempts'[t] = attempts[t] + 1,
         native'[r] \in {native[r], "live"},
         WX!At(r, "idle") /\ l = "tidy" => Issued(WX!Of(r)),
         l = "tidy" /\ "revoke" \in Left(d) => (Engaged(r) \/ WX!ClaimFree(WX!Of(r))) /\ EngagedAt(r)',
         WX!Op(r) = "complete" => /\ "unsession" \notin Left(d)
                                  /\ \/ l = "tidy" /\ "revoke" \in Left(d)
                                     \/ provider[r] # "open" \/ run[r].mfa
                                     \/ native'[r] = "live" \/ r \in leaked'
  PROVE  OnboardingInv'
<1> USE Inputs
<1>1. /\ PlaceAt(r) /\ run[r].answer = "none" /\ ~Rewarded(r)
      /\ r \notin promotion /\ r \notin promoted /\ (r \in WX!Completes => StoredAt(r))
  BY Working_NoAnswer
<1>2. ~WX!At(r, "done")
  BY DEF WX!At
<1>3. WX!Op(r) \in {"complete", "mfa"} /\ ~(WX!Op(r) = "complete" /\ WX!Op(r) = "mfa")
  OBVIOUS
<1>4. PlaceAt(r)'
  <2>1. WX!Op(r) = "complete" => CompleteAt(r)'
    BY <1>1 DEF Turned, PlaceAt, CompleteAt, WX!At
  <2>2. WX!Op(r) = "mfa" => MFAAt(r)'
    BY <1>1 DEF Turned, PlaceAt, MFAAt, WX!At
  <2>3. l = "tidy" => Issued(WX!Of(r))'
    BY <1>1, <1>2, StaysIssued, Inputs DEF PlaceAt, WX!Busy, WX!At
  <2> QED
    BY <1>3, <2>1, <2>2, <2>3 DEF Turned, PlaceAt, WX!At, WX!Busy, Rewarded
<1>5. r \in WX!Completes => StoredAt(r)'
  BY <1>1 DEF Turned, Quiet, StoredAt, PlaceAt, CompleteAt, Backs, WX!At, Issued
<1>6. ~Earned(r)' /\ (Engaged(r)' => l = "tidy" /\ "revoke" \in Left(d))
  BY DEF Turned, Earned, Rewarded, Engaged, Holding, WX!At
<1>7. ReliesAt(r)'
  BY DEF Turned, ReliesAt, Holding
<1>8. Backs(r) => Backs(r)'
  BY <1>1 DEF Backs, WX!At
<1>9. l \in Bound /\ l \in Scored
  BY DEF Bound, Scored
<1> QED
  BY <1>1, <1>2, <1>4, <1>5, <1>6, <1>7, <1>8, <1>9, QuietKeeps

\* Nothing changes but the request.
Alone == UNCHANGED <<account, chal, holder, attempts, WX!cleanupVars, provider, native, work, registered,
                     moved, lapsed>>

LEMMA AloneIsQuiet ==
  ASSUME OnboardingInv, NEW r \in WXRequests, Alone, leaked \subseteq leaked', leaked' \subseteq WX!Completes,
         WX!NoFault \/ WX!Fault
  PROVE  Quiet(r) /\ attempts' \in [WX!Tokens -> Nat] /\ \A t \in WX!Tokens : attempts'[t] <= attempts[t]
BY DEF OnboardingInv, Wholes, Quiet, Alone, WX!cleanupVars

\* The lock that a request at work relies on.
LEMMA HoldersRely ==
  ASSUME OnboardingInv, NEW r \in WXRequests, Holding(r)
  PROVE  Engaged(r) /\ EngagedAt(r) /\ WX!Busy(r) /\ WX!Op(r) # "begin" /\ ~WX!At(r, "done") /\ ~WX!At(r, "idle")
           /\ run[r].pc \notin {"tidy", "done"} /\ run[r].pc \notin {"session", "promote"}
BY DEF OnboardingInv, Exclusive, Engaged, Holding, WX!Busy, WX!At

LEMMA LimitedKeeps ==
  ASSUME WX!OnboardingAssumption, OnboardingInv, NEW r \in WXRequests, WX!Limited(r)
  PROVE  OnboardingInv'
<1> USE Inputs
<1>1. PlaceAt(r) /\ Wholes
  BY DEF OnboardingInv, Placed
<1>2. WX!Op(r) # "begin" /\ Holding(r)
  BY <1>1 DEF WX!Limited, WX!At, PlaceAt, BeginAt, Holding
<1>3. Turned(r, "tidy", run[r].seen, run[r].mfa, <<"release">>, "refused")
  BY <1>1, Turns DEF WX!Limited, Lists, WX!Answers
<1>4. Alone /\ UNCHANGED leaked /\ WX!NoFault
  BY DEF WX!Limited, Alone, WX!historyVars, WX!NoFault
<1>5. Left(<<"release">>) = {"release"}
  BY ListFacts DEF Lists, WX!Chores
<1>6. WX!Op(r) = "complete" => provider[r] # "open"
  BY <1>2, Working_NoAnswer DEF WX!Limited, WX!At, StoredAt, PlaceAt, CompleteAt
<1>7. native'[r] = native[r]
  BY <1>4 DEF Alone
<1>8. Quiet(r) /\ attempts' \in [WX!Tokens -> Nat] /\ \A t \in WX!Tokens : attempts'[t] <= attempts[t]
  BY <1>1, <1>4, AloneIsQuiet DEF Wholes
<1> QED
  BY <1>2, <1>3, <1>5, <1>6, <1>7, <1>8, HoldersRely, GivingUpKeeps

\* A request that holds its token goes on.
LEMMA GoingOnKeeps ==
  ASSUME WX!OnboardingAssumption, OnboardingInv, NEW r \in WXRequests, NEW l, NEW s,
         Holding(r), l \in {"register", "password", "bind", "count", "free", "consume"},
         Turned(r, l, s, run[r].mfa, run[r].todo, run[r].answer), Quiet(r),
         UNCHANGED <<holder, lapsed, native>>, attempts' \in [WX!Tokens -> Nat],
         \A t \in WX!Tokens : \/ attempts'[t] <= attempts[t]
                              \/ l \in Scored /\ attempts'[t] = attempts[t] + 1,
         run[r].pc \notin Bound, run[r].pc \notin Scored,
         WX!Op(r) = "complete" => CompleteAt(r)', WX!Op(r) = "mfa" => MFAAt(r)',
         WX!Op(r) = "complete" => IF l \in {"bind", "consume"} /\ WX!Account(r) # "new"
                                 THEN provider[r] = "open" ELSE provider[r] = "none",
         WX!Op(r) = "mfa" /\ WX!Of(r) \notin lapsed /\ l \in {"bind", "consume"} => provider[WX!Of(r)] = "open",
         r \in WX!Completes /\ s # run[r].seen =>
           run[r].seen = 0 /\ WX!Account(r) \in WX!Accounts /\ s = account[WX!Account(r)].version
  PROVE  OnboardingInv'
<1> USE Inputs
<1>1. /\ Engaged(r) /\ EngagedAt(r) /\ WX!Busy(r) /\ WX!Op(r) # "begin" /\ ~WX!At(r, "done")
      /\ run[r].pc \notin {"tidy", "done"} /\ run[r].pc \notin {"session", "promote"}
  BY HoldersRely
<1>2. /\ PlaceAt(r) /\ run[r].answer = "none" /\ ~Rewarded(r)
      /\ r \notin promotion /\ r \notin promoted /\ (r \in WX!Completes => StoredAt(r))
  BY <1>1, Working_NoAnswer
<1>3. PlaceAt(r)'
  BY <1>1, StaysIssued, <1>2 DEF Turned, PlaceAt, WX!At, WX!Busy
<1>4. WX!Op(r) = "complete" => r \notin chal \cup obligation \/ run[r].mfa
  BY <1>2 DEF StoredAt
<1>5. r \in WX!Completes => StoredAt(r)'
  BY <1>1, <1>2, <1>4 DEF Turned, Quiet, StoredAt, PlaceAt, CompleteAt, Backs, WX!At
<1>6. ~Earned(r)' /\ Holding(r)'
  BY <1>1, <1>2 DEF Turned, Earned, Rewarded, Holding
<1>7. EngagedAt(r)'
  BY <1>1, <1>6 DEF Quiet, EngagedAt, Holding
<1>8. WX!Op(r) = "mfa" /\ WX!Of(r) \in WX!Completes => ReliesAt(r)'
  BY <1>2, <1>6 DEF OnboardingInv, Relied, ReliesAt, Turned, Quiet
<1>9. Backs(r) => Backs(r)'
  BY <1>1 DEF Backs, WX!At
<1>10. r \in chal => l \in {"consume", "tidy", "done"}
  BY <1>1, <1>2 DEF OnboardingInv, WXStored, Turned, Holding, PlaceAt, CompleteAt, MFAAt, Bound, WX!At
<1> QED
  BY <1>1, <1>2, <1>3, <1>5, <1>6, <1>7, <1>8, <1>9, <1>10, QuietKeeps

LEMMA LookupKeeps ==
  ASSUME WX!OnboardingAssumption, OnboardingInv, NEW r \in WXRequests, WX!FindByNormalizedEmail(r)
  PROVE  OnboardingInv'
<1> USE Inputs
<1>1. PlaceAt(r) /\ Wholes /\ run \in [WXRequests -> Visits]
  BY DEF OnboardingInv, Placed, Wholes
<1>2. WX!At(r, "lookup") /\ WX!Op(r) = "complete" /\ Holding(r) /\ run[r].pc \notin Bound \cup Scored
  BY <1>1 DEF WX!FindByNormalizedEmail, WX!At, PlaceAt, BeginAt, MFAAt, Holding, Bound, Scored
<1>3. Alone /\ UNCHANGED leaked /\ WX!NoFault
  BY DEF WX!FindByNormalizedEmail, Alone, WX!historyVars, WX!NoFault
<1>4. /\ Quiet(r) /\ attempts' \in [WX!Tokens -> Nat] /\ \A t \in WX!Tokens : attempts'[t] <= attempts[t]
      /\ UNCHANGED <<holder, lapsed, native>>
  BY <1>1, <1>3, AloneIsQuiet DEF Wholes, Alone
<1>5. /\ CompleteAt(r) /\ run[r].seen = 0 /\ provider[r] = "none" /\ ~run[r].mfa
      /\ WX!Account(r) \in WX!Accounts \cup {"new"} /\ run[r].answer = "none"
  BY <1>1, <1>2, Working_NoAnswer DEF PlaceAt, CompleteAt, StoredAt, WX!At
<1>6. CASE WX!Account(r) = "new" /\ WX!To(r, "register")
  BY <1>1, <1>6, Turns, <1>2, <1>4, <1>5, GoingOnKeeps DEF WX!Labels, CompleteAt, Turned, WX!At
<1>7. CASE WX!Account(r) # "new" /\ run' = [run EXCEPT ![r].pc = "password", ![r].seen = account[WX!Account(r)].version]
  <2>1. account[WX!Account(r)].version \in Nat /\ WX!Account(r) \in WX!Accounts
    BY <1>1, <1>5, <1>7 DEF Wholes, Records
  <2>2. Turned(r, "password", account[WX!Account(r)].version, run[r].mfa, run[r].todo, run[r].answer)
    <3> DEFINE now == [[run[r] EXCEPT !.pc = "password"] EXCEPT !.seen = account[WX!Account(r)].version]
    <3>1. "password" \in WX!Labels /\ run[r] \in Visits /\ run \in [WXRequests -> Visits]
      BY <1>1 DEF WX!Labels
    <3>2. run' = [run EXCEPT ![r] = now]
      <4> HIDE Inputs
      <4> QED
        BY <1>7, <3>1 DEF Visits
    <3>3. now \in Visits /\ now.pc = "password" /\ now.seen = account[WX!Account(r)].version
          /\ now.mfa = run[r].mfa /\ now.todo = run[r].todo /\ now.answer = run[r].answer
      BY <2>1, <3>1 DEF Visits
    <3> HIDE DEF now
    <3> QED
      BY <3>1, <3>2, <3>3 DEF Turned
  <2>3. CompleteAt(r)'
    BY <1>2, <1>4, <1>5, <1>7, <2>1, <2>2 DEF CompleteAt, Turned, WX!At
  <2> QED
    BY <1>2, <1>4, <1>5, <1>7, <2>1, <2>2, <2>3, GoingOnKeeps
<1>8. CASE WX!Tidying(r, <<"drop">>, "refused")
  BY <1>1, <1>8, Turns, ListFacts, <1>2, <1>4, <1>5, HoldersRely, GivingUpKeeps DEF Lists, WX!Answers,
     WX!Chores
<1> QED
  BY <1>6, <1>7, <1>8 DEF WX!FindByNormalizedEmail

LEMMA ReserveKeeps ==
  ASSUME WX!OnboardingAssumption, OnboardingInv, NEW r \in WXRequests, WX!CompletePendingRegistration(r)
  PROVE  OnboardingInv'
<1> USE Inputs
<1>1. PlaceAt(r) /\ Wholes /\ run \in [WXRequests -> Visits]
  BY DEF OnboardingInv, Placed, Wholes
<1>2. WX!At(r, "register") /\ WX!Op(r) = "complete" /\ Holding(r) /\ run[r].pc \notin Bound \cup Scored
  BY <1>1 DEF WX!CompletePendingRegistration, WX!At, PlaceAt, BeginAt, MFAAt, Holding, Bound, Scored
<1>3. CompleteAt(r) /\ WX!Account(r) = "new" /\ provider[r] = "none" /\ ~run[r].mfa
  BY <1>1, <1>2, Working_NoAnswer DEF PlaceAt, CompleteAt, StoredAt, WX!At
<1>4. registered' \in [WX!Tokens -> Nat]
  BY <1>1, <1>2 DEF WX!CompletePendingRegistration, Wholes
<1>5. /\ Quiet(r) /\ attempts' \in [WX!Tokens -> Nat] /\ \A t \in WX!Tokens : attempts'[t] <= attempts[t]
      /\ UNCHANGED <<holder, lapsed, native>>
  BY <1>1, <1>4 DEF WX!CompletePendingRegistration, Quiet, Wholes, Alone, WX!cleanupVars
<1>6. CASE WX!To(r, "consume")
  BY <1>1, <1>6, Turns, <1>2, <1>3, <1>5, GoingOnKeeps DEF WX!Labels, CompleteAt, Turned, WX!At
<1>7. CASE WX!Tidying(r, <<"release">>, "internal") \/ WX!Tidying(r, <<"release">>, "refused")
  BY <1>1, <1>7, Turns, ListFacts, <1>2, <1>3, <1>5, HoldersRely, GivingUpKeeps DEF Lists, WX!Answers,
     WX!Chores
<1> QED
  BY <1>6, <1>7 DEF WX!CompletePendingRegistration

LEMMA JudgeKeeps ==
  ASSUME WX!OnboardingAssumption, OnboardingInv, NEW r \in WXRequests, WX!CompleteMFAProvider(r)
  PROVE  OnboardingInv'
<1> USE Inputs
<1>1. PlaceAt(r) /\ Wholes /\ run \in [WXRequests -> Visits]
  BY DEF OnboardingInv, Placed, Wholes
<1>2. WX!At(r, "judge") /\ WX!Op(r) = "mfa" /\ Holding(r) /\ run[r].pc \notin Bound \cup Scored
  BY <1>1 DEF WX!CompleteMFAProvider, WX!At, PlaceAt, BeginAt, CompleteAt, Holding, Bound, Scored
<1>3. Alone /\ UNCHANGED leaked /\ (WX!NoFault \/ WX!Fault)
  BY DEF WX!CompleteMFAProvider, Alone, WX!historyVars
<1>4. /\ Quiet(r) /\ attempts' \in [WX!Tokens -> Nat] /\ \A t \in WX!Tokens : attempts'[t] <= attempts[t]
      /\ UNCHANGED <<holder, lapsed, native, chal>>
  BY <1>1, <1>3, AloneIsQuiet DEF Wholes, Alone
<1>5. MFAAt(r) /\ WX!Of(r) \in WX!Completes /\ Issued(WX!Of(r)) /\ WX!Of(r) # r /\ run[r].answer = "none"
  BY <1>1, <1>2, Working_NoAnswer DEF PlaceAt, MFAAt, WX!At, WX!Busy, Issued
<1>6. Engaged(r) /\ EngagedAt(r) /\ EngagedAt(r)'
  BY <1>2, HoldersRely, <1>4 DEF EngagedAt
<1>7. CASE provider[WX!Of(r)] = "open" /\ run' = [run EXCEPT ![r].pc = "bind", ![r].seen = run[WX!Of(r)].seen]
  <2>1. run[WX!Of(r)].seen \in Nat \cup WX!Accounts
    BY <1>1, <1>5 DEF Visits
  <2>2. Turned(r, "bind", run[WX!Of(r)].seen, run[r].mfa, run[r].todo, run[r].answer)
    <3> DEFINE now == [[run[r] EXCEPT !.pc = "bind"] EXCEPT !.seen = run[WX!Of(r)].seen]
    <3>1. "bind" \in WX!Labels /\ run[r] \in Visits /\ run \in [WXRequests -> Visits]
      BY <1>1 DEF WX!Labels
    <3>2. run' = [run EXCEPT ![r] = now]
      <4> HIDE Inputs
      <4> QED
        BY <1>7, <3>1 DEF Visits
    <3>3. now \in Visits /\ now.pc = "bind" /\ now.seen = run[WX!Of(r)].seen
          /\ now.mfa = run[r].mfa /\ now.todo = run[r].todo /\ now.answer = run[r].answer
      BY <2>1, <3>1 DEF Visits
    <3> HIDE DEF now
    <3> QED
      BY <3>1, <3>2, <3>3 DEF Turned
  <2>3. MFAAt(r)'
    BY <1>2, <1>4, <1>5, <2>2 DEF MFAAt, Turned, WX!At
  <2> QED
    BY <1>2, <1>4, <1>5, <1>7, <2>2, <2>3, GoingOnKeeps
<1>8. CASE WX!To(r, "count")
  BY <1>1, <1>8, Turns, <1>2, <1>4, <1>5, GoingOnKeeps DEF WX!Labels, MFAAt, Turned, WX!At
<1>9. CASE WX!Tidying(r, <<"release">>, "internal")
  BY ZenonT(120), <1>1, <1>9, Turns, ListFacts, <1>2, <1>4, HoldersRely, GivingUpKeeps DEF Lists, WX!Answers, WX!Chores
<1>10. CASE WX!Tidying(r, <<"drop", "revoke">>, "refused")
  BY <1>1, <1>10, Turns, <1>6, <1>2, <1>4, HoldersRely, GivingUpKeeps DEF Lists, WX!Answers
<1> QED
  BY <1>7, <1>8, <1>9, <1>10 DEF WX!CompleteMFAProvider

LEMMA AttemptsKeep ==
  ASSUME WX!OnboardingAssumption, OnboardingInv, NEW r \in WXRequests, WX!IncrementAttempts(r)
  PROVE  OnboardingInv'
<1> USE Inputs
<1>1. PlaceAt(r) /\ Wholes /\ run \in [WXRequests -> Visits]
  BY DEF OnboardingInv, Placed, Wholes
<1>2. WX!At(r, "count") /\ WX!Op(r) # "begin" /\ Holding(r) /\ run[r].pc \notin Bound \cup Scored
  BY <1>1 DEF WX!IncrementAttempts, WX!At, PlaceAt, BeginAt, Holding, Bound, Scored
<1>3. WX!Of(r) \in WX!Tokens /\ run[r].answer = "none"
  BY <1>1, <1>2 DEF PlaceAt, WX!At
<1>4. /\ UNCHANGED <<account, chal, holder, WX!cleanupVars, provider, native, work, WX!historyVars>>
      /\ WX!NoFault \/ WX!Fault
  BY DEF WX!IncrementAttempts
<1>5. /\ attempts' \in [WX!Tokens -> Nat]
      /\ \A t \in WX!Tokens : attempts'[t] <= attempts[t] \/ attempts'[t] = attempts[t] + 1
  BY <1>1, <1>3 DEF WX!IncrementAttempts, Wholes
<1>6. Quiet(r) /\ UNCHANGED <<holder, lapsed, native, chal>>
  BY <1>1, <1>4 DEF Quiet, Wholes, WX!cleanupVars, WX!historyVars
<1>7. Engaged(r) /\ EngagedAt(r)'
  BY <1>2, HoldersRely, <1>6 DEF EngagedAt
<1>8. WX!Op(r) = "complete" => CompleteAt(r) /\ provider[r] = "none" /\ ~run[r].mfa
  BY <1>1, <1>2, Working_NoAnswer DEF PlaceAt, CompleteAt, StoredAt, WX!At
<1>9. CASE WX!To(r, "free")
  <2>1. Turned(r, "free", run[r].seen, run[r].mfa, run[r].todo, run[r].answer)
    BY <1>1, <1>9, Turns DEF WX!Labels
  <2>2. WX!Op(r) = "complete" => CompleteAt(r)'
    BY <1>2, <1>6, <1>8, <2>1 DEF CompleteAt, Turned, WX!At
  <2>3. WX!Op(r) = "mfa" => MFAAt(r)'
    BY <1>1, <1>2, <1>6, <2>1 DEF PlaceAt, MFAAt, Turned, WX!At
  <2>4. "free" \in Scored
    BY DEF Scored
  <2> QED
    BY <1>2, <1>5, <1>6, <1>8, <2>1, <2>2, <2>3, <2>4, GoingOnKeeps
<1>10. CASE WX!Tidying(r, <<"drop", "revoke">>, "refused") \/ WX!Tidying(r, <<"drop", "revoke">>, "internal")
  <2>1. \E a \in {"internal", "refused"} : Turned(r, "tidy", run[r].seen, run[r].mfa, <<"drop", "revoke">>, a)
    BY <1>1, <1>10, Turns DEF Lists, WX!Answers
  <2>2. Left(<<"drop", "revoke">>) = {"drop", "revoke"}
    BY ListFacts DEF Lists, WX!Chores
  <2>3. EngagedAt(r)'
    BY <1>7
  <2> QED
    BY <1>2, <1>5, <1>6, <1>7, <2>1, <2>2, <2>3, HoldersRely, GivingUpKeeps
<1> QED
  BY <1>9, <1>10 DEF WX!IncrementAttempts

LEMMA FreeKeeps ==
  ASSUME WX!OnboardingAssumption, OnboardingInv, NEW r \in WXRequests, WX!ReleaseAfterFailure(r)
  PROVE  OnboardingInv'
<1> USE Inputs
<1>1. PlaceAt(r) /\ Wholes /\ run \in [WXRequests -> Visits]
  BY DEF OnboardingInv, Placed, Wholes
<1>2. WX!At(r, "free") /\ WX!Op(r) # "begin" /\ Holding(r)
  BY <1>1 DEF WX!ReleaseAfterFailure, WX!At, PlaceAt, BeginAt, Holding
<1>3. WX!Of(r) \in WX!Tokens /\ run[r].answer = "none"
  BY <1>1, <1>2 DEF PlaceAt, WX!At
<1>4. /\ UNCHANGED <<account, chal, attempts, WX!cleanupVars, provider, native, work, registered, moved, leaked>>
      /\ WX!NoFault \/ WX!Fault
      /\ holder' = holder \/ (holder[WX!Of(r)] = r /\ holder' = [holder EXCEPT ![WX!Of(r)] = "none"])
      /\ lapsed' = lapsed \/ lapsed' = lapsed \cup {WX!Of(r)}
  BY DEF WX!ReleaseAfterFailure
<1>5. /\ Quiet(r) /\ UNCHANGED native /\ attempts' \in [WX!Tokens -> Nat]
      /\ \A t \in WX!Tokens : attempts'[t] <= attempts[t]
  BY <1>1, <1>3, <1>4 DEF Quiet, Wholes, WX!cleanupVars
<1>6. Engaged(r) /\ EngagedAt(r)
  BY <1>2, HoldersRely
<1>7. WX!Op(r) = "complete" => CompleteAt(r) /\ provider[r] = "none" /\ ~run[r].mfa
  BY <1>1, <1>2, Working_NoAnswer DEF PlaceAt, CompleteAt, StoredAt, WX!At
<1>8. CASE WX!Answer(r, "invalid")
  BY <1>1, <1>8, Turns, <1>7, <1>2, <1>5, HoldersRely, GivingUpKeeps DEF WX!Answers, CompleteAt
<1>9. CASE WX!Tidying(r, <<"revoke">>, "internal")
  <2>1. Turned(r, "tidy", run[r].seen, run[r].mfa, <<"revoke">>, "internal")
    BY <1>1, <1>9, Turns DEF Lists, WX!Answers
  <2>2. Left(<<"revoke">>) = {"revoke"}
    BY ListFacts DEF Lists, WX!Chores
  <2>3. EngagedAt(r)'
    <3>1. WX!Of(r) \in lapsed' \/ UNCHANGED <<holder, lapsed>>
      <4>1. ~WX!Answer(r, "invalid")
        BY <1>1, Turns, <2>1 DEF WX!Answers, Turned
      <4> QED
        BY <4>1 DEF WX!ReleaseAfterFailure
    <3>2. ~Holding(r)'
      BY <2>1 DEF Turned, Holding
    <3> QED
      BY <1>4, <1>6, <3>1, <3>2 DEF EngagedAt
  <2> QED
    BY <1>2, <1>5, <1>6, <2>1, <2>2, <2>3, HoldersRely, GivingUpKeeps
<1> QED
  BY <1>8, <1>9 DEF WX!ReleaseAfterFailure

LEMMA WXClaimKeeps ==
  ASSUME WX!OnboardingAssumption, OnboardingInv, NEW r \in WXRequests, WX!Claim(r)
  PROVE  OnboardingInv'
<1> USE Inputs
<1> DEFINE t == WX!Of(r)
<1>1. PlaceAt(r) /\ Wholes /\ run \in [WXRequests -> Visits]
  BY DEF OnboardingInv, Placed, Wholes
<1>2. /\ WX!At(r, "idle") /\ WX!Op(r) # "begin" /\ t \in WX!Tokens /\ run[r].pc \notin Bound \cup Scored
      /\ run[r].pc \notin {"tidy", "done"} /\ ~WX!At(r, "done") /\ ~WX!Busy(r) /\ ~Holding(r)
  BY DEF WX!Claim, WX!At, Bound, Scored, WX!Busy, Holding
<1>3. Issued(t) /\ t \in WXRequests /\ t # r
  BY <1>2 DEF WX!Claim, OnboardingInv, Placed, PlaceAt, WX!At, Issued
<1>4. /\ UNCHANGED <<account, chal, attempts, WX!cleanupVars, provider, native, work, WX!historyVars>>
      /\ WX!NoFault \/ WX!Fault
      /\ holder' = holder \/ (WX!ClaimFree(t) /\ holder' = [holder EXCEPT ![t] = r])
  BY DEF WX!Claim
<1>5. /\ Quiet(r) /\ UNCHANGED <<native, lapsed>> /\ attempts' \in [WX!Tokens -> Nat]
      /\ \A x \in WX!Tokens : attempts'[x] <= attempts[x]
  BY <1>1, <1>2, <1>4 DEF Quiet, Wholes, WX!cleanupVars, WX!historyVars, WX!ClaimFree
<1>6. /\ run[r].answer = "none"
      /\ (WX!Op(r) = "complete" => CompleteAt(r) /\ provider[r] = "none" /\ ~run[r].mfa)
      /\ (WX!Op(r) = "mfa" => MFAAt(r)) /\ (r \in WX!Completes => StoredAt(r))
  BY <1>1, <1>2, Working_NoAnswer DEF PlaceAt, CompleteAt, StoredAt, WX!At
<1>7. CASE WX!Answer(r, "refused") \/ WX!Answer(r, "internal")
  BY <1>1, <1>7, Turns, <1>6, <1>2, <1>5, GivingUpKeeps DEF WX!Answers, CompleteAt
<1>8. ASSUME WX!ClaimFree(t), holder' = [holder EXCEPT ![t] = r], WX!Claimed(r)
      PROVE  OnboardingInv'
  <2>1. holder'[t] = r /\ t \in chal
    BY <1>1, <1>2, <1>8 DEF Wholes, WX!ClaimFree
  <2>2. EngagedAt(r)'
    BY <2>1 DEF EngagedAt
  <2>3. CASE WX!Mismatch(r)
    <3>1. Turned(r, "tidy", run[r].seen, run[r].mfa, <<"drop", "revoke">>, "refused")
      BY <1>1, <1>8, <2>3, Turns DEF WX!Claimed, Lists, WX!Answers
    <3>2. Left(<<"drop", "revoke">>) = {"drop", "revoke"}
      BY ListFacts DEF Lists, WX!Chores
    <3> QED
      BY <1>2, <1>3, <1>5, <1>6, <1>8, <2>2, <3>1, <3>2, GivingUpKeeps
  <2>4. CASE ~WX!Mismatch(r)
    <3> DEFINE l == IF WX!Op(r) = "mfa" THEN "judge" ELSE "lookup"
    <3>1. Turned(r, l, run[r].seen, run[r].mfa, run[r].todo, run[r].answer) /\ l \in {"judge", "lookup"}
      BY <1>1, <1>8, <2>4, Turns DEF WX!Claimed, WX!Labels
    <3>2. WX!Op(r) = "mfa" => t \in WX!Completes
      BY <2>4 DEF WX!Mismatch, WX!MFAToken
    <3>3. WX!Op(r) = "complete" => t \in WX!Begins
      BY <1>2, <2>4 DEF WX!Mismatch, WX!MFAToken
    <3>4. WX!Op(r) = "complete" => CompleteAt(r)'
      BY <1>2, <1>5, <1>6, <3>1, <3>3 DEF CompleteAt, Turned, WX!At
    <3>5. WX!Op(r) = "mfa" => MFAAt(r)'
      BY <1>2, <1>5, <1>6, <3>1, <3>2 DEF MFAAt, Turned, WX!At
    <3>6. PlaceAt(r)'
      BY <1>2, <1>3, <3>1, StaysIssued, <1>6, <3>4, <3>5 DEF Turned, PlaceAt, WX!At
    <3>7. r \in WX!Completes => StoredAt(r)'
      BY <1>2, Working_NoAnswer, <1>5, <1>6, <3>1 DEF Turned, Quiet, StoredAt, CompleteAt, Backs, WX!At
    <3>8. ~Earned(r)' /\ run[r].answer # "internal"
      BY <1>6, <3>1 DEF Turned, Earned, Rewarded
    <3>9. WX!Op(r) = "mfa" /\ t \in WX!Completes => ReliesAt(r)'
      <4>1. WX!Op(r) = "mfa" /\ t \in WX!Completes => t \notin promoted /\ \A w \in WXWorkers : work[w].of # t
        BY <1>1, <2>1 DEF OnboardingInv, WXStored, StoredAt, Sweeping, WorkAt, Wholes, Tasks
      <4> QED
        BY <1>5, <1>6, <3>1, <4>1 DEF ReliesAt, Turned, Quiet, Holding
    <3>10. Backs(r) => Backs(r)'
      BY <1>2, <1>5 DEF Backs, WX!At
    <3>11. r \notin chal
      BY <1>2 DEF OnboardingInv, WXStored, WX!At
    <3> HIDE DEF l
    <3> QED
      BY <1>2, <1>5, <1>6, <1>8, <2>2, <3>1, <3>6, <3>7, <3>8, <3>9, <3>10, <3>11, QuietKeeps
  <2> QED
    BY <2>3, <2>4
<1> QED
  BY <1>7, <1>8 DEF WX!Claim

LEMMA CreateSessionKeeps ==
  ASSUME WX!OnboardingAssumption, OnboardingInv, NEW r \in WXRequests, WX!CreateSession(r)
  PROVE  OnboardingInv'
<1> USE Inputs
<1>1. PlaceAt(r) /\ Wholes /\ run \in [WXRequests -> Visits]
  BY DEF OnboardingInv, Placed, Wholes
<1>2. /\ WX!At(r, "session") /\ WX!Op(r) # "begin" /\ WX!Of(r) \in WX!Tokens /\ Earned(r) /\ Engaged(r)
      /\ WX!Busy(r)
      /\ run[r].pc \notin Scored /\ run[r].pc \notin {"tidy", "done"} /\ ~WX!At(r, "done")
      /\ ~WX!At(r, "idle")
  BY <1>1 DEF WX!CreateSession, WX!At, PlaceAt, BeginAt, Earned, Engaged, WX!Busy, Scored
<1>3. /\ UNCHANGED <<account, chal, holder, attempts, WX!cleanupVars, provider, work, WX!historyVars>>
      /\ WX!NoFault \/ WX!Fault
      /\ native' = native \/ native' = [native EXCEPT ![r] = "live"]
  BY DEF WX!CreateSession
<1>4. /\ Quiet(r) /\ UNCHANGED <<chal, holder, lapsed>> /\ attempts' \in [WX!Tokens -> Nat]
      /\ \A t \in WX!Tokens : attempts'[t] <= attempts[t]
      /\ native'[r] \in {native[r], "live"}
  BY <1>1, <1>3 DEF Quiet, Wholes, WX!cleanupVars, WX!historyVars
<1>5. /\ run[r].answer = "none" /\ (WX!Op(r) = "complete" => CompleteAt(r) /\ ~run[r].mfa /\ StoredAt(r))
      /\ (WX!Op(r) = "mfa" => MFAAt(r) /\ WX!Of(r) \in WX!Completes)
      /\ Issued(WX!Of(r)) /\ WX!Of(r) \notin chal /\ r \notin promotion /\ r \notin promoted
  BY <1>1, <1>2, Working_NoAnswer DEF PlaceAt, OnboardingInv, Spent, CompleteAt, MFAAt, StoredAt, WX!At
<1>6. EngagedAt(r)' \/ Holding(r)'
  BY <1>4, <1>5 DEF EngagedAt
<1>7. ASSUME native'[r] = "live", WX!Op(r) = "mfa", WX!To(r, "promote")
      PROVE  OnboardingInv'
  <2>1. Turned(r, "promote", run[r].seen, run[r].mfa, run[r].todo, run[r].answer)
    BY <1>1, <1>7, Turns DEF WX!Labels
  <2>2. Issued(WX!Of(r))'
    BY <1>2, <1>5, <2>1, StaysIssued
  <2>3. PlaceAt(r)'
    BY <1>2, <1>5, <1>7, <2>1, <2>2 DEF Turned, PlaceAt, MFAAt, WX!At
  <2>4. ~Holding(r)'
    BY <2>1 DEF Turned, Holding
  <2>5. ReliesAt(r)'
    BY <1>5, <1>7, <1>2, <1>4, <2>1, <2>4 DEF OnboardingInv, Relied, ReliesAt, Turned, Quiet, WX!At
  <2>6. Backs(r)'
    BY <1>7 DEF Backs
  <2>7. r \notin chal /\ "promote" \in Bound
    BY <1>2 DEF OnboardingInv, WXStored, WX!At, Bound
  <2> QED
    BY <1>2, <1>4, <1>5, <1>6, <1>7, <2>1, <2>3, <2>4, <2>5, <2>6, <2>7, QuietKeeps
<1>8. ASSUME native'[r] = "live", WX!Op(r) # "mfa", WX!Answer(r, "session")
      PROVE  OnboardingInv'
  <2>1. Turned(r, "done", run[r].seen, run[r].mfa, run[r].todo, "session")
    BY <1>1, <1>8, Turns DEF WX!Answers
  <2>2. Issued(WX!Of(r))' /\ WX!Op(r) = "complete"
    BY <1>2, <1>5, <1>8, <2>1, StaysIssued
  <2>3. PlaceAt(r)'
    BY <1>2, <1>5, <1>8, <2>1, <2>2 DEF Turned, PlaceAt, CompleteAt, WX!At
  <2>4. ~Holding(r)'
    BY <2>1 DEF Turned, Holding
  <2>5. Backs(r)'
    BY <1>8 DEF Backs
  <2>6. StoredAt(r)'
    <3>1. provider[r] = "open" /\ r \notin chal \cup obligation /\ WX!Account(r) # "new"
      BY <1>5, <2>2, <1>2 DEF StoredAt, WX!At, CompleteAt
    <3> QED
      BY <1>4, <1>5, <2>1, <2>2, <2>5, <3>1 DEF Turned, StoredAt, Quiet, WX!At
  <2>7. "done" \in Bound /\ "done" \in Scored
    BY DEF Bound, Scored
  <2> QED
    BY <1>2, <1>4, <1>5, <1>6, <1>8, <2>1, <2>2, <2>3, <2>4, <2>5, <2>6, <2>7, QuietKeeps
<1>9. CASE WX!Tidying(r, WX!Abandon(r), "internal")
  <2>1. WX!Abandon(r) \in Lists /\ "revoke" \in Left(WX!Abandon(r)) /\ "unsession" \notin Left(WX!Abandon(r))
    BY ListFacts DEF WX!Abandon, Lists, WX!Chores
  <2>2. Turned(r, "tidy", run[r].seen, run[r].mfa, WX!Abandon(r), "internal")
    BY <1>1, <1>9, <2>1, Turns DEF WX!Answers
  <2>3. EngagedAt(r)'
    BY <2>2, <1>6 DEF Turned, Holding
  <2> QED
    BY <1>2, <1>4, <2>1, <2>2, <2>3, GivingUpKeeps
<1> QED
  BY <1>1, <1>7, <1>8, <1>9 DEF WX!CreateSession, WX!AfterSession, Wholes

-----------------------------------------------------------------------------
(* Chores, and the end of a request *)

LEMMA TidyKeeps ==
  ASSUME WX!OnboardingAssumption, OnboardingInv, NEW r \in WXRequests, NEW l \in {"tidy", "done"}, NEW d,
         WX!At(r, "tidy"), Turned(r, l, run[r].seen, run[r].mfa, d, run[r].answer), Quiet(r), UNCHANGED attempts,
         Left(d) \subseteq Left(run[r].todo),
         l = "tidy" /\ "revoke" \in Left(d) => EngagedAt(r)',
         WX!Op(r) = "complete" => native'[r] = native[r],
         WX!Op(r) = "complete" /\ "revoke" \in Left(run[r].todo) => (l = "tidy" /\ "revoke" \in Left(d)) \/ provider[r] # "open" \/ run[r].mfa \/ r \in leaked',
         WX!Op(r) = "mfa" /\ WX!Of(r) \in WX!Completes /\ Backs(r) => Backs(r)' \/ WX!Of(r) \in leaked'
  PROVE  OnboardingInv'
<1> USE Inputs
<1>1. PlaceAt(r) /\ Wholes /\ WX!Op(r) # "begin" /\ ~WX!At(r, "done") /\ WX!Busy(r)
  BY DEF OnboardingInv, Placed, PlaceAt, BeginAt, WX!At, WX!Busy
<1>2. /\ WX!Op(r) \in {"complete", "mfa"} /\ run[r].answer \in {"refused", "internal"} /\ Issued(WX!Of(r))
  BY <1>1 DEF PlaceAt
<1>3. PlaceAt(r)'
  BY <1>1, <1>2, StaysIssued DEF PlaceAt, CompleteAt, Turned, WX!At, MFAAt
<1>4. r \in WX!Completes => StoredAt(r)'
  BY <1>1, <1>2 DEF OnboardingInv, WXStored, StoredAt, Issued, WX!At, Backs, Turned, Quiet
<1>5. ~Earned(r)' /\ ~Holding(r)' /\ (Engaged(r)' => Engaged(r) /\ EngagedAt(r)')
  BY <1>2 DEF Earned, Rewarded, Holding, Engaged, Turned, WX!At
<1>6. ReliesAt(r)'
  BY <1>2, <1>5 DEF ReliesAt, Turned
<1>7. l \in Bound /\ l \in Scored
  BY DEF Bound, Scored
<1>8. attempts' \in [WX!Tokens -> Nat] /\ \A t \in WX!Tokens : attempts'[t] <= attempts[t]
  BY <1>1 DEF Wholes
<1> QED
  BY <1>1, <1>3, <1>4, <1>5, <1>6, <1>7, <1>8, QuietKeeps

LEMMA ReleaseKeeps ==
  ASSUME WX!OnboardingAssumption, OnboardingInv, NEW r \in WXRequests,
         WX!Release(r) \/ WX!ScheduleProviderSessionCleanup(r) \/ WX!DeleteSession(r)
  PROVE  OnboardingInv'
<1> USE Inputs
<1>1. PlaceAt(r) /\ Wholes
  BY DEF OnboardingInv, Placed
<1> DEFINE d == Tail(run[r].todo)
<1>2. PICK x \in {"release", "schedule", "unsession"} :
        /\ WX!Chore(r, x) /\ WX!Next1(r)
        /\ x = "release" => WX!Release(r)
        /\ x = "schedule" => WX!ScheduleProviderSessionCleanup(r)
        /\ x = "unsession" => WX!DeleteSession(r)
  BY DEF WX!Release, WX!ScheduleProviderSessionCleanup, WX!DeleteSession
<1>3. /\ Turned(r, "tidy", run[r].seen, run[r].mfa, d, run[r].answer) /\ Left(d) \subseteq Left(run[r].todo)
      /\ x \in Left(run[r].todo) /\ ("revoke" \in Left(run[r].todo) => "revoke" \in Left(d))
      /\ x = "unsession" => "revoke" \in Left(d)
      /\ x = "release" => Left(d) = {}
  BY <1>1, <1>2, Chored
<1>4. WX!At(r, "tidy") /\ WX!Op(r) # "begin" /\ WX!Of(r) \in WX!Tokens
  BY <1>2, <1>1 DEF WX!Chore, PlaceAt, BeginAt, WX!At
<1>5. WX!Op(r) = "complete" => x # "unsession"
  BY <1>1, <1>3 DEF PlaceAt, CompleteAt
<1>6. /\ UNCHANGED <<account, chal, attempts, obligation, promoted, lease, provider, work, WX!historyVars>>
      /\ WX!NoFault \/ WX!Fault
      /\ promotion' \subseteq promotion /\ obligation \subseteq due' /\ due' \subseteq due
      /\ holder' = holder \/ (holder[WX!Of(r)] = r /\ holder' = [holder EXCEPT ![WX!Of(r)] = "none"])
      /\ native' = native \/ (x = "unsession" /\ native' = [native EXCEPT ![r] = "gone"])
  BY <1>1, <1>2 DEF WX!Release, WX!cleanupVars, Wholes, WX!ScheduleProviderSessionCleanup, WX!DeleteSession
<1>7. Quiet(r)
  <2>1. /\ holder' \in [WX!Tokens -> WXRequests \cup {"none"}]
        /\ \A t \in WX!Tokens : holder'[t] # holder[t] => holder[t] \in {r, "none"}
    BY <1>1, <1>4, <1>6 DEF Wholes
  <2>2. /\ native' \in [WXRequests -> {"none", "live", "gone"}]
        /\ \A q \in WXRequests : q # r => native'[q] = native[q]
    BY <1>1, <1>6 DEF Wholes
  <2> QED
    BY <1>1, <1>4, <1>6, <2>1, <2>2 DEF Quiet, Wholes, WX!historyVars, Holding, WX!At
<1>8. "revoke" \in Left(d) => EngagedAt(r)'
  BY <1>3, <1>4, <1>2, <1>6 DEF OnboardingInv, Exclusive, Engaged, Turned, Holding,
     WX!ScheduleProviderSessionCleanup, WX!DeleteSession, WX!historyVars, EngagedAt
<1>9. WX!Op(r) = "mfa" /\ WX!Of(r) \in WX!Completes /\ Backs(r) => Backs(r)'
  BY <1>1, <1>3, <1>4, <1>6 DEF Backs, Turned, WX!At, Wholes
<1>10. WX!Op(r) = "complete" => native'[r] = native[r]
  BY <1>5, <1>6
<1> HIDE DEF d
<1> QED
  BY <1>3, <1>4, <1>6, <1>7, <1>8, <1>9, <1>10, TidyKeeps

LEMMA TidiedKeeps ==
  ASSUME WX!OnboardingAssumption, OnboardingInv, NEW r \in WXRequests, WX!Tidied(r)
  PROVE  OnboardingInv'
  BY Inputs, ListFacts, Turns, AloneIsQuiet, TidyKeeps DEF OnboardingInv, WX!Tidied, WX!Labels, Alone,
     WX!historyVars, Wholes, WX!NoFault, Backs

LEMMA WXCrashKeeps ==
  ASSUME WX!OnboardingAssumption, OnboardingInv, NEW r \in WXRequests, WX!CrashRequest(r)
  PROVE  OnboardingInv'
<1> USE Inputs
<1>1. Wholes /\ PlaceAt(r) /\ WX!Busy(r) /\ ~WX!At(r, "done")
  BY DEF OnboardingInv, Placed, WX!CrashRequest, WX!Busy, WX!At
<1>2. Turned(r, "done", run[r].seen, run[r].mfa, run[r].todo, run[r].answer)
  BY <1>1, Turns DEF WX!CrashRequest, WX!Labels
<1>3. Alone /\ leaked \subseteq leaked' /\ leaked' \subseteq WX!Completes /\ WX!Fault /\ UNCHANGED <<attempts, native>>
  BY <1>1 DEF WX!CrashRequest, Alone, Wholes
<1>4. /\ Quiet(r) /\ attempts' \in [WX!Tokens -> Nat] /\ \A t \in WX!Tokens : attempts'[t] <= attempts[t]
  BY <1>1, <1>3, AloneIsQuiet
<1>5. CASE WX!At(r, "tidy")
  <2>1. WX!Op(r) = "complete" => r \in leaked' \/ provider[r] # "open"
    BY <1>5 DEF OnboardingInv, WXStored, StoredAt, WX!CrashRequest, WX!Ceremony, WX!MFAToken
  <2>2. WX!Op(r) = "mfa" /\ WX!Of(r) \in WX!Completes /\ Backs(r) => Backs(r)' \/ WX!Of(r) \in leaked'
    BY <1>5 DEF WX!CrashRequest, WX!Ceremony, WX!MFAToken
  <2> QED
    BY <1>2, <1>3, <1>4, <1>5, <2>1, <2>2, TidyKeeps
<1>6. CASE ~WX!At(r, "tidy") /\ WX!Op(r) # "begin"
  BY <1>1, <1>6, Working_NoAnswer, <1>4, <1>2, <1>3, GivingUpKeeps DEF WX!At, WX!Busy, WX!CrashRequest,
     PlaceAt, CompleteAt
<1>7. CASE WX!Op(r) = "begin"
  <2>1. PlaceAt(r)'
    BY <1>1, <1>2, <1>3, <1>7 DEF PlaceAt, BeginAt, Turned, Alone, WX!At
  <2>2. ~Earned(r)' /\ ~Engaged(r)'
    BY <1>2, <1>7 DEF Earned, Engaged, Holding, Turned, WX!At
  <2>3. "done" \in Bound /\ "done" \in Scored
    BY DEF Bound, Scored
  <2> QED
    BY <1>1, <1>2, <1>4, <1>7, <2>1, <2>2, <2>3, QuietKeeps
<1> QED
  BY <1>5, <1>6, <1>7

-----------------------------------------------------------------------------
(* The provider session *)

LEMMA OpenedKeeps ==
  ASSUME WX!OnboardingAssumption, OnboardingInv, NEW r \in WXRequests,
         NEW l \in {"bind", "challenge", "tidy"}, NEW d,
         NEW a,
         WX!At(r, "password"), WX!Op(r) = "complete", Turned(r, l, run[r].seen, run[r].mfa, d, a),
         provider' = [provider EXCEPT ![r] = "open"],
         UNCHANGED <<account, chal, holder, attempts, WX!cleanupVars, native, work, registered, moved, lapsed>>,
         l = "tidy" => leaked' = leaked \cup {r} /\ Left(d) = {"release"} /\ a = "internal",
         l # "tidy" => leaked' = leaked /\ d = run[r].todo /\ a = run[r].answer,
         WX!NoFault \/ WX!Fault
  PROVE  OnboardingInv'
<1> USE Inputs
<1>1. PlaceAt(r) /\ Wholes /\ run[r].pc \notin {"tidy", "done"} /\ ~WX!At(r, "done") /\ Holding(r)
  BY DEF OnboardingInv, Placed, WX!At, Holding
<1>2. /\ run[r].answer = "none" /\ r \notin promotion /\ r \notin promoted /\ StoredAt(r) /\ CompleteAt(r)
      /\ WX!Account(r) \in WX!Accounts /\ ~run[r].mfa /\ provider[r] = "none" /\ WX!Of(r) \in WX!Begins
  BY <1>1, Working_NoAnswer DEF PlaceAt, CompleteAt, StoredAt, WX!At
<1>3. r \notin chal \cup obligation
  BY <1>2 DEF StoredAt
<1>4. /\ provider'[r] = "open" /\ provider' \in [WX!Completes -> {"none", "open", "closed"}]
      /\ \A c \in WX!Completes : c # r => provider'[c] = provider[c]
  BY <1>1 DEF Wholes
<1>5. Wholes'
  BY <1>1, WXFaults, <1>4 DEF Wholes, Turned, WX!cleanupVars
<1>6. Counted'
  BY <1>1, <1>5, CountedKeeps DEF WX!At, Bound, Scored, Wholes, Records
<1>7. Placed'
  BY <1>1, StaysIssued, <1>2, PlacedKeeps DEF WX!Busy, WX!At, CompleteAt, Turned, PlaceAt
<1>8. WXStored'
  BY <1>2, <1>3, <1>4, <1>1, StoredKeeps DEF StoredAt, Turned, WX!At, WX!cleanupVars
<1>9. Spent'
  BY <1>2, <1>1, SpentKeeps DEF Earned, Rewarded, Turned
<1>10. Exclusive'
  BY <1>1, HoldersRely, ExclusiveKeeps DEF EngagedAt
<1>11. Relied'
  BY <1>1, <1>4, ReliedKeeps DEF WX!cleanupVars
<1>12. Sweeping'
  BY <1>1, <1>2, <1>4, WorkingKeeps DEF WX!cleanupVars
<1>13. Versioned'
  BY VersionedKeeps
<1> QED
  BY <1>5, <1>6, <1>7, <1>8, <1>9, <1>10, <1>11, <1>12, <1>13, PartsMake

LEMMA PasswordKeeps ==
  ASSUME WX!OnboardingAssumption, OnboardingInv, NEW r \in WXRequests, WX!VerifyUserPassword(r)
  PROVE  OnboardingInv'
<1> USE Inputs
<1>1. PlaceAt(r) /\ Wholes /\ run \in [WXRequests -> Visits]
  BY DEF OnboardingInv, Placed, Wholes
<1>2. WX!At(r, "password") /\ WX!Op(r) = "complete" /\ Holding(r) /\ run[r].pc \notin Bound \cup Scored
  BY <1>1 DEF WX!VerifyUserPassword, WX!At, PlaceAt, BeginAt, MFAAt, Holding, Bound, Scored
<1>3. /\ UNCHANGED <<account, chal, holder, attempts, WX!cleanupVars, native, work, registered, moved, lapsed>>
      /\ WX!NoFault \/ WX!Fault
  BY DEF WX!VerifyUserPassword
<1>4. CompleteAt(r) /\ provider[r] = "none" /\ ~run[r].mfa /\ run[r].answer = "none"
  BY <1>1, <1>2, Working_NoAnswer DEF PlaceAt, CompleteAt, StoredAt, WX!At
<1>5. Left(<<"release">>) = {"release"} /\ Left(<<"drop">>) = {"drop"}
  BY ListFacts DEF Lists, WX!Chores
<1>6. UNCHANGED <<provider, leaked>> => /\ Quiet(r) /\ attempts' \in [WX!Tokens -> Nat]
                                        /\ \A t \in WX!Tokens : attempts'[t] <= attempts[t]
                                        /\ UNCHANGED <<holder, lapsed, native>>
  BY <1>3, <1>1, AloneIsQuiet DEF Alone, Wholes
<1>7. CASE WX!To(r, "count") /\ UNCHANGED <<provider, leaked>>
  BY <1>1, <1>7, Turns, <1>2, <1>4, <1>6, GoingOnKeeps DEF WX!Labels, CompleteAt, Turned, WX!At
<1>8. CASE (WX!Tidying(r, <<"drop">>, "refused") \/ WX!Tidying(r, <<"release">>, "internal")) /\ UNCHANGED <<provider, leaked>>
  BY <1>1, <1>5, <1>8, Turns, <1>2, <1>6, HoldersRely, <1>4, GivingUpKeeps DEF Lists, WX!Answers
<1>9. CASE WX!Tidying(r, <<"release">>, "internal") /\ provider' = [provider EXCEPT ![r] = "open"] /\ leaked' = leaked \cup {r}
  BY <1>1, <1>9, Turns, <1>2, <1>3, <1>5, OpenedKeeps DEF Lists, WX!Answers
<1>10. CASE provider' = [provider EXCEPT ![r] = "open"] /\ UNCHANGED leaked /\ \E next \in {"bind", "challenge"} : WX!To(r, next)
  <2>1. PICK l \in {"bind", "challenge"} : WX!To(r, l)
    BY <1>10
  <2>2. Turned(r, l, run[r].seen, run[r].mfa, run[r].todo, run[r].answer)
    BY <1>1, <2>1, Turns DEF WX!Labels
  <2>3. /\ l # "tidy" /\ leaked' = leaked /\ provider' = [provider EXCEPT ![r] = "open"]
        /\ l \in {"bind", "challenge", "tidy"}
    BY <1>10
  <2> HIDE Inputs
  <2> QED
    BY <1>2, <1>3, <2>2, <2>3, OpenedKeeps, ZenonT(60)
<1> QED
  BY <1>7, <1>8, <1>9, <1>10 DEF WX!VerifyUserPassword

LEMMA RevokeKeeps ==
  ASSUME WX!OnboardingAssumption, OnboardingInv, NEW r \in WXRequests, WX!Revoke(r)
  PROVE  OnboardingInv'
<1> USE Inputs
<1>1. PlaceAt(r) /\ Wholes
  BY DEF OnboardingInv, Placed
<1> DEFINE d == Tail(run[r].todo)
<1> DEFINE c == WX!Ceremony(r)
<1>2. /\ Turned(r, "tidy", run[r].seen, run[r].mfa, d, run[r].answer) /\ Left(d) \subseteq Left(run[r].todo)
      /\ "revoke" \in Left(run[r].todo) /\ WX!At(r, "tidy") /\ WX!Chore(r, "revoke") /\ WX!Next1(r)
  BY <1>1, Chored DEF WX!Revoke, WX!Chore
<1>3. /\ WX!Op(r) \in {"complete", "mfa"} /\ run[r].answer \in {"refused", "internal"} /\ Issued(WX!Of(r))
      /\ WX!Of(r) \in WX!Tokens
      /\ ~WX!At(r, "done") /\ WX!Of(r) # r /\ WX!Of(r) \in WXRequests
  BY <1>1, <1>2 DEF PlaceAt, BeginAt, WX!At, WX!Busy, Issued
<1>4. Engaged(r) /\ EngagedAt(r)
  BY <1>2 DEF OnboardingInv, Exclusive, Engaged
<1>5. (c = WX!Of(r) /\ WX!Of(r) \in WX!Completes) \/ (c = r /\ WX!Of(r) \in WX!Begins)
  BY <1>3 DEF WX!Ceremony, WX!MFAToken
<1>6. /\ UNCHANGED <<account, chal, holder, attempts, WX!cleanupVars, native, work, registered, moved, lapsed>>
      /\ leaked \subseteq leaked' /\ leaked' \subseteq WX!Completes /\ (WX!NoFault \/ WX!Fault)
      /\ provider' \in [WX!Completes -> {"none", "open", "closed"}]
      /\ \A x \in WX!Completes : x # c => provider'[x] = provider[x]
      /\ c \in WX!Completes => \/ provider'[c] # "open" /\ (provider'[c] # provider[c] => provider'[c] = "closed" /\ provider[c] = "open")
                               \/ provider'[c] = provider[c] /\ c \in leaked'
  BY <1>1 DEF WX!Revoke, Wholes
<1> HIDE DEF c, d
<1>7. Wholes'
  BY <1>1, <1>6, WXFaults, <1>2 DEF Wholes, Turned, WX!cleanupVars
<1>8. Counted'
  BY <1>1, <1>6, <1>2, <1>7, CountedKeeps DEF Bound, Scored, Wholes, Records
<1>9. Placed'
  BY <1>2, <1>3, StaysIssued, <1>1, <1>6, PlacedKeeps DEF PlaceAt, CompleteAt, Turned, WX!At, MFAAt
<1>10. WXStored'
  <2>1. r \in WX!Completes => StoredAt(r)'
    BY <1>3, <1>5, <1>6, <1>2 DEF OnboardingInv, WXStored, StoredAt, Issued, WX!At, Turned, WX!cleanupVars
  <2>2. \A x \in WX!Completes : x # r => provider'[x] = provider[x] \/ (provider'[x] = "closed" /\ Issued(x))
    BY <1>3, <1>5, <1>6
  <2>3. WX!Op(r) = "mfa" /\ WX!Of(r) \in WX!Completes => WX!Of(r) \in leaked' \/ provider'[WX!Of(r)] # "open"
    BY <1>5, <1>6
  <2>4. r \in chal => "tidy" \in {"consume", "tidy", "done"}
    OBVIOUS
  <2> QED
    BY <1>2, <1>3, <1>6, <2>1, <2>2, <2>3, <2>4, StoredKeeps DEF WX!cleanupVars
<1>11. Spent'
  BY <1>2, <1>3, <1>6, SpentKeeps DEF Earned, Rewarded, Turned
<1>12. Exclusive'
  BY <1>2, <1>4, <1>6, <1>3, ExclusiveKeeps DEF EngagedAt, Turned, Holding
<1>13. Relied'
  BY <1>2, <1>3, <1>4, <1>5, <1>6, ReliedKeeps DEF ReliesAt, Turned, Holding, WX!cleanupVars
<1>14. Sweeping'
  BY <1>2, <1>3, <1>6, WorkingKeeps DEF WX!cleanupVars
<1>15. Versioned'
  BY <1>2, <1>6, VersionedKeeps
<1> QED
  BY <1>6, <1>7, <1>8, <1>9, <1>10, <1>11, <1>12, <1>13, <1>14, <1>15, PartsMake

-----------------------------------------------------------------------------
(* Challenges are made *)

LEMMA OnboardingMade ==
  ASSUME WX!OnboardingAssumption, OnboardingInv, NEW r \in WXRequests, NEW a \in {"onboarding", "internal"},
         WX!At(r, "create"), Turned(r, "done", run[r].seen, run[r].mfa, run[r].todo, a),
         chal' = chal \cup {r}, WX!NoFault \/ WX!Fault,
         UNCHANGED <<account, holder, attempts, WX!cleanupVars, provider, native, work, WX!historyVars>>
  PROVE  OnboardingInv'
<1> USE Inputs
<1>1. PlaceAt(r) /\ Wholes /\ run[r].pc \notin {"tidy", "done"} /\ ~WX!At(r, "done")
  BY DEF OnboardingInv, Placed, WX!At
<1>2. WX!Op(r) = "begin" /\ BeginAt(r) /\ r \in WX!Tokens /\ r \notin WX!Completes /\ run[r].answer = "none"
  BY <1>1 DEF PlaceAt, CompleteAt, MFAAt, WX!At
<1>3. Wholes'
  BY <1>1, WXFaults, <1>2 DEF Wholes, Turned, WX!cleanupVars, WX!historyVars
<1>4. Counted'
  BY <1>1, <1>3, CountedKeeps DEF Bound, Scored, Wholes, Records
<1>5. Placed'
  BY <1>1, <1>2, PlacedKeeps DEF PlaceAt, BeginAt, Turned, WX!At
<1>6. WXStored'
  BY <1>1, <1>2, StoredKeeps DEF WX!cleanupVars, WX!historyVars
<1>7. ~Earned(r)' /\ ~Engaged(r)'
  BY <1>2 DEF Earned, Engaged, Holding, Turned, WX!At
<1>8. Spent'
  BY <1>1, <1>7, SpentKeeps
<1>9. Exclusive'
  BY <1>1, <1>7, ExclusiveKeeps DEF WX!historyVars
<1>10. Relied'
  BY <1>1, <1>2, ReliedKeeps DEF WX!cleanupVars, WX!historyVars
<1>11. Sweeping'
  BY <1>1, <1>2 DEF Wholes, Tasks, OnboardingInv, Sweeping, WorkAt, Turned, WX!cleanupVars
<1>12. Versioned'
  BY <1>1, VersionedKeeps DEF WX!historyVars
<1> QED
  BY <1>3, <1>4, <1>5, <1>6, <1>8, <1>9, <1>10, <1>11, <1>12, PartsMake DEF WX!historyVars

LEMMA CreateOnboardingKeeps ==
  ASSUME WX!OnboardingAssumption, OnboardingInv, NEW r \in WXRequests, WX!CreateOnboarding(r)
  PROVE  OnboardingInv'
<1> USE Inputs
<1>1. Wholes /\ WX!At(r, "create")
  BY DEF OnboardingInv, WX!CreateOnboarding
<1>2. CASE chal' = chal \cup {r}
  BY <1>1, Turns, <1>2, OnboardingMade DEF WX!CreateOnboarding, WX!Answers
<1>3. CASE UNCHANGED chal
  BY <1>3, FederatedKeeps
<1> QED
  BY <1>2, <1>3 DEF WX!CreateOnboarding

LEMMA ChallengeMade ==
  ASSUME WX!OnboardingAssumption, OnboardingInv, NEW r \in WXRequests, NEW l \in {"consume", "tidy"}, NEW m,
         NEW d,
         NEW a,
         WX!At(r, "challenge"), Turned(r, l, run[r].seen, m, d, a), WX!CreateMFAChallenge(r), WX!NoFault \/ WX!Fault,
         l = "consume" => m = TRUE /\ d = run[r].todo /\ a = run[r].answer,
         l = "tidy" => m = run[r].mfa /\ Left(d) = {"revoke", "release"} /\ a = "internal",
         UNCHANGED <<account, holder, attempts, promotion, promoted, lease, provider, native, work,
         WX!historyVars>>
  PROVE  OnboardingInv'
<1> USE Inputs
<1>1. PlaceAt(r) /\ Wholes /\ run[r].pc \notin {"tidy", "done"} /\ ~WX!At(r, "done") /\ WX!Op(r) = "complete" /\ Holding(r)
  BY DEF OnboardingInv, Placed, PlaceAt, BeginAt, MFAAt, WX!At, Holding
<1>2. /\ run[r].answer = "none" /\ r \notin promotion /\ r \notin promoted /\ StoredAt(r) /\ CompleteAt(r)
      /\ WX!Account(r) \in WX!Accounts /\ ~run[r].mfa /\ provider[r] = "open" /\ WX!Of(r) \in WX!Begins
  BY <1>1, Working_NoAnswer DEF PlaceAt, CompleteAt, StoredAt, WX!At
<1>3. chal' = chal \cup {r} /\ obligation' = obligation \cup {r} /\ due' = due \cup {r}
  BY DEF WX!CreateMFAChallenge
<1>4. Wholes'
  BY <1>1, WXFaults, <1>2, <1>3 DEF Wholes, Turned, WX!historyVars
<1>5. Counted'
  BY <1>1, <1>4, CountedKeeps DEF WX!At, Bound, Scored, Wholes, Records
<1>6. Placed'
  BY <1>1, StaysIssued, <1>2, PlacedKeeps DEF WX!Busy, WX!At, CompleteAt, Turned, PlaceAt
<1>7. WXStored'
  BY <1>2, <1>3, <1>1, StoredKeeps DEF StoredAt, Backs, Turned, WX!At, WX!historyVars
<1>8. Spent'
  BY <1>2, <1>1, <1>3, SpentKeeps DEF Earned, Rewarded, Turned
<1>9. Exclusive'
  BY <1>1, HoldersRely, <1>2, <1>3, ExclusiveKeeps DEF EngagedAt, WX!historyVars
<1>10. Relied'
  BY <1>1, ReliedKeeps DEF WX!historyVars
<1>11. Sweeping'
  BY <1>1, <1>2, <1>3, WorkingKeeps
<1>12. Versioned'
  BY <1>1, VersionedKeeps DEF WX!historyVars
<1> QED
  BY <1>4, <1>5, <1>6, <1>7, <1>8, <1>9, <1>10, <1>11, <1>12, PartsMake DEF WX!historyVars

LEMMA StoreKeeps ==
  ASSUME WX!OnboardingAssumption, OnboardingInv, NEW r \in WXRequests, WX!StoreMFAChallenge(r)
  PROVE  OnboardingInv'
<1> USE Inputs
<1>1. PlaceAt(r) /\ Wholes /\ run \in [WXRequests -> Visits]
  BY DEF OnboardingInv, Placed, Wholes
<1>2. WX!At(r, "challenge") /\ WX!Op(r) = "complete" /\ Holding(r) /\ run[r].pc \notin Bound \cup Scored
  BY <1>1 DEF WX!StoreMFAChallenge, WX!At, PlaceAt, BeginAt, MFAAt, Holding, Bound, Scored
<1>3. /\ UNCHANGED <<account, holder, attempts, promotion, promoted, lease, provider, native, work, WX!historyVars>>
      /\ WX!NoFault \/ WX!Fault
  BY DEF WX!StoreMFAChallenge
<1>4. CASE WX!CreateMFAChallenge(r) /\ run' = [run EXCEPT ![r].pc = "consume", ![r].mfa = TRUE]
  <2>1. Turned(r, "consume", run[r].seen, TRUE, run[r].todo, run[r].answer)
    <3> DEFINE now == [[run[r] EXCEPT !.pc = "consume"] EXCEPT !.mfa = TRUE]
    <3>1. "consume" \in WX!Labels /\ run[r] \in Visits /\ run \in [WXRequests -> Visits]
      BY <1>1 DEF WX!Labels
    <3>2. run' = [run EXCEPT ![r] = now]
      <4> HIDE Inputs
      <4> QED
        BY <1>4, <3>1 DEF Visits
    <3>3. now \in Visits /\ now.pc = "consume" /\ now.seen = run[r].seen
          /\ now.mfa = TRUE /\ now.todo = run[r].todo /\ now.answer = run[r].answer
      BY <3>1 DEF Visits
    <3> HIDE DEF now
    <3> QED
      BY <3>1, <3>2, <3>3 DEF Turned
  <2> HIDE Inputs
  <2> QED
    BY <1>2, <1>3, <1>4, <2>1, ChallengeMade, ZenonT(60)
<1>5. CASE WX!Tidying(r, <<"revoke", "release">>, "internal")
  <2>1. Turned(r, "tidy", run[r].seen, run[r].mfa, <<"revoke", "release">>, "internal")
    BY <1>1, <1>5, Turns DEF Lists, WX!Answers
  <2>2. Left(<<"revoke", "release">>) = {"revoke", "release"}
    BY ListFacts DEF Lists, WX!Chores
  <2>3. CASE WX!CreateMFAChallenge(r)
    <3> HIDE Inputs
    <3> QED
      BY <1>2, <1>3, <2>1, <2>2, <2>3, ChallengeMade, ZenonT(60)
  <2>4. CASE UNCHANGED <<chal, obligation, due>>
    <3>1. Alone /\ UNCHANGED leaked
      BY <1>3, <2>4 DEF Alone, WX!cleanupVars, WX!historyVars
    <3>2. /\ Quiet(r) /\ attempts' \in [WX!Tokens -> Nat] /\ \A t \in WX!Tokens : attempts'[t] <= attempts[t]
          /\ UNCHANGED <<holder, lapsed, native, chal>>
      BY <1>1, <1>3, <3>1, AloneIsQuiet DEF Wholes, Alone
    <3>3. Engaged(r) /\ EngagedAt(r) /\ ~WX!At(r, "idle") /\ run[r].pc \notin {"tidy", "done"}
      BY <1>2, HoldersRely
    <3>4. EngagedAt(r)'
      BY <1>2, <3>2, <3>3 DEF EngagedAt
    <3> QED
      BY <1>2, <2>1, <2>2, <3>2, <3>3, <3>4, GivingUpKeeps
  <2> QED
    BY <1>5, <2>3, <2>4 DEF WX!StoreMFAChallenge
<1> QED
  BY <1>4, <1>5 DEF WX!StoreMFAChallenge

-----------------------------------------------------------------------------
(* A token is consumed *)

LEMMA ConsumedKeeps ==
  ASSUME WX!OnboardingAssumption, OnboardingInv, NEW r \in WXRequests, NEW l \in {"session", "tidy", "done"},
         NEW d,
         NEW a,
         run[r].pc \in {"consume", "tidy"}, WX!At(r, "tidy") => l = "tidy", WX!Op(r) # "begin",
         Turned(r, l, run[r].seen, run[r].mfa, d, a), WX!Consumable(r), WX!ConsumeHash(r), WX!NoFault \/ WX!Fault,
         UNCHANGED <<account, obligation, promoted, lease, provider, native, work, WX!historyVars>>,
         PlaceAt(r)', r \in WX!Completes => StoredAt(r)', r \in chal => l # "session",
         Engaged(r)' => Engaged(r), WX!Op(r) = "mfa" /\ Backs(r) => Backs(r)',
         WX!Op(r) = "mfa" /\ WX!Of(r) \in WX!Completes => ReliesAt(r)',
         run[r].answer = "internal" => a = "internal"
  PROVE  OnboardingInv'
<1> USE Inputs
<1> DEFINE t == WX!Of(r)
<1>1. Wholes /\ ~WX!At(r, "done") /\ WX!Busy(r) /\ ~WX!At(r, "idle")
  BY DEF OnboardingInv, WX!At, WX!Busy
<1>2. t \in WX!Tokens /\ t \in WXRequests /\ Issued(t) /\ t # r
  BY <1>1, StaysIssued
<1>3. /\ t \in chal /\ holder[t] = r /\ chal' = chal \ {t} /\ holder' = [holder EXCEPT ![t] = "none"]
      /\ attempts' = [attempts EXCEPT ![t] = 0]
  BY DEF WX!Consumable, WX!ConsumeHash
<1>4. /\ promotion' \subseteq promotion \cup {t} /\ promotion' \subseteq obligation
      /\ obligation \subseteq due' /\ due' \subseteq WX!Completes
      /\ t \in promotion' => t \in WX!Completes
  BY <1>1 DEF WX!ConsumeHash, Wholes
<1> HIDE DEF t
<1>5. Wholes'
  BY <1>1, WXFaults, <1>3, <1>4 DEF Wholes, Turned, WX!historyVars
<1>6. Counted'
  BY <1>1, <1>3, <1>5, CountedKeeps DEF Bound, Scored, WX!At, Wholes, Records
<1>7. Placed'
  BY <1>1, PlacedKeeps
<1>8. WXStored'
  BY <1>3, <1>2, <1>4, <1>1, StoredKeeps DEF WX!historyVars
<1>9. Spent'
  BY <1>1, <1>3, SpentKeeps DEF t
<1>10. Exclusive'
  BY <1>3, <1>1, ExclusiveKeeps DEF EngagedAt, Turned, Holding, t, Wholes, WX!historyVars
<1>11. Relied'
  BY <1>3, <1>4, <1>1, ReliedKeeps DEF WX!historyVars
<1>12. Sweeping'
  BY <1>3, <1>4, <1>1, WorkingKeeps
<1>13. Versioned'
  BY <1>1, VersionedKeeps DEF WX!historyVars
<1> QED
  BY <1>5, <1>6, <1>7, <1>8, <1>9, <1>10, <1>11, <1>12, <1>13, PartsMake DEF WX!historyVars

\* A token that is gone gives up the lock, if the request still has it.
LEMMA NotConsumedIsQuiet ==
  ASSUME WX!OnboardingAssumption, OnboardingInv, NEW r \in WXRequests, WX!Of(r) \in WX!Tokens,
         WX!NoFault \/ WX!Fault,
         UNCHANGED <<account, obligation, promoted, lease, provider, native, work, WX!historyVars>>,
         UNCHANGED WX!ConsumeVars \/ (~WX!Consumable(r) /\ WX!NotConsumed(r))
  PROVE  /\ Quiet(r) /\ UNCHANGED <<attempts, native, chal, leaked, lapsed>>
         /\ attempts' \in [WX!Tokens -> Nat] /\ \A t \in WX!Tokens : attempts'[t] <= attempts[t]
         /\ EngagedAt(r) /\ ~Holding(r)' => EngagedAt(r)'
  BY DEF OnboardingInv, WX!ConsumeVars, WX!NotConsumed, WX!Consumable, Wholes, Quiet, WX!historyVars,
     EngagedAt

LEMMA ConsumeKeeps ==
  ASSUME WX!OnboardingAssumption, OnboardingInv, NEW r \in WXRequests, WX!Consume(r)
  PROVE  OnboardingInv'
<1> USE Inputs
<1>1. PlaceAt(r) /\ Wholes /\ WX!At(r, "consume")
  BY DEF OnboardingInv, Placed, WX!Consume
<1>2. WX!Op(r) # "begin" /\ Holding(r) /\ WX!Op(r) \in {"complete", "mfa"}
  BY <1>1 DEF WX!At, PlaceAt, BeginAt, Holding
<1>3. /\ UNCHANGED <<account, obligation, promoted, lease, provider, native, work, WX!historyVars>>
      /\ WX!NoFault \/ WX!Fault
  BY DEF WX!Consume
<1>4. /\ Engaged(r) /\ EngagedAt(r) /\ WX!Busy(r) /\ ~WX!At(r, "done") /\ ~WX!At(r, "idle")
      /\ ~WX!At(r, "tidy")
      /\ run[r].pc \in {"consume", "tidy"} /\ run[r].pc \notin {"tidy", "done"}
  BY <1>1, <1>2, HoldersRely DEF WX!At
<1>5. /\ run[r].answer = "none" /\ r \notin promotion /\ r \notin promoted
      /\ (r \in WX!Completes => StoredAt(r))
      /\ WX!Of(r) \in WX!Tokens /\ Issued(WX!Of(r)) /\ WX!Of(r) \in WXRequests
  BY <1>1, <1>2, <1>4, Working_NoAnswer DEF PlaceAt
<1>6. Backs(r) => Backs(r)'
  BY <1>3, <1>4 DEF Backs
<1>7. WX!Op(r) = "complete" => /\ CompleteAt(r) /\ WX!Of(r) \in WX!Begins /\ native[r] # "gone"
                               /\ WX!Account(r) = "new" => provider[r] = "none" /\ ~run[r].mfa
                               /\ ~run[r].mfa /\ WX!Account(r) # "new"
                                  => provider[r] = "open" /\ r \notin chal
  BY <1>1, <1>5 DEF PlaceAt, CompleteAt, StoredAt, WX!At
<1>8. ASSUME NEW d \in {<<"release">>, <<"revoke", "release">>}, d = WX!Undo(r), WX!Tidying(r, d, "internal")
      PROVE  /\ Turned(r, "tidy", run[r].seen, run[r].mfa, d, "internal")
             /\ "unsession" \notin Left(d)
             /\ WX!Op(r) = "complete" => "revoke" \in Left(d) \/ provider[r] # "open"
             /\ ~Holding(r)' /\ ~Earned(r)' /\ native'[r] = native[r]
  <2>1. Turned(r, "tidy", run[r].seen, run[r].mfa, d, "internal")
    BY <1>1, <1>8, Turns DEF Lists, WX!Answers
  <2>2. Left(<<"release">>) = {"release"} /\ Left(<<"revoke", "release">>) = {"revoke", "release"}
    BY ListFacts DEF Lists, WX!Chores
  <2>3. WX!Op(r) = "complete" => "revoke" \in Left(d) \/ provider[r] # "open"
    BY <1>7, <1>8, <2>2 DEF WX!Undo
  <2>4. ~Holding(r)' /\ ~Earned(r)'
    BY <2>1 DEF Turned, Holding, Earned, Rewarded
  <2> QED
    BY <1>3, <1>8, <2>1, <2>2, <2>3, <2>4
<1>9. WX!Undo(r) \in {<<"release">>, <<"revoke", "release">>}
  BY DEF WX!Undo
<1>10. CASE WX!Tidying(r, WX!Undo(r), "internal") /\ (UNCHANGED WX!ConsumeVars \/ (~WX!Consumable(r) /\ WX!NotConsumed(r)))
  <2> DEFINE d == WX!Undo(r)
  <2>1. /\ Turned(r, "tidy", run[r].seen, run[r].mfa, d, "internal") /\ "unsession" \notin Left(d)
        /\ WX!Op(r) = "complete" => "revoke" \in Left(d) \/ provider[r] # "open"
        /\ ~Holding(r)' /\ native'[r] = native[r]
    BY <1>8, <1>9, <1>10
  <2> HIDE DEF d
  <2>2. /\ Quiet(r) /\ attempts' \in [WX!Tokens -> Nat] /\ \A t \in WX!Tokens : attempts'[t] <= attempts[t]
        /\ EngagedAt(r) /\ ~Holding(r)' => EngagedAt(r)'
    BY <1>3, <1>5, <1>10, NotConsumedIsQuiet
  <2> QED
    BY <1>2, <1>4, <2>1, <2>2, GivingUpKeeps
<1>11. CASE WX!Tidying(r, WX!Undo(r), "internal") /\ WX!Consumable(r) /\ WX!ConsumeHash(r)
  <2> DEFINE d == WX!Undo(r)
  <2>1. /\ Turned(r, "tidy", run[r].seen, run[r].mfa, d, "internal") /\ "unsession" \notin Left(d)
        /\ WX!Op(r) = "complete" => "revoke" \in Left(d) \/ provider[r] # "open"
        /\ ~Holding(r)' /\ ~Earned(r)' /\ native'[r] = native[r]
    BY <1>8, <1>9, <1>11
  <2> HIDE DEF d
  <2>2. PlaceAt(r)'
    BY <1>7, <2>1, <1>1, <1>5, <1>4, StaysIssued, <1>2 DEF CompleteAt, Turned, WX!At, PlaceAt, MFAAt
  <2>3. r \in WX!Completes => StoredAt(r)'
    BY <1>3, <1>4, <1>5, <1>11, <2>1 DEF WX!ConsumeHash, WX!historyVars, Issued, StoredAt, Turned, Backs,
       WX!At
  <2>4. ReliesAt(r)'
    BY <2>1 DEF ReliesAt, Turned
  <2> QED
    BY <1>2, <1>3, <1>4, <1>5, <1>6, <1>11, <2>1, <2>2, <2>3, <2>4, ConsumedKeeps
<1>12. CASE WX!Won(r) /\ WX!Consumable(r) /\ WX!ConsumeHash(r)
  <2>1. PICK l \in {"session", "done"}, a \in {"none", "registered", "mfa"} :
          /\ Turned(r, l, run[r].seen, run[r].mfa, run[r].todo, a) /\ (l = "session" <=> a = "none")
          /\ a = "registered" => WX!Op(r) = "complete" /\ WX!Account(r) = "new"
          /\ a = "mfa" => run[r].mfa
          /\ a = "none" => ~run[r].mfa /\ (WX!Op(r) = "complete" => WX!Account(r) # "new")
    BY <1>1, <1>5, <1>12, Turns DEF WX!Won, WX!Labels, WX!Answers
  <2>2. WX!Op(r) = "mfa" => ~run[r].mfa /\ MFAAt(r) /\ WX!Of(r) \in WX!Completes /\ a = "none"
    BY <1>1, <1>4, <2>1 DEF PlaceAt, MFAAt
  <2>3. UNCHANGED <<provider, obligation, promoted, leaked, native>> /\ promotion' \subseteq promotion \cup {WX!Of(r)} /\ WX!Of(r) # r /\ chal' \subseteq chal
    BY <1>3, <1>4, <1>5, <1>12 DEF WX!ConsumeHash, WX!historyVars, Issued
  <2>4. PlaceAt(r)'
    <3>1. WX!Op(r) = "complete" => CompleteAt(r)'
      BY <1>1, <1>7, <2>1, <2>3 DEF CompleteAt, Turned, WX!At
    <3>2. WX!Op(r) = "mfa" => MFAAt(r)'
      BY <1>1, <1>5, <2>1, <2>2, <2>3 DEF MFAAt, Turned, WX!At
    <3>3. Issued(WX!Of(r))'
      BY <1>4, <1>5, <2>1, StaysIssued
    <3> QED
      BY <1>2, <2>1, <3>1, <3>2, <3>3 DEF PlaceAt, Turned, WX!At
  <2>5. r \in WX!Completes => StoredAt(r)'
    BY <1>1, <1>5, <1>7, <2>1, <2>3 DEF StoredAt, Turned, Backs, WX!At
  <2>6. ReliesAt(r)' \/ WX!Op(r) # "mfa"
    BY <1>2, <2>2, <1>1, <1>3, <2>1, <2>3 DEF OnboardingInv, Relied, ReliesAt, WX!At, Turned, WX!historyVars,
       Holding
  <2>7. r \in chal => l # "session"
    BY <1>1, <1>2, <1>7, <2>1 DEF Wholes
  <2> QED
    BY <1>2, <1>3, <1>4, <1>5, <1>6, <1>12, <2>1, <2>4, <2>5, <2>6, <2>7, ConsumedKeeps
<1> QED
  BY <1>10, <1>11, <1>12 DEF WX!Consume

LEMMA DropKeeps ==
  ASSUME WX!OnboardingAssumption, OnboardingInv, NEW r \in WXRequests, WX!Drop(r)
  PROVE  OnboardingInv'
<1> USE Inputs
<1>1. PlaceAt(r) /\ Wholes
  BY DEF OnboardingInv, Placed
<1> DEFINE d == Tail(run[r].todo)
<1>2. /\ Turned(r, "tidy", run[r].seen, run[r].mfa, d, run[r].answer) /\ Left(d) \subseteq Left(run[r].todo)
      /\ Left(run[r].todo) \subseteq Left(d) \cup {"drop"} /\ WX!At(r, "tidy")
  BY <1>1, Chored DEF WX!Drop, WX!Chore
<1> HIDE DEF d
<1>3. /\ WX!Op(r) \in {"complete", "mfa"} /\ run[r].answer \in {"refused", "internal"} /\ Issued(WX!Of(r))
      /\ WX!Of(r) \in WX!Tokens
      /\ ~WX!At(r, "done") /\ WX!Of(r) # r /\ WX!Of(r) \in WXRequests /\ run[r].pc \in {"consume", "tidy"}
  BY <1>1, <1>2 DEF PlaceAt, BeginAt, WX!At, WX!Busy, Issued
<1>4. /\ UNCHANGED <<account, obligation, promoted, lease, provider, native, work, WX!historyVars>>
      /\ WX!NoFault \/ WX!Fault
  BY DEF WX!Drop
<1>5. "revoke" \in Left(d) <=> "revoke" \in Left(run[r].todo)
  BY <1>2
<1>6. /\ "revoke" \in Left(d) => Engaged(r) /\ EngagedAt(r)
      /\ Engaged(r)' => "revoke" \in Left(d)
      /\ ~Holding(r)' /\ ~Earned(r)' /\ (Backs(r) => Backs(r)')
  BY <1>2, <1>3, <1>4, <1>5 DEF OnboardingInv, Exclusive, Engaged, Turned, Holding, Earned, Rewarded, Backs,
                                WX!At
<1>7. CASE UNCHANGED WX!ConsumeVars \/ (~WX!Consumable(r) /\ WX!NotConsumed(r))
  BY <1>3, <1>4, <1>7, NotConsumedIsQuiet, <1>2, <1>5, <1>6, TidyKeeps
<1>8. CASE WX!Consumable(r) /\ WX!ConsumeHash(r)
  <2>1. chal' \subseteq chal /\ promotion' \subseteq promotion \cup {WX!Of(r)}
    BY <1>8 DEF WX!ConsumeHash
  <2>2. PlaceAt(r)'
    BY <1>1, <1>2, <1>4, <1>3, StaysIssued DEF PlaceAt, CompleteAt, Turned, WX!At, MFAAt
  <2>3. r \in WX!Completes => StoredAt(r)'
    BY <1>3, <1>2, <1>4, <1>6, <2>1 DEF OnboardingInv, WXStored, StoredAt, Issued, Turned, WX!At,
       WX!historyVars
  <2>4. ReliesAt(r)'
    BY <1>2, <1>3, <1>6 DEF ReliesAt, Turned
  <2> QED
    BY <1>2, <1>3, <1>4, <1>6, <1>8, <2>2, <2>3, <2>4, ConsumedKeeps
<1> QED
  BY <1>7, <1>8 DEF WX!Drop

-----------------------------------------------------------------------------
(* The provider session is promoted *)

LEMMA PromotedKeeps ==
  ASSUME WX!OnboardingAssumption, OnboardingInv, NEW r \in WXRequests, NEW l \in {"done", "tidy"}, NEW d,
         NEW a,
         WX!At(r, "promote"), WX!Op(r) = "mfa", Turned(r, l, run[r].seen, run[r].mfa, d, a),
         WX!Promotable(WX!Of(r)), WX!Promoted(WX!Of(r)), WX!NoFault \/ WX!Fault,
         l = "done" => d = run[r].todo /\ a = "session",
         l = "tidy" => "revoke" \in Left(d) /\ a = "internal",
         UNCHANGED <<account, chal, holder, attempts, lease, provider, native, work, WX!historyVars>>
  PROVE  OnboardingInv'
<1> USE Inputs
<1> DEFINE c == WX!Of(r)
<1>1. PlaceAt(r) /\ Wholes /\ ~WX!At(r, "done") /\ ~WX!At(r, "idle") /\ run[r].pc \notin {"tidy", "done"} /\ WX!Busy(r)
  BY DEF OnboardingInv, Placed, WX!At, WX!Busy
<1>2. /\ run[r].answer = "none" /\ MFAAt(r) /\ native[r] = "live" /\ c \in WX!Completes /\ c \in WXRequests
      /\ Issued(c) /\ ~run[r].mfa /\ r \notin WX!Completes /\ r \notin WX!Tokens
  BY <1>1, Working_NoAnswer DEF PlaceAt, MFAAt, WX!At, WX!Tokens
<1>3. /\ c \in obligation /\ c \in promotion /\ c \notin promoted /\ c \notin chal
  BY <1>1, <1>2 DEF WX!Promotable, OnboardingInv, WXStored, StoredAt, Wholes
<1>4. /\ obligation' = obligation \ {c} /\ promotion' = promotion \ {c}
      /\ due' = due \ {c} /\ promoted' = promoted \cup {c}
  BY DEF WX!Promoted
<1>5. Engaged(r) /\ Earned(r) /\ ~Holding(r)' /\ Backs(r)'
  BY <1>2 DEF Engaged, Earned, Holding, Turned, Backs, WX!historyVars, WX!At
<1> HIDE DEF c
<1>6. Wholes'
  BY <1>1, WXFaults, <1>2, <1>4 DEF Wholes, Turned, WX!historyVars
<1>7. Counted'
  BY <1>1, <1>6, CountedKeeps DEF Bound, Scored, Wholes, Records
<1>8. Placed'
  BY <1>1, <1>2, StaysIssued, PlacedKeeps DEF c, MFAAt, Turned, WX!At, PlaceAt
<1>9. WXStored'
  BY <1>2, <1>3, <1>4, <1>5, <1>1, StoredKeeps DEF c, Wholes, WX!historyVars
<1>10. Spent'
  BY <1>1, <1>5, SpentKeeps
<1>11. Exclusive'
  BY <1>3, <1>5, <1>1, ExclusiveKeeps DEF EngagedAt, c, WX!historyVars
<1>12. Relied'
  BY <1>2, <1>3, <1>4, <1>5, <1>1, ReliedKeeps DEF OnboardingInv, Relied, ReliesAt, WX!At, c, Turned,
     WX!historyVars
<1>13. Sweeping'
  BY <1>3, <1>4, <1>1, <1>2, WorkingKeeps
<1>14. Versioned'
  BY <1>1, VersionedKeeps DEF WX!historyVars
<1> QED
  BY <1>6, <1>7, <1>8, <1>9, <1>10, <1>11, <1>12, <1>13, <1>14, PartsMake DEF WX!historyVars

LEMMA PromotionKeeps ==
  ASSUME WX!OnboardingAssumption, OnboardingInv, NEW r \in WXRequests, WX!CompleteProviderSessionPromotion(r)
  PROVE  OnboardingInv'
<1> USE Inputs
<1> DEFINE c == WX!Of(r)
<1> DEFINE undo == <<"schedule", "unsession", "revoke">>
<1>1. /\ PlaceAt(r) /\ Wholes /\ WX!At(r, "promote") /\ ~WX!At(r, "done") /\ ~WX!At(r, "idle")
      /\ run[r].pc \notin {"tidy", "done"} /\ WX!Busy(r)
  BY DEF OnboardingInv, Placed, WX!At, WX!Busy, WX!CompleteProviderSessionPromotion
<1>2. WX!Op(r) = "mfa"
  BY <1>1 DEF PlaceAt, BeginAt, CompleteAt, WX!At
<1>3. /\ run[r].answer = "none" /\ MFAAt(r) /\ native[r] = "live" /\ c \in WX!Completes /\ c \in WXRequests
      /\ Issued(c) /\ ~run[r].mfa /\ r \notin WX!Completes /\ r \notin WX!Tokens /\ c \notin chal
      /\ Engaged(r) /\ Earned(r)
  BY <1>1, <1>2, Working_NoAnswer DEF PlaceAt, MFAAt, WX!At, WX!Tokens, Engaged, Earned, OnboardingInv, Spent
<1>4. /\ UNCHANGED <<account, chal, holder, attempts, lease, provider, native, work, WX!historyVars>>
      /\ WX!NoFault \/ WX!Fault
  BY DEF WX!CompleteProviderSessionPromotion
<1>5. WX!Tidying(r, undo, "internal") =>
        /\ Turned(r, "tidy", run[r].seen, run[r].mfa, undo, "internal") /\ "revoke" \in Left(undo)
  BY <1>1, Turns, ListFacts DEF Lists, WX!Answers, WX!Chores
<1>6. WX!Answer(r, "session") => Turned(r, "done", run[r].seen, run[r].mfa, run[r].todo, "session")
  BY <1>1, Turns DEF WX!Answers
<1> HIDE DEF undo
<1>7. ASSUME UNCHANGED <<obligation, promotion, due, promoted>>
      PROVE  /\ Quiet(r) /\ attempts' \in [WX!Tokens -> Nat]
             /\ \A t \in WX!Tokens : attempts'[t] <= attempts[t]
             /\ native' = native
  BY <1>4, <1>7, <1>1, AloneIsQuiet DEF Alone, WX!cleanupVars, WX!historyVars, Wholes
<1>8. CASE WX!Tidying(r, undo, "internal") /\ UNCHANGED <<obligation, promotion, due, promoted>>
  BY <1>3, <1>4, <1>5, <1>8, <1>1, <1>2, <1>7, GivingUpKeeps DEF EngagedAt, Turned, Holding, c
<1>9. CASE WX!Answer(r, "session") /\ UNCHANGED <<obligation, promotion, due, promoted>> /\ c \in promoted
  <2>1. Turned(r, "done", run[r].seen, run[r].mfa, run[r].todo, "session")
    BY <1>6, <1>9
  <2>2. c \in lapsed'
    BY <1>1, <1>2, <1>3, <1>4, <1>9 DEF OnboardingInv, Relied, ReliesAt, WX!At, WX!historyVars
  <2>3. PlaceAt(r)'
    BY <1>1, <1>3, <2>1, StaysIssued, <1>4, <1>2 DEF MFAAt, Turned, WX!At, PlaceAt
  <2>4. EngagedAt(r)' /\ ReliesAt(r)'
    BY <2>2 DEF EngagedAt, ReliesAt
  <2>5. Backs(r)' /\ "done" \in Bound /\ "done" \in Scored
    BY <1>3, <1>4 DEF Backs, Bound, Scored
  <2> QED
    BY <1>1, <1>2, <1>3, <1>7, <1>9, <2>1, <2>3, <2>4, <2>5, QuietKeeps
<1>10. CASE WX!Promotable(c) /\ WX!Promoted(c) /\ (WX!Answer(r, "session") \/ WX!Tidying(r, undo, "internal"))
  BY <1>1, <1>2, <1>4, <1>6, <1>10, PromotedKeeps, <1>5
<1> QED
  BY <1>8, <1>9, <1>10 DEF WX!CompleteProviderSessionPromotion, undo

-----------------------------------------------------------------------------
(* Accounts move *)

\* At most one account moves to its next version, and leaves its readers behind.
AccountMoves ==
  \/ UNCHANGED <<account, moved>>
  \/ \E a \in WX!Accounts : /\ account'[a].version = account[a].version + 1
                            /\ \A b \in WX!Accounts \ {a} : account'[b] = account[b]
                            /\ moved' = moved \cup WX!Looked(a)

\* Who has looked an account up before it moves is left behind.
LEMMA LeftBehind ==
  ASSUME WX!OnboardingAssumption, OnboardingInv, account' \in [WX!Accounts -> Records],
         \A c \in WX!Completes : run'[c].seen = run[c].seen,
         AccountMoves
  PROVE  /\ Versioned' /\ moved' \subseteq WX!Completes /\ moved \subseteq moved'
         /\ \A b \in WX!Accounts : account'[b].version \in {account[b].version, account[b].version + 1}
<1> USE Inputs
<1>1. Wholes /\ \A c \in WX!Completes : SeenAt(c)
  BY DEF OnboardingInv, Versioned
<1>2. \A b \in WX!Accounts : account[b].version \in Nat
  BY <1>1 DEF Wholes, Records
<1>3. CASE UNCHANGED <<account, moved>>
  BY <1>1, <1>3 DEF Versioned, SeenAt, Wholes
<1>4. CASE ~UNCHANGED <<account, moved>>
  <2>1. PICK a \in WX!Accounts : /\ account'[a].version = account[a].version + 1
                                 /\ \A b \in WX!Accounts \ {a} : account'[b] = account[b]
                                 /\ moved' = moved \cup WX!Looked(a)
    BY <1>4 DEF AccountMoves
  <2>2. \A c \in WX!Looked(a) : c \in WX!Completes /\ WX!Account(c) = a /\ run[c].seen # 0
    BY DEF WX!Looked
  <2>3. ASSUME NEW c \in WX!Completes PROVE SeenAt(c)'
    <3>1. SeenAt(c) /\ run'[c].seen = run[c].seen
      BY <1>1
    <3>2. CASE run[c].seen = 0
      BY <2>1, <2>2, <3>1, <3>2 DEF SeenAt
    <3>3. CASE run[c].seen # 0
      <4>1. /\ WX!Account(c) \in WX!Accounts /\ run[c].seen \in Nat
            /\ run[c].seen <= account[WX!Account(c)].version
            /\ account[WX!Account(c)].version \in Nat
            /\ c \in moved => run[c].seen < account[WX!Account(c)].version
        BY <1>2, <3>1, <3>3 DEF SeenAt
      <4>2. CASE WX!Account(c) = a
        BY <2>1, <4>2, <4>1, <3>1, <3>3 DEF SeenAt
      <4>3. CASE WX!Account(c) # a
        BY <2>1, <2>2, <4>1, <4>3, <3>1 DEF SeenAt
      <4> QED
        BY <4>2, <4>3
    <3> QED
      BY <3>2, <3>3
  <2>4. \A b \in WX!Accounts : account'[b].version \in {account[b].version, account[b].version + 1}
    BY <2>1
  <2> QED
    BY <1>1, <2>1, <2>2, <2>3, <2>4 DEF Versioned, Wholes
<1> QED
  BY <1>3, <1>4

\* A link and a phone that are added are nobody else's.
LEMMA LinkAdded ==
  ASSUME OnboardingInv, NEW a \in WX!Accounts, NEW s \in Subjects, NEW p \in WX!Phones,
         ~WX!LinkConflict(a, s), ~WX!PhoneTaken(a, p), account' = WX!Advanced(a, s, p)
  PROVE  /\ account' \in [WX!Accounts -> Records] /\ WX!LinksOneToOne'
         /\ account'[a].version = account[a].version + 1 /\ account'[a].link = s
         /\ \A b \in WX!Accounts \ {a} : account'[b] = account[b]
<1> DEFINE f0 == account[a]
           f1 == [f0 EXCEPT !.link = s]
           f2 == [f1 EXCEPT !.phone = p]
           f3 == [f2 EXCEPT !.verified = TRUE]
           now == [f3 EXCEPT !.version = account[a].version + 1]
<1>1. account \in [WX!Accounts -> Records] /\ f0 \in Records /\ account[a].version \in Nat \ {0}
  BY DEF OnboardingInv, Wholes, Records
<1>2. account' = [account EXCEPT ![a] = now]
  BY <1>1 DEF WX!Advanced, Records
<1>3. now \in Records /\ now.version = account[a].version + 1 /\ now.link = s /\ now.phone = p
  <2> HIDE DEF f0
  <2>1. f1 \in Records /\ f1.link = s
    BY <1>1 DEF Records
  <2> HIDE DEF f1
  <2>2. f2 \in Records /\ f2.link = s /\ f2.phone = p
    BY <2>1 DEF Records
  <2> HIDE DEF f2
  <2>3. f3 \in Records /\ f3.link = s /\ f3.phone = p
    BY <2>2 DEF Records
  <2> HIDE DEF f3
  <2> QED
    BY <1>1, <2>3 DEF Records
<1> HIDE DEF now
<1>4. account' \in [WX!Accounts -> Records] /\ account'[a] = now /\ \A b \in WX!Accounts \ {a} : account'[b] = account[b]
  BY <1>1, <1>2, <1>3
<1>5. /\ \A b \in WX!Accounts \ {a} : account[b].link # s /\ account[b].phone # p
      /\ WX!OneToOne(account)
  BY DEF WX!LinkConflict, WX!LinkedTo, WX!PhoneTaken, WX!PhoneOwners, OnboardingInv, WX!LinksOneToOne
<1>6. WX!OneToOne(account')
  BY <1>3, <1>4, <1>5 DEF WX!OneToOne
<1> QED
  BY <1>3, <1>4, <1>6 DEF WX!LinksOneToOne

\* A step that changes accounts and the request, and nothing else.
LEMMA MovedKeeps ==
  ASSUME WX!OnboardingAssumption, OnboardingInv, NEW r \in WXRequests, NEW l, NEW d, NEW a,
         run[r].pc \in {"bind", "phone"}, l \in Bound, Turned(r, l, run[r].seen, run[r].mfa, d, a),
         UNCHANGED <<chal, holder, attempts, WX!cleanupVars, provider, native, work, registered, lapsed,
         leaked>>,
         WX!NoFault \/ WX!Fault, account' \in [WX!Accounts -> Records], WX!LinksOneToOne',
         AccountMoves,
         PlaceAt(r)', r \in WX!Completes => StoredAt(r)', r \in chal => l \in {"consume", "tidy"},
         ~Earned(r)', Engaged(r)' => Engaged(r) /\ EngagedAt(r)', WX!Op(r) = "mfa" /\ Backs(r) => Backs(r)',
         WX!Op(r) = "mfa" /\ WX!Of(r) \in WX!Completes => ReliesAt(r)'
  PROVE  OnboardingInv'
<1> USE Inputs
<1>1. Wholes /\ ~WX!At(r, "done") /\ run[r].pc \notin {"tidy", "done"} /\ run[r].pc \notin Bound \cup Scored
  BY DEF OnboardingInv, WX!At, Bound, Scored
<1>2. run[r].answer = "none"
  BY <1>1, Working_NoAnswer
<1>3. /\ Versioned' /\ moved' \subseteq WX!Completes /\ moved \subseteq moved'
      /\ \A b \in WX!Accounts : account'[b].version \in {account[b].version, account[b].version + 1}
  BY LeftBehind DEF Turned
<1>4. Wholes'
  BY <1>1, WXFaults, <1>3 DEF Wholes, Turned, WX!cleanupVars
<1>5. Counted'
  BY <1>1, <1>3, <1>4, CountedKeeps DEF Wholes, Records
<1>6. Placed'
  BY <1>1, PlacedKeeps
<1>7. WXStored'
  BY <1>1, StoredKeeps DEF WX!cleanupVars
<1>8. Spent'
  BY <1>1, SpentKeeps
<1>9. Exclusive'
  BY <1>1, ExclusiveKeeps
<1>10. Relied'
  BY <1>1, ReliedKeeps DEF WX!cleanupVars
<1>11. Sweeping'
  BY <1>1, <1>2, WorkingKeeps DEF Turned, WX!cleanupVars
<1> QED
  BY <1>3, <1>4, <1>5, <1>6, <1>7, <1>8, <1>9, <1>10, <1>11 DEF OnboardingInv

\* What a request that links an account knows of it.
LEMMA Linking ==
  ASSUME WX!OnboardingAssumption, OnboardingInv, NEW r \in WXRequests, WX!At(r, "bind")
  PROVE  /\ WX!Op(r) \in {"complete", "mfa"} /\ WX!Account(r) \in WX!Accounts
         /\ WX!Subject(WX!Of(r)) \in Subjects
         /\ WX!Ceremony(r) \in WX!Completes /\ WX!Account(WX!Ceremony(r)) = WX!Account(r)
         /\ run[WX!Ceremony(r)].seen = run[r].seen
<1> USE Inputs
<1>1. PlaceAt(r) /\ Wholes /\ WX!Busy(r) /\ run[r].pc \notin {"idle", "tidy", "done"}
  BY DEF OnboardingInv, Placed, WX!At, WX!Busy
<1>2. WX!Op(r) \in {"complete", "mfa"} /\ Issued(WX!Of(r))
  BY <1>1 DEF PlaceAt, BeginAt, WX!At
<1>3. CASE WX!Op(r) = "complete"
  BY <1>1, <1>3 DEF PlaceAt, CompleteAt, WX!Ceremony, WX!MFAToken, WX!Subject, WX!At
<1>4. CASE WX!Op(r) = "mfa"
  <2> DEFINE c == WX!Of(r)
  <2>1. c \in WX!Completes /\ run[r].seen = run[c].seen
    BY <1>1, <1>4 DEF PlaceAt, MFAAt, WX!At
  <2>2. run[c].mfa /\ WX!Of(c) \in WX!Begins /\ WX!Account(c) \in WX!Accounts
    BY <1>2, <2>1 DEF OnboardingInv, Placed, PlaceAt, CompleteAt, Issued
  <2>3. WX!Account(r) = WX!Account(c)
    BY <1>4, <2>1 DEF WX!Account
  <2>4. WX!Subject(c) \in Subjects /\ WX!Ceremony(r) = c
    BY <2>1, <2>2 DEF WX!Subject, WX!Ceremony, WX!MFAToken
  <2> QED
    BY <1>2, <2>1, <2>2, <2>3, <2>4
<1> QED
  BY <1>2, <1>3, <1>4

LEMMA BindKeeps ==
  ASSUME WX!OnboardingAssumption, OnboardingInv, NEW r \in WXRequests, WX!BindExistingWithWeChat(r)
  PROVE  OnboardingInv'
<1> USE Inputs
<1> DEFINE b == WX!Account(r)
<1> DEFINE s == WX!Subject(WX!Of(r))
<1> DEFINE p == PhoneOf[s]
<1>1. PlaceAt(r) /\ Wholes /\ WX!At(r, "bind")
  BY DEF OnboardingInv, Placed, WX!BindExistingWithWeChat
<1>2. WX!Op(r) \in {"complete", "mfa"} /\ b \in WX!Accounts /\ s \in Subjects /\ p \in WX!Phones
  BY <1>1, Linking
<1>3. Holding(r) /\ WX!Op(r) # "begin"
  BY <1>1, <1>2 DEF Holding, WX!At
<1>4. /\ Engaged(r) /\ EngagedAt(r) /\ WX!Busy(r) /\ ~WX!At(r, "done") /\ ~WX!At(r, "idle")
      /\ run[r].pc \notin {"tidy", "done"} /\ run[r].pc \in {"bind", "phone"}
  BY <1>1, <1>3, HoldersRely DEF WX!At
<1>5. /\ run[r].answer = "none" /\ r \notin promotion /\ r \notin promoted
      /\ (r \in WX!Completes => StoredAt(r))
      /\ WX!Of(r) \in WX!Tokens /\ Issued(WX!Of(r)) /\ WX!Of(r) \in WXRequests
  BY <1>1, <1>3, <1>4, Working_NoAnswer DEF PlaceAt
<1>6. /\ UNCHANGED <<chal, holder, attempts, WX!cleanupVars, provider, native, work, registered, lapsed, leaked>>
      /\ WX!NoFault \/ WX!Fault
  BY DEF WX!BindExistingWithWeChat
<1>7. ASSUME NEW d \in {<<"revoke", "drop">>, <<"revoke", "release">>}, NEW a \in {"refused", "internal"},
             WX!Tidying(r, d, a)
      PROVE  /\ Turned(r, "tidy", run[r].seen, run[r].mfa, d, a)
             /\ "unsession" \notin Left(d) /\ "revoke" \in Left(d)
             /\ EngagedAt(r)' /\ ~Earned(r)' /\ ~Holding(r)'
  <2>1. Turned(r, "tidy", run[r].seen, run[r].mfa, d, a)
    BY <1>1, <1>7, Turns DEF Lists, WX!Answers
  <2>2. Left(<<"revoke", "drop">>) = {"revoke", "drop"} /\ Left(<<"revoke", "release">>) = {"revoke", "release"}
    BY ListFacts DEF Lists, WX!Chores
  <2>3. EngagedAt(r)' /\ ~Earned(r)' /\ ~Holding(r)'
    BY <1>4, <1>6, <2>1 DEF EngagedAt, Earned, Rewarded, Holding, Turned
  <2> QED
    BY <2>1, <2>2, <2>3
<1>8. ASSUME NEW d \in {<<"revoke", "drop">>, <<"revoke", "release">>}, NEW a \in {"refused", "internal"},
             WX!Tidying(r, d, a), UNCHANGED <<account, moved>>
      PROVE  OnboardingInv'
  <2>1. Alone /\ UNCHANGED leaked
    BY <1>6, <1>8 DEF Alone
  <2>2. /\ Quiet(r) /\ attempts' \in [WX!Tokens -> Nat] /\ \A t \in WX!Tokens : attempts'[t] <= attempts[t]
        /\ native' = native
    BY <1>1, <1>6, <2>1, AloneIsQuiet DEF Wholes
  <2> QED
    BY <1>3, <1>4, <1>7, <1>8, <2>2, GivingUpKeeps
<1>9. ASSUME WX!Bindable(r, b, s, p), WX!BindExistingOnce(r, b, s, p), WX!Moving(b)
      PROVE  /\ account' \in [WX!Accounts -> Records] /\ WX!LinksOneToOne'
             /\ AccountMoves
  <2>1. CASE UNCHANGED account
    BY <1>1, <1>9, <2>1 DEF WX!Moving, Wholes, OnboardingInv, WX!LinksOneToOne, WX!OneToOne, AccountMoves
  <2>2. CASE account' = WX!Advanced(b, s, p)
    BY <1>2, <1>9, <2>2, LinkAdded, <1>1 DEF WX!Bindable, Wholes, Records, WX!Moving, AccountMoves
  <2> QED
    BY <1>9, <2>1, <2>2 DEF WX!BindExistingOnce
<1>10. CASE WX!Bindable(r, b, s, p) /\ WX!BindExistingOnce(r, b, s, p) /\ WX!Moving(b) /\ WX!To(r, "consume")
  <2>1. Turned(r, "consume", run[r].seen, run[r].mfa, run[r].todo, run[r].answer)
    BY <1>1, <1>10, Turns DEF WX!Labels
  <2>2. UNCHANGED <<obligation, due, promotion, promoted, lease>>
    BY <1>6 DEF WX!cleanupVars
  <2>3. PlaceAt(r)'
    BY <1>1, <1>2, <1>6, <2>1, <1>5, <1>4, StaysIssued DEF PlaceAt, CompleteAt, Turned, WX!At, MFAAt
  <2>4. r \in WX!Completes => StoredAt(r)'
    BY <1>1, <1>4, <1>5, <1>6, <2>1, <2>2 DEF StoredAt, Backs, Turned, WX!At
  <2>5. ~Earned(r)' /\ EngagedAt(r)'
    BY <1>3, <1>4, <1>5, <1>6, <2>1 DEF Earned, Rewarded, EngagedAt, Turned, Holding
  <2>6. WX!Op(r) = "mfa" /\ WX!Of(r) \in WX!Completes => ReliesAt(r)'
    BY <1>1, <1>3, <1>5, <1>6, <2>1, <2>2 DEF OnboardingInv, Relied, ReliesAt, Turned, Holding, WX!At
  <2>7. Backs(r) => Backs(r)'
    BY <1>4, <1>6 DEF Backs, WX!At
  <2>8. "consume" \in Bound
    BY DEF Bound
  <2> QED
    BY <1>9, <1>10, <1>4, <1>6, <2>1, <2>3, <2>4, <2>5, <2>6, <2>7, <2>8, MovedKeeps DEF Bound
<1>11. CASE WX!Bindable(r, b, s, p) /\ WX!BindExistingOnce(r, b, s, p) /\ WX!Moving(b)
              /\ WX!Tidying(r, <<"revoke", "release">>, "internal")
  <2> DEFINE d == <<"revoke", "release">>
  <2>1. /\ Turned(r, "tidy", run[r].seen, run[r].mfa, d, "internal")
        /\ "unsession" \notin Left(d) /\ "revoke" \in Left(d)
        /\ EngagedAt(r)' /\ ~Earned(r)' /\ ~Holding(r)'
    BY <1>7, <1>11
  <2> HIDE DEF d
  <2>2. UNCHANGED <<obligation, due, promotion, promoted, lease>>
    BY <1>6 DEF WX!cleanupVars
  <2>3. PlaceAt(r)'
    BY <1>1, <1>2, <1>6, <2>1, <1>5, <1>4, StaysIssued DEF PlaceAt, CompleteAt, Turned, WX!At, MFAAt
  <2>4. r \in WX!Completes => StoredAt(r)'
    BY <1>1, <1>4, <1>5, <1>6, <2>1, <2>2 DEF StoredAt, Backs, Turned, WX!At
  <2>5. ReliesAt(r)'
    BY <2>1 DEF ReliesAt, Turned
  <2>6. Backs(r)' /\ "tidy" \in Bound
    BY <2>1 DEF Backs, Bound, Turned, WX!At
  <2> QED
    BY <1>9, <1>11, <1>4, <1>6, <2>1, <2>3, <2>4, <2>5, <2>6, MovedKeeps DEF Bound
<1> HIDE DEF b, s, p
<1>12. CASE WX!Bindable(r, b, s, p) /\ WX!BindExistingOnce(r, b, s, p) /\ WX!Moving(b)
  BY <1>8, <1>10, <1>11, <1>12 DEF WX!BindExistingWithWeChat, b, s, p
<1> QED
  BY <1>8, <1>12 DEF WX!BindExistingWithWeChat, b, s, p

LEMMA PhoneKeeps ==
  ASSUME WX!OnboardingAssumption, OnboardingInv, NEW r \in WXRequests, WX!CompleteLinkedWithVerifiedPhone(r)
  PROVE  OnboardingInv'
<1> USE Inputs
<1> DEFINE s == WX!Subject(r)
<1> DEFINE p == PhoneOf[s]
<1>1. PlaceAt(r) /\ Wholes /\ WX!At(r, "phone") /\ run[r].pc \in {"bind", "phone"} /\ run[r].pc \notin {"tidy", "done"}
  BY DEF OnboardingInv, Placed, WX!CompleteLinkedWithVerifiedPhone, WX!At
<1>2. WX!Op(r) = "begin" /\ BeginAt(r) /\ s \in Subjects /\ s # "none" /\ p \in WX!Phones /\ r \notin WX!Completes
  BY <1>1 DEF PlaceAt, CompleteAt, MFAAt, WX!At, WX!OnboardingAssumption
<1>3. run[r].answer = "none"
  BY <1>1, Working_NoAnswer
<1>4. r \notin chal
  BY <1>1 DEF OnboardingInv, WXStored, WX!At
<1>5. /\ UNCHANGED <<chal, holder, attempts, WX!cleanupVars, provider, native, work, registered, lapsed, leaked>>
      /\ WX!NoFault \/ WX!Fault
  BY DEF WX!CompleteLinkedWithVerifiedPhone
<1>6. PICK y \in WX!Accounts :
        LET linked == account[y].active /\ account[y].link = s
                        /\ ~WX!PhoneConflict(y, p) /\ ~WX!PhoneTaken(y, p) IN
        \/ /\ linked
           /\ IF WX!PhoneAdded(y, p) THEN account' = WX!Advanced(y, s, p) ELSE UNCHANGED account
           /\ WX!Moving(y)
        \/ UNCHANGED <<account, moved>>
  BY DEF WX!CompleteLinkedWithVerifiedPhone
<1>7. account' \in [WX!Accounts -> Records] /\ WX!LinksOneToOne' /\ AccountMoves
  <2>1. CASE UNCHANGED <<account, moved>>
    BY <1>1, <2>1 DEF Wholes, OnboardingInv, WX!LinksOneToOne, WX!OneToOne, AccountMoves
  <2>2. CASE UNCHANGED account /\ WX!Moving(y)
    BY <1>1, <2>2 DEF WX!Moving, Wholes, OnboardingInv, WX!LinksOneToOne, WX!OneToOne, AccountMoves
  <2>3. CASE account' = WX!Advanced(y, s, p) /\ account[y].link = s /\ ~WX!PhoneTaken(y, p) /\ WX!Moving(y)
    BY <1>2, <2>3, LinkAdded, <1>1 DEF WX!LinkConflict, WX!LinkedTo, OnboardingInv, WX!LinksOneToOne,
       WX!OneToOne, Wholes, Records, WX!Moving, AccountMoves
  <2> QED
    BY <1>6, <2>1, <2>2, <2>3
<1>8. PICK l \in {"federated", "done"}, a \in {"none", "internal", "refused"} :
        Turned(r, l, run[r].seen, run[r].mfa, run[r].todo, a) /\ (a # "none" => l = "done")
  BY <1>1, <1>3, Turns DEF WX!CompleteLinkedWithVerifiedPhone, WX!Labels, WX!Answers
<1>9. PlaceAt(r)'
  BY <1>2, <1>5, <1>8 DEF PlaceAt, BeginAt, Turned, WX!At
<1>10. ~Earned(r)' /\ ~Engaged(r)'
  BY <1>2, <1>8 DEF Earned, Engaged, Holding, Turned, WX!At
<1>11. l \in Bound
  BY DEF Bound
<1> QED
  BY <1>1, <1>2, <1>4, <1>5, <1>7, <1>8, <1>9, <1>10, <1>11, MovedKeeps

-----------------------------------------------------------------------------
(* Workers, time and the other handlers of the account *)

\* A step of no request: stores only lose, and a provider session is closed
\* only by the worker whose task it is.
LEMMA RestKeeps ==
  ASSUME WX!OnboardingAssumption, OnboardingInv, Wholes',
         UNCHANGED <<account, run, native, registered, moved, leaked, promoted>>,
         chal' \subseteq chal, promotion' \subseteq promotion, obligation' \subseteq obligation,
         lapsed \subseteq lapsed', \A t \in WX!Tokens : attempts'[t] <= attempts[t],
         \A c \in WX!Completes : \/ provider'[c] = provider[c]
                                 \/ provider'[c] = "closed" /\ \E w \in WXWorkers : work[w].of = c,
         \A c \in WX!Completes : c \in obligation => c \in obligation' \cup promoted \/ provider'[c] = "closed",
         \A t \in WX!Tokens : \/ holder'[t] = holder[t]
                              \/ holder'[t] = "none" /\ (t \in lapsed' \/ holder[t] = "none" \/ ~WX!Busy(holder[t])),
         \A w \in WXWorkers : \/ work'[w].of \in {"none", work[w].of}
                              \/ work'[w].of \in WX!Completes /\ WX!Abandoned(work'[w].of),
         Sweeping'
  PROVE  OnboardingInv'
<1> USE Inputs
<1>1. Wholes /\ Counted /\ Placed /\ WXStored /\ Spent /\ Exclusive /\ Relied /\ Sweeping /\ Versioned /\ WX!LinksOneToOne
  BY DEF OnboardingInv
<1>2. Counted'
  <2>1. Passed' = Passed /\ Judged' = Judged
    BY DEF Passed, Judged
  <2>2. IsFiniteSet(Judged)
    BY FS_Subset DEF WX!OnboardingAssumption, Judged
  <2>3. Cardinality(Judged) \in Nat
    BY <2>2, FS_CardinalityType
  <2>4. \A t \in WX!Tokens : attempts'[t] <= Cardinality(Judged)
    BY <1>1, <2>3 DEF Counted, Wholes
  <2> QED
    BY <1>1, <2>1, <2>4 DEF Counted
<1>3. Placed'
  BY <1>1 DEF Placed, PlaceAt, BeginAt, CompleteAt, MFAAt, WX!At, WX!Busy, Rewarded, Issued
<1>4. \A c \in WX!Completes : provider'[c] # provider[c] =>
        /\ provider'[c] = "closed" /\ (run[c].mfa \/ run[c].answer = "internal") /\ c \notin promotion
        /\ c \notin promoted /\ provider[c] # "none" /\ \E w \in WXWorkers : work[w].of = c
  BY <1>1 DEF Sweeping, WorkAt
<1>5. WXStored'
  <2>1. \A t \in chal' : run'[t].pc \in {"consume", "tidy", "done"}
    BY <1>1 DEF WXStored
  <2>2. ASSUME NEW c \in WX!Completes PROVE StoredAt(c)'
    BY <2>2, <1>1, <1>4 DEF WXStored, Placed, PlaceAt, Backs, WX!At, Issued, StoredAt, CompleteAt
  <2> QED
    BY <2>1, <2>2 DEF WXStored
<1>6. Spent'
  BY <1>1 DEF Spent, Earned, Rewarded
<1>7. ASSUME NEW r \in WXRequests, Engaged(r) PROVE EngagedAt(r)'
  BY <1>1, <1>7 DEF Exclusive, Spent, Engaged, Holding, WX!Busy, WX!At, Placed, PlaceAt, BeginAt, Earned,
     EngagedAt
<1>8. Exclusive'
  BY <1>1, <1>7 DEF Exclusive, Engaged, Holding, Earned, Rewarded, WX!At
<1>9. Relied'
  <2> SUFFICES ASSUME NEW r \in WXRequests, WX!Op(r) = "mfa", WX!Of(r) \in WX!Completes, WX!Of(r) \notin lapsed'
               PROVE  ReliesAt(r)'
    BY DEF Relied, ReliesAt
  <2> DEFINE c == WX!Of(r)
  <2>1. ReliesAt(r) /\ c \notin lapsed /\ c \in WX!Completes
    BY <1>1 DEF Relied
  <2>2. CASE Holding(r)
    BY <1>1, <2>1, <2>2, <1>4 DEF Exclusive, Engaged, EngagedAt, ReliesAt, WX!Abandoned, Holding, Placed,
       PlaceAt
  <2>3. CASE ~Holding(r)
    BY <1>4, <2>1, <2>3 DEF ReliesAt, Holding
  <2> QED
    BY <2>2, <2>3
<1>10. Versioned'
  BY <1>1 DEF Versioned, SeenAt
<1> QED
  BY <1>1, <1>2, <1>3, <1>5, <1>6, <1>8, <1>9, <1>10 DEF OnboardingInv, WX!LinksOneToOne, WX!OneToOne

LEMMA WorkerKeeps ==
  ASSUME WX!OnboardingAssumption, OnboardingInv, NEW w \in WXWorkers,
         WX!Worker(w) \/ WX!CrashWorker(w)
  PROVE  OnboardingInv'
<1> USE Inputs
<1>1. Wholes /\ Sweeping /\ WorkAt(w) /\ WXStored /\ work[w] \in Tasks
  BY DEF OnboardingInv, Sweeping, Wholes
<1>2. "none" \notin WX!Completes /\ WX!Idle \in Tasks /\ WX!Idle.of = "none" /\ WX!Idle.pc = "idle"
  BY DEF WX!Idle, Tasks
<1>3. ASSUME NEW x \in WXWorkers, x # w, UNCHANGED run, work'[x] = work[x],
             chal' = chal, promotion' \subseteq promotion, promoted' = promoted,
             \A c \in WX!Completes : provider[c] # "none" => provider'[c] \in {provider[c], "closed"}
      PROVE  WorkAt(x)'
  BY <1>1, <1>2, <1>3 DEF Sweeping, Wholes, WorkAt, Tasks
<1>5. ASSUME NEW c \in WX!Completes, WX!ClaimCleanup(w, c)
      PROVE  OnboardingInv'
  <2>1. CASE c \in promoted
    <3>1. /\ c \notin obligation /\ c \notin promotion
          /\ obligation \ {c} = obligation /\ promotion \ {c} = promotion
      BY <1>1, <2>1 DEF Wholes
    <3>2. /\ due' = due \ {c} /\ obligation' = obligation /\ promotion' = promotion
          /\ lease' \in [WX!Completes -> WXWorkers \cup {"none"}]
      <4>1. /\ due' = due \ {c} /\ obligation' = obligation \ {c} /\ promotion' = promotion \ {c}
            /\ lease' = [lease EXCEPT ![c] = "none"]
        BY <1>5, <2>1 DEF WX!ClaimCleanup
      <4> QED
        BY <1>1, <3>1, <4>1 DEF Wholes
    <3>3. Wholes'
      BY <1>1, <1>5, <2>1, <3>1, <3>2 DEF WX!ClaimCleanup, Wholes, WX!historyVars
    <3>4. Sweeping'
      BY <1>1, <1>5, <2>1, <3>2 DEF WX!ClaimCleanup, Sweeping, WorkAt
    <3> QED
      BY <1>1, <1>5, <2>1, <3>2, <3>3, <3>4, RestKeeps DEF WX!ClaimCleanup, WX!historyVars, Wholes
  <2>2. CASE c \notin promoted
    <3> DEFINE task == [pc |-> "revoke", of |-> c]
    <3>1. task \in Tasks /\ task.pc = "revoke" /\ task.of = c
      BY DEF Tasks
    <3>2. work' = [work EXCEPT ![w] = task] /\ lease' = [lease EXCEPT ![c] = w] /\ c \in obligation /\ WX!Abandoned(c)
      BY <1>5, <2>2 DEF WX!ClaimCleanup
    <3> HIDE DEF task
    <3>3. work' \in [WXWorkers -> Tasks] /\ lease' \in [WX!Completes -> WXWorkers \cup {"none"}]
          /\ work'[w] = task /\ \A x \in WXWorkers \ {w} : work'[x] = work[x]
      BY <1>1, <3>1, <3>2 DEF Wholes
    <3>4. UNCHANGED <<account, chal, holder, attempts, obligation, due, promotion, promoted, provider, native,
                      run, WX!historyVars, faults>>
      BY <1>5, <2>2 DEF WX!ClaimCleanup
    <3>5. Wholes'
      BY <1>1, <3>3, <3>4 DEF Wholes, WX!historyVars
    <3>6. Sweeping'
      BY <1>1, <1>2, <2>2, <3>1, <3>2, <3>3, <3>4 DEF WorkAt, WXStored, StoredAt, WX!Abandoned, Sweeping
    <3>7. \A x \in WXWorkers : \/ work'[x].of \in {"none", work[x].of}
                               \/ work'[x].of \in WX!Completes /\ WX!Abandoned(work'[x].of)
      BY <3>1, <3>2, <3>3
    <3>8. \A t \in WX!Tokens : attempts'[t] <= attempts[t]
      BY <1>1, <3>4 DEF Wholes
    <3> QED
      BY <3>4, <3>5, <3>6, <3>7, <3>8, RestKeeps DEF WX!historyVars
  <2> QED
    BY <2>1, <2>2
<1> DEFINE c == work[w].of
<1>6. work[w].pc # "idle" => /\ c \in WX!Completes /\ c \in WX!Tokens /\ (run[c].mfa \/ run[c].answer = "internal")
                             /\ c \notin chal \cup promotion \cup promoted /\ provider[c] # "none"
  BY <1>1 DEF WorkAt, Tasks
<1>7. ASSUME NEW task, task \in Tasks,
             UNCHANGED <<account, run, chal, holder, attempts, promotion, promoted, native,
                                                    WX!historyVars>>,
             work[w].pc # "idle", work' = [work EXCEPT ![w] = task], WX!NoFault \/ WX!Fault,
             provider' \in {provider, [provider EXCEPT ![c] = "closed"]},
             lease' \in {lease, [lease EXCEPT ![c] = "none"]},
             \/ UNCHANGED obligation /\ (c \in obligation => c \in due')
             \/ obligation' = obligation \ {c} /\ provider'[c] = "closed",
             due' \in {due, due \ {c}},
             task.of \in {"none", c}, task.of = "none" <=> task.pc = "idle",
             task.pc = "complete" => provider'[c] = "closed"
      PROVE  OnboardingInv'
  <2>1. /\ work' \in [WXWorkers -> Tasks] /\ work'[w] = task /\ \A x \in WXWorkers \ {w} : work'[x] = work[x]
        /\ provider' \in [WX!Completes -> {"none", "open", "closed"}]
        /\ \A y \in WX!Completes : provider'[y] = provider[y] \/ (provider'[y] = "closed" /\ y = c)
        /\ lease' \in [WX!Completes -> WXWorkers \cup {"none"}]
    BY <1>1, <1>6, <1>7 DEF Wholes
  <2>2. /\ promotion' \subseteq obligation' /\ obligation' \subseteq due' /\ due' \subseteq WX!Completes
        /\ obligation' \subseteq obligation
    BY <1>1, <1>6, <1>7 DEF Wholes
  <2>3. faults' \in 0 .. MaxFaults
    BY <1>1, <1>7, WXFaults
  <2>4. Wholes'
    BY <1>1, <1>7, <2>1, <2>2, <2>3 DEF Wholes, WX!historyVars
  <2>5. Sweeping'
    BY <1>1, <1>6, <1>7, <2>1, <1>3 DEF WorkAt, Tasks, Sweeping
  <2>6. \A y \in WX!Completes : y \in obligation => y \in obligation' \cup promoted \/ provider'[y] = "closed"
    BY <1>7
  <2>7. \A x \in WXWorkers : work'[x].of \in {"none", work[x].of}
    BY <1>7, <2>1
  <2>8. \A t \in WX!Tokens : attempts'[t] <= attempts[t]
    BY <1>1, <1>7 DEF Wholes
  <2>9. UNCHANGED <<account, run, native, registered, moved, leaked, promoted, chal, promotion, holder, lapsed>>
    BY <1>7 DEF WX!historyVars
  <2>10. \A y \in WX!Completes : provider'[y] = provider[y]
                               \/ (provider'[y] = "closed" /\ \E x \in WXWorkers : work[x].of = y)
    BY <2>1
  <2> QED
    BY <2>2, <2>4, <2>5, <2>6, <2>7, <2>8, <2>9, <2>10, RestKeeps
<1> HIDE DEF c
<1>8. \A l \in {"complete", "retry"} : work' = [work EXCEPT ![w].pc = l] =>
        \E task \in Tasks : work' = [work EXCEPT ![w] = task] /\ task.pc = l /\ task.of = c
  <2> SUFFICES ASSUME NEW l \in {"complete", "retry"}, work' = [work EXCEPT ![w].pc = l]
               PROVE  \E task \in Tasks : work' = [work EXCEPT ![w] = task] /\ task.pc = l /\ task.of = c
    OBVIOUS
  <2> DEFINE task == [work[w] EXCEPT !.pc = l]
  <2>1. task \in Tasks /\ task.pc = l /\ task.of = c
    BY <1>1 DEF Tasks, c
  <2>2. work' = [work EXCEPT ![w] = task]
    BY <1>1 DEF Wholes
  <2> HIDE DEF task
  <2> QED
    BY <2>1, <2>2
<1>9. CASE WX!RevokeProviderSession(w)
  BY <1>9, <1>8, <1>1, <1>6, <1>2, <1>7 DEF WX!RevokeProviderSession, c, WX!cleanupVars, Wholes
<1>10. CASE WX!CompleteCleanup(w)
  <2>1. /\ UNCHANGED <<account, chal, holder, attempts, promoted, provider, native, run, WX!historyVars>>
        /\ WX!NoFault \/ WX!Fault
        /\ work[w].pc = "complete" /\ work[w].pc # "idle" /\ work' = [work EXCEPT ![w] = WX!Idle]
    BY <1>10 DEF WX!CompleteCleanup
  <2>2. provider'[c] = "closed"
    BY <1>1, <2>1 DEF WorkAt, c
  <2>3. \/ UNCHANGED <<obligation, due, promotion, lease>>
        \/ /\ obligation' = obligation \ {c} /\ due' = due \ {c} /\ promotion' = promotion \ {c}
           /\ lease' = [lease EXCEPT ![c] = "none"]
    BY <1>10 DEF WX!CompleteCleanup, c
  <2>4. promotion' = promotion
    <3>1. promotion \ {c} = promotion
      BY <1>6, <2>1
    <3> QED
      BY <2>3, <3>1
  <2>5. c \in obligation => c \in due
    BY <1>1 DEF Wholes
  <2> QED
    BY <1>2, <1>7, <2>1, <2>2, <2>3, <2>4, <2>5
<1>11. CASE WX!RetryCleanup(w)
  BY <1>11, <1>1, <1>2, <1>7 DEF WX!RetryCleanup, c, WX!NoFault, Wholes
<1>12. CASE WX!CrashWorker(w)
  <2>1. /\ UNCHANGED <<account, chal, holder, attempts, obligation, due, promotion, promoted, lease, provider,
                       native, run, WX!historyVars>>
        /\ WX!Fault /\ work[w] # WX!Idle /\ work' = [work EXCEPT ![w] = WX!Idle]
    BY <1>12 DEF WX!CrashWorker, WX!cleanupVars
  <2>2. work[w].pc # "idle"
    BY <1>1, <2>1 DEF WorkAt, Tasks, WX!Idle
  <2>3. c \in obligation => c \in due'
    BY <1>1, <2>1 DEF Wholes
  <2> QED
    BY <1>2, <1>7, <2>1, <2>2, <2>3
<1> QED
  BY <1>5, <1>9, <1>10, <1>11, <1>12 DEF WX!Worker

LEMMA WXTimeKeeps ==
  ASSUME WX!OnboardingAssumption, OnboardingInv,
         \/ \E t \in WX!Tokens : WX!ChallengeExpires(t) \/ WX!LockExpires(t)
         \/ \E c \in WX!Completes : WX!PromotionExpires(c) \/ WX!CleanupLeaseExpires(c)
  PROVE  OnboardingInv'
<1> USE Inputs
<1>1. Wholes /\ Sweeping
  BY DEF OnboardingInv
<1>2. /\ UNCHANGED <<account, run, native, registered, moved, leaked, obligation, due, promoted, provider, work>>
      /\ chal' \subseteq chal /\ promotion' \subseteq promotion /\ (WX!NoFault \/ WX!Fault)
  BY DEF WX!ChallengeExpires, WX!LockExpires, WX!PromotionExpires, WX!CleanupLeaseExpires, WX!cleanupVars,
         WX!historyVars, WX!Late, WX!NoFault
<1>3. /\ holder' \in [WX!Tokens -> WXRequests \cup {"none"}] /\ attempts' \in [WX!Tokens -> Nat]
      /\ lease' \in [WX!Completes -> WXWorkers \cup {"none"}] /\ lapsed \subseteq lapsed'
      /\ lapsed' \subseteq WX!Tokens
      /\ \A t \in WX!Tokens : attempts'[t] <= attempts[t]
      /\ \A t \in WX!Tokens : \/ holder'[t] = holder[t]
                              \/ holder'[t] = "none" /\ (t \in lapsed' \/ holder[t] = "none" \/ ~WX!Busy(holder[t]))
  <2>1. ASSUME NEW t \in WX!Tokens, WX!ChallengeExpires(t) PROVE <1>3!:
    BY <1>1, <2>1 DEF WX!ChallengeExpires, WX!cleanupVars, WX!historyVars, Wholes
  <2>2. ASSUME NEW t \in WX!Tokens, WX!LockExpires(t) PROVE <1>3!:
    BY <1>1, <2>2 DEF WX!LockExpires, WX!cleanupVars, Wholes
  <2>3. ASSUME NEW c \in WX!Completes, WX!PromotionExpires(c) PROVE <1>3!:
    BY <1>1, <2>3 DEF WX!PromotionExpires, WX!historyVars, Wholes
  <2>4. ASSUME NEW c \in WX!Completes, WX!CleanupLeaseExpires(c) PROVE <1>3!:
    BY <1>1, <2>4 DEF WX!CleanupLeaseExpires, WX!historyVars, Wholes
  <2> QED
    BY <2>1, <2>2, <2>3, <2>4
<1>4. Wholes'
  BY <1>1, <1>2, WXFaults, <1>3 DEF Wholes
<1>5. Sweeping'
  BY <1>1, <1>2 DEF Sweeping, WorkAt
<1> QED
  BY <1>2, <1>3, <1>4, <1>5, RestKeeps

LEMMA AccountKeeps ==
  ASSUME WX!OnboardingAssumption, OnboardingInv, NEW a \in WX!Accounts, WX!AccountChange(a)
  PROVE  /\ OnboardingInv'
         /\ \A b \in WX!Accounts : account'[b].link = account[b].link
<1> USE Inputs
<1>1. /\ Wholes /\ Counted /\ Placed /\ WXStored /\ Spent /\ Exclusive /\ Relied /\ Sweeping
      /\ WX!LinksOneToOne
  BY DEF OnboardingInv
<1>2. /\ UNCHANGED <<chal, holder, attempts, obligation, due, promotion, promoted, lease, provider, native, work,
                     run, registered, lapsed, leaked, faults>>
      /\ moved' = moved \cup WX!Looked(a) /\ account[a].version < MaxVersion
  BY DEF WX!AccountChange, WX!cleanupVars
<1>3. PICK active \in BOOLEAN :
        account' = [account EXCEPT ![a].version = account[a].version + 1, ![a].active = active]
  BY <1>1 DEF WX!AccountChange, Wholes
<1> DEFINE f1 == [account[a] EXCEPT !.version = account[a].version + 1]
           now == [f1 EXCEPT !.active = active]
<1>4. account \in [WX!Accounts -> Records] /\ account[a] \in Records /\ account[a].version \in Nat \ {0}
  BY <1>1 DEF Wholes, Records
<1>5. account' = [account EXCEPT ![a] = now]
  <2> HIDE Inputs
  <2> QED
    BY <1>3, <1>4 DEF Records
<1>6. /\ now \in Records /\ now.version = account[a].version + 1 /\ now.link = account[a].link
      /\ now.phone = account[a].phone /\ now.verified = account[a].verified
  <2>1. /\ f1 \in Records /\ f1.version = account[a].version + 1 /\ f1.link = account[a].link
        /\ f1.phone = account[a].phone /\ f1.verified = account[a].verified
    BY <1>4 DEF Records
  <2> HIDE DEF f1
  <2> QED
    BY <2>1 DEF Records
<1> HIDE DEF now
<1>7. account' \in [WX!Accounts -> Records] /\ account'[a] = now /\ \A b \in WX!Accounts \ {a} : account'[b] = account[b]
  BY <1>4, <1>5, <1>6
<1>8. \A b \in WX!Accounts : /\ account'[b].link = account[b].link /\ account'[b].phone = account[b].phone
                             /\ account'[b].verified = account[b].verified
  BY <1>6, <1>7
<1>9. WX!LinksOneToOne'
  BY <1>1, <1>8 DEF WX!LinksOneToOne, WX!OneToOne
<1>10. Versioned' /\ moved' \subseteq WX!Completes
  BY <1>2, <1>6, <1>7, LeftBehind DEF AccountMoves
<1>11. Wholes'
  BY <1>1, <1>2, <1>7, <1>10 DEF Wholes
<1>12. Counted'
  <2>1. Passed' = Passed /\ Judged' = Judged /\ IsFiniteSet(Passed)
    BY <1>2, FS_Subset DEF Passed, Judged, WX!OnboardingAssumption
  <2>2. Cardinality(Passed) \in Nat
    BY <2>1, FS_CardinalityType
  <2>3. account'[a].version <= MaxVersion
    BY <1>2, <1>4, <1>6, <1>7
  <2>4. account'[a].version <= MaxVersion + Cardinality(Passed)
    BY <1>4, <1>6, <1>7, <2>2, <2>3
  <2> QED
    BY <1>1, <1>2, <1>7, <2>1, <2>4 DEF Counted
<1>13. Placed' /\ Spent' /\ Exclusive'
  BY <1>1, <1>2 DEF Placed, PlaceAt, BeginAt, CompleteAt, MFAAt, WX!At, WX!Busy, Rewarded, Issued, Spent,
                    Earned,
       Exclusive, Engaged, EngagedAt, Holding
<1>14. WXStored' /\ Relied' /\ Sweeping'
  BY <1>1, <1>2 DEF WXStored, StoredAt, Backs, WX!At, Issued, Relied, ReliesAt, Holding, Sweeping, WorkAt
<1> QED
  BY <1>8, <1>9, <1>10, <1>11, <1>12, <1>13, <1>14 DEF OnboardingInv

-----------------------------------------------------------------------------
(* The invariant, and what follows from it *)

LEMMA OnboardingStep ==
  ASSUME WX!OnboardingAssumption, OnboardingInv, [WX!Next]_(WX!onboardingVars)
  PROVE  OnboardingInv'
<1>1. ASSUME NEW r \in WXRequests, WX!Begin(r)
      PROVE  OnboardingInv'
  BY <1>1, FederatedKeeps, PhoneKeeps, CreateOnboardingKeeps DEF WX!Begin
<1>2. ASSUME NEW r \in WXRequests, WX!Complete(r)
      PROVE  OnboardingInv'
  BY <1>2, LookupKeeps, ReserveKeeps, PasswordKeeps, StoreKeeps DEF WX!Complete, WX!CompleteExisting
<1>3. ASSUME NEW r \in WXRequests, WX!CompleteMFA(r)
      PROVE  OnboardingInv'
  BY <1>3, JudgeKeeps, PromotionKeeps DEF WX!CompleteMFA
<1>4. ASSUME NEW r \in WXRequests, WX!FinishCeremony(r)
      PROVE  OnboardingInv'
  BY <1>4, WXClaimKeeps, LimitedKeeps, BindKeeps, AttemptsKeep, FreeKeeps, ConsumeKeeps, CreateSessionKeeps
    DEF WX!FinishCeremony
<1>5. ASSUME NEW r \in WXRequests, WX!TidyUp(r)
      PROVE  OnboardingInv'
  BY <1>5, DropKeeps, ReleaseKeeps, RevokeKeeps, TidiedKeeps DEF WX!TidyUp
<1>6. ASSUME NEW r \in WXRequests, WX!CrashRequest(r)
      PROVE  OnboardingInv'
  BY <1>6, WXCrashKeeps
<1>7. ASSUME NEW w \in WXWorkers, WX!Worker(w) \/ WX!CrashWorker(w)
      PROVE  OnboardingInv'
  BY <1>7, WorkerKeeps
<1>8. CASE \/ \E t \in WX!Tokens : WX!ChallengeExpires(t) \/ WX!LockExpires(t)
           \/ \E c \in WX!Completes : WX!PromotionExpires(c) \/ WX!CleanupLeaseExpires(c)
  BY <1>8, WXTimeKeeps
<1>9. ASSUME NEW a \in WX!Accounts, WX!AccountChange(a)
      PROVE  OnboardingInv'
  BY <1>9, AccountKeeps
<1>10. CASE UNCHANGED WX!onboardingVars
  BY SMTT(40), <1>10 DEF WX!onboardingVars, WX!cleanupVars, WX!historyVars, OnboardingInv, Wholes, Counted, Passed,
               Judged, Placed, PlaceAt,
       BeginAt, CompleteAt, MFAAt, WX!At, WX!Busy, Rewarded, Issued, WXStored, StoredAt, Backs, Spent, Earned,
       Exclusive, Engaged, EngagedAt, Holding, Relied, ReliesAt, Sweeping, WorkAt, Versioned, SeenAt,
       WX!LinksOneToOne, WX!OneToOne
<1> QED
  BY <1>1, <1>2, <1>3, <1>4, <1>5, <1>6, <1>7, <1>8, <1>9, <1>10 DEF WX!Next, WX!Serve

\* The inductive invariant of onboarding.
THEOREM OnboardingInvariant == WX!OnboardingAssumption => (WX!Spec => []OnboardingInv)
<1> SUFFICES ASSUME WX!OnboardingAssumption PROVE WX!Spec => []OnboardingInv
  OBVIOUS
<1>1. WX!Init => OnboardingInv
  BY OnboardingInit
<1>2. OnboardingInv /\ [WX!Next]_(WX!onboardingVars) => OnboardingInv'
  BY OnboardingStep
<1> QED
  BY <1>1, <1>2, PTL DEF WX!Spec

\* Versions, locks, obligations and leases keep the shape their stores can hold.
THEOREM OnboardingTypes == WX!OnboardingAssumption => (WX!Spec => []WX!TypeOK)
<1> SUFFICES ASSUME WX!OnboardingAssumption PROVE WX!Spec => []WX!TypeOK
  OBVIOUS
<1>1. OnboardingInv => WX!TypeOK
  <2> SUFFICES ASSUME OnboardingInv PROVE WX!TypeOK
    OBVIOUS
  <2> USE Inputs
  <2>1. Wholes /\ Counted
    BY DEF OnboardingInv
  <2>2. IsFiniteSet(WXRequests) /\ Cardinality(WXRequests) \in Nat
    BY FS_CardinalityType DEF WX!OnboardingAssumption
  <2>3. /\ Cardinality(Passed) <= Cardinality(WXRequests) /\ Cardinality(Judged) <= Cardinality(WXRequests)
        /\ Cardinality(Passed) \in Nat /\ Cardinality(Judged) \in Nat
    BY <2>2, FS_Subset, FS_CardinalityType DEF Passed, Judged
  <2>4. \A a \in WX!Accounts : /\ account[a].version \in 1 .. MaxVersion + Cardinality(WXRequests)
                               /\ account[a].link \in Subjects \cup {"none"}
    <3> TAKE a \in WX!Accounts
    <3>1. account[a].version \in Nat \ {0} /\ account[a].link \in Subjects \cup {"none"}
      BY <2>1 DEF Wholes, Records
    <3>2. account[a].version <= MaxVersion + Cardinality(Passed)
      BY <2>1 DEF Counted
    <3> QED
      BY <2>2, <2>3, <3>1, <3>2
  <2>5. attempts \in [WX!Tokens -> 0 .. Cardinality(WXRequests)]
    BY <2>1, <2>2, <2>3 DEF Wholes, Counted
  <2>6. Lists \subseteq Seq(WX!Chores)
    BY DEF Lists, WX!Chores
  <2>7. \A r \in WXRequests : run[r].pc \in WX!Labels /\ run[r].todo \in Seq(WX!Chores)
    BY <2>1, <2>6 DEF Wholes, Visits
  <2> QED
    BY <2>1, <2>4, <2>5, <2>7 DEF WX!TypeOK, Wholes
<1> QED
  BY <1>1, OnboardingInvariant, PTL

\* One token is worth one outcome, whatever retries and rival requests do.
THEOREM SingleReward == WX!OnboardingAssumption => (WX!Spec => []WX!SingleOutcome)
<1> SUFFICES ASSUME WX!OnboardingAssumption PROVE WX!Spec => []WX!SingleOutcome
  OBVIOUS
<1>1. OnboardingInv => WX!SingleOutcome
  <2> SUFFICES ASSUME OnboardingInv, NEW t \in WX!Tokens PROVE Cardinality(WX!Rewards(t)) <= 1
    BY DEF WX!SingleOutcome
  <2>1. \A p, q \in WX!Rewards(t) : p = q
    BY DEF WX!Rewards, OnboardingInv, Spent, Earned, Rewarded
  <2>2. CASE WX!Rewards(t) = {}
    BY <2>2, FS_EmptySet
  <2>3. CASE WX!Rewards(t) # {}
    <3>1. PICK p : p \in WX!Rewards(t)
      BY <2>3
    <3>2. WX!Rewards(t) = {p}
      BY <2>1, <3>1
    <3>3. Cardinality({p}) = 1
      BY FS_Singleton
    <3> QED
      BY <3>2, <3>3
  <2> QED
    BY <2>2, <2>3
<1> QED
  BY <1>1, OnboardingInvariant, PTL

\* The provider session behind a session that was handed out stays open,
\* unless a request went on after it had lost its claim lock.
THEOREM SessionsBacked == WX!OnboardingAssumption => (WX!Spec => []WX!SessionBacked)
<1> SUFFICES ASSUME WX!OnboardingAssumption PROVE WX!Spec => []WX!SessionBacked
  OBVIOUS
<1>1. OnboardingInv => WX!SessionBacked
  <2> SUFFICES ASSUME OnboardingInv, NEW r \in WXRequests, run[r].answer = "session", WX!Op(r) # "begin",
                      WX!Of(r) \notin lapsed
               PROVE  provider[WX!Ceremony(r)] = "open"
    BY DEF WX!SessionBacked
  <2> USE Inputs
  <2>1. PlaceAt(r) /\ WX!Op(r) \in {"complete", "mfa"}
    BY DEF OnboardingInv, Placed
  <2>2. CASE WX!Op(r) = "complete"
    BY <2>2 DEF OnboardingInv, WXStored, StoredAt, WX!Ceremony, WX!MFAToken
  <2>3. CASE WX!Op(r) = "mfa"
    BY <2>1, <2>3 DEF PlaceAt, MFAAt, OnboardingInv, Relied, ReliesAt, WX!Ceremony, WX!MFAToken
  <2> QED
    BY <2>1, <2>2, <2>3
<1> QED
  BY <1>1, OnboardingInvariant, PTL

\* No provider session is forgotten: an obligation covers it, a session or a
\* request at work answers for it, or a revocation has failed.
THEOREM SessionsCovered == WX!OnboardingAssumption => (WX!Spec => []WX!SessionsAccounted)
<1> SUFFICES ASSUME WX!OnboardingAssumption PROVE WX!Spec => []WX!SessionsAccounted
  OBVIOUS
<1>1. OnboardingInv => WX!SessionsAccounted
  <2> SUFFICES ASSUME OnboardingInv, NEW c \in WX!Completes, provider[c] = "open",
                      c \notin obligation \cup leaked
               PROVE  WX!Handled(c)
    BY DEF WX!SessionsAccounted
  <2> USE Inputs
  <2>1. StoredAt(c) /\ WX!Of(c) \in WX!Begins /\ WX!Ceremony(c) = c
    BY DEF OnboardingInv, WXStored, StoredAt, WX!Ceremony, WX!MFAToken
  <2>2. CASE run[c].mfa
    BY <2>1, <2>2 DEF StoredAt, WX!Handled, WX!Ceremony, WX!MFAToken, Backs, WX!Busy, WX!At
  <2>3. CASE ~run[c].mfa
    BY <2>1, <2>3 DEF StoredAt, WX!Handled, Backs, WX!Busy, WX!At
  <2> QED
    BY <2>2, <2>3
<1> QED
  BY <1>1, OnboardingInvariant, PTL

\* An identity is linked to one account and a verified phone has one owner.
THEOREM LinksUnique == WX!OnboardingAssumption => (WX!Spec => []WX!LinksOneToOne)
<1> SUFFICES ASSUME WX!OnboardingAssumption PROVE WX!Spec => []WX!LinksOneToOne
  OBVIOUS
<1>1. OnboardingInv => WX!LinksOneToOne
  BY DEF OnboardingInv
<1> QED
  BY <1>1, OnboardingInvariant, PTL

\* The step that makes a link finds the account where its request had left it.
LEMMA LinkOfSeen ==
  ASSUME WX!OnboardingAssumption, OnboardingInv, NEW r \in WXRequests, WX!BindExistingWithWeChat(r),
         NEW a \in WX!Accounts, account'[a].link # account[a].link
  PROVE  /\ account[a].link = "none" /\ WX!At(r, "bind") /\ run'[r].pc # "bind"
         /\ WX!Account(r) = a /\ WX!Ceremony(r) \notin moved
<1> USE Inputs
<1> DEFINE b == WX!Account(r)
<1> DEFINE s == WX!Subject(WX!Of(r))
<1> DEFINE p == PhoneOf[s]
<1>1. WX!At(r, "bind") /\ Wholes
  BY DEF OnboardingInv, WX!BindExistingWithWeChat
<1>2. /\ b \in WX!Accounts /\ s \in Subjects /\ p \in WX!Phones /\ WX!Ceremony(r) \in WX!Completes
      /\ WX!Account(WX!Ceremony(r)) = b /\ run[WX!Ceremony(r)].seen = run[r].seen
  BY <1>1, Linking
<1>3. WX!Bindable(r, b, s, p) /\ account' = WX!Advanced(b, s, p)
  BY DEF WX!BindExistingWithWeChat, WX!BindExistingOnce
<1>4. account'[b].link = s /\ \A x \in WX!Accounts \ {b} : account'[x] = account[x]
  BY <1>2, <1>3, LinkAdded DEF WX!Bindable
<1>5. a = b /\ account[a].link = "none"
  BY <1>3, <1>4 DEF WX!Bindable, WX!LinkConflict
<1>6. run'[r].pc # "bind"
  <2>1. \A l \in {"consume", "tidy"} : WX!To(r, l) => run'[r].pc # "bind"
    BY <1>1 DEF WX!To, Wholes, Visits
  <2>2. \A d \in Lists, x \in WX!Answers : WX!Tidying(r, d, x) => run'[r].pc # "bind"
    BY <1>1, Turns DEF Turned
  <2> QED
    BY <2>1, <2>2 DEF WX!BindExistingWithWeChat, Lists, WX!Answers
<1>7. WX!Ceremony(r) \notin moved
  BY <1>1, <1>2, <1>3 DEF OnboardingInv, Versioned, WX!Bindable, WX!Unchanged, Wholes, Records, SeenAt
<1> QED
  BY <1>1, <1>5, <1>6, <1>7

\* A link once made is never moved, and none is made on behalf of a request
\* whose account has changed since its password was checked.
THEOREM LinksStay == WX!OnboardingAssumption => (WX!Spec => [][WX!LinksKept]_(WX!onboardingVars))
<1> SUFFICES ASSUME WX!OnboardingAssumption PROVE WX!Spec => [][WX!LinksKept]_(WX!onboardingVars)
  OBVIOUS
<1>1. OnboardingInv /\ [WX!Next]_(WX!onboardingVars) => [WX!LinksKept]_(WX!onboardingVars)
  <2> SUFFICES ASSUME OnboardingInv, WX!Next PROVE WX!LinksKept
    OBVIOUS
  <2>1. ASSUME NEW r \in WXRequests, WX!BindExistingWithWeChat(r)
        PROVE  WX!LinksKept
    BY <2>1, LinkOfSeen DEF WX!LinksKept
  <2>2. ASSUME NEW r \in WXRequests, WX!CompleteLinkedWithVerifiedPhone(r)
        PROVE  WX!LinksKept
    <3> DEFINE s == WX!Subject(r)
    <3> DEFINE p == PhoneOf[s]
    <3>1. Wholes /\ WX!Op(r) = "begin"
      BY <2>2 DEF OnboardingInv, Placed, PlaceAt, CompleteAt, MFAAt, WX!CompleteLinkedWithVerifiedPhone, WX!At,
                  WX!OnboardingAssumption
    <3>2. s \in Subjects /\ s # "none" /\ p \in WX!Phones
      BY <3>1, Inputs DEF WX!OnboardingAssumption
    <3>3. PICK y \in WX!Accounts :
            \/ /\ account[y].link = s /\ ~WX!PhoneTaken(y, p) /\ account' = WX!Advanced(y, s, p)
            \/ UNCHANGED account
      BY <2>2 DEF WX!CompleteLinkedWithVerifiedPhone
    <3>4. CASE account[y].link = s /\ ~WX!PhoneTaken(y, p) /\ account' = WX!Advanced(y, s, p)
      BY <3>2, <3>4, LinkAdded DEF WX!LinkConflict, WX!LinkedTo, OnboardingInv, WX!LinksOneToOne, WX!OneToOne,
         WX!LinksKept
    <3> QED
      BY <3>3, <3>4 DEF WX!LinksKept
  <2>3. ASSUME NEW a \in WX!Accounts, WX!AccountChange(a)
        PROVE  WX!LinksKept
    BY <2>3, AccountKeeps DEF WX!LinksKept
  <2>4. UNCHANGED account => WX!LinksKept
    BY DEF WX!LinksKept
  <2>5. ASSUME NEW r \in WXRequests, WX!Serve(r) \/ WX!CrashRequest(r), ~WX!BindExistingWithWeChat(r),
               ~WX!CompleteLinkedWithVerifiedPhone(r)
        PROVE  UNCHANGED account
    BY <2>5 DEF WX!Serve, WX!Begin, WX!Complete, WX!CompleteExisting, WX!CompleteMFA, WX!FinishCeremony,
                WX!TidyUp, WX!BeginService, WX!CreateOnboarding,
         WX!CreateFederatedSession, WX!Claim, WX!Limited, WX!Consume, WX!FindByNormalizedEmail,
         WX!CompletePendingRegistration,
         WX!VerifyUserPassword, WX!StoreMFAChallenge, WX!CompleteMFAProvider, WX!IncrementAttempts,
         WX!ReleaseAfterFailure,
         WX!CreateSession, WX!CompleteProviderSessionPromotion, WX!Drop, WX!Release, WX!Revoke,
         WX!ScheduleProviderSessionCleanup, WX!DeleteSession, WX!Tidied, WX!CrashRequest
  <2>6. (\E w \in WXWorkers : WX!Worker(w) \/ WX!CrashWorker(w)) => UNCHANGED account
    BY DEF WX!Worker, WX!ClaimCleanup, WX!RevokeProviderSession, WX!CompleteCleanup, WX!RetryCleanup,
           WX!CrashWorker
  <2>7. /\ (\E t \in WX!Tokens : WX!ChallengeExpires(t) \/ WX!LockExpires(t)) => UNCHANGED account
        /\ (\E c \in WX!Completes : WX!PromotionExpires(c) \/ WX!CleanupLeaseExpires(c)) => UNCHANGED account
    BY DEF WX!ChallengeExpires, WX!LockExpires, WX!PromotionExpires, WX!CleanupLeaseExpires
  <2> QED
    BY <2>1, <2>2, <2>3, <2>4, <2>5, <2>6, <2>7 DEF WX!Next, WX!LinksKept
<1> QED
  BY <1>1, OnboardingInvariant, PTL DEF WX!Spec
=============================================================================
