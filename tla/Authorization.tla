---------------------------- MODULE Authorization ----------------------------
(***************************************************************************)
(* One OAuth authorization request on its way to the claim that decides it *)
(* (what follows the claim is ConsentDecision).  It arrives through three  *)
(* doors, in any number of tabs: the interaction gateway, the resolution   *)
(* that the consent page reads, and the decision the page posts.  All three*)
(* read the request at the provider, the client, its lists and the grant   *)
(* again and again, each by a statement of its own, while administrators,  *)
(* the person and the clock go on.                                         *)
(***************************************************************************)
EXTENDS Integers, Sequences, FiniteSets

CONSTANTS
  Requests,   \* the HTTP requests that may arrive, each once
  InputOf,    \* the door each of them takes
  Batches,    \* model bound: the authorization request of a run, and its world
  MaxChanges, \* model bound: changes of that world
  MaxFaults   \* model bound: failed calls and lost answers

Op(r)     == InputOf[r].op       \* "gateway", "read" or "decide"
Choice(r) == InputOf[r].choice   \* of a decision: "allow" or "access_denied"

UserKinds == {"allow", "access_denied"}
NoSession == [on |-> FALSE, auth |-> 0, v2 |-> FALSE]

\* What the database may say of the client and its lists.
Rows  == UNION {{b.facts} \cup b.edits : b \in Batches}
Facts == [live : BOOLEAN, app : BOOLEAN, own : BOOLEAN,
          mode : {f.mode : f \in Rows} \cup {"none"},
          redirects : SUBSET UNION {f.redirects : f \in Rows},
          scopes : SUBSET UNION {f.scopes : f \in Rows}]

AuthorizationAssumption ==
  /\ \A r \in Requests : /\ Op(r) \in {"gateway", "read", "decide"}
                         /\ Op(r) = "decide" => Choice(r) \in UserKinds
  /\ \A b \in Batches :
       /\ b.requests \subseteq Requests /\ b.prompts \in Seq(STRING)
       /\ b.maxAge \subseteq Int /\ Cardinality(b.maxAge) <= 1 /\ b.created \in Nat
       /\ b.session \in {NoSession} \cup [on : {TRUE}, auth : {0, 1}, v2 : BOOLEAN]
  /\ Rows \subseteq Facts
  /\ "none" \notin Requests /\ MaxChanges \in Nat /\ MaxFaults \in Nat

VARIABLES
  batch,    \* the authorization request: prompts, max_age, redirect, scopes
  request,  \* its state at the provider: open or gone
  facts,    \* database: the client, its application and its lists
  grant,    \* database: what the person has consented to
  session,  \* the browser's session: on, when it signed in, its credential
  clock,
  claim,    \* database: the operation row of the request
  run,      \* what each HTTP request is doing
  witness,  \* history: what was true at some moment of each request
  changes,  \* how many changes of the world so far
  faults    \* how many failures so far

vars == <<batch, request, facts, grant, session, clock, claim, run, witness, changes, faults>>

Kinds     == {"allow", "access_denied", "login_required", "consent_required",
              "account_selection_required", "request_not_supported"}
NoFacts   == [live |-> FALSE, app |-> FALSE, own |-> FALSE, mode |-> "none",
              redirects |-> {}, scopes |-> {}]
NoClaim   == [by |-> "none", kind |-> "none", user |-> FALSE, client |-> FALSE, scopes |-> {}]
Idle      == [phase |-> "idle", step |-> "none", sess |-> NoSession, began |-> 0,
              seen |-> NoFacts, kind |-> "none", answer |-> "none"]
Pages     == {"login", "authorize", "valid", "unauthenticated"}

TypeOK ==
  /\ request \in {"open", "gone"} /\ clock \in Nat
  /\ session = NoSession \/ (session.on /\ session.auth <= clock)
  /\ claim.kind \in Kinds \cup {"none"}
  /\ (claim.by = "none") <=> (claim = NoClaim)
  /\ \A r \in batch.requests :
       /\ run[r].phase \in {"idle", "route", "resolve", "none", "decide", "silent", "error",
                            "claim", "complete", "done"}
       /\ run[r].step \in {"none", "view", "client", "redirects", "scopes", "grant"}
       /\ run[r].kind \in Kinds \cup {"none"}
       /\ (run[r].phase = "done") <=> (run[r].answer # "none")
  /\ changes \in 0 .. MaxChanges /\ faults \in 0 .. MaxFaults

Init ==
  /\ batch \in Batches
  /\ request = "open" /\ facts = batch.facts /\ grant = batch.grant
  /\ session = batch.session /\ clock = 1 /\ claim = NoClaim
  /\ run = [r \in Requests |-> Idle]
  /\ witness = {} /\ changes = 0 /\ faults = 0

-----------------------------------------------------------------------------
(* What all doors judge by *)

HasPrompt(p) == \E i \in DOMAIN batch.prompts : batch.prompts[i] = p

\* validatePromptStructure: known values, and none alone.
Structured_NoneCombined == ~HasPrompt("unspecified")
Structured ==
  /\ ~HasPrompt("unspecified")
  /\ HasPrompt("none") => Len(batch.prompts) = 1

Interactive_Known == Structured
Interactive == Structured /\ ~HasPrompt("create") /\ ~HasPrompt("select_account")

\* NormalizeScopes: a set, unless a token is malformed.
Requested == {batch.asked[i] : i \in DOMAIN batch.asked}
Canonical == "malformed" \notin Requested /\ Requested # {}

\* authenticationSatisfied.  A creation time the provider left out is 0.
Forced == HasPrompt("login") \/ \E m \in batch.maxAge : m <= 0
Fresh_MaxAgeOnly(s) == s.on /\ \A m \in batch.maxAge : clock - s.auth <= m
Fresh_ForcedNever(s) == s.on /\ ~Forced /\ \A m \in batch.maxAge : clock - s.auth <= m
Fresh(s) ==
  /\ s.on
  /\ IF Forced THEN batch.created # 0 /\ s.auth > batch.created
     ELSE \A m \in batch.maxAge : clock - s.auth <= m

Active(f)          == f.live /\ f.app /\ f.own    \* EffectiveClientActive
RedirectMatches(f) == batch.redirect \in f.redirects
ScopesAllowed(f)   == Canonical /\ Requested \subseteq f.scopes
Covers(g)          == g.st = "active" /\ Requested \subseteq g.scopes

Verdict(f) == IF ~Active(f) THEN "client_not_found"
              ELSE IF ~RedirectMatches(f) THEN "redirect_mismatch"
              ELSE IF ~ScopesAllowed(f) THEN "scope_not_allowed" ELSE "fine"

Reusable_AnyMode(f, g) == ~HasPrompt("consent") /\ Covers(g)
Reusable(f, g) == ~HasPrompt("consent") /\ f.mode = "first_authorization" /\ Covers(g)

\* What is true of the world, for the properties below.
TrueOf(f, g) ==
  {w \in {"client", "redirect", "scopes", "mode", "grant", "nogrant"} :
     CASE w = "client"   -> Active(f)
       [] w = "redirect" -> RedirectMatches(f)
       [] w = "scopes"   -> ScopesAllowed(f)
       [] w = "mode"     -> f.mode = "first_authorization"
       [] w = "grant"    -> Covers(g)
       [] w = "nogrant"  -> f.mode # "first_authorization" \/ ~Covers(g)}

Working == {r \in batch.requests : run[r].phase \notin {"idle", "done"}}
Since(r, f, g) == {w \in witness : w[1] # r} \cup {<<r, t>> : t \in TrueOf(f, g)}

-----------------------------------------------------------------------------
(* The steps of a request *)

worldVars == <<batch, facts, grant, session, clock, changes>>

At(r, phase, step) == run[r].phase = phase /\ run[r].step = step
Goto(r, phase, step) ==
  run' = [run EXCEPT ![r].phase = phase, ![r].step = step,
                     ![r].seen = IF step \in {"view", "none"} THEN NoFacts ELSE @]
Answer(r, a) == run' = [run EXCEPT ![r] = [@ EXCEPT !.phase = "done", !.step = "none",
                                                   !.seen = NoFacts, !.answer = a]]
Decided(r, phase, k) == run' = [run EXCEPT ![r] = [@ EXCEPT !.phase = phase, !.kind = k,
                                 !.step = IF phase = "error" THEN "view" ELSE "none",
                                 !.seen = NoFacts]]
ToError(r, k) == Decided(r, "error", k)   \* completeError
ToClaim(r, k) == Decided(r, "claim", k)

Quiet == UNCHANGED <<worldVars, request, claim, witness, faults>>

\* A session is optional but for a decision.
Arrive(r) ==
  /\ run[r].phase = "idle"
  /\ IF Op(r) = "decide" /\ ~session.on THEN Answer(r, "unauthorized")
     ELSE run' = [run EXCEPT ![r] = [Idle EXCEPT
            !.phase = CASE Op(r) = "gateway" -> "route" [] Op(r) = "read" -> "resolve"
                        [] Op(r) = "decide" -> "decide",
            !.step = "view", !.sess = session, !.began = clock]]
  /\ witness' = Since(r, facts, grant)
  /\ UNCHANGED <<worldVars, request, claim, faults>>

\* How the gateway renders what the resolution found: it shows no page itself.
RouteInteractive(status) ==
  CASE status \in {"valid", "already_authorized"} -> "authorize"
    [] status = "unauthenticated" -> "login"
    [] status = "expired" -> "gone"
    [] OTHER -> "bad"

Show(r, status) == Answer(r, IF Op(r) = "gateway" THEN RouteInteractive(status) ELSE status)

\* The gateway reads the request and gives its prompts their meaning.
Route_CreateLast(r) ==
  /\ At(r, "route", "view")
  /\ \/ request = "gone" /\ Answer(r, "gone")
     \/ request = "open" /\ ~Structured /\ Answer(r, "bad")
     \/ /\ request = "open" /\ Structured
        /\ IF HasPrompt("none") THEN Goto(r, "none", "client") ELSE Goto(r, "resolve", "view")
  /\ Quiet
Route(r) ==
  /\ At(r, "route", "view")
  /\ \/ request = "gone" /\ Answer(r, "gone")
     \/ request = "open" /\ ~Structured /\ Answer(r, "bad")
     \/ /\ request = "open" /\ Structured
        /\ IF HasPrompt("none")
           THEN IF Fresh(run[r].sess) THEN Goto(r, "none", "client")
                ELSE ToError(r, "login_required")
           ELSE IF HasPrompt("create") THEN ToError(r, "request_not_supported")
           ELSE IF HasPrompt("select_account") THEN ToError(r, "account_selection_required")
           ELSE Goto(r, "resolve", "view")
  /\ Quiet

ResolveRequest(r) ==
  /\ At(r, "resolve", "view")
  /\ IF request = "gone" THEN Show(r, "expired")
     ELSE IF Interactive THEN Goto(r, "resolve", "client") ELSE Show(r, "not_interactive")
  /\ Quiet

DecideRequest(r) ==
  /\ At(r, "decide", "view")
  /\ IF request = "open" /\ Interactive THEN Goto(r, "decide", "client")
     ELSE Answer(r, "expired")
  /\ Quiet

\* The silent decision starts over: nothing the gateway read counts.
SilentRequest(r) ==
  /\ At(r, "silent", "view")
  /\ IF request = "open" /\ Structured /\ HasPrompt("none") THEN Goto(r, "silent", "client")
     ELSE Answer(r, "gone")
  /\ witness' = Since(r, facts, grant)
  /\ UNCHANGED <<worldVars, request, claim, faults>>

ErrorRequest(r) ==
  /\ At(r, "error", "view")
  /\ IF request = "open" THEN Goto(r, "claim", "none") ELSE Answer(r, "gone")
  /\ Quiet

\* What a refusal for the client, the redirect or the scopes looks like.
Refuse(r, verdict) ==
  CASE run[r].phase = "resolve" -> Show(r, verdict)
    [] run[r].phase = "none"    -> Answer(r, "bad")
    [] run[r].phase = "decide"  -> Answer(r, "expired")
    [] run[r].phase = "silent"  -> Answer(r, "gone")

\* ResolveConsentClient: the row, then its lists.
ReadClient(r) ==
  /\ run[r].step = "client"
  /\ IF facts.live
     THEN run' = [run EXCEPT ![r].step = "redirects",
                   ![r].seen = [facts EXCEPT !.redirects = {}, !.scopes = {}]]
     ELSE Refuse(r, "client_not_found")
  /\ Quiet

ReadRedirects(r) ==
  /\ run[r].step = "redirects"
  /\ run' = [run EXCEPT ![r].step = "scopes", ![r].seen.redirects = facts.redirects]
  /\ Quiet

\* Resolve, from its facts to the reading of the grant.
Resolve(r, seen) ==
  IF Fresh(run[r].sess) THEN run' = [run EXCEPT ![r].step = "grant", ![r].seen = seen]
  ELSE Show(r, IF HasPrompt("none") THEN "not_interactive" ELSE "unauthenticated")

\* Decide: an allow needs the credential before anything is claimed.
Decide_TrustsSession(r) == ToClaim(r, Choice(r))
Decide(r) ==
  IF HasPrompt("none") THEN Answer(r, "not_interactive")
  ELSE IF ~Fresh(run[r].sess) THEN Answer(r, "expired")
  ELSE IF Choice(r) = "allow" /\ ~run[r].sess.v2 THEN Answer(r, "relogin")
  ELSE ToClaim(r, Choice(r))

\* validateBusinessFacts, and what each door does when they hold.
Judged_ClientOnly(f) == IF Active(f) THEN "fine" ELSE "client_not_found"
Judged(f) == Verdict(f)

ReadScopes(r) ==
  LET seen == [run[r].seen EXCEPT !.scopes = facts.scopes]
      onward == run' = [run EXCEPT ![r].step = "grant", ![r].seen = seen]
  IN /\ run[r].step = "scopes"
     /\ IF Judged(seen) # "fine" THEN Refuse(r, Judged(seen))
        ELSE CASE run[r].phase = "resolve" -> Resolve(r, seen)
               [] run[r].phase = "none"    -> onward
               [] run[r].phase = "decide"  -> Decide(r)
               [] run[r].phase = "silent"  -> IF Fresh(run[r].sess) THEN onward
                                              ELSE Answer(r, "gone")
     /\ Quiet

\* The grant, for the page, for the gateway's choice of a branch, and once
\* more with authority before a silent claim.
PageGrant(r, reusable) ==
  /\ run[r].phase = "resolve"
  /\ Show(r, IF reusable THEN "already_authorized"
             ELSE IF HasPrompt("none") THEN "not_interactive" ELSE "valid")

BranchGrant_Straight(r, reusable) ==
  /\ run[r].phase = "none"
  /\ IF reusable /\ run[r].sess.v2 THEN ToClaim(r, "allow")
     ELSE ToError(r, "consent_required")
BranchGrant(r, reusable) ==
  /\ run[r].phase = "none"
  /\ IF reusable THEN Goto(r, "silent", "view") ELSE ToError(r, "consent_required")

SilentGrant_NoReuse(r, reusable) ==
  /\ run[r].phase = "silent"
  /\ IF ~run[r].sess.v2 THEN ToError(r, "consent_required") ELSE ToClaim(r, "allow")
SilentGrant(r, reusable) ==
  /\ run[r].phase = "silent"
  /\ IF ~reusable THEN ToError(r, "consent_required")
     ELSE IF ~run[r].sess.v2 THEN ToError(r, "login_required")
     ELSE ToClaim(r, "allow")

ReadGrant(r) ==
  /\ run[r].step = "grant"
  /\ LET reusable == Reusable(run[r].seen, grant) IN
       PageGrant(r, reusable) \/ BranchGrant(r, reusable) \/ SilentGrant(r, reusable)
  /\ Quiet

\* The completion plan a request brings to the claim; error callbacks carry the
\* client only where the gateway has established it.
Plan(r) == [by |-> r, kind |-> run[r].kind, user |-> run[r].sess.on,
            client |-> run[r].kind \in UserKinds \cup {"consent_required"},
            scopes |-> IF run[r].kind = "allow" THEN Requested ELSE {}]

ValidateForClaim(op) ==
  /\ op.kind \in UserKinds => op.user /\ op.client
  /\ (op.kind = "allow") = (op.scopes # {})

\* The first claim wins; the others end as decided, without a callback.
Claim_LastWins(r) ==
  /\ run[r].phase = "claim" /\ claim' = Plan(r) /\ Goto(r, "complete", "none")
  /\ UNCHANGED <<worldVars, request, witness, faults>>
Claim(r) ==
  /\ run[r].phase = "claim" /\ ValidateForClaim(Plan(r))
  /\ IF claim = NoClaim THEN claim' = Plan(r) /\ Goto(r, "complete", "none")
     ELSE Answer(r, IF Op(r) = "decide" THEN "decided" ELSE "gone") /\ UNCHANGED claim
  /\ UNCHANGED <<worldVars, request, witness, faults>>

\* The one-shot callback; ConsentDecision follows it in detail.
Complete(r) ==
  /\ run[r].phase = "complete"
  /\ \/ request = "open" /\ request' = "gone" /\ Answer(r, "callback") /\ UNCHANGED faults
     \/ request = "gone" /\ Answer(r, "failed") /\ UNCHANGED <<request, faults>>
     \/ /\ faults < MaxFaults /\ faults' = faults + 1
        /\ Answer(r, "failed") /\ request' \in {request, "gone"}
  /\ UNCHANGED <<worldVars, claim, witness>>

\* A read of the provider or of the database fails: nothing is concluded.
Fails(r) ==
  /\ run[r].step # "none" /\ faults < MaxFaults
  /\ Answer(r, "error") /\ faults' = faults + 1
  /\ UNCHANGED <<worldVars, request, claim, witness>>

-----------------------------------------------------------------------------
(* The world *)

Changed(f, g) ==
  /\ changes < MaxChanges /\ changes' = changes + 1
  /\ facts' = f /\ grant' = g
  /\ witness' = witness \cup (Working \X TrueOf(f, g))
  /\ UNCHANGED <<batch, claim, run, faults>>
Still == UNCHANGED <<session, clock, request>>

EditClient == \E f \in batch.edits : f # facts /\ Changed(f, grant) /\ Still
EditGrant  == \E g \in batch.grants : g # grant /\ Changed(facts, g) /\ Still

\* A sign-in gives the session of today's format, with the credential.
Login  == /\ "login" \in batch.people /\ Changed(facts, grant) /\ clock' = clock + 1
          /\ session' = [on |-> TRUE, auth |-> clock + 1, v2 |-> TRUE] /\ UNCHANGED request
Logout == /\ "logout" \in batch.people /\ session.on /\ Changed(facts, grant)
          /\ session' = NoSession /\ UNCHANGED <<clock, request>>
Wait   == /\ "wait" \in batch.people /\ Changed(facts, grant) /\ clock' = clock + 1
          /\ UNCHANGED <<session, request>>
Expire == /\ "expire" \in batch.people /\ request = "open" /\ Changed(facts, grant)
          /\ request' = "gone" /\ UNCHANGED <<session, clock>>

Read(r) == \/ Route(r) \/ ResolveRequest(r) \/ DecideRequest(r) \/ SilentRequest(r)
           \/ ErrorRequest(r) \/ ReadClient(r) \/ ReadRedirects(r) \/ ReadScopes(r)
           \/ ReadGrant(r)
World == EditClient \/ EditGrant \/ Login \/ Logout \/ Wait \/ Expire

Next ==
  \/ \E r \in batch.requests : Arrive(r) \/ Read(r) \/ Claim(r) \/ Complete(r) \/ Fails(r)
  \/ World

Spec == Init /\ [][Next]_vars

-----------------------------------------------------------------------------
(* Properties *)

Claimed == claim # NoClaim
Winner  == run[claim.by]

\* A person's decision is claimed on a session that satisfied prompt and
\* max_age when the decision arrived; an allow also on its credential.
FreshClaims ==
  Claimed /\ claim.kind \in UserKinds =>
    /\ Winner.sess.on
    /\ Forced => batch.created # 0 /\ Winner.sess.auth > batch.created
    /\ ~Forced => \A m \in batch.maxAge : Winner.began - Winner.sess.auth <= m
    /\ claim.kind = "allow" => Winner.sess.v2

\* A page once shown as valid gives no exemption: client, redirect and scopes
\* each held at some moment after the decision began.
FactsInForce ==
  Claimed /\ claim.kind \in UserKinds =>
    \A w \in {"client", "redirect", "scopes"} : <<claim.by, w>> \in witness

\* A silent allow rests on a grant, and a consent mode, that allowed reuse
\* after the silent decision began; "consent required" on their absence.
ReuseBacked ==
  Claimed /\ Op(claim.by) = "gateway" =>
    /\ claim.kind = "allow" => {<<claim.by, "mode">>, <<claim.by, "grant">>} \subseteq witness
    /\ claim.kind = "consent_required" => <<claim.by, "nogrant">> \in witness

\* The prompts mean the same at every door: an ill-formed set is never decided,
\* none never meets a page nor a person, create and select_account end as the
\* errors they stand for, and everything else is a person's to decide.
IllFormed   == HasPrompt("unspecified") \/ (HasPrompt("none") /\ Len(batch.prompts) > 1)
NotForPages == HasPrompt("none") \/ HasPrompt("create") \/ HasPrompt("select_account")

OneMeaning ==
  /\ IllFormed => ~Claimed
  /\ Claimed => claim.kind \in
       IF HasPrompt("none") THEN {"allow", "login_required", "consent_required"}
       ELSE IF HasPrompt("create") THEN {"request_not_supported"}
       ELSE IF HasPrompt("select_account") THEN {"account_selection_required"}
       ELSE UserKinds
  /\ NotForPages /\ Claimed => Op(claim.by) = "gateway"
  /\ NotForPages => \A r \in batch.requests : run[r].answer \notin Pages
  /\ NotForPages /\ ~HasPrompt("none") /\ ~IllFormed =>
       \A r \in batch.requests : Op(r) = "gateway" => run[r].answer # "bad"

\* Whoever has just signed in for the request is not sent to sign in again,
\* unless a positive max_age has run out since.
NoLoginLoop ==
  \A r \in batch.requests :
    (\/ run[r].answer \in {"login", "unauthenticated", "relogin"}
     \/ run[r].kind = "login_required")
    /\ batch.created # 0 /\ run[r].sess.v2 /\ run[r].sess.auth > batch.created
    => \E m \in batch.maxAge : m > 0 /\ clock - run[r].sess.auth > m

\* Only the winner of the claim gets a callback, and the claim is held by a
\* request that went on to the provider: a refusal leaves no row behind.
ClaimAnswered ==
  /\ \A r \in batch.requests : run[r].answer = "callback" => claim.by = r
  /\ Claimed => Winner.phase = "complete" \/ Winner.answer \in {"callback", "failed"}
=============================================================================
