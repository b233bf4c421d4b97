----------------------------- MODULE AdminPlane ------------------------------
(***************************************************************************)
(* The components an administrator works with, and the workers behind the  *)
(* rights of a person over the own data, side by side: a behaviour         *)
(* belongs to one of them, its part, and leaves the variables of the       *)
(* others unused.  A property of the plane asks each part its own form of  *)
(* the same question.                                                      *)
(***************************************************************************)
EXTENDS Naturals, TLC

CONSTANTS
  Parts,          \* the components to check
  c1, c2, q1, q2  \* clients and requests of the application

Cases == INSTANCE AdminCases

\* Runs of the one-time commands, and the batches of them to explore.
Signed(o) == [id |-> o, by |-> o, valid |-> TRUE]
Command(o, f, a) == [op |-> o, file |-> f, approvals |-> a]
BootstrapRuns ==
  [b1 |-> Command("pair", "f1", {}), b2 |-> Command("pair", "f1", {}),
   b3 |-> Command("pair", "f2", {}), b4 |-> Command("policy", "none", {}),
   b5 |-> Command("policy", "none", {}),
   b6 |-> Command("grant", "none", {Signed("o1"), Signed("o2")}),
   b7 |-> Command("grant", "none", {Signed("o1"), Signed("o3")}),
   b8 |-> Command("grant", "none", {Signed("o1"), [Signed("o1") EXCEPT !.id = "o4"]}),
   b9 |-> Command("verify", "none", {})]
BootstrapBatches ==
  {[runs |-> b, published |-> FALSE] : b \in {{"b1", "b2"}, {"b1", "b3"}, {"b4", "b5"}}}
  \cup {[runs |-> b, published |-> TRUE] : b \in {{"b6", "b7"}, {"b6", "b9"}, {"b8"}}}

VARIABLES
  part,  \* the component at work
  \* Application
  app, client, op, job, provider, req, faults,
  \* StepUp, with req, faults
  cred, receipts, proofs, grants, tries, counted,
  \* Access, with cred, grants, receipts, op, faults
  binding, account, asks, tokens, reasons,
  \* Ledger, with grants, req, faults
  row, old, upstream, reason, pass,
  \* Staff, with job, faults
  status, stamp, profile, dept, recorded, session, agent, walk, owed, overtaken,
  \* Policy, with job, agent, faults
  version, based, published, event, installed, worker, batch,
  \* Privacy, with account, session, worker, faults
  deletion, person, signing, export, told, overrun, exhausted, budget,
  \* Provider, with account, job, session, agent, worker, batch, faults
  enabled, switched, remote, staged, asOf, fetches, moves, conflict, link, born, erasure, ticket,
  \* Bootstrap, with job, batch, faults
  pair, file, policy, pdp, rival, admin, alive, run, witness, changes

Application == INSTANCE Applications WITH
  Clients <- {c1, c2}, Initial <- c1, Requests <- {q1, q2}, MaxFaults <- 2,
  Ops <- {"create_app", "update_app", "enable_app", "disable_app", "delete_app", "create_client",
          "update_client", "update_scopes", "enable_client", "disable_client", "delete_client",
          "rotate"}
StepUp == INSTANCE AdminStepUp WITH
  Requests <- DOMAIN Cases!StepUpInputs, InputOf <- Cases!StepUpInputs,
  KeyOf <- Cases!StepUpKeys, Sessions <- {"s1"},
  MaxFailures <- 1, MaxTries <- 2, MaxActive <- 3, MaxFaults <- 1
Access == INSTANCE IdentityAccess WITH
  Ops <- Cases!AccessOps, OpOf <- Cases!AccessOpOf, Asks <- {"a1", "a2", "a3"},
  Tokens <- {"t1"}, FirstAsk <- "a1", Batches <- Cases!AccessBatches,
  MaxFaults <- 1
Ledger == INSTANCE MutationLedger WITH
  Keys <- {"k1"}, Requests <- {"h1", "h2"}, KeyOf <- [h \in {"h1", "h2"} |-> "k1"],
  Reconcilers <- {"w1", "w2"}, Tokens <- {"t1"}, MaxFaults <- 1
Staff == INSTANCE Workforce WITH
  Users <- Cases!StaffUsers, Rank <- Cases!StaffRank, Depts <- {"da", "db", "dc"},
  Present <- {"da", "db"}, First <- "da", Staff <- {"u1", "u2"}, Unverified <- {"u3"},
  Requests <- Cases!StaffRequests, InputOf <- Cases!StaffInputs,
  Batches <- Cases!StaffBatches, Workers <- {"w1"}, MaxFaults <- 1
Policy == INSTANCE Policies WITH
  PolicyIds <- {"pa", "pd"}, Initial <- Cases!PolicyInitial,
  Requests <- Cases!PolicyRequests, InputOf <- Cases!PolicyInputs,
  Batches <- Cases!PolicyBatches, Reconcilers <- {"w1"}, Present <- {"a", "b", "c"},
  MaxFaults <- 1
Privacy == INSTANCE Privacy WITH
  Users <- {"u1"}, Exports <- {"e1", "e2", "d1"}, OwnerOf <- [e \in {"e1", "e2", "d1"} |-> "u1"],
  KindOf <- [e \in {"e1", "e2", "d1"} |-> IF e = "d1" THEN "audit" ELSE "personal"],
  Workers <- {"w1", "w2"}, Auditors <- {"a1"}, MaxAttempts <- 2, MaxFaults <- 2,
  Budgets <- {[exports |-> {}, deletions |-> 2], [exports |-> {"e1"}, deletions |-> 1],
              [exports |-> {"e1", "e2"}, deletions |-> 0], [exports |-> {"d1"}, deletions |-> 0]}
Provider == INSTANCE Providers WITH
  Subjects <- Cases!ProviderSubjects, Logins <- {"z"}, Departments <- {"da", "db"},
  Users <- {"u1", "u2"}, MailOf <- Cases!ProviderMail,
  Requests <- Cases!ProviderRequests, InputOf <- Cases!ProviderInputs,
  Batches <- Cases!ProviderBatches, Reconcilers <- {"w1", "w2"}, MaxAttempts <- 2,
  MaxMoves <- 1, MaxFaults <- 1
Bootstrap == INSTANCE Bootstrap WITH
  Runs <- DOMAIN BootstrapRuns, InputOf <- BootstrapRuns, Catalog <- <<"pa", "pb">>,
  Files <- {"f1", "f2"}, Batches <- BootstrapBatches, MaxChanges <- 1, MaxFaults <- 1

ASSUME ApplicationHolds == Application!ApplicationAssumption
ASSUME StepUpHolds == StepUp!StepUpAssumption
ASSUME AccessHolds == Access!IdentityAccessAssumption
ASSUME LedgerHolds == Ledger!LedgerAssumption
ASSUME StaffHolds == Staff!WorkforceAssumption
ASSUME PolicyHolds == Policy!PoliciesAssumption
ASSUME PrivacyHolds == Privacy!PrivacyAssumption
ASSUME ProviderHolds == Provider!ProvidersAssumption
ASSUME BootstrapHolds == Bootstrap!BootstrapAssumption

NotApplication == <<cred, receipts, proofs, grants, tries, counted, binding, account, asks,
  tokens, reasons, row, old, upstream, reason, pass, status, stamp, profile, dept, recorded,
  session, agent, walk, owed, overtaken, version, based, published, event, installed, worker,
  batch, deletion, person, signing, export, told, overrun, exhausted, budget, enabled, switched,
  remote, staged, asOf, fetches, moves, conflict, link, born, erasure, ticket, pair, file, policy,
  pdp, rival, admin, alive, run, witness, changes>>
NotStepUp == <<app, client, op, job, provider, binding, account, asks, tokens, reasons, row, old,
  upstream, reason, pass, status, stamp, profile, dept, recorded, session, agent, walk, owed,
  overtaken, version, based, published, event, installed, worker, batch, deletion, person,
  signing, export, told, overrun, exhausted, budget, enabled, switched, remote, staged, asOf,
  fetches, moves, conflict, link, born, erasure, ticket, pair, file, policy, pdp, rival, admin,
  alive, run, witness, changes>>
NotAccess == <<app, client, job, provider, req, proofs, tries, counted, row, old, upstream,
  reason, pass, status, stamp, profile, dept, recorded, session, agent, walk, owed, overtaken,
  version, based, published, event, installed, worker, batch, deletion, person, signing, export,
  told, overrun, exhausted, budget, enabled, switched, remote, staged, asOf, fetches, moves,
  conflict, link, born, erasure, ticket, pair, file, policy, pdp, rival, admin, alive, run,
  witness, changes>>
NotLedger == <<app, client, op, job, provider, cred, receipts, proofs, tries, counted, binding,
  account, asks, tokens, reasons, status, stamp, profile, dept, recorded, session, agent, walk,
  owed, overtaken, version, based, published, event, installed, worker, batch, deletion, person,
  signing, export, told, overrun, exhausted, budget, enabled, switched, remote, staged, asOf,
  fetches, moves, conflict, link, born, erasure, ticket, pair, file, policy, pdp, rival, admin,
  alive, run, witness, changes>>
NotStaff == <<app, client, op, provider, req, cred, receipts, proofs, grants, tries, counted,
  binding, account, asks, tokens, reasons, row, old, upstream, reason, pass, version, based,
  published, event, installed, worker, batch, deletion, person, signing, export, told, overrun,
  exhausted, budget, enabled, switched, remote, staged, asOf, fetches, moves, conflict, link,
  born, erasure, ticket, pair, file, policy, pdp, rival, admin, alive, run, witness, changes>>
NotPolicy == <<app, client, op, provider, req, cred, receipts, proofs, grants, tries, counted,
  binding, account, asks, tokens, reasons, row, old, upstream, reason, pass, status, stamp,
  profile, dept, recorded, session, walk, owed, overtaken, deletion, person, signing, export,
  told, overrun, exhausted, budget, enabled, switched, remote, staged, asOf, fetches, moves,
  conflict, link, born, erasure, ticket, pair, file, policy, pdp, rival, admin, alive, run,
  witness, changes>>
NotPrivacy == <<app, client, op, job, provider, req, cred, receipts, proofs, grants, tries,
  counted, binding, asks, tokens, reasons, row, old, upstream, reason, pass, status, stamp,
  profile, dept, recorded, agent, walk, owed, overtaken, version, based, published, event,
  installed, batch, enabled, switched, remote, staged, asOf, fetches, moves, conflict, link, born,
  erasure, ticket, pair, file, policy, pdp, rival, admin, alive, run, witness, changes>>
NotProvider == <<app, client, op, provider, req, cred, receipts, proofs, grants, tries, counted,
  binding, asks, tokens, reasons, row, old, upstream, reason, pass, status, stamp, profile, dept,
  recorded, walk, owed, overtaken, version, based, published, event, installed, deletion, person,
  signing, export, told, overrun, exhausted, budget, pair, file, policy, pdp, rival, admin, alive,
  run, witness, changes>>
NotBootstrap == <<app, client, op, provider, req, cred, receipts, proofs, grants, tries, counted,
  binding, account, asks, tokens, reasons, row, old, upstream, reason, pass, status, stamp,
  profile, dept, recorded, session, agent, walk, owed, overtaken, version, based, published,
  event, installed, worker, deletion, person, signing, export, told, overrun, exhausted, budget,
  enabled, switched, remote, staged, asOf, fetches, moves, conflict, link, born, erasure, ticket>>
planeVars == <<part, app, client, op, job, provider, req, faults, cred, receipts, proofs, grants,
  tries, counted, binding, account, asks, tokens, reasons, row, old, upstream, reason, pass,
  status, stamp, profile, dept, recorded, session, agent, walk, owed, overtaken, version, based,
  published, event, installed, worker, batch, deletion, person, signing, export, told, overrun,
  exhausted, budget, enabled, switched, remote, staged, asOf, fetches, moves, conflict, link,
  born, erasure, ticket, pair, file, policy, pdp, rival, admin, alive, run, witness, changes>>

Unused == "unused"

Init ==
  \/ /\ part = "application" /\ part \in Parts /\ Application!Init
     /\ cred = Unused /\ receipts = Unused /\ proofs = Unused /\ grants = Unused
     /\ tries = Unused /\ counted = Unused /\ binding = Unused /\ account = Unused
     /\ asks = Unused /\ tokens = Unused /\ reasons = Unused /\ row = Unused /\ old = Unused
     /\ upstream = Unused /\ reason = Unused /\ pass = Unused /\ status = Unused
     /\ stamp = Unused /\ profile = Unused /\ dept = Unused /\ recorded = Unused
     /\ session = Unused /\ agent = Unused /\ walk = Unused /\ owed = Unused
     /\ overtaken = Unused /\ version = Unused /\ based = Unused /\ published = Unused
     /\ event = Unused /\ installed = Unused /\ worker = Unused /\ batch = Unused
     /\ deletion = Unused /\ person = Unused /\ signing = Unused /\ export = Unused
     /\ told = Unused /\ overrun = Unused /\ exhausted = Unused /\ budget = Unused
     /\ enabled = Unused /\ switched = Unused /\ remote = Unused /\ staged = Unused
     /\ asOf = Unused /\ fetches = Unused /\ moves = Unused /\ conflict = Unused /\ link = Unused
     /\ born = Unused /\ erasure = Unused /\ ticket = Unused /\ pair = Unused /\ file = Unused
     /\ policy = Unused
     /\ pdp = Unused /\ rival = Unused /\ admin = Unused /\ alive = Unused /\ run = Unused
     /\ witness = Unused /\ changes = Unused
  \/ /\ part = "stepup" /\ part \in Parts /\ StepUp!Init
     /\ app = Unused /\ client = Unused /\ op = Unused /\ job = Unused /\ provider = Unused
     /\ binding = Unused /\ account = Unused /\ asks = Unused /\ tokens = Unused
     /\ reasons = Unused /\ row = Unused /\ old = Unused /\ upstream = Unused /\ reason = Unused
     /\ pass = Unused /\ status = Unused /\ stamp = Unused /\ profile = Unused /\ dept = Unused
     /\ recorded = Unused /\ session = Unused /\ agent = Unused /\ walk = Unused /\ owed = Unused
     /\ overtaken = Unused /\ version = Unused /\ based = Unused /\ published = Unused
     /\ event = Unused /\ installed = Unused /\ worker = Unused /\ batch = Unused
     /\ deletion = Unused /\ person = Unused /\ signing = Unused /\ export = Unused
     /\ told = Unused /\ overrun = Unused /\ exhausted = Unused /\ budget = Unused
     /\ enabled = Unused /\ switched = Unused /\ remote = Unused /\ staged = Unused
     /\ asOf = Unused /\ fetches = Unused /\ moves = Unused /\ conflict = Unused /\ link = Unused
     /\ born = Unused /\ erasure = Unused /\ ticket = Unused /\ pair = Unused /\ file = Unused
     /\ policy = Unused
     /\ pdp = Unused /\ rival = Unused /\ admin = Unused /\ alive = Unused /\ run = Unused
     /\ witness = Unused /\ changes = Unused
  \/ /\ part = "access" /\ part \in Parts /\ Access!Init
     /\ app = Unused /\ client = Unused /\ job = Unused /\ provider = Unused /\ req = Unused
     /\ proofs = Unused /\ tries = Unused /\ counted = Unused /\ row = Unused /\ old = Unused
     /\ upstream = Unused /\ reason = Unused /\ pass = Unused /\ status = Unused
     /\ stamp = Unused /\ profile = Unused /\ dept = Unused /\ recorded = Unused
     /\ session = Unused /\ agent = Unused /\ walk = Unused /\ owed = Unused
     /\ overtaken = Unused /\ version = Unused /\ based = Unused /\ published = Unused
     /\ event = Unused /\ installed = Unused /\ worker = Unused /\ batch = Unused
     /\ deletion = Unused /\ person = Unused /\ signing = Unused /\ export = Unused
     /\ told = Unused /\ overrun = Unused /\ exhausted = Unused /\ budget = Unused
     /\ enabled = Unused /\ switched = Unused /\ remote = Unused /\ staged = Unused
     /\ asOf = Unused /\ fetches = Unused /\ moves = Unused /\ conflict = Unused /\ link = Unused
     /\ born = Unused /\ erasure = Unused /\ ticket = Unused /\ pair = Unused /\ file = Unused
     /\ policy = Unused
     /\ pdp = Unused /\ rival = Unused /\ admin = Unused /\ alive = Unused /\ run = Unused
     /\ witness = Unused /\ changes = Unused
  \/ /\ part = "ledger" /\ part \in Parts /\ Ledger!Init
     /\ app = Unused /\ client = Unused /\ op = Unused /\ job = Unused /\ provider = Unused
     /\ cred = Unused /\ receipts = Unused /\ proofs = Unused /\ tries = Unused
     /\ counted = Unused /\ binding = Unused /\ account = Unused /\ asks = Unused
     /\ tokens = Unused /\ reasons = Unused /\ status = Unused /\ stamp = Unused
     /\ profile = Unused /\ dept = Unused /\ recorded = Unused /\ session = Unused
     /\ agent = Unused /\ walk = Unused /\ owed = Unused /\ overtaken = Unused
     /\ version = Unused /\ based = Unused /\ published = Unused /\ event = Unused
     /\ installed = Unused /\ worker = Unused /\ batch = Unused /\ deletion = Unused
     /\ person = Unused /\ signing = Unused /\ export = Unused /\ told = Unused
     /\ overrun = Unused /\ exhausted = Unused /\ budget = Unused /\ enabled = Unused
     /\ switched = Unused /\ remote = Unused /\ staged = Unused /\ asOf = Unused
     /\ fetches = Unused /\ moves = Unused /\ conflict = Unused /\ link = Unused /\ born = Unused
     /\ erasure = Unused
     /\ ticket = Unused /\ pair = Unused /\ file = Unused /\ policy = Unused /\ pdp = Unused
     /\ rival = Unused /\ admin = Unused /\ alive = Unused /\ run = Unused /\ witness = Unused
     /\ changes = Unused
  \/ /\ part = "staff" /\ part \in Parts /\ Staff!Init
     /\ app = Unused /\ client = Unused /\ op = Unused /\ provider = Unused /\ req = Unused
     /\ cred = Unused /\ receipts = Unused /\ proofs = Unused /\ grants = Unused
     /\ tries = Unused /\ counted = Unused /\ binding = Unused /\ account = Unused
     /\ asks = Unused /\ tokens = Unused /\ reasons = Unused /\ row = Unused /\ old = Unused
     /\ upstream = Unused /\ reason = Unused /\ pass = Unused /\ version = Unused
     /\ based = Unused /\ published = Unused /\ event = Unused /\ installed = Unused
     /\ worker = Unused /\ batch = Unused /\ deletion = Unused /\ person = Unused
     /\ signing = Unused /\ export = Unused /\ told = Unused /\ overrun = Unused
     /\ exhausted = Unused /\ budget = Unused /\ enabled = Unused /\ switched = Unused
     /\ remote = Unused /\ staged = Unused /\ asOf = Unused /\ fetches = Unused /\ moves = Unused
     /\ conflict = Unused /\ link = Unused /\ born = Unused /\ erasure = Unused /\ ticket = Unused
     /\ pair = Unused
     /\ file = Unused /\ policy = Unused /\ pdp = Unused /\ rival = Unused /\ admin = Unused
     /\ alive = Unused /\ run = Unused /\ witness = Unused /\ changes = Unused
  \/ /\ part = "policy" /\ part \in Parts /\ Policy!Init
     /\ app = Unused /\ client = Unused /\ op = Unused /\ provider = Unused /\ req = Unused
     /\ cred = Unused /\ receipts = Unused /\ proofs = Unused /\ grants = Unused
     /\ tries = Unused /\ counted = Unused /\ binding = Unused /\ account = Unused
     /\ asks = Unused /\ tokens = Unused /\ reasons = Unused /\ row = Unused /\ old = Unused
     /\ upstream = Unused /\ reason = Unused /\ pass = Unused /\ status = Unused
     /\ stamp = Unused /\ profile = Unused /\ dept = Unused /\ recorded = Unused
     /\ session = Unused /\ walk = Unused /\ owed = Unused /\ overtaken = Unused
     /\ deletion = Unused /\ person = Unused /\ signing = Unused /\ export = Unused
     /\ told = Unused /\ overrun = Unused /\ exhausted = Unused /\ budget = Unused
     /\ enabled = Unused /\ switched = Unused /\ remote = Unused /\ staged = Unused
     /\ asOf = Unused /\ fetches = Unused /\ moves = Unused /\ conflict = Unused /\ link = Unused
     /\ born = Unused /\ erasure = Unused /\ ticket = Unused /\ pair = Unused /\ file = Unused
     /\ policy = Unused
     /\ pdp = Unused /\ rival = Unused /\ admin = Unused /\ alive = Unused /\ run = Unused
     /\ witness = Unused /\ changes = Unused
  \/ /\ part = "privacy" /\ part \in Parts /\ Privacy!Init
     /\ app = Unused /\ client = Unused /\ op = Unused /\ job = Unused /\ provider = Unused
     /\ req = Unused /\ cred = Unused /\ receipts = Unused /\ proofs = Unused /\ grants = Unused
     /\ tries = Unused /\ counted = Unused /\ binding = Unused /\ asks = Unused
     /\ tokens = Unused /\ reasons = Unused /\ row = Unused /\ old = Unused /\ upstream = Unused
     /\ reason = Unused /\ pass = Unused /\ status = Unused /\ stamp = Unused /\ profile = Unused
     /\ dept = Unused /\ recorded = Unused /\ agent = Unused /\ walk = Unused /\ owed = Unused
     /\ overtaken = Unused /\ version = Unused /\ based = Unused /\ published = Unused
     /\ event = Unused /\ installed = Unused /\ batch = Unused /\ enabled = Unused
     /\ switched = Unused /\ remote = Unused /\ staged = Unused /\ asOf = Unused
     /\ fetches = Unused /\ moves = Unused /\ conflict = Unused /\ link = Unused /\ born = Unused
     /\ erasure = Unused
     /\ ticket = Unused /\ pair = Unused /\ file = Unused /\ policy = Unused /\ pdp = Unused
     /\ rival = Unused /\ admin = Unused /\ alive = Unused /\ run = Unused /\ witness = Unused
     /\ changes = Unused
  \/ /\ part = "provider" /\ part \in Parts /\ Provider!Init
     /\ app = Unused /\ client = Unused /\ op = Unused /\ provider = Unused /\ req = Unused
     /\ cred = Unused /\ receipts = Unused /\ proofs = Unused /\ grants = Unused
     /\ tries = Unused /\ counted = Unused /\ binding = Unused /\ asks = Unused
     /\ tokens = Unused /\ reasons = Unused /\ row = Unused /\ old = Unused /\ upstream = Unused
     /\ reason = Unused /\ pass = Unused /\ status = Unused /\ stamp = Unused /\ profile = Unused
     /\ dept = Unused /\ recorded = Unused /\ walk = Unused /\ owed = Unused
     /\ overtaken = Unused /\ version = Unused /\ based = Unused /\ published = Unused
     /\ event = Unused /\ installed = Unused /\ deletion = Unused /\ person = Unused
     /\ signing = Unused /\ export = Unused /\ told = Unused /\ overrun = Unused
     /\ exhausted = Unused /\ budget = Unused /\ pair = Unused /\ file = Unused
     /\ policy = Unused /\ pdp = Unused /\ rival = Unused /\ admin = Unused /\ alive = Unused
     /\ run = Unused /\ witness = Unused /\ changes = Unused
  \/ /\ part = "bootstrap" /\ part \in Parts /\ Bootstrap!Init
     /\ app = Unused /\ client = Unused /\ op = Unused /\ provider = Unused /\ req = Unused
     /\ cred = Unused /\ receipts = Unused /\ proofs = Unused /\ grants = Unused
     /\ tries = Unused /\ counted = Unused /\ binding = Unused /\ account = Unused
     /\ asks = Unused /\ tokens = Unused /\ reasons = Unused /\ row = Unused /\ old = Unused
     /\ upstream = Unused /\ reason = Unused /\ pass = Unused /\ status = Unused
     /\ stamp = Unused /\ profile = Unused /\ dept = Unused /\ recorded = Unused
     /\ session = Unused /\ agent = Unused /\ walk = Unused /\ owed = Unused
     /\ overtaken = Unused /\ version = Unused /\ based = Unused /\ published = Unused
     /\ event = Unused /\ installed = Unused /\ worker = Unused /\ deletion = Unused
     /\ person = Unused /\ signing = Unused /\ export = Unused /\ told = Unused
     /\ overrun = Unused /\ exhausted = Unused /\ budget = Unused /\ enabled = Unused
     /\ switched = Unused /\ remote = Unused /\ staged = Unused /\ asOf = Unused
     /\ fetches = Unused /\ moves = Unused /\ conflict = Unused /\ link = Unused /\ born = Unused
     /\ erasure = Unused
     /\ ticket = Unused

Next ==
  \/ part = "application" /\ Application!Next /\ UNCHANGED part /\ UNCHANGED NotApplication
  \/ part = "stepup" /\ StepUp!Next /\ UNCHANGED part /\ UNCHANGED NotStepUp
  \/ part = "access" /\ Access!Next /\ UNCHANGED part /\ UNCHANGED NotAccess
  \/ part = "ledger" /\ Ledger!Next /\ UNCHANGED part /\ UNCHANGED NotLedger
  \/ part = "staff" /\ Staff!Next /\ UNCHANGED part /\ UNCHANGED NotStaff
  \/ part = "policy" /\ Policy!Next /\ UNCHANGED part /\ UNCHANGED NotPolicy
  \/ part = "privacy" /\ Privacy!Next /\ UNCHANGED part /\ UNCHANGED NotPrivacy
  \/ part = "provider" /\ Provider!Next /\ UNCHANGED part /\ UNCHANGED NotProvider
  \/ part = "bootstrap" /\ Bootstrap!Next /\ UNCHANGED part /\ UNCHANGED NotBootstrap

Spec == Init /\ [][Next]_planeVars

Symmetry == Permutations({q1, q2})

-----------------------------------------------------------------------------
(* Properties *)

InApplication(P) == part = "application" => P
InStepUp(P)      == part = "stepup" => P
InAccess(P)      == part = "access" => P
InLedger(P)      == part = "ledger" => P
InStaff(P)       == part = "staff" => P
InPolicy(P)      == part = "policy" => P
InPrivacy(P)     == part = "privacy" => P
InProvider(P)    == part = "provider" => P
InBootstrap(P)   == part = "bootstrap" => P

\* The rows of every component keep the shape its store can hold.
AdminTypes ==
  /\ InApplication(Application!TypeOK)
  /\ InStepUp(StepUp!TypeOK)
  /\ InAccess(Access!TypeOK)
  /\ InLedger(Ledger!TypeOK)
  /\ InStaff(Staff!TypeOK)
  /\ InPolicy(Policy!TypeOK)
  /\ InPrivacy(Privacy!TypeOK)
  /\ InProvider(Provider!TypeOK)
  /\ InBootstrap(Bootstrap!TypeOK)

\* An idempotency key, a step-up token and a protected reason back one effect,
\* and a mutation of DreamUp is sent once, whatever answers were lost and
\* however retries, instances and reconcilers race (CreateOrReplay); a job ends
\* once, and a state of a sign-in is used once; a bootstrap leaves one pair, and
\* a first grant that is whole.
EffectsOnce ==
  /\ InStepUp(StepUp!OneEffect)
  /\ InAccess(Access!OneEffect)
  /\ InLedger(Ledger!SentOnce /\ Ledger!TokenOnce)
  /\ InStaff(Staff!JobsOnce /\ Staff!ListedOnce)
  /\ InPolicy(Policy!EndsOnce)
  /\ InProvider(Provider!SyncEndsOnce /\ Provider!StateUsedOnce /\ Provider!SwitchOnRecord)
  /\ InBootstrap(Bootstrap!OneLivePair /\ Bootstrap!GrantWhole)

\* What callers were told is what the rows say: a definite answer is the
\* stored one, a wrong answer told is a failure counted, and a decision, claim
\* or settlement that was answered is in the ask and its grant; what the
\* ledger of mutations says is what DreamUp did and the caller was told; an
\* answer of Cerbos is what the selected versions mean, and a link to an
\* export works until it expires; first sign-ins of one subject agree, and a
\* command that reports success saw what it speaks of.
AnswersHold ==
  /\ InStepUp(StepUp!AnswerRecorded /\ StepUp!WrongAnswersCounted)
  /\ InAccess(Access!ReceiptsHold)
  /\ InLedger(/\ Ledger!LedgerHonest /\ Ledger!AnswerAgrees
              /\ Ledger!ReasonFirst /\ Ledger!StatusAnswers)
  /\ InStaff(Staff!RevocationAnswersHold)
  /\ InPolicy(Policy!PublicationAnswersHold /\ Policy!DecisionSound /\ Policy!SimulationTrue)
  /\ InPrivacy(Privacy!PromiseKept)
  /\ InProvider(Provider!FirstLoginsAgree)
  /\ InBootstrap(Bootstrap!AnswersVouched)

\* What rows promise is real: the newest secret of a client is the one the
\* provider honours and a visible client has its application there; owners and
\* supervisors are in office, and departments form trees without loose ends;
\* the selected version of a policy is in Cerbos, and no draft was lost; links
\* to the directory are one to one and are what was decided, and one that a
\* deletion took or left was decided while it ran; the first super
\* administrator is backed by two operators and by the policies in force.
RowsReal ==
  /\ InApplication(Application!SecretKnown /\ Application!ProvisionedIsReal)
  /\ InStaff(Staff!AssignmentsInForce /\ Staff!HierarchySound)
  /\ InPolicy(Policy!SelectedIsInstalled /\ Policy!NoDraftLost)
  /\ InProvider(Provider!LinksUnique)
  /\ InBootstrap(Bootstrap!GrantBacked /\ Bootstrap!OnlyFixedPublished)

\* A request that fails half way leaves its leftovers on record: an orphan at
\* the provider, a drifted configuration, a partial enable, and no gate shut;
\* sessions to be ended have a pending job; a deletion under way is on record,
\* and leaves neither session nor export behind; the one secret is kept.
LeftoversTraced ==
  /\ InApplication(/\ Application!LeakLeavesTrace /\ Application!DriftFlagged
                   /\ Application!PartialEnableUndone /\ Application!Settled)
  /\ InStaff(Staff!OwedIsPending)
  /\ InPrivacy(Privacy!GoneOnRecord /\ Privacy!PurgedFirst /\ Privacy!NothingPersonalLeft)
  /\ InBootstrap(Bootstrap!SecretKept)

\* Nothing given under a question outlives it, and a session has one proof:
\* a rotation of the question reaches every proof, ask and grant.
QuestionBound ==
  /\ InStepUp(StepUp!ProofsOfThisCredential /\ StepUp!OneProof)
  /\ InAccess(Access!RotationRevokes)

\* A grant is approved for, and used by, a holder in force at that very
\* moment; a decision, a settlement, a revocation and the end of a mutation
\* are final; an account comes back without the sessions it was to lose, none
\* is deleted while the request rests, no selected policy and no copy of the
\* directory goes back, and nobody enters through a provider that is shut.
AuthorityInForce ==
  [][/\ InAccess(Access!UsedInForce /\ Access!ApprovedForHolder /\ Access!Final)
     /\ InLedger(Ledger!EndsKept)
     /\ InStaff(Staff!CleanReturn)
     /\ InPolicy(Policy!PublishedForward)
     /\ InPrivacy(Privacy!CoolingHonoured /\ Privacy!DeletionForward)
     /\ InProvider(/\ Provider!StagingForward /\ Provider!NoFalseRetirement
                   /\ Provider!ShutMeansNoEntry)]_planeVars
==============================================================================
