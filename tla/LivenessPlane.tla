---------------------------- MODULE LivenessPlane ----------------------------
(***************************************************************************)
(* What must eventually happen: the components whose promises rest on a    *)
(* worker, an expiry or a client that comes back, side by side and small,  *)
(* with the fairness each of them may count on.                            *)
(***************************************************************************)
EXTENDS Naturals

CONSTANT Parts   \* the components to check

EntrySet == INSTANCE EntryCases
AdminSet == INSTANCE AdminCases

HealingMix == [callers |-> {"c1"}, users |-> {"u1"}, ops |-> {"others", "list"},
               rotate |-> TRUE, late |-> TRUE, maxFaults |-> 0]

VARIABLES
  part,  \* the component at work
  \* Healing
  rec, loc, idx, touching, rotating, pc, job, faults,
  \* Enrollment, with faults
  factor, chal, lock, work, worker, sec, req, unsettled, stranded,
  \* Onboarding, with chal, work, faults
  account, holder, attempts, obligation, due, promotion, promoted, lease, provider, native, run,
  registered, moved, lapsed, leaked,
  \* Ledger, with req, faults
  row, old, upstream, reason, grants, pass,
  \* Queue, with pc
  chan, lanes, refs, sem, made, held, lane, timeouts,
  \* Registration, with upstream, run, faults
  user, events, locks, intent, mailed, spent, token, sweep, proven, unsure, revived,
  \* Notes, with holder, worker, faults
  status, event, outbox, clock, doubled,
  \* Staff, with status, job, faults
  stamp, profile, dept, recorded, session, agent, walk, owed, overtaken,
  \* Policy, with job, event, agent, worker, faults
  version, based, published, installed, batch,
  \* Privacy, with account, session, worker, faults
  deletion, person, signing, export, told, overrun, exhausted, budget

Healing == INSTANCE SessionStore WITH
  Sids <- {"s1"}, Tokens <- {"t1", "t2", "t3"}, Users <- {"u1"}, Owner <- [s \in {"s1"} |-> "u1"],
  Callers <- {"c1"}, Mixes <- {HealingMix}, mix <- HealingMix
Enrollment == INSTANCE Enrollment WITH
  Requests <- EntrySet!FactorRequests, InputOf <- EntrySet!FactorInputs,
  Batches <- EntrySet!FactorPasskeyBatches, Workers <- {"w1"}, MaxGen <- 2, MaxFaults <- 1
Onboarding == INSTANCE WeChatOnboarding WITH
  Requests <- EntrySet!OnboardingRequests, InputOf <- EntrySet!OnboardingInputs,
  Scenarios <- EntrySet!OnboardingFewScenarios, Subjects <- {"w1", "w2"},
  PhoneOf <- EntrySet!OnboardingPhones, Workers <- {"k1"},
  MaxAttempts <- 2, MaxVersion <- 2, MaxFaults <- 1
Ledger == INSTANCE MutationLedger WITH
  Keys <- {"k1"}, Requests <- {"h1", "h2"}, KeyOf <- [h \in {"h1", "h2"} |-> "k1"],
  Reconcilers <- {"w1"}, Tokens <- {"t1"}, MaxFaults <- 1
Queue == INSTANCE Admission WITH
  Callers <- DOMAIN EntrySet!QueueDomains, DomainOf <- EntrySet!QueueDomains,
  Established <- {"mail.example"}, InFlight <- 2, Queued <- 1, UnfamiliarInFlight <- 2,
  UnfamiliarQueued <- 0, PerDomain <- 1, MaxLanes <- 3, MaxTimeouts <- 0
Registration == INSTANCE Registration WITH
  Requests <- EntrySet!RegistrationRequests, InputOf <- EntrySet!RegistrationInputs,
  Scenarios <- EntrySet!RegistrationFewScenarios, MaxFaults <- 2
Notes == INSTANCE Notifications WITH
  Notes <- {"n1", "n2"}, Target <- [n \in {"n1", "n2"} |-> IF n = "n1" THEN "a1" ELSE "a2"],
  Accounts <- {"a1", "a2"}, Age <- [n \in {"n1", "n2"} |-> IF n = "n1" THEN 1 ELSE 2],
  Batch <- 1, Workers <- {"k1", "k2"}, MaxFaults <- 1
Staff == INSTANCE Workforce WITH
  Users <- AdminSet!StaffUsers, Rank <- AdminSet!StaffRank, Depts <- {"da", "db", "dc"},
  Present <- {"da", "db"}, First <- "da", Staff <- {"u1", "u2"}, Unverified <- {"u3"},
  Requests <- {"x1", "o1", "g1"}, InputOf <- AdminSet!StaffInputs,
  Batches <- AdminSet!StaffFewBatches, Workers <- {"w1"}, MaxFaults <- 1
Policy == INSTANCE Policies WITH
  PolicyIds <- {"pa", "pd"}, Initial <- AdminSet!PolicyInitial,
  Requests <- {"n1", "v1", "p1", "p2"}, InputOf <- AdminSet!PolicyInputs,
  Batches <- AdminSet!PolicyFewBatches, Reconcilers <- {"w1"}, Present <- {"a", "b", "c"},
  MaxFaults <- 1
Privacy == INSTANCE Privacy WITH
  Users <- {"u1"}, Exports <- {"e1"}, OwnerOf <- [e \in {"e1"} |-> "u1"],
  KindOf <- [e \in {"e1"} |-> "personal"], Workers <- {"w1", "w2"}, Auditors <- {},
  MaxAttempts <- 2, MaxFaults <- 1,
  Budgets <- {[exports |-> {"e1"}, deletions |-> 1]}

ASSUME Healing!SessionAssumption
ASSUME Enrollment!EnrollmentAssumption
ASSUME Onboarding!OnboardingAssumption
ASSUME Ledger!LedgerAssumption
ASSUME Queue!AdmissionAssumption
ASSUME Registration!RegistrationAssumption
ASSUME Notes!NotificationAssumption
ASSUME Staff!WorkforceAssumption
ASSUME Policy!PoliciesAssumption
ASSUME Privacy!PrivacyAssumption

NotHealing == <<factor, chal, lock, work, worker, sec, req, unsettled, stranded, account, holder,
  attempts, obligation, due, promotion, promoted, lease, provider, native, run, registered, moved,
  lapsed, leaked, row, old, upstream, reason, grants, pass, chan, lanes, refs, sem, made, held,
  lane, timeouts, user, events, locks, intent, mailed, spent, token, sweep, proven, unsure,
  revived, status, event, outbox, clock, doubled, stamp, profile, dept, recorded, session, agent,
  walk, owed, overtaken, version, based, published, installed, batch, deletion, person, signing,
  export, told, overrun, exhausted, budget>>
NotEnrollment == <<rec, loc, idx, touching, rotating, pc, job, account, holder, attempts,
  obligation, due, promotion, promoted, lease, provider, native, run, registered, moved, lapsed,
  leaked, row, old, upstream, reason, grants, pass, chan, lanes, refs, sem, made, held, lane,
  timeouts, user, events, locks, intent, mailed, spent, token, sweep, proven, unsure, revived,
  status, event, outbox, clock, doubled, stamp, profile, dept, recorded, session, agent, walk,
  owed, overtaken, version, based, published, installed, batch, deletion, person, signing, export,
  told, overrun, exhausted, budget>>
NotOnboarding == <<rec, loc, idx, touching, rotating, pc, job, factor, lock, worker, sec, req,
  unsettled, stranded, row, old, upstream, reason, grants, pass, chan, lanes, refs, sem, made,
  held, lane, timeouts, user, events, locks, intent, mailed, spent, token, sweep, proven, unsure,
  revived, status, event, outbox, clock, doubled, stamp, profile, dept, recorded, session, agent,
  walk, owed, overtaken, version, based, published, installed, batch, deletion, person, signing,
  export, told, overrun, exhausted, budget>>
NotLedger == <<rec, loc, idx, touching, rotating, pc, job, factor, chal, lock, work, worker, sec,
  unsettled, stranded, account, holder, attempts, obligation, due, promotion, promoted, lease,
  provider, native, run, registered, moved, lapsed, leaked, chan, lanes, refs, sem, made, held,
  lane, timeouts, user, events, locks, intent, mailed, spent, token, sweep, proven, unsure,
  revived, status, event, outbox, clock, doubled, stamp, profile, dept, recorded, session, agent,
  walk, owed, overtaken, version, based, published, installed, batch, deletion, person, signing,
  export, told, overrun, exhausted, budget>>
NotQueue == <<rec, loc, idx, touching, rotating, job, faults, factor, chal, lock, work, worker,
  sec, req, unsettled, stranded, account, holder, attempts, obligation, due, promotion, promoted,
  lease, provider, native, run, registered, moved, lapsed, leaked, row, old, upstream, reason,
  grants, pass, user, events, locks, intent, mailed, spent, token, sweep, proven, unsure, revived,
  status, event, outbox, clock, doubled, stamp, profile, dept, recorded, session, agent, walk,
  owed, overtaken, version, based, published, installed, batch, deletion, person, signing, export,
  told, overrun, exhausted, budget>>
NotRegistration == <<rec, loc, idx, touching, rotating, pc, job, factor, chal, lock, work, worker,
  sec, req, unsettled, stranded, account, holder, attempts, obligation, due, promotion, promoted,
  lease, provider, native, registered, moved, lapsed, leaked, row, old, reason, grants, pass,
  chan, lanes, refs, sem, made, held, lane, timeouts, status, event, outbox, clock, doubled,
  stamp, profile, dept, recorded, session, agent, walk, owed, overtaken, version, based,
  published, installed, batch, deletion, person, signing, export, told, overrun, exhausted, budget>>
NotNotes == <<rec, loc, idx, touching, rotating, pc, job, factor, chal, lock, work, sec, req,
  unsettled, stranded, account, attempts, obligation, due, promotion, promoted, lease, provider,
  native, run, registered, moved, lapsed, leaked, row, old, upstream, reason, grants, pass, chan,
  lanes, refs, sem, made, held, lane, timeouts, user, events, locks, intent, mailed, spent, token,
  sweep, proven, unsure, revived, stamp, profile, dept, recorded, session, agent, walk, owed,
  overtaken, version, based, published, installed, batch, deletion, person, signing, export, told,
  overrun, exhausted, budget>>
NotStaff == <<rec, loc, idx, touching, rotating, pc, factor, chal, lock, work, worker, sec, req,
  unsettled, stranded, account, holder, attempts, obligation, due, promotion, promoted, lease,
  provider, native, run, registered, moved, lapsed, leaked, row, old, upstream, reason, grants,
  pass, chan, lanes, refs, sem, made, held, lane, timeouts, user, events, locks, intent, mailed,
  spent, token, sweep, proven, unsure, revived, event, outbox, clock, doubled, version, based,
  published, installed, batch, deletion, person, signing, export, told, overrun, exhausted, budget>>
NotPolicy == <<rec, loc, idx, touching, rotating, pc, factor, chal, lock, work, sec, req,
  unsettled, stranded, account, holder, attempts, obligation, due, promotion, promoted, lease,
  provider, native, run, registered, moved, lapsed, leaked, row, old, upstream, reason, grants,
  pass, chan, lanes, refs, sem, made, held, lane, timeouts, user, events, locks, intent, mailed,
  spent, token, sweep, proven, unsure, revived, status, outbox, clock, doubled, stamp, profile,
  dept, recorded, session, walk, owed, overtaken, deletion, person, signing, export, told,
  overrun, exhausted, budget>>
NotPrivacy == <<rec, loc, idx, touching, rotating, pc, job, factor, chal, lock, work, sec, req,
  unsettled, stranded, holder, attempts, obligation, due, promotion, promoted, lease, provider,
  native, run, registered, moved, lapsed, leaked, row, old, upstream, reason, grants, pass, chan,
  lanes, refs, sem, made, held, lane, timeouts, user, events, locks, intent, mailed, spent, token,
  sweep, proven, unsure, revived, status, event, outbox, clock, doubled, stamp, profile, dept,
  recorded, agent, walk, owed, overtaken, version, based, published, installed, batch>>
planeVars == <<part, rec, loc, idx, touching, rotating, pc, job, faults, factor, chal, lock, work,
  worker, sec, req, unsettled, stranded, account, holder, attempts, obligation, due, promotion,
  promoted, lease, provider, native, run, registered, moved, lapsed, leaked, row, old, upstream,
  reason, grants, pass, chan, lanes, refs, sem, made, held, lane, timeouts, user, events, locks,
  intent, mailed, spent, token, sweep, proven, unsure, revived, status, event, outbox, clock,
  doubled, stamp, profile, dept, recorded, session, agent, walk, owed, overtaken, version, based,
  published, installed, batch, deletion, person, signing, export, told, overrun, exhausted, budget>>

Unused == "unused"

Init ==
  \/ /\ part = "healing" /\ part \in Parts /\ Healing!Init
     /\ factor = Unused /\ chal = Unused /\ lock = Unused /\ work = Unused /\ worker = Unused
     /\ sec = Unused /\ req = Unused /\ unsettled = Unused /\ stranded = Unused
     /\ account = Unused /\ holder = Unused /\ attempts = Unused /\ obligation = Unused
     /\ due = Unused /\ promotion = Unused /\ promoted = Unused /\ lease = Unused
     /\ provider = Unused /\ native = Unused /\ run = Unused /\ registered = Unused
     /\ moved = Unused /\ lapsed = Unused /\ leaked = Unused /\ row = Unused /\ old = Unused
     /\ upstream = Unused /\ reason = Unused /\ grants = Unused /\ pass = Unused /\ chan = Unused
     /\ lanes = Unused /\ refs = Unused /\ sem = Unused /\ made = Unused /\ held = Unused
     /\ lane = Unused /\ timeouts = Unused /\ user = Unused /\ events = Unused /\ locks = Unused
     /\ intent = Unused /\ mailed = Unused /\ spent = Unused /\ token = Unused /\ sweep = Unused
     /\ proven = Unused /\ unsure = Unused /\ revived = Unused /\ status = Unused
     /\ event = Unused /\ outbox = Unused /\ clock = Unused /\ doubled = Unused /\ stamp = Unused
     /\ profile = Unused /\ dept = Unused /\ recorded = Unused /\ session = Unused
     /\ agent = Unused /\ walk = Unused /\ owed = Unused /\ overtaken = Unused
     /\ version = Unused /\ based = Unused /\ published = Unused /\ installed = Unused
     /\ batch = Unused /\ deletion = Unused /\ person = Unused /\ signing = Unused
     /\ export = Unused /\ told = Unused /\ overrun = Unused /\ exhausted = Unused
     /\ budget = Unused
  \/ /\ part = "enrollment" /\ part \in Parts /\ Enrollment!Init
     /\ rec = Unused /\ loc = Unused /\ idx = Unused /\ touching = Unused /\ rotating = Unused
     /\ pc = Unused /\ job = Unused /\ account = Unused /\ holder = Unused /\ attempts = Unused
     /\ obligation = Unused /\ due = Unused /\ promotion = Unused /\ promoted = Unused
     /\ lease = Unused /\ provider = Unused /\ native = Unused /\ run = Unused
     /\ registered = Unused /\ moved = Unused /\ lapsed = Unused /\ leaked = Unused
     /\ row = Unused /\ old = Unused /\ upstream = Unused /\ reason = Unused /\ grants = Unused
     /\ pass = Unused /\ chan = Unused /\ lanes = Unused /\ refs = Unused /\ sem = Unused
     /\ made = Unused /\ held = Unused /\ lane = Unused /\ timeouts = Unused /\ user = Unused
     /\ events = Unused /\ locks = Unused /\ intent = Unused /\ mailed = Unused /\ spent = Unused
     /\ token = Unused /\ sweep = Unused /\ proven = Unused /\ unsure = Unused
     /\ revived = Unused /\ status = Unused /\ event = Unused /\ outbox = Unused
     /\ clock = Unused /\ doubled = Unused /\ stamp = Unused /\ profile = Unused /\ dept = Unused
     /\ recorded = Unused /\ session = Unused /\ agent = Unused /\ walk = Unused /\ owed = Unused
     /\ overtaken = Unused /\ version = Unused /\ based = Unused /\ published = Unused
     /\ installed = Unused /\ batch = Unused /\ deletion = Unused /\ person = Unused
     /\ signing = Unused /\ export = Unused /\ told = Unused /\ overrun = Unused
     /\ exhausted = Unused /\ budget = Unused
  \/ /\ part = "onboarding" /\ part \in Parts /\ Onboarding!Init
     /\ rec = Unused /\ loc = Unused /\ idx = Unused /\ touching = Unused /\ rotating = Unused
     /\ pc = Unused /\ job = Unused /\ factor = Unused /\ lock = Unused /\ worker = Unused
     /\ sec = Unused /\ req = Unused /\ unsettled = Unused /\ stranded = Unused /\ row = Unused
     /\ old = Unused /\ upstream = Unused /\ reason = Unused /\ grants = Unused /\ pass = Unused
     /\ chan = Unused /\ lanes = Unused /\ refs = Unused /\ sem = Unused /\ made = Unused
     /\ held = Unused /\ lane = Unused /\ timeouts = Unused /\ user = Unused /\ events = Unused
     /\ locks = Unused /\ intent = Unused /\ mailed = Unused /\ spent = Unused /\ token = Unused
     /\ sweep = Unused /\ proven = Unused /\ unsure = Unused /\ revived = Unused
     /\ status = Unused /\ event = Unused /\ outbox = Unused /\ clock = Unused
     /\ doubled = Unused /\ stamp = Unused /\ profile = Unused /\ dept = Unused
     /\ recorded = Unused /\ session = Unused /\ agent = Unused /\ walk = Unused /\ owed = Unused
     /\ overtaken = Unused /\ version = Unused /\ based = Unused /\ published = Unused
     /\ installed = Unused /\ batch = Unused /\ deletion = Unused /\ person = Unused
     /\ signing = Unused /\ export = Unused /\ told = Unused /\ overrun = Unused
     /\ exhausted = Unused /\ budget = Unused
  \/ /\ part = "ledger" /\ part \in Parts /\ Ledger!Init
     /\ rec = Unused /\ loc = Unused /\ idx = Unused /\ touching = Unused /\ rotating = Unused
     /\ pc = Unused /\ job = Unused /\ factor = Unused /\ chal = Unused /\ lock = Unused
     /\ work = Unused /\ worker = Unused /\ sec = Unused /\ unsettled = Unused
     /\ stranded = Unused /\ account = Unused /\ holder = Unused /\ attempts = Unused
     /\ obligation = Unused /\ due = Unused /\ promotion = Unused /\ promoted = Unused
     /\ lease = Unused /\ provider = Unused /\ native = Unused /\ run = Unused
     /\ registered = Unused /\ moved = Unused /\ lapsed = Unused /\ leaked = Unused
     /\ chan = Unused /\ lanes = Unused /\ refs = Unused /\ sem = Unused /\ made = Unused
     /\ held = Unused /\ lane = Unused /\ timeouts = Unused /\ user = Unused /\ events = Unused
     /\ locks = Unused /\ intent = Unused /\ mailed = Unused /\ spent = Unused /\ token = Unused
     /\ sweep = Unused /\ proven = Unused /\ unsure = Unused /\ revived = Unused
     /\ status = Unused /\ event = Unused /\ outbox = Unused /\ clock = Unused
     /\ doubled = Unused /\ stamp = Unused /\ profile = Unused /\ dept = Unused
     /\ recorded = Unused /\ session = Unused /\ agent = Unused /\ walk = Unused /\ owed = Unused
     /\ overtaken = Unused /\ version = Unused /\ based = Unused /\ published = Unused
     /\ installed = Unused /\ batch = Unused /\ deletion = Unused /\ person = Unused
     /\ signing = Unused /\ export = Unused /\ told = Unused /\ overrun = Unused
     /\ exhausted = Unused /\ budget = Unused
  \/ /\ part = "queue" /\ part \in Parts /\ Queue!Init
     /\ rec = Unused /\ loc = Unused /\ idx = Unused /\ touching = Unused /\ rotating = Unused
     /\ job = Unused /\ faults = Unused /\ factor = Unused /\ chal = Unused /\ lock = Unused
     /\ work = Unused /\ worker = Unused /\ sec = Unused /\ req = Unused /\ unsettled = Unused
     /\ stranded = Unused /\ account = Unused /\ holder = Unused /\ attempts = Unused
     /\ obligation = Unused /\ due = Unused /\ promotion = Unused /\ promoted = Unused
     /\ lease = Unused /\ provider = Unused /\ native = Unused /\ run = Unused
     /\ registered = Unused /\ moved = Unused /\ lapsed = Unused /\ leaked = Unused
     /\ row = Unused /\ old = Unused /\ upstream = Unused /\ reason = Unused /\ grants = Unused
     /\ pass = Unused /\ user = Unused /\ events = Unused /\ locks = Unused /\ intent = Unused
     /\ mailed = Unused /\ spent = Unused /\ token = Unused /\ sweep = Unused /\ proven = Unused
     /\ unsure = Unused /\ revived = Unused /\ status = Unused /\ event = Unused
     /\ outbox = Unused /\ clock = Unused /\ doubled = Unused /\ stamp = Unused
     /\ profile = Unused /\ dept = Unused /\ recorded = Unused /\ session = Unused
     /\ agent = Unused /\ walk = Unused /\ owed = Unused /\ overtaken = Unused
     /\ version = Unused /\ based = Unused /\ published = Unused /\ installed = Unused
     /\ batch = Unused /\ deletion = Unused /\ person = Unused /\ signing = Unused
     /\ export = Unused /\ told = Unused /\ overrun = Unused /\ exhausted = Unused
     /\ budget = Unused
  \/ /\ part = "registration" /\ part \in Parts /\ Registration!Init
     /\ rec = Unused /\ loc = Unused /\ idx = Unused /\ touching = Unused /\ rotating = Unused
     /\ pc = Unused /\ job = Unused /\ factor = Unused /\ chal = Unused /\ lock = Unused
     /\ work = Unused /\ worker = Unused /\ sec = Unused /\ req = Unused /\ unsettled = Unused
     /\ stranded = Unused /\ account = Unused /\ holder = Unused /\ attempts = Unused
     /\ obligation = Unused /\ due = Unused /\ promotion = Unused /\ promoted = Unused
     /\ lease = Unused /\ provider = Unused /\ native = Unused /\ registered = Unused
     /\ moved = Unused /\ lapsed = Unused /\ leaked = Unused /\ row = Unused /\ old = Unused
     /\ reason = Unused /\ grants = Unused /\ pass = Unused /\ chan = Unused /\ lanes = Unused
     /\ refs = Unused /\ sem = Unused /\ made = Unused /\ held = Unused /\ lane = Unused
     /\ timeouts = Unused /\ status = Unused /\ event = Unused /\ outbox = Unused
     /\ clock = Unused /\ doubled = Unused /\ stamp = Unused /\ profile = Unused /\ dept = Unused
     /\ recorded = Unused /\ session = Unused /\ agent = Unused /\ walk = Unused /\ owed = Unused
     /\ overtaken = Unused /\ version = Unused /\ based = Unused /\ published = Unused
     /\ installed = Unused /\ batch = Unused /\ deletion = Unused /\ person = Unused
     /\ signing = Unused /\ export = Unused /\ told = Unused /\ overrun = Unused
     /\ exhausted = Unused /\ budget = Unused
  \/ /\ part = "notes" /\ part \in Parts /\ Notes!Init
     /\ rec = Unused /\ loc = Unused /\ idx = Unused /\ touching = Unused /\ rotating = Unused
     /\ pc = Unused /\ job = Unused /\ factor = Unused /\ chal = Unused /\ lock = Unused
     /\ work = Unused /\ sec = Unused /\ req = Unused /\ unsettled = Unused /\ stranded = Unused
     /\ account = Unused /\ attempts = Unused /\ obligation = Unused /\ due = Unused
     /\ promotion = Unused /\ promoted = Unused /\ lease = Unused /\ provider = Unused
     /\ native = Unused /\ run = Unused /\ registered = Unused /\ moved = Unused
     /\ lapsed = Unused /\ leaked = Unused /\ row = Unused /\ old = Unused /\ upstream = Unused
     /\ reason = Unused /\ grants = Unused /\ pass = Unused /\ chan = Unused /\ lanes = Unused
     /\ refs = Unused /\ sem = Unused /\ made = Unused /\ held = Unused /\ lane = Unused
     /\ timeouts = Unused /\ user = Unused /\ events = Unused /\ locks = Unused
     /\ intent = Unused /\ mailed = Unused /\ spent = Unused /\ token = Unused /\ sweep = Unused
     /\ proven = Unused /\ unsure = Unused /\ revived = Unused /\ stamp = Unused
     /\ profile = Unused /\ dept = Unused /\ recorded = Unused /\ session = Unused
     /\ agent = Unused /\ walk = Unused /\ owed = Unused /\ overtaken = Unused
     /\ version = Unused /\ based = Unused /\ published = Unused /\ installed = Unused
     /\ batch = Unused /\ deletion = Unused /\ person = Unused /\ signing = Unused
     /\ export = Unused /\ told = Unused /\ overrun = Unused /\ exhausted = Unused
     /\ budget = Unused
  \/ /\ part = "staff" /\ part \in Parts /\ Staff!Init
     /\ rec = Unused /\ loc = Unused /\ idx = Unused /\ touching = Unused /\ rotating = Unused
     /\ pc = Unused /\ factor = Unused /\ chal = Unused /\ lock = Unused /\ work = Unused
     /\ worker = Unused /\ sec = Unused /\ req = Unused /\ unsettled = Unused
     /\ stranded = Unused /\ account = Unused /\ holder = Unused /\ attempts = Unused
     /\ obligation = Unused /\ due = Unused /\ promotion = Unused /\ promoted = Unused
     /\ lease = Unused /\ provider = Unused /\ native = Unused /\ run = Unused
     /\ registered = Unused /\ moved = Unused /\ lapsed = Unused /\ leaked = Unused
     /\ row = Unused /\ old = Unused /\ upstream = Unused /\ reason = Unused /\ grants = Unused
     /\ pass = Unused /\ chan = Unused /\ lanes = Unused /\ refs = Unused /\ sem = Unused
     /\ made = Unused /\ held = Unused /\ lane = Unused /\ timeouts = Unused /\ user = Unused
     /\ events = Unused /\ locks = Unused /\ intent = Unused /\ mailed = Unused /\ spent = Unused
     /\ token = Unused /\ sweep = Unused /\ proven = Unused /\ unsure = Unused
     /\ revived = Unused /\ event = Unused /\ outbox = Unused /\ clock = Unused
     /\ doubled = Unused /\ version = Unused /\ based = Unused /\ published = Unused
     /\ installed = Unused /\ batch = Unused /\ deletion = Unused /\ person = Unused
     /\ signing = Unused /\ export = Unused /\ told = Unused /\ overrun = Unused
     /\ exhausted = Unused /\ budget = Unused
  \/ /\ part = "policy" /\ part \in Parts /\ Policy!Init
     /\ rec = Unused /\ loc = Unused /\ idx = Unused /\ touching = Unused /\ rotating = Unused
     /\ pc = Unused /\ factor = Unused /\ chal = Unused /\ lock = Unused /\ work = Unused
     /\ sec = Unused /\ req = Unused /\ unsettled = Unused /\ stranded = Unused
     /\ account = Unused /\ holder = Unused /\ attempts = Unused /\ obligation = Unused
     /\ due = Unused /\ promotion = Unused /\ promoted = Unused /\ lease = Unused
     /\ provider = Unused /\ native = Unused /\ run = Unused /\ registered = Unused
     /\ moved = Unused /\ lapsed = Unused /\ leaked = Unused /\ row = Unused /\ old = Unused
     /\ upstream = Unused /\ reason = Unused /\ grants = Unused /\ pass = Unused /\ chan = Unused
     /\ lanes = Unused /\ refs = Unused /\ sem = Unused /\ made = Unused /\ held = Unused
     /\ lane = Unused /\ timeouts = Unused /\ user = Unused /\ events = Unused /\ locks = Unused
     /\ intent = Unused /\ mailed = Unused /\ spent = Unused /\ token = Unused /\ sweep = Unused
     /\ proven = Unused /\ unsure = Unused /\ revived = Unused /\ status = Unused
     /\ outbox = Unused /\ clock = Unused /\ doubled = Unused /\ stamp = Unused
     /\ profile = Unused /\ dept = Unused /\ recorded = Unused /\ session = Unused
     /\ walk = Unused /\ owed = Unused /\ overtaken = Unused /\ deletion = Unused
     /\ person = Unused /\ signing = Unused /\ export = Unused /\ told = Unused
     /\ overrun = Unused /\ exhausted = Unused /\ budget = Unused
  \/ /\ part = "privacy" /\ part \in Parts /\ Privacy!Init
     /\ rec = Unused /\ loc = Unused /\ idx = Unused /\ touching = Unused /\ rotating = Unused
     /\ pc = Unused /\ job = Unused /\ factor = Unused /\ chal = Unused /\ lock = Unused
     /\ work = Unused /\ sec = Unused /\ req = Unused /\ unsettled = Unused /\ stranded = Unused
     /\ holder = Unused /\ attempts = Unused /\ obligation = Unused /\ due = Unused
     /\ promotion = Unused /\ promoted = Unused /\ lease = Unused /\ provider = Unused
     /\ native = Unused /\ run = Unused /\ registered = Unused /\ moved = Unused
     /\ lapsed = Unused /\ leaked = Unused /\ row = Unused /\ old = Unused /\ upstream = Unused
     /\ reason = Unused /\ grants = Unused /\ pass = Unused /\ chan = Unused /\ lanes = Unused
     /\ refs = Unused /\ sem = Unused /\ made = Unused /\ held = Unused /\ lane = Unused
     /\ timeouts = Unused /\ user = Unused /\ events = Unused /\ locks = Unused
     /\ intent = Unused /\ mailed = Unused /\ spent = Unused /\ token = Unused /\ sweep = Unused
     /\ proven = Unused /\ unsure = Unused /\ revived = Unused /\ status = Unused
     /\ event = Unused /\ outbox = Unused /\ clock = Unused /\ doubled = Unused /\ stamp = Unused
     /\ profile = Unused /\ dept = Unused /\ recorded = Unused /\ agent = Unused /\ walk = Unused
     /\ owed = Unused /\ overtaken = Unused /\ version = Unused /\ based = Unused
     /\ published = Unused /\ installed = Unused /\ batch = Unused

Next ==
  \/ part = "healing" /\ Healing!Next /\ UNCHANGED part /\ UNCHANGED NotHealing
  \/ part = "enrollment" /\ Enrollment!Next /\ UNCHANGED part /\ UNCHANGED NotEnrollment
  \/ part = "onboarding" /\ Onboarding!Next /\ UNCHANGED part /\ UNCHANGED NotOnboarding
  \/ part = "ledger" /\ Ledger!Next /\ UNCHANGED part /\ UNCHANGED NotLedger
  \/ part = "queue" /\ Queue!Next /\ UNCHANGED part /\ UNCHANGED NotQueue
  \/ part = "registration" /\ Registration!Next /\ UNCHANGED part /\ UNCHANGED NotRegistration
  \/ part = "notes" /\ Notes!Next /\ UNCHANGED part /\ UNCHANGED NotNotes
  \/ part = "staff" /\ Staff!Next /\ UNCHANGED part /\ UNCHANGED NotStaff
  \/ part = "policy" /\ Policy!Next /\ UNCHANGED part /\ UNCHANGED NotPolicy
  \/ part = "privacy" /\ Privacy!Next /\ UNCHANGED part /\ UNCHANGED NotPrivacy

\* Clients of usable sessions keep touching them; a caller's handler runs on.
HealingFairness ==
  /\ \A t \in {"t1", "t2", "t3"} :
       /\ WF_(Healing!vars)(part = "healing" /\ Healing!TouchRead(t))
       /\ WF_(Healing!vars)(part = "healing" /\ Healing!TouchWrite(t))
  /\ WF_(Healing!vars)(part = "healing" /\ Healing!Step("c1"))

\* Redis expires keys, the worker's ticker runs, a handler that began runs on
\* (RunPasskeyEnrollmentCleanup).
EnrollmentFairness ==
  /\ WF_(Enrollment!enrollVars)(part = "enrollment" /\ Enrollment!WorkerStep("w1"))
  /\ \A t \in Enrollment!Tokens :
       /\ WF_(Enrollment!enrollVars)(part = "enrollment" /\ Enrollment!TokenExpires(t))
       /\ WF_(Enrollment!enrollVars)(part = "enrollment" /\ Enrollment!LockExpires(t))
  /\ \A t \in Enrollment!Passkeys :
       /\ WF_(Enrollment!enrollVars)(part = "enrollment" /\ Enrollment!CleanupLeaseExpires(t))
  /\ \A r \in EntrySet!FactorRequests :
       /\ WF_(Enrollment!enrollVars)(part = "enrollment" /\ ~Enrollment!At(r, "idle") /\ Enrollment!Serve(r))

\* Redis ends every lifetime, the worker runs periodically, and a request that
\* was received runs to its end unless the process dies.
OnboardingFairness ==
  /\ WF_(Onboarding!onboardingVars)(part = "onboarding" /\ Onboarding!Worker("k1"))
  /\ \A t \in Onboarding!Tokens :
       /\ WF_(Onboarding!onboardingVars)(part = "onboarding" /\ Onboarding!ChallengeExpires(t))
       /\ WF_(Onboarding!onboardingVars)(part = "onboarding" /\ Onboarding!LockExpires(t))
  /\ \A c \in Onboarding!Completes :
       /\ WF_(Onboarding!onboardingVars)(part = "onboarding" /\ Onboarding!PromotionExpires(c))
       /\ WF_(Onboarding!onboardingVars)(part = "onboarding" /\ Onboarding!CleanupLeaseExpires(c))
  /\ \A r \in EntrySet!OnboardingRequests :
       /\ WF_(Onboarding!onboardingVars)(part = "onboarding" /\ ~Onboarding!At(r, "idle") /\ Onboarding!Serve(r))

\* Time passes, and one instance's ticker keeps the reconciler running.
LedgerFairness ==
  /\ WF_(Ledger!vars)(part = "ledger" /\ Ledger!LeaseEnds("k1"))
  /\ WF_(Ledger!vars)(part = "ledger" /\ Ledger!BecomesDue("k1"))
  /\ WF_(Ledger!vars)(part = "ledger" /\ Ledger!GrowOld("k1"))
  /\ WF_(Ledger!vars)(part = "ledger" /\ Ledger!RunOnce("w1"))

\* A caller works on, its work ends, and a channel with room serves who waits.
QueueFairness ==
  /\ \A c \in DOMAIN EntrySet!QueueDomains :
       /\ WF_(Queue!admissionVars)(part = "queue" /\ Queue!Proceed(c))

\* The verifier cleanup runs periodically, time passes, and a transaction that
\* inserted its verifier comes to its end.
RegistrationFairness ==
  /\ WF_(Registration!registrationVars)(part = "registration" /\ Registration!CleanupCompleted)
  /\ \A s \in Registration!Subjects :
       /\ WF_(Registration!registrationVars)(part = "registration" /\ Registration!GracePasses(s))
  /\ \A r \in Registration!WeChat :
       /\ WF_(Registration!registrationVars)(part = "registration" /\ Registration!InsertReserved(r))

\* The worker's ticker runs.
NotesFairness ==
  /\ \A w \in {"k1", "k2"} :
       /\ WF_(Notes!notificationVars)(part = "notes" /\ Notes!RunOnce(w))

\* The ticker of the revocation jobs runs (Reconciler.Start).
StaffFairness ==
  /\ WF_(Staff!workforceVars)(part = "staff" /\ Staff!Tick("w1"))
  /\ WF_(Staff!workforceVars)(part = "staff" /\ Staff!Settle("w1"))

\* The ticker of the publication reconciler runs, and time passes.
PolicyFairness ==
  /\ WF_(Policy!policyVars)(part = "policy" /\ Policy!Work("w1"))
  /\ \A j \in {"p1", "p2"} :
       /\ WF_(Policy!policyVars)(part = "policy" /\ Policy!JobAges(j))

\* The tickers of the privacy workers run, and time passes.
PrivacyFairness ==
  /\ \A w \in {"w1", "w2"} :
       /\ WF_(Privacy!privacyVars)(part = "privacy" /\ Privacy!Work(w))
  /\ WF_(Privacy!privacyVars)(part = "privacy" /\ Privacy!CoolingEnds("u1"))
  /\ WF_(Privacy!privacyVars)(part = "privacy" /\ Privacy!DeletionAges("u1"))
  /\ WF_(Privacy!privacyVars)(part = "privacy" /\ Privacy!ExportAges("e1"))

Spec ==
  /\ Init /\ [][Next]_planeVars
  /\ HealingFairness
  /\ EnrollmentFairness
  /\ OnboardingFairness
  /\ LedgerFairness
  /\ QueueFairness
  /\ RegistrationFairness
  /\ NotesFairness
  /\ StaffFairness
  /\ PolicyFairness
  /\ PrivacyFairness

-----------------------------------------------------------------------------
(* Properties *)

\* Who waits, first and second, in each part: a passkey left pending with its
\* cleanup record, an obligation to revoke, an intent of a mutation, a caller
\* in the queue, a verifier that is no longer needed, a notification, a
\* revocation job, the job of a publication, a deletion, and an export.
Waits(i) ==
  \/ part = "enrollment" /\ Enrollment!Kept("p1")
  \/ part = "onboarding" /\ "c1" \in obligation
  \/ part = "ledger" /\ row["k1"].state = "claimed"
  \/ part = "queue"
  \/ part = "registration" /\ Registration!Superfluous("x1")
  \/ part = "notes" /\ event[<<"n1", "n2">>[i]] = "pending"
  \/ part = "staff" /\ job[<<"x1", "o1">>[i]].status = "pending"
  \/ part = "policy" /\ Policy!Active(<<"p1", "p2">>[i])
  \/ part = "privacy" /\ IF i = 1 THEN Privacy!Owed("u1") ELSE Privacy!Building("e1")

\* And what it waits for: the passkey is confirmed or removed, the obligation
\* worked off or retired, the intent ended, the caller through or refused, the
\* verifier gone, the notification sent, failed, or waiting for its account,
\* the job resolved, the publication completed or given up, the deletion
\* completed, cancelled or failed, the export ended.
Served(i) ==
  \/ part = "enrollment" /\ ~Enrollment!Pending("p1")
  \/ part = "onboarding" /\ "c1" \notin obligation
  \/ part = "ledger" /\ Ledger!Ended("k1")
  \/ part = "queue" /\ Queue!Settled(<<"p", "t">>[i])
  \/ part = "registration" /\ ~Registration!Superfluous("x1")
  \/ part = "notes" /\ Notes!Attended(<<"n1", "n2">>[i])
  \/ part = "staff" /\ job[<<"x1", "o1">>[i]].status = "resolved"
  \/ part = "policy" /\ Policy!Ended(<<"p1", "p2">>[i])
  \/ part = "privacy" /\ IF i = 1 THEN ~Privacy!Owed("u1") ELSE ~Privacy!Building("e1")

\* Nothing waits for ever, though its request died or its worker crashed.
Settles == \A i \in {1, 2} : Waits(i) ~> Served(i)

\* A session that stays in use returns to the inventory, whatever heals raced
\* with its rotation (sessionTouchScript).
InventoryHeals ==
  <>[](part = "healing" /\ Healing!Live("s1")) => []<>(part = "healing" /\ Healing!InInventory("s1"))
==============================================================================
