----------------------------- MODULE EntryPlane ------------------------------
(***************************************************************************)
(* The components a person meets on the way in, side by side: registering, *)
(* onboarding through WeChat, two-step and QR sign-in, enrolling factors,  *)
(* recovering a password, changing a phone or an address, authorizing. A   *)
(* behaviour belongs to one of them, its part, and leaves the variables of *)
(* the others unused.                                                      *)
(***************************************************************************)
EXTENDS Naturals

CONSTANT Parts   \* the components to check

Cases == INSTANCE EntryCases

VARIABLES
  part,  \* the component at work
  \* Enrollment
  factor, chal, lock, work, worker, sec, req, unsettled, stranded, faults,
  \* Ceremony, with chal
  temp, attempts, holder, index, popped, grant, freshness, audited, signedIn, wrong, stamped,
  accepted, leaked, auth, run, mishaps,
  \* Onboarding, with chal, holder, attempts, work, run, leaked, faults
  account, obligation, due, promotion, promoted, lease, provider, native, registered, moved,
  lapsed,
  \* Gate, with chal, run, faults
  intent, known, block, strikes, active, claim, guesses, tried, issued, trust, marker, bucket,
  audit, asked, proven, created,
  \* Queue
  chan, lanes, refs, sem, made, held, lane, pc, timeouts,
  \* Registration, with intent, run, proven, faults
  user, events, locks, upstream, mailed, spent, token, sweep, unsure, revived,
  \* Notes, with holder, worker, faults
  status, event, outbox, clock, doubled,
  \* Recovery, with account, upstream, mishaps
  secret, live, ticket, audits, given, errand, redeemed, approvals, confirmed, outrun,
  \* Front, with grant, clock, claim, run, faults
  batch, request, facts, session, witness, changes

Enrollment == INSTANCE Enrollment WITH
  Requests <- Cases!FactorRequests, InputOf <- Cases!FactorInputs,
  Batches <- Cases!FactorBatches, Workers <- {"w1"}, MaxGen <- 2, MaxFaults <- 1
Ceremony == INSTANCE Ceremonies WITH
  Requests <- Cases!CeremonyRequests, InputOf <- Cases!CeremonyInputs,
  Batches <- Cases!CeremonyBatches, MaxAttempts <- 2, MaxGen <- 2, MaxFaults <- 1
Onboarding == INSTANCE WeChatOnboarding WITH
  Requests <- Cases!OnboardingRequests, InputOf <- Cases!OnboardingInputs,
  Scenarios <- Cases!OnboardingScenarios, Subjects <- {"w1", "w2"},
  PhoneOf <- Cases!OnboardingPhones, Workers <- {"k1"},
  MaxAttempts <- 2, MaxVersion <- 2, MaxFaults <- 1
Gate == INSTANCE RegistrationGate WITH
  Requests <- DOMAIN Cases!GateInputs, InputOf <- Cases!GateInputs,
  Batches <- Cases!GateBatches, Browsers <- {"x", "y"}, Emails <- {"e1", "e2"},
  GuessLimit <- 2, DeviceGuesses <- 2, NetworkGuesses <- 4, IssueLimit <- 2, EmailLimit <- 1,
  IPBlockAfter <- 2, MaxFaults <- 1
Queue == INSTANCE Admission WITH
  Callers <- DOMAIN Cases!QueueDomains, DomainOf <- Cases!QueueDomains,
  Established <- {"mail.example"}, InFlight <- 2, Queued <- 1, UnfamiliarInFlight <- 2,
  UnfamiliarQueued <- 0, PerDomain <- 1, MaxLanes <- 3, MaxTimeouts <- 1
Registration == INSTANCE Registration WITH
  Requests <- Cases!RegistrationRequests, InputOf <- Cases!RegistrationInputs,
  Scenarios <- Cases!RegistrationScenarios, MaxFaults <- 2
Notes == INSTANCE Notifications WITH
  Notes <- {"n1", "n2"}, Target <- [n \in {"n1", "n2"} |-> IF n = "n1" THEN "a1" ELSE "a2"],
  Accounts <- {"a1", "a2"}, Age <- [n \in {"n1", "n2"} |-> IF n = "n1" THEN 1 ELSE 2],
  Batch <- 1, Workers <- {"k1", "k2"}, MaxFaults <- 1
Recovery == INSTANCE AccountRecovery WITH
  Users <- {"u1", "u2"}, Requests <- Cases!RecoveryRequests, InputOf <- Cases!RecoveryInputs,
  Batches <- Cases!RecoveryBatches, MaxFaults <- 2
Front == INSTANCE Authorization WITH
  Requests <- Cases!FrontRequests, InputOf <- Cases!FrontInputs,
  Batches <- Cases!FrontBatches, MaxChanges <- 2, MaxFaults <- 1

ASSUME EnrollmentHolds == Enrollment!EnrollmentAssumption
ASSUME CeremonyHolds == Ceremony!CeremoniesAssumption
ASSUME OnboardingHolds == Onboarding!OnboardingAssumption
ASSUME GateHolds == Gate!GateAssumption
ASSUME QueueHolds == Queue!AdmissionAssumption
ASSUME RegistrationHolds == Registration!RegistrationAssumption
ASSUME NotesHold == Notes!NotificationAssumption
ASSUME RecoveryHolds == Recovery!RecoveryAssumption
ASSUME FrontHolds == Front!AuthorizationAssumption

NotEnrollment == <<temp, attempts, holder, index, popped, grant, freshness, audited, signedIn,
  wrong, stamped, accepted, leaked, auth, run, mishaps, account, obligation, due, promotion,
  promoted, lease, provider, native, registered, moved, lapsed, intent, known, block, strikes,
  active, claim, guesses, tried, issued, trust, marker, bucket, audit, asked, proven, created,
  chan, lanes, refs, sem, made, held, lane, pc, timeouts, user, events, locks, upstream, mailed,
  spent, token, sweep, unsure, revived, status, event, outbox, clock, doubled, secret, live,
  ticket, audits, given, errand, redeemed, approvals, confirmed, outrun, batch, request, facts,
  session, witness, changes>>
NotCeremony == <<factor, lock, work, worker, sec, req, unsettled, stranded, faults, account,
  obligation, due, promotion, promoted, lease, provider, native, registered, moved, lapsed,
  intent, known, block, strikes, active, claim, guesses, tried, issued, trust, marker, bucket,
  audit, asked, proven, created, chan, lanes, refs, sem, made, held, lane, pc, timeouts, user,
  events, locks, upstream, mailed, spent, token, sweep, unsure, revived, status, event, outbox,
  clock, doubled, secret, live, ticket, audits, given, errand, redeemed, approvals, confirmed,
  outrun, batch, request, facts, session, witness, changes>>
NotOnboarding == <<factor, lock, worker, sec, req, unsettled, stranded, temp, index, popped,
  grant, freshness, audited, signedIn, wrong, stamped, accepted, auth, mishaps, intent, known,
  block, strikes, active, claim, guesses, tried, issued, trust, marker, bucket, audit, asked,
  proven, created, chan, lanes, refs, sem, made, held, lane, pc, timeouts, user, events, locks,
  upstream, mailed, spent, token, sweep, unsure, revived, status, event, outbox, clock, doubled,
  secret, live, ticket, audits, given, errand, redeemed, approvals, confirmed, outrun, batch,
  request, facts, session, witness, changes>>
NotGate == <<factor, lock, work, worker, sec, req, unsettled, stranded, temp, attempts, holder,
  index, popped, grant, freshness, audited, signedIn, wrong, stamped, accepted, leaked, auth,
  mishaps, account, obligation, due, promotion, promoted, lease, provider, native, registered,
  moved, lapsed, chan, lanes, refs, sem, made, held, lane, pc, timeouts, user, events, locks,
  upstream, mailed, spent, token, sweep, unsure, revived, status, event, outbox, clock, doubled,
  secret, live, ticket, audits, given, errand, redeemed, approvals, confirmed, outrun, batch,
  request, facts, session, witness, changes>>
NotQueue == <<factor, chal, lock, work, worker, sec, req, unsettled, stranded, faults, temp,
  attempts, holder, index, popped, grant, freshness, audited, signedIn, wrong, stamped, accepted,
  leaked, auth, run, mishaps, account, obligation, due, promotion, promoted, lease, provider,
  native, registered, moved, lapsed, intent, known, block, strikes, active, claim, guesses, tried,
  issued, trust, marker, bucket, audit, asked, proven, created, user, events, locks, upstream,
  mailed, spent, token, sweep, unsure, revived, status, event, outbox, clock, doubled, secret,
  live, ticket, audits, given, errand, redeemed, approvals, confirmed, outrun, batch, request,
  facts, session, witness, changes>>
NotRegistration == <<factor, chal, lock, work, worker, sec, req, unsettled, stranded, temp,
  attempts, holder, index, popped, grant, freshness, audited, signedIn, wrong, stamped, accepted,
  leaked, auth, mishaps, account, obligation, due, promotion, promoted, lease, provider, native,
  registered, moved, lapsed, known, block, strikes, active, claim, guesses, tried, issued, trust,
  marker, bucket, audit, asked, created, chan, lanes, refs, sem, made, held, lane, pc, timeouts,
  status, event, outbox, clock, doubled, secret, live, ticket, audits, given, errand, redeemed,
  approvals, confirmed, outrun, batch, request, facts, session, witness, changes>>
NotNotes == <<factor, chal, lock, work, sec, req, unsettled, stranded, temp, attempts, index,
  popped, grant, freshness, audited, signedIn, wrong, stamped, accepted, leaked, auth, run,
  mishaps, account, obligation, due, promotion, promoted, lease, provider, native, registered,
  moved, lapsed, intent, known, block, strikes, active, claim, guesses, tried, issued, trust,
  marker, bucket, audit, asked, proven, created, chan, lanes, refs, sem, made, held, lane, pc,
  timeouts, user, events, locks, upstream, mailed, spent, token, sweep, unsure, revived, secret,
  live, ticket, audits, given, errand, redeemed, approvals, confirmed, outrun, batch, request,
  facts, session, witness, changes>>
NotRecovery == <<factor, chal, lock, work, worker, sec, req, unsettled, stranded, faults, temp,
  attempts, holder, index, popped, grant, freshness, audited, signedIn, wrong, stamped, accepted,
  leaked, auth, run, obligation, due, promotion, promoted, lease, provider, native, registered,
  moved, lapsed, intent, known, block, strikes, active, claim, guesses, tried, issued, trust,
  marker, bucket, audit, asked, proven, created, chan, lanes, refs, sem, made, held, lane, pc,
  timeouts, user, events, locks, mailed, spent, token, sweep, unsure, revived, status, event,
  outbox, clock, doubled, batch, request, facts, session, witness, changes>>
NotFront == <<factor, chal, lock, work, worker, sec, req, unsettled, stranded, temp, attempts,
  holder, index, popped, freshness, audited, signedIn, wrong, stamped, accepted, leaked, auth,
  mishaps, account, obligation, due, promotion, promoted, lease, provider, native, registered,
  moved, lapsed, intent, known, block, strikes, active, guesses, tried, issued, trust, marker,
  bucket, audit, asked, proven, created, chan, lanes, refs, sem, made, held, lane, pc, timeouts,
  user, events, locks, upstream, mailed, spent, token, sweep, unsure, revived, status, event,
  outbox, doubled, secret, live, ticket, audits, given, errand, redeemed, approvals, confirmed,
  outrun>>
planeVars == <<part, factor, chal, lock, work, worker, sec, req, unsettled, stranded, faults,
  temp, attempts, holder, index, popped, grant, freshness, audited, signedIn, wrong, stamped,
  accepted, leaked, auth, run, mishaps, account, obligation, due, promotion, promoted, lease,
  provider, native, registered, moved, lapsed, intent, known, block, strikes, active, claim,
  guesses, tried, issued, trust, marker, bucket, audit, asked, proven, created, chan, lanes, refs,
  sem, made, held, lane, pc, timeouts, user, events, locks, upstream, mailed, spent, token, sweep,
  unsure, revived, status, event, outbox, clock, doubled, secret, live, ticket, audits, given,
  errand, redeemed, approvals, confirmed, outrun, batch, request, facts, session, witness, changes>>

Unused == "unused"

Init ==
  \/ /\ part = "enrollment" /\ part \in Parts /\ Enrollment!Init
     /\ temp = Unused /\ attempts = Unused /\ holder = Unused /\ index = Unused
     /\ popped = Unused /\ grant = Unused /\ freshness = Unused /\ audited = Unused
     /\ signedIn = Unused /\ wrong = Unused /\ stamped = Unused /\ accepted = Unused
     /\ leaked = Unused /\ auth = Unused /\ run = Unused /\ mishaps = Unused /\ account = Unused
     /\ obligation = Unused /\ due = Unused /\ promotion = Unused /\ promoted = Unused
     /\ lease = Unused /\ provider = Unused /\ native = Unused /\ registered = Unused
     /\ moved = Unused /\ lapsed = Unused /\ intent = Unused /\ known = Unused /\ block = Unused
     /\ strikes = Unused /\ active = Unused /\ claim = Unused /\ guesses = Unused
     /\ tried = Unused /\ issued = Unused /\ trust = Unused /\ marker = Unused /\ bucket = Unused
     /\ audit = Unused /\ asked = Unused /\ proven = Unused /\ created = Unused /\ chan = Unused
     /\ lanes = Unused /\ refs = Unused /\ sem = Unused /\ made = Unused /\ held = Unused
     /\ lane = Unused /\ pc = Unused /\ timeouts = Unused /\ user = Unused /\ events = Unused
     /\ locks = Unused /\ upstream = Unused /\ mailed = Unused /\ spent = Unused
     /\ token = Unused /\ sweep = Unused /\ unsure = Unused /\ revived = Unused
     /\ status = Unused /\ event = Unused /\ outbox = Unused /\ clock = Unused
     /\ doubled = Unused /\ secret = Unused /\ live = Unused /\ ticket = Unused
     /\ audits = Unused /\ given = Unused /\ errand = Unused /\ redeemed = Unused
     /\ approvals = Unused /\ confirmed = Unused /\ outrun = Unused /\ batch = Unused
     /\ request = Unused /\ facts = Unused /\ session = Unused /\ witness = Unused
     /\ changes = Unused
  \/ /\ part = "ceremony" /\ part \in Parts /\ Ceremony!Init
     /\ factor = Unused /\ lock = Unused /\ work = Unused /\ worker = Unused /\ sec = Unused
     /\ req = Unused /\ unsettled = Unused /\ stranded = Unused /\ faults = Unused
     /\ account = Unused /\ obligation = Unused /\ due = Unused /\ promotion = Unused
     /\ promoted = Unused /\ lease = Unused /\ provider = Unused /\ native = Unused
     /\ registered = Unused /\ moved = Unused /\ lapsed = Unused /\ intent = Unused
     /\ known = Unused /\ block = Unused /\ strikes = Unused /\ active = Unused /\ claim = Unused
     /\ guesses = Unused /\ tried = Unused /\ issued = Unused /\ trust = Unused
     /\ marker = Unused /\ bucket = Unused /\ audit = Unused /\ asked = Unused /\ proven = Unused
     /\ created = Unused /\ chan = Unused /\ lanes = Unused /\ refs = Unused /\ sem = Unused
     /\ made = Unused /\ held = Unused /\ lane = Unused /\ pc = Unused /\ timeouts = Unused
     /\ user = Unused /\ events = Unused /\ locks = Unused /\ upstream = Unused
     /\ mailed = Unused /\ spent = Unused /\ token = Unused /\ sweep = Unused /\ unsure = Unused
     /\ revived = Unused /\ status = Unused /\ event = Unused /\ outbox = Unused
     /\ clock = Unused /\ doubled = Unused /\ secret = Unused /\ live = Unused /\ ticket = Unused
     /\ audits = Unused /\ given = Unused /\ errand = Unused /\ redeemed = Unused
     /\ approvals = Unused /\ confirmed = Unused /\ outrun = Unused /\ batch = Unused
     /\ request = Unused /\ facts = Unused /\ session = Unused /\ witness = Unused
     /\ changes = Unused
  \/ /\ part = "onboarding" /\ part \in Parts /\ Onboarding!Init
     /\ factor = Unused /\ lock = Unused /\ worker = Unused /\ sec = Unused /\ req = Unused
     /\ unsettled = Unused /\ stranded = Unused /\ temp = Unused /\ index = Unused
     /\ popped = Unused /\ grant = Unused /\ freshness = Unused /\ audited = Unused
     /\ signedIn = Unused /\ wrong = Unused /\ stamped = Unused /\ accepted = Unused
     /\ auth = Unused /\ mishaps = Unused /\ intent = Unused /\ known = Unused /\ block = Unused
     /\ strikes = Unused /\ active = Unused /\ claim = Unused /\ guesses = Unused
     /\ tried = Unused /\ issued = Unused /\ trust = Unused /\ marker = Unused /\ bucket = Unused
     /\ audit = Unused /\ asked = Unused /\ proven = Unused /\ created = Unused /\ chan = Unused
     /\ lanes = Unused /\ refs = Unused /\ sem = Unused /\ made = Unused /\ held = Unused
     /\ lane = Unused /\ pc = Unused /\ timeouts = Unused /\ user = Unused /\ events = Unused
     /\ locks = Unused /\ upstream = Unused /\ mailed = Unused /\ spent = Unused
     /\ token = Unused /\ sweep = Unused /\ unsure = Unused /\ revived = Unused
     /\ status = Unused /\ event = Unused /\ outbox = Unused /\ clock = Unused
     /\ doubled = Unused /\ secret = Unused /\ live = Unused /\ ticket = Unused
     /\ audits = Unused /\ given = Unused /\ errand = Unused /\ redeemed = Unused
     /\ approvals = Unused /\ confirmed = Unused /\ outrun = Unused /\ batch = Unused
     /\ request = Unused /\ facts = Unused /\ session = Unused /\ witness = Unused
     /\ changes = Unused
  \/ /\ part = "gate" /\ part \in Parts /\ Gate!Init
     /\ factor = Unused /\ lock = Unused /\ work = Unused /\ worker = Unused /\ sec = Unused
     /\ req = Unused /\ unsettled = Unused /\ stranded = Unused /\ temp = Unused
     /\ attempts = Unused /\ holder = Unused /\ index = Unused /\ popped = Unused
     /\ grant = Unused /\ freshness = Unused /\ audited = Unused /\ signedIn = Unused
     /\ wrong = Unused /\ stamped = Unused /\ accepted = Unused /\ leaked = Unused
     /\ auth = Unused /\ mishaps = Unused /\ account = Unused /\ obligation = Unused
     /\ due = Unused /\ promotion = Unused /\ promoted = Unused /\ lease = Unused
     /\ provider = Unused /\ native = Unused /\ registered = Unused /\ moved = Unused
     /\ lapsed = Unused /\ chan = Unused /\ lanes = Unused /\ refs = Unused /\ sem = Unused
     /\ made = Unused /\ held = Unused /\ lane = Unused /\ pc = Unused /\ timeouts = Unused
     /\ user = Unused /\ events = Unused /\ locks = Unused /\ upstream = Unused
     /\ mailed = Unused /\ spent = Unused /\ token = Unused /\ sweep = Unused /\ unsure = Unused
     /\ revived = Unused /\ status = Unused /\ event = Unused /\ outbox = Unused
     /\ clock = Unused /\ doubled = Unused /\ secret = Unused /\ live = Unused /\ ticket = Unused
     /\ audits = Unused /\ given = Unused /\ errand = Unused /\ redeemed = Unused
     /\ approvals = Unused /\ confirmed = Unused /\ outrun = Unused /\ batch = Unused
     /\ request = Unused /\ facts = Unused /\ session = Unused /\ witness = Unused
     /\ changes = Unused
  \/ /\ part = "queue" /\ part \in Parts /\ Queue!Init
     /\ factor = Unused /\ chal = Unused /\ lock = Unused /\ work = Unused /\ worker = Unused
     /\ sec = Unused /\ req = Unused /\ unsettled = Unused /\ stranded = Unused
     /\ faults = Unused /\ temp = Unused /\ attempts = Unused /\ holder = Unused
     /\ index = Unused /\ popped = Unused /\ grant = Unused /\ freshness = Unused
     /\ audited = Unused /\ signedIn = Unused /\ wrong = Unused /\ stamped = Unused
     /\ accepted = Unused /\ leaked = Unused /\ auth = Unused /\ run = Unused /\ mishaps = Unused
     /\ account = Unused /\ obligation = Unused /\ due = Unused /\ promotion = Unused
     /\ promoted = Unused /\ lease = Unused /\ provider = Unused /\ native = Unused
     /\ registered = Unused /\ moved = Unused /\ lapsed = Unused /\ intent = Unused
     /\ known = Unused /\ block = Unused /\ strikes = Unused /\ active = Unused /\ claim = Unused
     /\ guesses = Unused /\ tried = Unused /\ issued = Unused /\ trust = Unused
     /\ marker = Unused /\ bucket = Unused /\ audit = Unused /\ asked = Unused /\ proven = Unused
     /\ created = Unused /\ user = Unused /\ events = Unused /\ locks = Unused
     /\ upstream = Unused /\ mailed = Unused /\ spent = Unused /\ token = Unused
     /\ sweep = Unused /\ unsure = Unused /\ revived = Unused /\ status = Unused
     /\ event = Unused /\ outbox = Unused /\ clock = Unused /\ doubled = Unused
     /\ secret = Unused /\ live = Unused /\ ticket = Unused /\ audits = Unused /\ given = Unused
     /\ errand = Unused /\ redeemed = Unused /\ approvals = Unused /\ confirmed = Unused
     /\ outrun = Unused /\ batch = Unused /\ request = Unused /\ facts = Unused
     /\ session = Unused /\ witness = Unused /\ changes = Unused
  \/ /\ part = "registration" /\ part \in Parts /\ Registration!Init
     /\ factor = Unused /\ chal = Unused /\ lock = Unused /\ work = Unused /\ worker = Unused
     /\ sec = Unused /\ req = Unused /\ unsettled = Unused /\ stranded = Unused /\ temp = Unused
     /\ attempts = Unused /\ holder = Unused /\ index = Unused /\ popped = Unused
     /\ grant = Unused /\ freshness = Unused /\ audited = Unused /\ signedIn = Unused
     /\ wrong = Unused /\ stamped = Unused /\ accepted = Unused /\ leaked = Unused
     /\ auth = Unused /\ mishaps = Unused /\ account = Unused /\ obligation = Unused
     /\ due = Unused /\ promotion = Unused /\ promoted = Unused /\ lease = Unused
     /\ provider = Unused /\ native = Unused /\ registered = Unused /\ moved = Unused
     /\ lapsed = Unused /\ known = Unused /\ block = Unused /\ strikes = Unused
     /\ active = Unused /\ claim = Unused /\ guesses = Unused /\ tried = Unused
     /\ issued = Unused /\ trust = Unused /\ marker = Unused /\ bucket = Unused /\ audit = Unused
     /\ asked = Unused /\ created = Unused /\ chan = Unused /\ lanes = Unused /\ refs = Unused
     /\ sem = Unused /\ made = Unused /\ held = Unused /\ lane = Unused /\ pc = Unused
     /\ timeouts = Unused /\ status = Unused /\ event = Unused /\ outbox = Unused
     /\ clock = Unused /\ doubled = Unused /\ secret = Unused /\ live = Unused /\ ticket = Unused
     /\ audits = Unused /\ given = Unused /\ errand = Unused /\ redeemed = Unused
     /\ approvals = Unused /\ confirmed = Unused /\ outrun = Unused /\ batch = Unused
     /\ request = Unused /\ facts = Unused /\ session = Unused /\ witness = Unused
     /\ changes = Unused
  \/ /\ part = "notes" /\ part \in Parts /\ Notes!Init
     /\ factor = Unused /\ chal = Unused /\ lock = Unused /\ work = Unused /\ sec = Unused
     /\ req = Unused /\ unsettled = Unused /\ stranded = Unused /\ temp = Unused
     /\ attempts = Unused /\ index = Unused /\ popped = Unused /\ grant = Unused
     /\ freshness = Unused /\ audited = Unused /\ signedIn = Unused /\ wrong = Unused
     /\ stamped = Unused /\ accepted = Unused /\ leaked = Unused /\ auth = Unused /\ run = Unused
     /\ mishaps = Unused /\ account = Unused /\ obligation = Unused /\ due = Unused
     /\ promotion = Unused /\ promoted = Unused /\ lease = Unused /\ provider = Unused
     /\ native = Unused /\ registered = Unused /\ moved = Unused /\ lapsed = Unused
     /\ intent = Unused /\ known = Unused /\ block = Unused /\ strikes = Unused
     /\ active = Unused /\ claim = Unused /\ guesses = Unused /\ tried = Unused
     /\ issued = Unused /\ trust = Unused /\ marker = Unused /\ bucket = Unused /\ audit = Unused
     /\ asked = Unused /\ proven = Unused /\ created = Unused /\ chan = Unused /\ lanes = Unused
     /\ refs = Unused /\ sem = Unused /\ made = Unused /\ held = Unused /\ lane = Unused
     /\ pc = Unused /\ timeouts = Unused /\ user = Unused /\ events = Unused /\ locks = Unused
     /\ upstream = Unused /\ mailed = Unused /\ spent = Unused /\ token = Unused
     /\ sweep = Unused /\ unsure = Unused /\ revived = Unused /\ secret = Unused /\ live = Unused
     /\ ticket = Unused /\ audits = Unused /\ given = Unused /\ errand = Unused
     /\ redeemed = Unused /\ approvals = Unused /\ confirmed = Unused /\ outrun = Unused
     /\ batch = Unused /\ request = Unused /\ facts = Unused /\ session = Unused
     /\ witness = Unused /\ changes = Unused
  \/ /\ part = "recovery" /\ part \in Parts /\ Recovery!Init
     /\ factor = Unused /\ chal = Unused /\ lock = Unused /\ work = Unused /\ worker = Unused
     /\ sec = Unused /\ req = Unused /\ unsettled = Unused /\ stranded = Unused
     /\ faults = Unused /\ temp = Unused /\ attempts = Unused /\ holder = Unused
     /\ index = Unused /\ popped = Unused /\ grant = Unused /\ freshness = Unused
     /\ audited = Unused /\ signedIn = Unused /\ wrong = Unused /\ stamped = Unused
     /\ accepted = Unused /\ leaked = Unused /\ auth = Unused /\ run = Unused
     /\ obligation = Unused /\ due = Unused /\ promotion = Unused /\ promoted = Unused
     /\ lease = Unused /\ provider = Unused /\ native = Unused /\ registered = Unused
     /\ moved = Unused /\ lapsed = Unused /\ intent = Unused /\ known = Unused /\ block = Unused
     /\ strikes = Unused /\ active = Unused /\ claim = Unused /\ guesses = Unused
     /\ tried = Unused /\ issued = Unused /\ trust = Unused /\ marker = Unused /\ bucket = Unused
     /\ audit = Unused /\ asked = Unused /\ proven = Unused /\ created = Unused /\ chan = Unused
     /\ lanes = Unused /\ refs = Unused /\ sem = Unused /\ made = Unused /\ held = Unused
     /\ lane = Unused /\ pc = Unused /\ timeouts = Unused /\ user = Unused /\ events = Unused
     /\ locks = Unused /\ mailed = Unused /\ spent = Unused /\ token = Unused /\ sweep = Unused
     /\ unsure = Unused /\ revived = Unused /\ status = Unused /\ event = Unused
     /\ outbox = Unused /\ clock = Unused /\ doubled = Unused /\ batch = Unused
     /\ request = Unused /\ facts = Unused /\ session = Unused /\ witness = Unused
     /\ changes = Unused
  \/ /\ part = "front" /\ part \in Parts /\ Front!Init
     /\ factor = Unused /\ chal = Unused /\ lock = Unused /\ work = Unused /\ worker = Unused
     /\ sec = Unused /\ req = Unused /\ unsettled = Unused /\ stranded = Unused /\ temp = Unused
     /\ attempts = Unused /\ holder = Unused /\ index = Unused /\ popped = Unused
     /\ freshness = Unused /\ audited = Unused /\ signedIn = Unused /\ wrong = Unused
     /\ stamped = Unused /\ accepted = Unused /\ leaked = Unused /\ auth = Unused
     /\ mishaps = Unused /\ account = Unused /\ obligation = Unused /\ due = Unused
     /\ promotion = Unused /\ promoted = Unused /\ lease = Unused /\ provider = Unused
     /\ native = Unused /\ registered = Unused /\ moved = Unused /\ lapsed = Unused
     /\ intent = Unused /\ known = Unused /\ block = Unused /\ strikes = Unused
     /\ active = Unused /\ guesses = Unused /\ tried = Unused /\ issued = Unused
     /\ trust = Unused /\ marker = Unused /\ bucket = Unused /\ audit = Unused /\ asked = Unused
     /\ proven = Unused /\ created = Unused /\ chan = Unused /\ lanes = Unused /\ refs = Unused
     /\ sem = Unused /\ made = Unused /\ held = Unused /\ lane = Unused /\ pc = Unused
     /\ timeouts = Unused /\ user = Unused /\ events = Unused /\ locks = Unused
     /\ upstream = Unused /\ mailed = Unused /\ spent = Unused /\ token = Unused
     /\ sweep = Unused /\ unsure = Unused /\ revived = Unused /\ status = Unused
     /\ event = Unused /\ outbox = Unused /\ doubled = Unused /\ secret = Unused /\ live = Unused
     /\ ticket = Unused /\ audits = Unused /\ given = Unused /\ errand = Unused
     /\ redeemed = Unused /\ approvals = Unused /\ confirmed = Unused /\ outrun = Unused

Next ==
  \/ part = "enrollment" /\ Enrollment!Next /\ UNCHANGED part /\ UNCHANGED NotEnrollment
  \/ part = "ceremony" /\ Ceremony!Next /\ UNCHANGED part /\ UNCHANGED NotCeremony
  \/ part = "onboarding" /\ Onboarding!Next /\ UNCHANGED part /\ UNCHANGED NotOnboarding
  \/ part = "gate" /\ Gate!Next /\ UNCHANGED part /\ UNCHANGED NotGate
  \/ part = "queue" /\ Queue!Next /\ UNCHANGED part /\ UNCHANGED NotQueue
  \/ part = "registration" /\ Registration!Next /\ UNCHANGED part /\ UNCHANGED NotRegistration
  \/ part = "notes" /\ Notes!Next /\ UNCHANGED part /\ UNCHANGED NotNotes
  \/ part = "recovery" /\ Recovery!Next /\ UNCHANGED part /\ UNCHANGED NotRecovery
  \/ part = "front" /\ Front!Next /\ UNCHANGED part /\ UNCHANGED NotFront

Spec == Init /\ [][Next]_planeVars

-----------------------------------------------------------------------------
(* Properties *)

InEnrollment(A) == part = "enrollment" => A
InCeremony(A) == part = "ceremony" => A
InOnboarding(A) == part = "onboarding" => A
InGate(A) == part = "gate" => A
InQueue(A) == part = "queue" => A
InRegistration(A) == part = "registration" => A
InNotes(A) == part = "notes" => A
InRecovery(A) == part = "recovery" => A
InFront(A) == part = "front" => A

\* The rows and keys of every component keep the shape its store can hold.
EntryTypes ==
  /\ InEnrollment(Enrollment!TypeOK)
  /\ InCeremony(Ceremony!TypeOK)
  /\ InOnboarding(Onboarding!TypeOK)
  /\ InGate(Gate!TypeOK)
  /\ InQueue(Queue!TypeOK)
  /\ InRegistration(Registration!TypeOK)
  /\ InNotes(Notes!TypeOK)
  /\ InRecovery(Recovery!TypeOK)
  /\ InFront(Front!TypeOK)

\* One token, code, form or message has one effect and one actor, however many
\* requests present it and whichever locks and claims run out: a ceremony one
\* reward, a grant one use, an intent one registration, a WeChat code one
\* identity, a notification one mail (but for a lost record of the sending).
UsedOnce ==
  /\ InEnrollment(Enrollment!OneActor)
  /\ InCeremony(Ceremony!OneReward /\ Ceremony!AcceptedOnce)
  /\ InOnboarding(Onboarding!SingleOutcome)
  /\ InGate(Gate!OneRegistration /\ Gate!SoleChallenge)
  /\ InRegistration(Registration!CodeOnce /\ Registration!OneUpstream)
  /\ InNotes(Notes!SentOnce)
  /\ InRecovery(Recovery!RedeemedOnce)

\* Guesses, budgets, strikes and slots stay within, and equal, what was spent
\* on them, whatever is retried, refunded, timed out or lost.
LimitsHold ==
  /\ InCeremony(Ceremony!GuessesBounded)
  /\ InGate(Gate!GuessesBounded /\ Gate!BudgetsExact /\ Gate!StrikesEarned)
  /\ InQueue(Queue!SlotsBalanced /\ Queue!DomainBounded /\ Queue!LaneCurrent)

\* What is given out rests on what was proven for it: a grant on its audit row
\* and its challenge's generation, a registration on a solved challenge of the
\* same form, a session on the provider's, an active account on its address, a
\* decision on facts, a sign-in and a grant that held after it was asked for.
ProofBacked ==
  /\ InCeremony(Ceremony!GrantAudited /\ Ceremony!GrantOfChallenge)
  /\ InOnboarding(Onboarding!SessionBacked)
  /\ InGate(Gate!HumanProven)
  /\ InRegistration(Registration!ActiveBacked /\ Registration!AnswerBacked)
  /\ InNotes(Notes!DeliveredWasSent)
  /\ InRecovery(Recovery!SessionApproved /\ Recovery!ContactProven)
  /\ InFront(Front!FreshClaims /\ Front!FactsInForce /\ Front!ReuseBacked)

\* What a flow leaves at the provider has somebody who will settle it: a
\* record, a live challenge, a request under way, a refusal that undid it; no
\* worker takes what is still under way, and the undoing of a registration takes
\* no link of any account but the one it undoes.
LeftoversCovered ==
  /\ InEnrollment(Enrollment!PendingCovered)
  /\ InCeremony(Ceremony!TempCovered /\ Ceremony!SweepSpares)
  /\ InOnboarding(Onboarding!SessionsAccounted)
  /\ InRegistration(Registration!RefusedLeavesNothing /\ Registration!VerifierKept)
  /\ InRecovery(Recovery!MirrorAccounted)
  /\ InFront(Front!ClaimAnswered)

\* A phone, a WeChat identity, an address that is registered or at the provider
\* belong to one account, and an address the database shows for two is out of
\* date for one of them; a token a stranger presented is burned for its owner
\* too; the prompts of a request have one meaning, whichever door it comes
\* through, and a sign-in settles one.
AuthorityUnique ==
  /\ InEnrollment(Enrollment!ForeignBurns)
  /\ InOnboarding(Onboarding!LinksOneToOne)
  /\ InRegistration(Registration!AuthorityUnique)
  /\ InRecovery(Recovery!ContactsUnique)
  /\ InFront(Front!OneMeaning /\ Front!NoLoginLoop)

\* What is settled stays: an active factor, a link, a pinned form, a suspended
\* account and a terminal event are not undone by whoever comes late.
SettledStays ==
  [][/\ InEnrollment(Enrollment!WorkerSpares /\ Enrollment!ActiveKept)
     /\ InOnboarding(Onboarding!LinksKept)
     /\ InGate(Gate!PinKept)
     /\ InRegistration(Registration!SuspendedKept)
     /\ InNotes(Notes!TerminalKept)
     /\ InRecovery(Recovery!TicketKept)]_planeVars

\* "Pending identities retain their verifier so an ambiguous provider creation
\* remains safely retryable" (the comment of the verifier cleanup).
PendingRetainsVerifier == InRegistration(Registration!PendingRetainsVerifier)
==============================================================================
