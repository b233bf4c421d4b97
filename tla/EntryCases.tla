----------------------------- MODULE EntryCases ------------------------------
(***************************************************************************)
(* The people, requests and batches of requests with which EntryPlane and  *)
(* LivenessPlane check the components on the way in.                       *)
(***************************************************************************)
EXTENDS Naturals, FiniteSets, Sequences, TLC

-----------------------------------------------------------------------------
(* Factors of one user: any three requests about tokens that they mint. *)

FactorInput(op, kind, session, token) ==
  [op |-> op, kind |-> kind, session |-> session, token |-> token]
FactorRequests == {"t1", "t2", "p1", "confirm t", "confirm t again", "cancel t", "confirm p",
                "confirm p again", "cancel p", "thief t", "thief p", "remove t", "remove p"}
FactorInputs == [r \in FactorRequests |->
  CASE r \in {"t1", "t2"}                          -> FactorInput("begin", "totp", "s1", r)
    [] r = "p1"                                    -> FactorInput("begin", "passkey", "s1", r)
    [] r \in {"confirm t", "confirm t again"}      -> FactorInput("confirm", "totp", "s1", "t1")
    [] r = "cancel t"                              -> FactorInput("cancel", "totp", "s1", "t1")
    [] r \in {"confirm p", "confirm p again"}      -> FactorInput("confirm", "passkey", "s1", "p1")
    [] r = "cancel p"                              -> FactorInput("cancel", "passkey", "s1", "p1")
    [] r = "thief t"                               -> FactorInput("confirm", "totp", "s2", "t1")
    [] r = "thief p"                               -> FactorInput("cancel", "passkey", "s2", "p1")
    [] r = "remove t"                              -> FactorInput("remove", "totp", "s1", "t1")
    [] r = "remove p"                              -> FactorInput("remove", "passkey", "s1", "p1")]
\* Three requests, each about a token that one of them mints.
FactorBatches == {B \in SUBSET FactorRequests :
                 Cardinality(B) = 3 /\ \A r \in B : FactorInputs[r].token \in B}
\* Those about the passkey alone, small enough for liveness.
FactorPasskeyBatches == {B \in FactorBatches : \A r \in B : FactorInputs[r].token = "p1"}

-----------------------------------------------------------------------------
(* Two-step logins and reauthentications of one user. *)

CeremonyInput(op, kind, session, of) == [op |-> op, kind |-> kind, session |-> session, of |-> of]
CeremonyRequests == {"login", "reauth", "dream", "l1", "l2", "l3", "r1", "r2", "r3", "d1", "thief",
                "use", "use again", "use direct"}
CeremonyInputs == [r \in CeremonyRequests |->
  CASE r = "login"             -> CeremonyInput("begin", "login", "s1", r)
    [] r = "reauth"            -> CeremonyInput("begin", "reauth", "s1", r)
    [] r = "dream"             -> CeremonyInput("begin", "dreamup", "s1", r)
    [] r \in {"l1", "l2", "l3"} -> CeremonyInput("complete", "none", "s1", "login")
    [] r \in {"r1", "r2", "r3"} -> CeremonyInput("complete", "none", "s1", "reauth")
    [] r = "d1"                -> CeremonyInput("complete", "none", "s1", "dream")
    [] r = "thief"             -> CeremonyInput("complete", "none", "s2", "reauth")
    [] r \in {"use", "use again"} -> CeremonyInput("use", "none", "s1", "r1")
    [] r = "use direct"        -> CeremonyInput("use", "none", "s1", "dream")]
CeremonyBatches == {{"login", "l1", "l2", "l3"}, {"reauth", "r1", "r2", "r3"}, {"reauth", "r1", "r2", "thief"},
               {"dream", "d1", "use direct"}, {"reauth", "r1", "use", "use again"}}

-----------------------------------------------------------------------------
\* Two WeChat identities and two accounts, the scenarios that bring them
\* together.

OnboardingRequests == {"b1", "b2", "b3", "c1", "c2", "c3", "c4", "cx", "cn", "cm", "m1", "m2", "mx"}
OnboardingB(s) == [op |-> "begin", subject |-> s]
OnboardingC(t, a) == [op |-> "complete", of |-> t, account |-> a]
OnboardingM(t) == [op |-> "mfa", of |-> t]
OnboardingInputs == [r \in OnboardingRequests |->
  CASE r = "b1" -> OnboardingB("w1") [] r = "b2" -> OnboardingB("w2") [] r = "b3" -> OnboardingB("w1")
    [] r = "c1" -> OnboardingC("b1", "a1") [] r = "c2" -> OnboardingC("b1", "a1") [] r = "c3" -> OnboardingC("b2", "a1")
    [] r = "c4" -> OnboardingC("b2", "a2") [] r = "cx" -> OnboardingC("c1", "a1") [] r = "cn" -> OnboardingC("b1", "new")
    [] r = "cm" -> OnboardingC("b1", "new")
    [] r = "m1" -> OnboardingM("c1") [] r = "m2" -> OnboardingM("c1") [] r = "mx" -> OnboardingM("b1")]
OnboardingPhones == [s \in {"w1", "w2"} |-> "p1"]
OnboardingAcc(v, p, ok) == [version |-> v, active |-> TRUE, link |-> "none", phone |-> p, verified |-> ok]
OnboardingFixed == OnboardingAcc(2, "none", FALSE)   \* an account no other handler changes
OnboardingScene(a, rs) == [requests |-> rs, accounts |-> [a1 |-> a, a2 |-> OnboardingFixed]]
OnboardingScenarios ==
  {OnboardingScene(OnboardingAcc(1, "none", FALSE), {"b1", "c1", "m1"}), OnboardingScene(OnboardingAcc(1, "p1", FALSE), {"b1", "b3", "c1"}),
   OnboardingScene(OnboardingFixed, {"b1", "c1", "m1", "m2"}), OnboardingScene(OnboardingFixed, {"b1", "c1", "c2"}),
   OnboardingScene(OnboardingFixed, {"b1", "c1", "cx", "m1"}), OnboardingScene(OnboardingAcc(2, "p2", TRUE), {"b1", "c1", "mx"}),
   OnboardingScene(OnboardingFixed, {"b1", "b2", "c1", "c3"}), OnboardingScene(OnboardingFixed, {"b1", "cn", "cm"}),
   OnboardingScene(OnboardingFixed, {"b1", "b2", "c1", "c4"})}
\* Two of them, small enough for liveness.
OnboardingFewScenarios == {OnboardingScene(OnboardingFixed, {"b1", "c1", "m1", "m2"}), OnboardingScene(OnboardingAcc(1, "none", FALSE), {"b1", "c1", "m1"})}

-----------------------------------------------------------------------------
\* Two browsers behind one network, two forms, and what may be done with
\* them.

GateI(b) == [op |-> "issue", browser |-> b]
GateC(i, b, e, filled) == [op |-> "create", intent |-> i, browser |-> b, email |-> e, filled |-> filled]
GateS(c, b, right) == [op |-> "solve", of |-> c, browser |-> b, right |-> right]
GateU(x) == [op |-> "unblock", source |-> x]
GateInputs ==
  [i1 |-> GateI("x"), i2 |-> GateI("x"), i3 |-> GateI("y"),
   c1 |-> GateC("i1", "x", "e1", FALSE), c2 |-> GateC("i1", "x", "e1", FALSE),
   c3 |-> GateC("i1", "x", "e1", FALSE), c4 |-> GateC("i1", "x", "e2", FALSE),
   c5 |-> GateC("i2", "x", "e1", FALSE), c6 |-> GateC("i1", "y", "e1", FALSE),
   c8 |-> GateC("i1", "x", "e1", FALSE),
   h1 |-> GateC("i1", "x", "e1", TRUE), h2 |-> GateC("i2", "x", "e1", TRUE), h3 |-> GateC("i1", "x", "e1", TRUE),
   s1 |-> GateS("c1", "x", TRUE), s2 |-> GateS("c1", "x", FALSE), s3 |-> GateS("c1", "x", TRUE),
   s4 |-> GateS("c1", "y", TRUE), s5 |-> GateS("c2", "x", TRUE),
   u1 |-> GateU("network"), u2 |-> GateU("x")]
GateNow(requests) == [requests |-> requests, past |-> {}]
GateBatches ==
  {GateNow({"i1", "c1", "c2", "s2", "s1", "s5"}), GateNow({"i1", "c1", "s2", "s3", "s1"}),
   GateNow({"i1", "i2", "c1", "s1", "c5"}), GateNow({"i1", "c1", "s1", "c2", "s5", "c3"}),
   GateNow({"i1", "c1", "s4", "c6"}), GateNow({"i1", "c1", "c4"}), GateNow({"i1", "i2", "h1", "h2", "u1"}),
   GateNow({"i1", "h1", "h3", "u2"}), GateNow({"i1", "i2", "h1", "c5"}), GateNow({"i1", "c1", "h3", "s1"}),
   GateNow({"i1", "c1", "s1", "c2", "c3", "c8"}),
   [requests |-> {"i1", "c1", "s1", "c2"}, past |-> {<<"i3", "e1">>}]}

-----------------------------------------------------------------------------
(* Three callers of an unfamiliar domain and one of an established one. *)

QueueDomains == [p |-> "small.example", q |-> "small.example", r |-> "small.example",
               t |-> "mail.example"]

-----------------------------------------------------------------------------
\* Two addresses, two WeChat identities that share a phone, and a
\* reservation made before phones were mandatory.

RegistrationRequests == {"p1", "p2", "w1", "w2", "w3", "w4", "w5", "w6", "v1", "v2", "s1", "s2"}
RegistrationW(e, s, f, x, c) ==
  [op |-> "wechat", email |-> e, subject |-> s, phone |-> "ph", form |-> f, expected |-> x, code |-> c]
RegistrationInputs == [r \in RegistrationRequests |->
  CASE r \in {"p1", "p2"} -> [op |-> "create", email |-> "e1"]
    [] r = "w1" -> RegistrationW("e1", "x1", "f1", "none", "c1") [] r = "w2" -> RegistrationW("e1", "x1", "f1", "none", "c2")
    [] r = "w3" -> RegistrationW("e2", "x2", "f3", "none", "c3") [] r = "w4" -> RegistrationW("e1", "x1", "f2", "none", "c4")
    [] r = "w5" -> RegistrationW("e1", "x1", "f1", "legacy", "c5") [] r = "w6" -> RegistrationW("e1", "x1", "f1", "none", "c1")
    [] r \in {"v1", "v2"} -> [op |-> "verify"]
    [] r = "s1" -> [op |-> "resend", of |-> "p1"] [] r = "s2" -> [op |-> "resend", of |-> "w1"]]
RegistrationNew(rs) == [requests |-> rs, legacy |-> "none", email |-> "none", form |-> "none"]
RegistrationOld(rs) == [requests |-> rs, legacy |-> "x1", email |-> "e1", form |-> "f1"]
RegistrationScenarios ==
  {RegistrationNew({"p1", "p2", "v1"}), RegistrationNew({"p1", "w1", "v1"}), RegistrationNew({"p1", "v1", "v2"}), RegistrationNew({"p1", "s1", "v1"}),
   RegistrationNew({"w1", "w2", "v1"}), RegistrationNew({"w1", "w4"}), RegistrationNew({"w1", "w3"}), RegistrationNew({"w1", "v1", "s2"}),
   RegistrationOld({"w5", "v1"}), RegistrationOld({"w1", "w5"}), RegistrationOld({"w4", "p1"}), RegistrationNew({"w5", "p1"}),
   RegistrationNew({"w1", "w6"})}
RegistrationFewScenarios == {RegistrationNew({"w1", "w2", "v1"}), RegistrationOld({"w5", "v1"})}

-----------------------------------------------------------------------------
\* Two accounts; two answers to each ticket, an address both ask for, and a
\* password that is reset while both show it.

RecoveryRequests == {"f1", "f2", "r1", "r2", "r3", "t1", "t2", "n1", "n2", "n3", "q1", "a1", "a2", "c1", "c2", "c3",
                "m1", "m2", "v1", "v2", "v3", "m3", "v4"}
RecoveryIn(op, by, of, right, target) == [op |-> op, by |-> by, of |-> of, right |-> right, target |-> target]
RecoveryInputs == [r \in RecoveryRequests |->
  CASE r = "f1" -> RecoveryIn("forgot", "none", "none", TRUE, <<"old", "u1">>)
    [] r = "f2" -> RecoveryIn("forgot", "none", "none", TRUE, <<"new", "e1">>)
    [] r = "r3" -> RecoveryIn("reset", "none", "f2", TRUE, "none")
    [] r \in {"r1", "r2"} -> RecoveryIn("reset", "none", "f1", TRUE, "none")
    [] r = "t1" -> RecoveryIn("text", "u1", "none", TRUE, <<"new", "ph">>) [] r = "t2" -> RecoveryIn("text", "u2", "none", TRUE, <<"new", "ph">>)
    [] r = "n1" -> RecoveryIn("phone", "u1", "t1", TRUE, "none") [] r = "n2" -> RecoveryIn("phone", "u2", "t2", TRUE, "none")
    [] r = "n3" -> RecoveryIn("phone", "u2", "t1", FALSE, "none")
    [] r = "q1" -> RecoveryIn("qr", "none", "none", TRUE, "none")
    [] r = "a1" -> RecoveryIn("approve", "u1", "q1", TRUE, "none") [] r = "a2" -> RecoveryIn("approve", "u2", "q1", TRUE, "none")
    [] r \in {"c1", "c2"} -> RecoveryIn("consume", "none", "q1", TRUE, "none")
    [] r = "c3" -> RecoveryIn("consume", "none", "q1", FALSE, "none")
    [] r = "m1" -> RecoveryIn("address", "u1", "none", TRUE, <<"new", "e1">>) [] r = "m2" -> RecoveryIn("address", "u1", "none", TRUE, <<"new", "e2">>)
    [] r = "m3" -> RecoveryIn("address", "u2", "none", TRUE, <<"new", "e1">>)
    [] r = "v1" -> RecoveryIn("confirm", "u1", "m1", TRUE, "none") [] r = "v2" -> RecoveryIn("confirm", "u1", "m2", TRUE, "none")
    [] r = "v3" -> RecoveryIn("confirm", "u1", "m1", FALSE, "none") [] r = "v4" -> RecoveryIn("confirm", "u2", "m3", TRUE, "none")]
RecoveryBatches ==
  {{"f1", "r1", "r2"}, {"f1", "r1", "q1", "a1", "c1"}, {"t1", "t2", "n1", "n2"}, {"t1", "n1", "n3"},
   {"q1", "a1", "a2", "c1", "c2"}, {"q1", "a1", "c1", "c3"}, {"m1", "m2", "v1", "v2"},
   {"m1", "v1", "v3", "m3", "v4"}, {"m1", "v1", "m2", "m3", "v4", "f2", "r3"}}

-----------------------------------------------------------------------------
\* Authorization requests and the world around them, for the model
\* checker.

FrontRequests == {"g1", "g2", "p1", "p2", "d1", "d2", "x1"}
FrontInputs == [r \in FrontRequests |->
  CASE r \in {"g1", "g2"} -> [op |-> "gateway", choice |-> "none"]
    [] r \in {"p1", "p2"} -> [op |-> "read", choice |-> "none"]
    [] r \in {"d1", "d2"} -> [op |-> "decide", choice |-> "allow"]
    [] r = "x1" -> [op |-> "decide", choice |-> "access_denied"]]

FrontGood == [live |-> TRUE, app |-> TRUE, own |-> TRUE, mode |-> "first_authorization",
               redirects |-> {"uri"}, scopes |-> {"openid", "email"}]
FrontKilled   == [FrontGood EXCEPT !.app = FALSE]
FrontDisabled == [FrontGood EXCEPT !.own = FALSE]
FrontDeleted  == [FrontGood EXCEPT !.live = FALSE]
FrontMoved    == [FrontGood EXCEPT !.redirects = {"other"}]
FrontNarrow   == [FrontGood EXCEPT !.scopes = {"openid"}]
FrontStrict   == [FrontGood EXCEPT !.mode = "every_authorization"]

FrontNone    == [st |-> "none", scopes |-> {}]
FrontFull    == [st |-> "active", scopes |-> {"openid", "email"}]
FrontPartial == [st |-> "active", scopes |-> {"openid"}]
FrontRevoked == [st |-> "revoked", scopes |-> {"openid", "email"}]

FrontOut    == [on |-> FALSE, auth |-> 0, v2 |-> FALSE]
FrontOld    == [on |-> TRUE, auth |-> 0, v2 |-> TRUE]
FrontLegacy == [on |-> TRUE, auth |-> 0, v2 |-> FALSE]

FrontAsk(rs, prompts, maxAge) ==
  [requests |-> rs, prompts |-> prompts, maxAge |-> maxAge, created |-> 1, redirect |-> "uri",
   asked |-> <<"openid", "email", "openid">>, facts |-> FrontGood, grant |-> FrontNone, session |-> FrontOld,
   edits |-> {}, grants |-> {}, people |-> {}]

\* An ordinary request under an administrator; the same with a grant that
\* comes and goes; silent requests; requests that ask for a new sign-in; the
\* ones that no page may serve; ill-formed ones.
FrontBatches ==
  {[FrontAsk({"g1", "d1", "x1"}, <<>>, {}) EXCEPT !.edits = {FrontKilled, FrontMoved}],
   [FrontAsk({"p1", "d1"}, <<"consent">>, {}) EXCEPT !.edits = {FrontNarrow, FrontGood}, !.grant = FrontFull],
   [FrontAsk({"p1", "g1"}, <<>>, {}) EXCEPT
      !.edits = {FrontDisabled, FrontDeleted}, !.grants = {FrontFull}, !.people = {"expire"}],
   [FrontAsk({"g1"}, <<"none">>, {}) EXCEPT
      !.grant = FrontFull, !.grants = {FrontRevoked, FrontPartial, FrontFull}, !.edits = {FrontStrict, FrontMoved}],
   [FrontAsk({"g1", "g2"}, <<"none">>, {}) EXCEPT
      !.grant = FrontFull, !.grants = {FrontRevoked, FrontFull}, !.edits = {FrontStrict}],
   [FrontAsk({"g1"}, <<"none">>, {1}) EXCEPT
      !.grant = FrontFull, !.session = FrontLegacy, !.people = {"login", "wait", "logout"}],
   [FrontAsk({"p1", "d1"}, <<"none">>, {}) EXCEPT !.grant = FrontFull, !.grants = {FrontRevoked}],
   [FrontAsk({"g1", "d1"}, <<"login">>, {}) EXCEPT !.people = {"login", "wait"}],
   [FrontAsk({"p1", "x1"}, <<>>, {0}) EXCEPT !.session = FrontOut, !.people = {"login", "logout"}],
   [FrontAsk({"g1", "d1"}, <<"login">>, {}) EXCEPT !.created = 0, !.people = {"login"}],
   [FrontAsk({"d1"}, <<>>, {1}) EXCEPT !.session = FrontLegacy, !.people = {"login", "wait"}],
   FrontAsk({"g1", "g2", "d1"}, <<"login", "create", "select_account">>, {}),
   [FrontAsk({"g1", "p1"}, <<"select_account">>, {}) EXCEPT !.people = {"expire"}],
   FrontAsk({"g1", "p1", "d1"}, <<"none", "login">>, {}),
   FrontAsk({"g1", "p1", "d1"}, <<"unspecified">>, {}),
   [FrontAsk({"g1", "d1"}, <<>>, {}) EXCEPT !.asked = <<"openid", "malformed">>],
   [FrontAsk({"p1", "d1"}, <<>>, {}) EXCEPT !.asked = <<>>]}

==============================================================================
