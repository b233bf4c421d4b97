----------------------------- MODULE AdminCases ------------------------------
(***************************************************************************)
(* The administrators, requests and batches of requests with which         *)
(* AdminPlane and LivenessPlane check the components of the back office.   *)
(***************************************************************************)
EXTENDS Naturals, FiniteSets, Sequences, TLC

-----------------------------------------------------------------------------
\* The second step of one administrator with one session: any three of
\* seven requests.

StepUpIn(kind, answer, risk) ==
  [kind |-> kind, answer |-> answer, session |-> "s1", risk |-> risk, rotates |-> risk = "high",
   mfa |-> kind = "enroll" /\ answer = 0]
\* A verification, its retry and another one, two wrong answers, a rotation,
\* an enrolment.
StepUpInputs == ("r1" :> StepUpIn("verify", 1, "high")) @@ ("r2" :> StepUpIn("verify", 1, "high"))
             @@ ("r3" :> StepUpIn("verify", 9, "low")) @@ ("r4" :> StepUpIn("rotate", 9, "low"))
             @@ ("r5" :> StepUpIn("rotate", 1, "low")) @@ ("r6" :> StepUpIn("enroll", 0, "low"))
             @@ ("r7" :> StepUpIn("verify", 1, "low"))
StepUpKeys == ("r1" :> "k1") @@ ("r2" :> "k1") @@ ("r3" :> "k2") @@ ("r4" :> "k3") @@ ("r5" :> "k4") @@ ("r6" :> "k5")
             @@ ("r7" :> "k6")

-----------------------------------------------------------------------------
\* Requests for identities and the roles behind them: a decision or claim
\* and two other requests, or any two requests.

AccessRequest(kind, ask, key, token, reason, claim) ==
  [kind |-> kind, ask |-> ask, key |-> key, token |-> token, reason |-> reason, claim |-> claim]
AccessOps == {"create", "create again", "approve", "approve again", "reject", "claim",
           "claim again", "claim anew", "settle", "promote", "demote", "disable",
           "rotate", "rotate super"}
AccessOpOf == [o \in AccessOps |->
  CASE o = "create"        -> AccessRequest("create", "a2", "k1", "none", "none", o)
    [] o = "create again"  -> AccessRequest("create", "a3", "k1", "none", "none", o)
    [] o = "approve"       -> AccessRequest("approve", "a1", "k2", "t1", "none", o)
    [] o = "approve again" -> AccessRequest("approve", "a1", "k2", "t1", "none", o)
    [] o = "reject"        -> AccessRequest("reject", "a1", "k3", "t1", "none", o)
    [] o = "claim"         -> AccessRequest("claim", "a1", "k4", "none", "none", o)
    [] o = "claim again"   -> AccessRequest("claim", "a1", "k4", "none", "none", o)
    [] o = "claim anew"    -> AccessRequest("claim", "a1", "k5", "none", "none", o)
    [] o = "settle"        -> AccessRequest("settle", "a1", "k6", "none", "none", "claim")
    [] o = "promote"       -> AccessRequest("create_role", "a1", "k7", "none", "w2", o)
    [] o = "demote"        -> AccessRequest("update_role", "a1", "k8", "none", "w1", o)
    [] o = "disable"       -> AccessRequest("disable_role", "a1", "k9", "none", "w1", o)
    [] o = "rotate"        -> AccessRequest("rotate_senior", "a1", "k10", "none", "none", o)
    [] o = "rotate super"  -> AccessRequest("rotate_super", "a1", "k11", "none", "none", o)]
AccessBatches ==
  {B \in SUBSET AccessOps : \/ Cardinality(B) = 2
                            \/ Cardinality(B) = 3 /\ B \cap {"approve", "claim"} # {}}

-----------------------------------------------------------------------------
(* Three accounts in two departments, one of them the administrator's. *)

StaffUsers == {"u1", "u2", "u3"}
StaffRank  == [u \in StaffUsers |-> CASE u = "u1" -> 1 [] u = "u2" -> 2 [] u = "u3" -> 3]
StaffRequests == {"x1", "x2", "x3", "e1", "e2", "o1", "o2", "k1", "k2", "s1", "p1", "p2", "p3", "d1", "d2", "d3",
                "d4", "d5", "g1", "g2", "l1", "l2"}
StaffIn(op, by, user, dep, person, above, flag) ==
  [op |-> op, by |-> by, user |-> user, dept |-> dep, person |-> person, above |-> above, flag |-> flag]
StaffAccount(op, by, user, flag) == StaffIn(op, by, user, "none", "none", "none", flag)
StaffInputs == [r \in StaffRequests |->
  CASE r = "x1" -> StaffAccount("disable", "u1", "u2", TRUE)
    [] r = "x2" -> StaffAccount("disable", "service", "u2", TRUE)
    [] r = "x3" -> StaffAccount("disable", "u1", "u2", FALSE)
    [] r \in {"e1", "e2"} -> StaffAccount("enable", "u1", IF r = "e1" THEN "u2" ELSE "u3", FALSE)
    [] r = "o1" -> StaffAccount("offboard", "service", "u2", FALSE) [] r = "o2" -> StaffAccount("offboard", "u1", "u2", FALSE)
    [] r = "k1" -> StaffAccount("revoke_all", "u1", "u2", FALSE) [] r = "k2" -> StaffAccount("revoke_all", "u2", "u2", FALSE)
    [] r = "s1" -> StaffAccount("revoke_one", "u1", "u2", FALSE)
    [] r = "p1" -> StaffIn("link", "u1", "u3", "da", "u2", "none", FALSE)
    [] r = "p2" -> StaffIn("update", "u1", "u1", "da", "u2", "none", FALSE)
    [] r = "p3" -> StaffIn("link", "service", "u3", "dc", "none", "none", FALSE)
    [] r = "d1" -> StaffIn("create_dept", "u1", "none", "dc", "u2", "db", FALSE)
    [] r = "d2" -> StaffIn("update_dept", "u1", "none", "da", "u2", "db", TRUE)
    [] r = "d3" -> StaffIn("update_dept", "u1", "none", "db", "none", "da", FALSE)
    [] r = "d4" -> StaffIn("delete_dept", "u1", "none", "db", "none", "none", FALSE)
    [] r = "d5" -> StaffIn("delete_dept", "service", "none", "dc", "none", "none", FALSE)
    [] r \in {"g1", "g2"} -> StaffAccount("login", "none", "u2", FALSE)
    [] r \in {"l1", "l2"} -> StaffAccount("list", "u1", "none", r = "l1")]
StaffBatches ==
  {{"x1", "x2", "g1"}, {"x1", "e1", "g1"}, {"o1", "o2", "g1"}, {"k1", "k2", "g1"},
   {"x3", "e1", "g1", "s1"}, {"e2", "p1", "x1"}, {"p2", "o1", "d2"}, {"d1", "d2", "d3", "x3"},
   {"d1", "d3", "d4", "d5"}, {"d1", "p3", "d5", "e2"}, {"l1", "l2", "x3", "e1"}, {"l1", "x1", "e2"}}
StaffFewBatches == {{"x1", "o1", "g1"}}

-----------------------------------------------------------------------------
(* Requests of the policies, for the model checker. *)

PolicyDraft(e, o, vs) == [effect |-> e, operator |-> o, values |-> vs]

\* Two policies of one action: one allows a, the other denies all but a and c.
PolicyInitial == [p \in {"pa", "pd"} |->
  IF p = "pa" THEN PolicyDraft("allow", "in", {"a", "b"}) ELSE PolicyDraft("deny", "not_in", {"a", "c"})]

PolicyIn(op, p, d, a, role, active) ==
  [op |-> op, policy |-> p, draft |-> d, attribute |-> a, allowed |-> role, active |-> active]

PolicyNarrow == PolicyDraft("allow", "equal", {"b"})
PolicyWide   == PolicyDraft("allow", "not_equal", {"b"})

PolicyRequests == {"n1", "v1", "v2", "p1", "p2", "k1", "k2", "k3", "k4", "k5", "k6", "m1", "m2"}

PolicyInputs == [r \in PolicyRequests |->
  CASE r = "n1" -> PolicyIn("create", "pa", PolicyNarrow, "a", TRUE, TRUE)
    [] r = "v1" -> PolicyIn("update", "pa", PolicyWide, "a", TRUE, TRUE)
    [] r = "v2" -> PolicyIn("update", "pa", PolicyNarrow, "a", TRUE, TRUE)
    [] r \in {"p1", "p2"} -> PolicyIn("publish", "pa", PolicyNarrow, "a", TRUE, TRUE)
    [] r = "k1" -> PolicyIn("check", "pa", PolicyNarrow, "a", TRUE, TRUE)
    [] r = "k2" -> PolicyIn("check", "pa", PolicyNarrow, "b", TRUE, TRUE)
    [] r = "k3" -> PolicyIn("check", "pa", PolicyNarrow, "a", FALSE, TRUE)
    [] r = "k4" -> PolicyIn("check", "pa", PolicyNarrow, "a", TRUE, FALSE)
    [] r = "k5" -> PolicyIn("resolve", "pa", PolicyNarrow, "a", FALSE, TRUE)
    [] r = "k6" -> PolicyIn("resolve", "pa", PolicyNarrow, "b", FALSE, FALSE)
    [] r = "m1" -> PolicyIn("simulate", "pa", PolicyNarrow, "b", TRUE, TRUE)
    [] r = "m2" -> PolicyIn("simulate", "pd", PolicyNarrow, "a", TRUE, TRUE)]

\* Publications around an edit; edits of two editors; decisions and simulations
\* while a new version is published.
PolicyBatches ==
  {[requests |-> {"n1", "p1", "v1", "p2"}, published |-> FALSE],
   [requests |-> {"v1", "v2"}, published |-> TRUE],
   [requests |-> {"v1", "p1", "k1", "k2"}, published |-> TRUE],
   [requests |-> {"v2", "p1", "k5", "k6"}, published |-> TRUE],
   [requests |-> {"v2", "k3", "k4", "m1", "m2"}, published |-> TRUE]}

PolicyFewBatches == {[requests |-> {"n1", "p1", "v1", "p2"}, published |-> FALSE]}

-----------------------------------------------------------------------------
(* Requests about the identity provider, for the model checker. *)

\* One person has the address of an account, the other has none.
ProviderSubjects == {"s1", "s2"}
ProviderMail     == [s \in ProviderSubjects |-> IF s = "s1" THEN "u1" ELSE "none"]

ProviderIn(op, s, u, t) == [op |-> op, subject |-> s, user |-> u, state |-> t]

ProviderRequests == {"y1", "y2", "r1", "r2", "r3", "r4", "i1", "n1", "f1", "l1", "l2", "v1",
                "b1", "b2", "b3"}

ProviderInputs == [r \in ProviderRequests |->
  CASE r \in {"y1", "y2"} -> ProviderIn("sync", "none", "none", r)
    [] r \in {"r1", "r4"} -> ProviderIn("resolve", "s1", "u1", r)
    [] r = "r2" -> ProviderIn("resolve", "s1", "u2", r)
    [] r = "r3" -> ProviderIn("resolve", "s2", "u1", r)
    [] r = "i1" -> ProviderIn("ignore", "s1", "none", r)
    [] r = "n1" -> ProviderIn("enable", "none", "none", r)
    [] r = "f1" -> ProviderIn("disable", "none", "none", r)
    [] r = "l1" -> ProviderIn("login", "s1", "none", r)
    [] r = "l2" -> ProviderIn("login", "s2", "none", r)
    [] r = "v1" -> ProviderIn("replay", "s1", "none", "l1")
    [] r \in {"b1", "b2", "b3"} -> ProviderIn("first", "z", "none", r)]

ProviderNobody == [s \in ProviderSubjects |-> "none"]
ProviderLinked == [s \in ProviderSubjects |-> IF s = "s1" THEN "u1" ELSE "none"]
ProviderThere  == [s \in ProviderSubjects |-> IF s = "s1" THEN "da" ELSE "db"]
ProviderAbsent == [s \in ProviderSubjects |-> "gone"]

ProviderCase(rs, on, dir, synced, linked, leaving, moving, reconcilers) ==
  [requests |-> rs, enabled |-> on, remote |-> dir, synced |-> synced, linked |-> linked,
   leaving |-> leaving, moving |-> moving, reconcilers |-> reconcilers]

\* Two reconcilers and a job; a reconciler under two requests, and beside an
\* administrator who resolves what it found; administrators among themselves,
\* and while two accounts are deleted; sign-ins of a linked person while the
\* switch moves, of one who is not linked, and of an account that is leaving;
\* first sign-ins.
ProviderBatches ==
  {ProviderCase({"y1"}, TRUE, ProviderThere, TRUE, ProviderNobody, {}, {}, {"w1", "w2"}),
   ProviderCase({"y1", "y2"}, TRUE, ProviderThere, FALSE, ProviderNobody, {}, {"s1", "s2"}, {"w1"}),
   ProviderCase({"y1", "r1"}, TRUE, ProviderThere, TRUE, ProviderNobody, {"u1"}, {}, {"w1"}),
   ProviderCase({"r1", "r2", "r3", "r4", "i1"}, TRUE, ProviderThere, TRUE, ProviderNobody, {"u1"}, {}, {}),
   ProviderCase({"r2", "r3"}, TRUE, ProviderThere, TRUE, ProviderNobody, {"u1", "u2"}, {}, {}),
   ProviderCase({"l1", "v1", "f1", "n1"}, TRUE, ProviderThere, TRUE, ProviderLinked, {}, {}, {}),
   ProviderCase({"l1", "v1", "l2", "r3"}, TRUE, ProviderThere, TRUE, ProviderLinked, {"u1"}, {}, {}),
   ProviderCase({"b1", "b2", "b3"}, FALSE, ProviderAbsent, FALSE, ProviderNobody, {}, {}, {})}

==============================================================================
