--------------------------- MODULE DecisionOutcome ---------------------------
(***************************************************************************)
(* What the consent service promises of an authorization request (ADR-0005 *)
(* sections 4 and 5): it is decided once, by one plan; a decision whose    *)
(* provider success is not proved is void for good; a proved one takes its *)
(* local effect exactly once, and only such an effect gives a grant.       *)
(***************************************************************************)
CONSTANTS AuthRequests, Users

VARIABLES
  plan,      \* [kind, user] a request was claimed with
  state,     \* "open", "claimed", "void", "proved" or "effective"
  holders,   \* users whose grant is active
  delivered  \* requests whose callback URL reached a browser

dvars == <<plan, state, holders, delivered>>

NoPlan == [kind |-> "none", user |-> "none"]

Init == /\ plan = [a \in AuthRequests |-> NoPlan]
        /\ state = [a \in AuthRequests |-> "open"]
        /\ holders = {} /\ delivered = {}

Claim(a) == /\ state[a] = "open"
            /\ state' = [state EXCEPT ![a] = "claimed"]
            /\ \E k \in {"allow", "deny", "error"}, u \in Users :
                 plan' = [plan EXCEPT ![a] = [kind |-> k, user |-> u]]
            /\ UNCHANGED <<holders, delivered>>

Turn(a, from, to) == /\ state[a] = from
                     /\ state' = [state EXCEPT ![a] = to]
                     /\ UNCHANGED <<plan, delivered>>

Void(a)  == Turn(a, "claimed", "void") /\ UNCHANGED holders
Prove(a) == Turn(a, "claimed", "proved") /\ UNCHANGED holders

Effect(a) ==
  /\ Turn(a, "proved", "effective")
  /\ holders' = IF plan[a].kind = "allow" THEN holders \cup {plan[a].user} ELSE holders

Deliver(a) == /\ state[a] \in {"proved", "effective"}
              /\ delivered' = delivered \cup {a}
              /\ UNCHANGED <<plan, state, holders>>

\* The commit and the answer are one step when the commit's result is ignored.
EffectAndDeliver(a) ==
  /\ state[a] = "proved" /\ state' = [state EXCEPT ![a] = "effective"]
  /\ holders' = IF plan[a].kind = "allow" THEN holders \cup {plan[a].user} ELSE holders
  /\ delivered' = delivered \cup {a}
  /\ UNCHANGED plan

Revoke(u) == holders' = holders \ {u} /\ UNCHANGED <<plan, state, delivered>>

Next == \/ \E a \in AuthRequests : \/ Claim(a) \/ Void(a) \/ Prove(a) \/ Effect(a)
                                   \/ Deliver(a) \/ EffectAndDeliver(a)
        \/ \E u \in Users : Revoke(u)

Spec == Init /\ [][Next]_dvars

=============================================================================
