-------------------------- MODULE SecurityBoundary --------------------------
(***************************************************************************)
(* What the security state promises (ADR-0007 Decisions 1 to 3): password  *)
(* mutations are serial, and a mutation that may have reached the provider *)
(* retires every session of the old generation in one step.                *)
(***************************************************************************)
EXTENDS Naturals

CONSTANT Sessions

VARIABLES
  generation, \* the user's security generation
  phase,      \* "open", "mutating" or "settling"
  valid       \* the sessions of the current generation

bvars == <<generation, phase, valid>>

Init == generation = 1 /\ phase = "open" /\ valid = {}

\* A login, or the rotation of the mutating session.
Mint(s) == valid' = valid \cup {s} /\ UNCHANGED <<generation, phase>>

Drop(s) == s \in valid /\ valid' = valid \ {s} /\ UNCHANGED <<generation, phase>>

Begin == phase = "open" /\ phase' = "mutating" /\ UNCHANGED <<generation, valid>>

\* A confirmed rejection: the old generation resumes.
Abort == phase = "mutating" /\ phase' = "open" /\ UNCHANGED <<generation, valid>>

Commit == /\ phase = "mutating" /\ phase' = "settling"
          /\ generation' = generation + 1
          /\ valid' = {}

Close == phase = "settling" /\ phase' = "open" /\ UNCHANGED <<generation, valid>>

Next == \/ \E s \in Sessions : Mint(s) \/ Drop(s)
        \/ Begin \/ Abort \/ Commit \/ Close

Spec == Init /\ [][Next]_bvars

=============================================================================
