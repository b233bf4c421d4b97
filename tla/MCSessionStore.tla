--------------------------- MODULE MCSessionStore ---------------------------
EXTENDS SessionStore, TLC

CONSTANTS s1, s2, t1, t2, t3, u1, u2, c1, c2, c3

\* Both sessions are u1's; u2 is a stranger.
OneUser == [s \in Sids |-> u1]

\* Sessions are touched, rotated and idle out while one caller revokes them ...
Rotating == [callers |-> {c1}, users |-> {u1, u2}, ops |-> {"revoke", "others", "epoch"},
             rotate |-> TRUE, late |-> TRUE, maxFaults |-> 0]

\* ... or none rotates, and two callers race while a command fails.
Calm == [callers |-> {c2, c3}, users |-> {u1}, ops |-> {"revoke", "others", "list"},
         rotate |-> FALSE, late |-> FALSE, maxFaults |-> 1]

TwoMixes == {Rotating, Calm}
WalkMix  == {[Rotating EXCEPT !.users = {u1}, !.ops = {"others"}]}

Symmetry == UNION {Permutations(S) : S \in {Sids, Tokens, {c2, c3}}}

=============================================================================
