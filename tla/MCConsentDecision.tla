-------------------------- MODULE MCConsentDecision --------------------------
EXTENDS ConsentDecision, TLC

CONSTANTS b1, b2, r1, a1, a2, a3, u1

\* Two interactive requests and a silent one, all for the same scopes.
ReusePrompt == a1 :> "consent" @@ a2 :> "none" @@ a3 :> "create"
ReuseAsks   == a1 :> {"openid"} @@ a2 :> {"openid"} @@ a3 :> {"openid"}

=============================================================================
