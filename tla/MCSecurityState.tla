-------------------------- MODULE MCSecurityState --------------------------
EXTENDS SecurityState, TLC

CONSTANTS r1, r2, i1, i2, l1, s1, s2

=============================================================================
