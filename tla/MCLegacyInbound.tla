-------------------------- MODULE MCLegacyInbound --------------------------
EXTENDS LegacyInbound, TLC

CONSTANTS m1, m2, m3, h1, h2

=============================================================================
