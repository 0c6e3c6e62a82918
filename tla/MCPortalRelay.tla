---------------------------- MODULE MCPortalRelay ----------------------------
EXTENDS PortalRelay, TLC

CONSTANTS p1, p2, p3

\* Two phones that only look at the page are alike.
Alike == Permutations({p2, p3})

=============================================================================
