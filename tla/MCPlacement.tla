---------------------------- MODULE MCPlacement ----------------------------
EXTENDS Placement, TLC
CONSTANTS h1, h2, home, nowhere, f1, f2, boot
MCHolder == {h1, h2}
MCHandler == {f1, f2}
MCSymmetry == Permutations(MCHolder) \cup Permutations(MCHandler)
==============================================================================
