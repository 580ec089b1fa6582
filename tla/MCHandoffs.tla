----------------------------- MODULE MCHandoffs -----------------------------
EXTENDS Handoffs, TLC
UserSymmetry == Permutations(Users)
=============================================================================
