---------------------------- MODULE MCTurnQueue ----------------------------
EXTENDS TurnQueue, TLC

CONSTANTS m1, m2, m3, r1, r2

TwoMessages   == {m1, m2}
ThreeMessages == {m1, m2, m3}
TwoReadings   == {r1, r2}
NoTasks       == {}

TwoSymmetry   == Permutations(TwoMessages) \cup Permutations(TwoReadings)
ThreeSymmetry == Permutations(ThreeMessages) \cup Permutations(TwoReadings)
=============================================================================
