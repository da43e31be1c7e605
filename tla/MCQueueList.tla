---------------------------- MODULE MCQueueList ----------------------------
\* Instances of QueueList.tla for TLC.
EXTENDS QueueList

CONSTANTS m1, m2, r1, r2

TwoMessages   == {m1, m2}
TwoReadings   == {r1, r2}
NoTasks       == {}

Symmetry == Permutations(TwoMessages) \cup Permutations(TwoReadings)
=============================================================================
