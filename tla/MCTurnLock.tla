----------------------------- MODULE MCTurnLock -----------------------------
(* TurnLock for TLC: two messages, two readings, one task.                  *)
EXTENDS TurnLock, TLC

CONSTANTS m1, m2, r1, r2, k1

MCMessages == {m1, m2}
MCReadings == {r1, r2}
MCTasks    == {k1}

MCSymmetry == Permutations(MCMessages) \cup Permutations(MCReadings)
=============================================================================
