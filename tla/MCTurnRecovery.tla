--------------------------- MODULE MCTurnRecovery ---------------------------
EXTENDS TurnRecovery, TLC

CONSTANTS t1, t2

OneTurn  == {t1}
TwoTurns == {t1, t2}

TwoSymmetry == Permutations(TwoTurns)
=============================================================================
