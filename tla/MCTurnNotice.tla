--------------------------- MODULE MCTurnNotice ---------------------------
(* Small instances of TurnNotice: two messages, and one reading with one    *)
(* failure, or two readings as long as nothing fails.  Two readings are     *)
(* under way at once only while no sender is in the middle of its steps.    *)
EXTENDS TurnNotice, TLC

CONSTANTS m1, m2, r1, r2

MCMessages == {m1, m2}
MCReadings == {r1, r2}
MCFaults == {"enqueue", "write", "read", "create", "update", "post", "answer"}

OneReading  == \E r \in Readings : At(r, "idle")
InTurn      == \E r \in Readings : At(r, "over")
SendersRest == \A m \in Messages : At(m, "idle") \/ At(m, "over")

Bound == OneReading \/ (faults = MaxFaults /\ (InTurn \/ SendersRest))

Symmetry == Permutations(MCMessages) \cup Permutations(MCReadings)
=============================================================================
