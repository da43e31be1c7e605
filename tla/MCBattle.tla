------------------------------ MODULE MCBattle ------------------------------
(***************************************************************************)
(* Two `/battle` messages, the first of them delivered twice.              *)
(***************************************************************************)
EXTENDS Battle, TLC

CONSTANTS d1, d2, f1, f2, again, s1, s2, e1

MCDuels == {d1, d2}
MCSides == {s1, s2}
MCEnders == {e1}
MCDeliveries == {f1, f2, again}
MCDuelOf == [f \in MCDeliveries |-> IF f = f2 THEN d2 ELSE d1]

MCSymmetry == Permutations(MCSides)

(* Bound: the second `/battle` meets a first one that nobody ends by hand, *)
(* that asks nothing, is delivered once and meets no fault; a redelivery    *)
(* meets no fault either.                                                   *)
Bounded ==
    /\ flow[f2].at # "idle" => asks = 0 /\ end[e1].at = "idle" /\ flow[again].at = "idle"
    /\ flow[f2].at # "idle" \/ flow[again].at # "idle" => faults = 0

=============================================================================
