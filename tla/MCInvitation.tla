--------------------------- MODULE MCInvitation ---------------------------
(* Small instances of Invitation: two invitations, two sign-ins and two of  *)
(* each kind of call.                                                       *)
EXTENDS Invitation, TLC

CONSTANTS i1, i2, s1, s2, c1, c2, n1, n2, v1, v2

MCInvitations == {i1, i2}
MCSubjects == {s1, s2}
MCCalls == {c1, c2}
MCReminders == {n1, n2}
MCRevokers == {v1, v2}
MCFaults == {"member", "store", "lost", "expiration", "vend"}

(* Redemptions and reminders wait for a creation to end.  Reminders and      *)
(* revocations are taken one kind at a time, and beside a redemption only    *)
(* while nothing failed and one invitation went out.                         *)
Bounded ==
    LET redeeming == \E c \in Calls : call[c].pc # "idle"
        reminding == \E n \in Reminders : remind[n].pc # "idle"
        revoking == \E v \in Revokers : revoke[v].pc # "idle"
    IN /\ redeeming \/ reminding => \A i \in Invitations : create[i] \in {"idle", "sent", "refused"}
       /\ ~(reminding /\ revoking)
       /\ redeeming /\ (reminding \/ revoking) =>
             faults = MaxFaults /\ \E i \in Invitations : create[i] # "sent"

Symmetry ==
    Permutations(MCInvitations) \cup Permutations(MCSubjects) \cup Permutations(MCCalls)
        \cup Permutations(MCReminders) \cup Permutations(MCRevokers)
=============================================================================
