-------------------------- MODULE Invitation_proofs --------------------------
(***************************************************************************)
(* What the invitations promise, for any invitations, sign-ins and calls   *)
(* and any number of failures.                                             *)
(*                                                                         *)
(* The promises are not inductive alone.  That an invitation is spent once *)
(* rests on its one key, whichever link is presented; that a refused       *)
(* invitee lapses rests on what binds, which rests on what is spent, and   *)
(* on what a call at work knows of its invitation; that a revoked member   *)
(* does not come back rests on how far the creation is when there is a     *)
(* record to revoke.                                                       *)
(*                                                                         *)
(* The records are written by many steps: what such a step does to them is *)
(* said once (MarksOnly, AskWrites, StoreWrites, SpendWrites), and each    *)
(* part of the invariant has a lemma that goes over the steps it may mind. *)
(***************************************************************************)
EXTENDS Invitation, FiniteSetTheorems, TLAPS

\* The state, the two counters of the ledger apart.
Typed ==
    /\ record \in [Invitations -> Records] /\ create \in [Invitations -> Creations]
    /\ expiring \subseteq Invitations /\ member \subseteq Invitations
    /\ moderates \subseteq Invitations /\ stuck \subseteq Invitations
    /\ holds \in [Invitations -> {"no", "plain", "moderator"}]
    /\ identity \in [Subjects -> Invitations \cup {Own, NoOne}]
    /\ call \in [Calls -> Redemptions]
    /\ remind \in [Reminders -> Others] /\ revoke \in [Revokers -> Others]
    /\ admitted \in [Invitations -> Nat] /\ reminded \in [Invitations -> Nat]
    /\ faults \in 0..MaxFaults

\* An invitation has one key, and was spent as often as that key is.
SpentByKey ==
    \A i \in Invitations :
        /\ record[i].consumed \subseteq {"first"}
        /\ admitted[i] = IF record[i].consumed = {} THEN 0 ELSE 1

\* How far the creation is, and what there is of the invitation then.
Staged ==
    \A i \in Invitations :
        /\ create[i] \in {"idle", "asked", "minted", "added", "claimed"} => record[i].stored = "no"
        /\ record[i].stored = "no" => record[i].consumed = {}
        /\ create[i] \in {"minted", "added", "claimed"} => i \in expiring
        /\ create[i] \in {"idle", "asked", "minted", "added"} => holds[i] = "no"

\* What a call at work knows of its invitation.
CallsKnow ==
    \A c \in Calls :
        /\ call[c].pc \in {"check", "consume", "vend", "expiration", "transact", "reread",
                          "restore"}
              => call[c].inv \in Invitations /\ create[call[c].inv] = "sent"
        /\ call[c].pc \in {"expiration", "transact", "reread", "restore"}
              => call[c].sub \in Subjects /\ record[call[c].inv].mode = "sign-in"

\* Who signs in as an invitee has spent the invitation, and nobody else does.
Bindings ==
    /\ \A i \in Invitations : Bound(i) => record[i].consumed # {}
    /\ \A i \in Invitations : record[i].mode = "sign-in" /\ record[i].consumed # {} => Bound(i)
    /\ \A s, t \in Subjects : identity[s] \in Invitations /\ identity[s] = identity[t] => s = t

\* A revocation has a record, and once past the removal of the membership has no member.
Revocations ==
    \A v \in Revokers :
        /\ revoke[v].pc \in {"mark", "remove", "release", "take", "done"}
              => revoke[v].inv \in Invitations /\ record[revoke[v].inv].stored # "no"
        /\ revoke[v].pc \in {"release", "take", "done"} => revoke[v].inv \notin member

Mailing(n, i) == remind[n].pc = "mail" /\ remind[n].inv = i

\* A reminder is mailed by the one call that marked the record, and then never again.
Reminding ==
    \A i \in Invitations :
        /\ reminded[i] <= 1
        /\ ~record[i].nudged => reminded[i] = 0
        /\ \A n \in Reminders : Mailing(n, i) => record[i].nudged /\ reminded[i] = 0
        /\ \A n, k \in Reminders : Mailing(n, i) /\ Mailing(k, i) => n = k

\* The role has one holder, and one whose creation did not fail; a claim reported as failed
\* that was written is among the exceptions before it is undone.
Holding ==
    /\ \A i, j \in Invitations : holds[i] # "no" /\ holds[j] # "no" => i = j
    /\ \A i \in Invitations : holds[i] # "no" /\ create[i] \in {"undo", "refused"} => i \in stuck

\* Only calls spend, and only reminders remind.
Ledger ==
    /\ Calls = {} => \A i \in Invitations : admitted[i] = 0
    /\ Reminders = {} => \A i \in Invitations : reminded[i] = 0

IInv ==
    /\ Typed /\ SpentByKey /\ Staged /\ CallsKnow /\ Bindings
    /\ RefusedStillLapses /\ Revocations /\ Reminding /\ Holding /\ Ledger

-----------------------------------------------------------------------------
(* The state keeps its shape.                                              *)

LEMMA InitIInv == Init => IInv
<1> SUFFICES ASSUME Init PROVE IInv
  OBVIOUS
<1>1. Typed
  BY InvitationAssumption DEF Init, Typed, Records, Modes, Creations, Redemptions, Links, Others
<1>2. SpentByKey /\ Staged /\ CallsKnow /\ Revocations /\ Reminding /\ Holding /\ Ledger
  BY DEF Init, SpentByKey, Staged, CallsKnow, Revocations, Reminding, Mailing, Holding, Ledger
<1>3. Bindings /\ RefusedStillLapses
  BY InvitationAssumption DEF Init, Bindings, Bound, RefusedStillLapses, Exists
<1>4. QED BY <1>1, <1>2, <1>3 DEF IInv

\* A failure leaves fewer failures, and no other step touches them.
LEMMA FaultsTyped ==
  ASSUME faults \in 0..MaxFaults, Works \/ \E kind \in Faults : Fails(kind)
  PROVE  faults' \in 0..MaxFaults
  BY InvitationAssumption DEF Works, Fails

\* Each write of a record leaves a record.
LEMMA RecordWrites ==
  ASSUME record \in [Invitations -> Records], NEW i \in Invitations,
         \/ record' = record
         \/ \E m \in Modes : record' = [record EXCEPT ![i].mode = m]
         \/ \E at \in {"yes", "deleted"} : record' = [record EXCEPT ![i].stored = at]
         \/ record' = [record EXCEPT ![i].expired = TRUE]
         \/ record' = [record EXCEPT ![i].nudged = TRUE]
         \/ record' = [record EXCEPT ![i].revoked = @ \/ Exists(i)]
         \/ record' = [record EXCEPT ![i].consumed = @ \cup {"first"}]
  PROVE  record' \in [Invitations -> Records]
<1>1. CASE record' = record
  BY <1>1
<1>2. ASSUME NEW m \in Modes, record' = [record EXCEPT ![i].mode = m]
      PROVE  record' \in [Invitations -> Records]
  BY <1>2 DEF Records
<1>3. ASSUME NEW at \in {"yes", "deleted"}, record' = [record EXCEPT ![i].stored = at]
      PROVE  record' \in [Invitations -> Records]
  BY <1>3 DEF Records
<1>4. CASE record' = [record EXCEPT ![i].expired = TRUE]
  BY <1>4 DEF Records
<1>5. CASE record' = [record EXCEPT ![i].nudged = TRUE]
  BY <1>5 DEF Records
<1>6. CASE record' = [record EXCEPT ![i].revoked = @ \/ Exists(i)]
  <2>1. PICK b \in BOOLEAN : record' = [record EXCEPT ![i].revoked = b]
    BY <1>6 DEF Records, Exists
  <2>2. QED BY <2>1 DEF Records
<1>7. CASE record' = [record EXCEPT ![i].consumed = @ \cup {"first"}]
  BY <1>7 DEF Records, Links
<1>8. QED BY <1>1, <1>2, <1>3, <1>4, <1>5, <1>6, <1>7

\* So does each write of a call of the reminder or of a revocation.
LEMMA OtherWrites ==
  ASSUME NEW S, NEW f \in [S -> Others], NEW s \in S, NEW g,
         \/ \E at \in {"remove", "release", "mail", "done"} : g = [f EXCEPT ![s].pc = at]
         \/ \E at \in {"take", "done"}, b \in BOOLEAN : g = [f EXCEPT ![s].pc = at, ![s].saw = b]
         \/ g = [f EXCEPT ![s].saw = FALSE]
         \/ g = [f EXCEPT ![s] = [pc |-> "over", inv |-> NoOne, saw |-> FALSE]]
  PROVE  g \in [S -> Others]
<1>1. ASSUME NEW at \in {"remove", "release", "mail", "done"}, g = [f EXCEPT ![s].pc = at]
      PROVE  g \in [S -> Others]
  BY <1>1 DEF Others
<1>2. ASSUME NEW at \in {"take", "done"}, NEW b \in BOOLEAN,
             g = [f EXCEPT ![s].pc = at, ![s].saw = b]
      PROVE  g \in [S -> Others]
  <2> DEFINE h == [f EXCEPT ![s].pc = at]
  <2>1. h \in [S -> Others]
    BY DEF Others
  <2>2. g = [h EXCEPT ![s].saw = b]
    BY <1>2
  <2> HIDE DEF h
  <2>3. QED BY <2>1, <2>2 DEF Others
<1>3. CASE g = [f EXCEPT ![s].saw = FALSE]
  BY <1>3 DEF Others
<1>4. CASE g = [f EXCEPT ![s] = [pc |-> "over", inv |-> NoOne, saw |-> FALSE]]
  BY <1>4 DEF Others
<1>5. QED BY <1>1, <1>2, <1>3, <1>4

LEMMA CreationTyped ==
  ASSUME NEW i \in Invitations, Typed,
         \/ Ask(i) \/ Mint(i) \/ AddInvitee(i) \/ ClaimRole(i) \/ PutRecord(i)
         \/ Undo(i) \/ UndoRole(i) \/ Confer(i) \/ RecordModeration(i)
         \/ Expire(i) \/ Delete(i)
  PROVE  Typed'
<1> USE InvitationAssumption DEF Created, Works, Fails
<1>1. CASE Ask(i) \/ PutRecord(i) \/ Expire(i) \/ Delete(i)
  <2>1. record' \in [Invitations -> Records]
    <3>1. record \in [Invitations -> Records]
      BY DEF Typed
    <3>2. \/ record' = record
          \/ \E m \in Modes : record' = [record EXCEPT ![i].mode = m]
          \/ \E s \in {"yes", "deleted"} : record' = [record EXCEPT ![i].stored = s]
          \/ record' = [record EXCEPT ![i].expired = TRUE]
      BY <1>1 DEF Ask, PutRecord, Expire, Delete
    <3>3. QED BY <3>1, <3>2, RecordWrites
  <2>2. create' \in [Invitations -> Creations]
    BY <1>1 DEF Typed, Ask, PutRecord, Expire, Delete, Inviting, Creations
  <2>3. QED BY <1>1, <2>1, <2>2 DEF Typed, Ask, PutRecord, Expire, Delete, Inviting
<1>2. CASE Mint(i) \/ AddInvitee(i) \/ Undo(i)
  BY <1>2 DEF Typed, Mint, AddInvitee, Undo, Creations
<1>3. CASE ClaimRole(i) \/ UndoRole(i) \/ Confer(i) \/ RecordModeration(i)
  BY <1>3 DEF Typed, ClaimRole, UndoRole, Confer, RecordModeration, Creations
<1>4. QED BY <1>1, <1>2, <1>3

LEMMA RedemptionTyped ==
  ASSUME NEW c \in Calls, Typed, CallsKnow,
         \/ Present(c) \/ Check(c) \/ Consume(c) \/ Vend(c) \/ RemoveExpiration(c)
         \/ Transact(c) \/ Reread(c) \/ Restore(c)
  PROVE  Typed'
<1> USE InvitationAssumption DEF Redeeming, Goes, Answers, Works, Fails, Inv, KeyOf
<1>1. CASE Present(c)
  BY <1>1 DEF Typed, Present, Redemptions, Links
<1>2. CASE Check(c) \/ Vend(c)
  BY <1>2 DEF Typed, Check, Vend, Redemptions, Links
<1>3. CASE Consume(c) \/ Transact(c)
  <2>1. Inv(c) \in Invitations
    BY <1>3 DEF CallsKnow, Consume, Transact
  <2>2. record' \in [Invitations -> Records]
    <3>1. record \in [Invitations -> Records]
      BY DEF Typed
    <3>2. record' = record \/ record' = [record EXCEPT ![Inv(c)].consumed = @ \cup {"first"}]
      BY <1>3 DEF Consume, Transact, Spend
    <3>3. QED BY <2>1, <3>1, <3>2, RecordWrites
  <2>3. admitted' \in [Invitations -> Nat] /\ call' \in [Calls -> Redemptions]
    <3>1. admitted' = admitted \/ Spend(c)
      BY <1>3 DEF Consume, Transact
    <3>2. admitted' \in [Invitations -> Nat]
      BY <2>1, <3>1 DEF Typed, Spend
    <3>3. Answers(c) \/ \E at \in {"vend", "reread"} : Goes(c, at)
      BY <1>3 DEF Consume, Transact
    <3>4. call' \in [Calls -> Redemptions]
      BY <3>3 DEF Typed, Redemptions, Links
    <3>5. QED BY <3>2, <3>4
  <2>4. identity' \in [Subjects -> Invitations \cup {Own, NoOne}]
    BY <1>3, <2>1 DEF Typed, Consume, Transact, BindTo
  <2>5. QED BY <1>3, <2>2, <2>3, <2>4 DEF Typed, Consume, Transact
<1>4. CASE RemoveExpiration(c) \/ Reread(c) \/ Restore(c)
  <2>1. Inv(c) \in Invitations
    BY <1>4 DEF CallsKnow, RemoveExpiration, Reread, Restore
  <2>2. call' \in [Calls -> Redemptions]
    BY <1>4 DEF Typed, RemoveExpiration, Reread, Restore, Redemptions, Links
  <2>3. QED BY <1>4, <2>1, <2>2 DEF Typed, RemoveExpiration, Reread, Restore
<1>5. QED BY <1>1, <1>2, <1>3, <1>4

LEMMA ReminderTyped ==
  ASSUME NEW n \in Reminders, Typed,
         FindPending(n) \/ WriteAlias(n) \/ MailReminder(n)
  PROVE  Typed'
<1> USE InvitationAssumption DEF Inviting, ReminderGoes, ReminderEnds, Works, Fails
<1>1. CASE FindPending(n)
  BY <1>1 DEF Typed, FindPending, Others
<1>2. CASE WriteAlias(n)
  <2>1. record' \in [Invitations -> Records]
    <3>1. record \in [Invitations -> Records]
      BY DEF Typed
    <3>2. \/ record' = record
          \/ record' = [record EXCEPT ![remind[n].inv].nudged = TRUE]
      BY <1>2 DEF WriteAlias
    <3>3. CASE remind[n].inv \in Invitations
      BY <3>1, <3>2, <3>3, RecordWrites
    <3>4. CASE remind[n].inv \notin Invitations
      BY <3>1, <3>2, <3>4
    <3>5. QED BY <3>3, <3>4
  <2>2. remind' \in [Reminders -> Others]
    <3>1. remind \in [Reminders -> Others]
      BY DEF Typed
    <3>2. QED BY <1>2, <3>1, OtherWrites DEF WriteAlias
  <2>3. QED BY <1>2, <2>1, <2>2 DEF Typed, WriteAlias
<1>3. CASE MailReminder(n)
  BY <1>3 DEF Typed, MailReminder, Others
<1>4. QED BY <1>1, <1>2, <1>3

LEMMA RevocationTyped ==
  ASSUME NEW v \in Revokers, Typed, Revocations,
         \/ Find(v) \/ MarkRevoked(v) \/ RemoveMember(v)
         \/ ReadHolding(v) \/ ClearModeration(v) \/ RemoveHolding(v)
  PROVE  Typed'
<1> USE InvitationAssumption DEF Inviting, RevocationGoes, RevocationFails, Works, Fails
<1>1. CASE Find(v)
  BY <1>1 DEF Typed, Find, Others
<1>2. CASE MarkRevoked(v)
  <2>1. record' \in [Invitations -> Records]
    <3>1. record \in [Invitations -> Records] /\ revoke[v].inv \in Invitations
      BY <1>2 DEF Typed, Revocations, MarkRevoked
    <3>2. \/ record' = record
          \/ record' = [record EXCEPT ![revoke[v].inv].revoked = @ \/ Exists(revoke[v].inv)]
      BY <1>2 DEF MarkRevoked
    <3>3. QED BY <3>1, <3>2, RecordWrites
  <2>2. revoke' \in [Revokers -> Others]
    <3>1. revoke \in [Revokers -> Others]
      BY DEF Typed
    <3>2. QED BY <1>2, <3>1, OtherWrites DEF MarkRevoked
  <2>3. QED BY <1>2, <2>1, <2>2 DEF Typed, MarkRevoked
<1>3. CASE RemoveMember(v) \/ ReadHolding(v) \/ ClearModeration(v) \/ RemoveHolding(v)
  <2>1. revoke[v].inv \in Invitations
    BY <1>3 DEF Revocations, RemoveMember, ReadHolding, ClearModeration, RemoveHolding
  <2>2. revoke' \in [Revokers -> Others]
    <3>1. revoke \in [Revokers -> Others] /\ (holds[revoke[v].inv] = "moderator") \in BOOLEAN
      BY DEF Typed
    <3>2. \/ \E at \in {"release", "done"} : revoke' = [revoke EXCEPT ![v].pc = at]
          \/ \E at \in {"take", "done"}, b \in BOOLEAN :
                revoke' = [revoke EXCEPT ![v].pc = at, ![v].saw = b]
          \/ revoke' = [revoke EXCEPT ![v].saw = FALSE]
          \/ revoke' = [revoke EXCEPT ![v] = [pc |-> "over", inv |-> NoOne, saw |-> FALSE]]
      BY <1>3, <3>1 DEF RemoveMember, ReadHolding, ClearModeration, RemoveHolding
    <3>3. QED BY <3>1, <3>2, OtherWrites
  <2>3. QED BY <1>3, <2>1, <2>2 DEF Typed, RemoveMember, ReadHolding, ClearModeration, RemoveHolding
<1>4. QED BY <1>1, <1>2, <1>3

LEMMA TypedKept == ASSUME IInv, Next PROVE Typed'
<1>1. ASSUME NEW s \in Subjects, SignIn(s) PROVE Typed'
  BY <1>1 DEF IInv, Typed, SignIn, Works, Redeeming
<1>2. QED BY <1>1, CreationTyped, RedemptionTyped, ReminderTyped, RevocationTyped DEF Next, IInv

-----------------------------------------------------------------------------
(* What a step does to the records.                                        *)

\* The marks of a record say nothing of how far it is, how it is redeemed or spent.
LEMMA MarksOnly ==
  ASSUME Typed,
         \/ \E i \in Invitations : Expire(i)
         \/ \E n \in Reminders : WriteAlias(n)
         \/ \E v \in Revokers : MarkRevoked(v)
  PROVE  \A j \in Invitations :
            /\ record'[j].stored = record[j].stored
            /\ record'[j].mode = record[j].mode
            /\ record'[j].consumed = record[j].consumed
            /\ record[j].nudged => record'[j].nudged
<1> DEFINE Kept == \A j \in Invitations :
              /\ record'[j].stored = record[j].stored
              /\ record'[j].mode = record[j].mode
              /\ record'[j].consumed = record[j].consumed
              /\ record[j].nudged => record'[j].nudged
<1>1. record \in [Invitations -> Records]
  BY DEF Typed
<1>2. ASSUME NEW i, record' = [record EXCEPT ![i].expired = TRUE]
      PROVE  Kept
  BY <1>1, <1>2 DEF Records
<1>3. ASSUME NEW i, record' = [record EXCEPT ![i].nudged = TRUE]
      PROVE  Kept
  BY <1>1, <1>3 DEF Records
<1>4. ASSUME NEW i, record' = [record EXCEPT ![i].revoked = @ \/ Exists(i)]
      PROVE  Kept
  BY <1>1, <1>4 DEF Records
<1>5. \/ record' = record
      \/ \E i : record' = [record EXCEPT ![i].expired = TRUE]
      \/ \E i : record' = [record EXCEPT ![i].nudged = TRUE]
      \/ \E i : record' = [record EXCEPT ![i].revoked = @ \/ Exists(i)]
  BY DEF Expire, WriteAlias, MarkRevoked
<1>6. QED BY <1>2, <1>3, <1>4, <1>5

LEMMA AskWrites ==
  ASSUME Typed, NEW i \in Invitations, Ask(i)
  PROVE  \A j \in Invitations :
            /\ record'[j].stored = record[j].stored
            /\ record'[j].consumed = record[j].consumed
            /\ record'[j].nudged = record[j].nudged
            /\ j # i => record'[j].mode = record[j].mode
<1>1. record \in [Invitations -> Records]
  BY DEF Typed
<1>2. PICK m \in Modes : record' = [record EXCEPT ![i].mode = m]
  BY DEF Ask
<1>3. QED BY <1>1, <1>2 DEF Records

LEMMA StoreWrites ==
  ASSUME Typed, NEW i \in Invitations, PutRecord(i) \/ Delete(i)
  PROVE  \A j \in Invitations :
            /\ record'[j].mode = record[j].mode
            /\ record'[j].consumed = record[j].consumed
            /\ record'[j].nudged = record[j].nudged
            /\ record'[j].stored # record[j].stored => j = i /\ record'[j].stored # "no"
<1>1. record \in [Invitations -> Records]
  BY DEF Typed
<1>2. ASSUME NEW at \in {"yes", "deleted"}, record' = [record EXCEPT ![i].stored = at]
      PROVE  \A j \in Invitations :
                /\ record'[j].mode = record[j].mode
                /\ record'[j].consumed = record[j].consumed
                /\ record'[j].nudged = record[j].nudged
                /\ record'[j].stored # record[j].stored => j = i /\ record'[j].stored # "no"
  BY <1>1, <1>2 DEF Records
<1>3. record' = record \/ \E at \in {"yes", "deleted"} : record' = [record EXCEPT ![i].stored = at]
  BY DEF PutRecord, Delete
<1>4. QED BY <1>2, <1>3

LEMMA SpendWrites ==
  ASSUME Typed, NEW c \in Calls, Inv(c) \in Invitations, Spend(c)
  PROVE  /\ \A j \in Invitations :
               /\ record'[j].stored = record[j].stored
               /\ record'[j].mode = record[j].mode
               /\ record'[j].nudged = record[j].nudged
               /\ record'[j].consumed = IF j = Inv(c) THEN record[j].consumed \cup {"first"}
                                                     ELSE record[j].consumed
         /\ \A j \in Invitations :
               admitted'[j] = IF j = Inv(c) THEN admitted[j] + 1 ELSE admitted[j]
<1>1. record \in [Invitations -> Records] /\ admitted \in [Invitations -> Nat]
  BY DEF Typed
<1> DEFINE k == Inv(c)
<1>2. /\ record' = [record EXCEPT ![k].consumed = @ \cup {"first"}]
      /\ admitted' = [admitted EXCEPT ![k] = @ + 1]
  BY DEF Spend, KeyOf
<1> HIDE DEF k
<1>3. /\ \A j \in Invitations :
            /\ record'[j].stored = record[j].stored
            /\ record'[j].mode = record[j].mode
            /\ record'[j].nudged = record[j].nudged
            /\ record'[j].consumed = IF j = k THEN record[j].consumed \cup {"first"}
                                             ELSE record[j].consumed
  BY <1>1, <1>2 DEF Records
<1>4. \A j \in Invitations : admitted'[j] = IF j = k THEN admitted[j] + 1 ELSE admitted[j]
  BY <1>1, <1>2
<1>5. QED BY <1>3, <1>4 DEF k

-----------------------------------------------------------------------------
(* An invitation is spent once.                                            *)

\* Each part is about a few variables: a step that leaves them alone keeps it.
LEMMA SpentByKeyKept == ASSUME IInv, Next PROVE SpentByKey'
<1>1. Typed /\ SpentByKey /\ CallsKnow
  BY DEF IInv
<1>2. ASSUME NEW i \in Invitations, Ask(i) PROVE SpentByKey'
  BY <1>1, <1>2, AskWrites DEF SpentByKey, Ask
<1>3. ASSUME NEW i \in Invitations, PutRecord(i) \/ Delete(i) PROVE SpentByKey'
  BY <1>1, <1>3, StoreWrites DEF SpentByKey, PutRecord, Delete, Inviting
<1>4. CASE \/ \E i \in Invitations : Expire(i)
           \/ \E n \in Reminders : WriteAlias(n)
           \/ \E v \in Revokers : MarkRevoked(v)
  <2>1. UNCHANGED admitted
    BY <1>4 DEF Expire, WriteAlias, MarkRevoked, Inviting
  <2>2. QED BY <1>1, <1>4, <2>1, MarksOnly DEF SpentByKey
<1>5. ASSUME NEW c \in Calls, Consume(c) \/ Transact(c) PROVE SpentByKey'
  <2>1. CASE UNCHANGED << record, admitted >>
    BY <1>1, <2>1 DEF SpentByKey
  <2>2. CASE Spend(c) /\ "first" \notin record[Inv(c)].consumed
    <3>1. Inv(c) \in Invitations
      BY <1>1, <1>5 DEF CallsKnow, Inv, Consume, Transact
    <3>2. record[Inv(c)].consumed = {} /\ admitted[Inv(c)] = 0
      BY <1>1, <2>2, <3>1 DEF SpentByKey
    <3>3. \A j \in Invitations :
             /\ record'[j].consumed = IF j = Inv(c) THEN record[j].consumed \cup {"first"}
                                                    ELSE record[j].consumed
             /\ admitted'[j] = IF j = Inv(c) THEN admitted[j] + 1 ELSE admitted[j]
      BY <1>1, <2>2, <3>1, SpendWrites
    <3>4. record'[Inv(c)].consumed = {"first"}
      BY <3>1, <3>2, <3>3
    <3>5. admitted'[Inv(c)] = 1
      <4>1. admitted'[Inv(c)] = admitted[Inv(c)] + 1
        BY <3>1, <3>3
      <4>2. QED BY <3>2, <4>1
    <3>6. QED BY <1>1, <3>3, <3>4, <3>5 DEF SpentByKey
  <2>3. QED BY <1>5, <2>1, <2>2 DEF Consume, Transact, Redeemable, Pending, KeyOf
<1>6. CASE UNCHANGED << record, admitted >>
  BY <1>1, <1>6 DEF SpentByKey
<1>7. QED
  BY <1>2, <1>3, <1>4, <1>5, <1>6
  DEF Next, Mint, AddInvitee, ClaimRole, Undo, UndoRole, Confer, RecordModeration,
      Present, Check, Vend, RemoveExpiration, Reread, Restore, SignIn, Redeeming,
      FindPending, MailReminder, Find, RemoveMember, ReadHolding, ClearModeration,
      RemoveHolding, Inviting

LEMMA StagedKept == ASSUME IInv, Next PROVE Staged'
<1>1. Typed /\ Staged /\ CallsKnow
  BY DEF IInv
<1>2. ASSUME NEW i \in Invitations, Ask(i) PROVE Staged'
  BY <1>1, <1>2, AskWrites DEF Typed, Staged, Ask, Created
<1>3. ASSUME NEW i \in Invitations, PutRecord(i) \/ Delete(i) PROVE Staged'
  BY <1>1, <1>3, StoreWrites DEF Typed, Staged, PutRecord, Delete, Inviting, Created, Exists
<1>4. CASE \/ \E i \in Invitations : Expire(i)
           \/ \E n \in Reminders : WriteAlias(n)
           \/ \E v \in Revokers : MarkRevoked(v)
  <2>1. UNCHANGED << create, expiring, holds >>
    BY <1>4 DEF Expire, WriteAlias, MarkRevoked, Inviting
  <2>2. QED BY <1>1, <1>4, <2>1, MarksOnly DEF Staged
<1>5. ASSUME NEW i \in Invitations, Mint(i) \/ AddInvitee(i) \/ Undo(i) PROVE Staged'
  BY <1>1, <1>5 DEF Typed, Staged, Mint, AddInvitee, Undo, Created
<1>6. ASSUME NEW i \in Invitations,
             ClaimRole(i) \/ UndoRole(i) \/ Confer(i) \/ RecordModeration(i)
      PROVE  Staged'
  BY <1>1, <1>6 DEF Typed, Staged, ClaimRole, UndoRole, Confer, RecordModeration, Created
<1>7. ASSUME NEW c \in Calls, Consume(c) \/ Transact(c) PROVE Staged'
  <2>1. UNCHANGED << create, expiring, holds >>
    BY <1>7 DEF Consume, Transact, Redeeming
  <2>2. CASE UNCHANGED record
    BY <1>1, <2>1, <2>2 DEF Staged
  <2>3. CASE Spend(c) /\ Exists(Inv(c))
    <3>1. Inv(c) \in Invitations
      BY <1>1, <1>7 DEF CallsKnow, Inv, Consume, Transact
    <3>2. QED BY <1>1, <2>1, <2>3, <3>1, SpendWrites DEF Staged, Exists
  <2>4. QED BY <1>7, <2>2, <2>3 DEF Consume, Transact, Redeemable, Pending, KeyOf
<1>8. ASSUME NEW c \in Calls, RemoveExpiration(c) \/ Restore(c) PROVE Staged'
  <2>1. create[Inv(c)] = "sent" /\ UNCHANGED << create, holds, record >>
    BY <1>1, <1>8 DEF CallsKnow, Inv, RemoveExpiration, Restore, Redeeming
  <2>2. \A i \in Invitations : i \in expiring /\ i # Inv(c) => i \in expiring'
    BY <1>8 DEF RemoveExpiration, Restore
  <2>3. QED BY <1>1, <2>1, <2>2 DEF Staged
<1>9. ASSUME NEW v \in Revokers, RemoveHolding(v) PROVE Staged'
  BY <1>1, <1>9 DEF Typed, Staged, RemoveHolding, Inviting
<1>10. CASE UNCHANGED << record, create, expiring, holds >>
  BY <1>1, <1>10 DEF Staged
<1>11. QED
  BY <1>2, <1>3, <1>4, <1>5, <1>6, <1>7, <1>8, <1>9, <1>10
  DEF Next, Present, Check, Vend, Reread, SignIn, Redeeming,
      FindPending, MailReminder, Find, RemoveMember, ReadHolding, ClearModeration, Inviting

-----------------------------------------------------------------------------
(* What the calls at work know, and who signs in as whom.                  *)

LEMMA CallsKnowKept == ASSUME IInv, Next PROVE CallsKnow'
<1>1. Typed /\ CallsKnow
  BY DEF IInv
<1>2. ASSUME NEW i \in Invitations,
             \/ Mint(i) \/ AddInvitee(i) \/ ClaimRole(i) \/ Undo(i) \/ UndoRole(i)
             \/ Confer(i) \/ RecordModeration(i)
      PROVE  CallsKnow'
  <2>1. UNCHANGED << call, record >>
    BY <1>2 DEF Mint, AddInvitee, ClaimRole, Undo, UndoRole, Confer, RecordModeration
  <2>2. \A j \in Invitations : create[j] = "sent" => create'[j] = "sent"
    BY <1>1, <1>2 DEF Typed, Mint, AddInvitee, ClaimRole, Undo, UndoRole, Confer,
                     RecordModeration, Created
  <2>3. QED BY <1>1, <2>1, <2>2 DEF CallsKnow
<1>3. ASSUME NEW i \in Invitations, Ask(i) \/ PutRecord(i) \/ Delete(i) PROVE CallsKnow'
  <2>1. UNCHANGED call
    BY <1>3 DEF Ask, PutRecord, Delete, Inviting
  <2>2. \A j \in Invitations : create[j] = "sent" => create'[j] = "sent"
    BY <1>1, <1>3 DEF Typed, Ask, PutRecord, Delete, Inviting, Created
  <2>3. \A j \in Invitations : create[j] = "sent" => record'[j].mode = record[j].mode
    BY <1>1, <1>3, AskWrites, StoreWrites DEF Ask
  <2>4. QED BY <1>1, <2>1, <2>2, <2>3 DEF CallsKnow
<1>4. CASE \/ \E i \in Invitations : Expire(i)
           \/ \E n \in Reminders : WriteAlias(n)
           \/ \E v \in Revokers : MarkRevoked(v)
  <2>1. UNCHANGED << call, create >>
    BY <1>4 DEF Expire, WriteAlias, MarkRevoked, Inviting
  <2>2. QED BY <1>1, <1>4, <2>1, MarksOnly DEF CallsKnow
<1>5. ASSUME NEW c \in Calls,
             \/ Present(c) \/ Check(c) \/ Consume(c) \/ Vend(c) \/ RemoveExpiration(c)
             \/ Transact(c) \/ Reread(c) \/ Restore(c)
      PROVE  CallsKnow'
  <2>1. UNCHANGED create
    BY <1>5 DEF Present, Check, Consume, Vend, RemoveExpiration, Transact, Reread, Restore,
               Redeeming
  <2>2. \A j \in Invitations : record'[j].mode = record[j].mode
    <3>1. CASE UNCHANGED record
      BY <3>1
    <3>2. CASE Spend(c) /\ call[c].pc \in {"consume", "transact"}
      <4>1. Inv(c) \in Invitations
        BY <1>1, <3>2 DEF CallsKnow, Inv
      <4>2. QED BY <1>1, <3>2, <4>1, SpendWrites
    <3>3. QED BY <1>5, <3>1, <3>2 DEF Present, Check, Consume, Vend, RemoveExpiration,
                                     Transact, Reread, Restore
  <2>3. CASE Present(c)
    BY <1>1, <2>1, <2>2, <2>3 DEF Typed, CallsKnow, Present, Answers
  <2>4. CASE Check(c)
    BY <1>1, <2>1, <2>2, <2>4
    DEF Typed, Redemptions, CallsKnow, Check, Answers, Goes, Redeemable, Mode, Inv
  <2>5. CASE Consume(c) \/ Vend(c) \/ RemoveExpiration(c) \/ Transact(c) \/ Reread(c) \/ Restore(c)
    <3>1. \A d \in Calls \ {c} : call'[d] = call[d]
      BY <1>1, <2>5 DEF Typed, Consume, Vend, RemoveExpiration, Transact, Reread, Restore,
                       Answers, Goes
    <3>2. \/ call'[c].pc = "over"
          \/ /\ call'[c].inv = call[c].inv /\ call'[c].sub = call[c].sub
             /\ \/ call[c].pc = "consume" /\ call'[c].pc = "vend"
                \/ /\ call[c].pc \in {"expiration", "transact", "reread"}
                   /\ call'[c].pc \in {"transact", "reread", "restore"}
      <4>1. call \in [Calls -> Redemptions]
        BY <1>1 DEF Typed
      <4>2. CASE Answers(c)
        BY <4>1, <4>2 DEF Answers
      <4>3. ASSUME NEW at, Goes(c, at)
            PROVE  /\ call'[c].pc = at
                   /\ call'[c].inv = call[c].inv /\ call'[c].sub = call[c].sub
        BY <4>1, <4>3 DEF Goes, Redemptions
      <4>4. QED BY <2>5, <4>2, <4>3 DEF Consume, Vend, RemoveExpiration, Transact, Reread, Restore
    <3>3. QED BY <1>1, <2>1, <2>2, <3>1, <3>2 DEF CallsKnow
  <2>6. QED BY <1>5, <2>3, <2>4, <2>5
<1>6. CASE UNCHANGED << record, create, call >>
  BY <1>1, <1>6 DEF CallsKnow
<1>7. QED
  BY <1>2, <1>3, <1>4, <1>5, <1>6
  DEF Next, SignIn, FindPending, MailReminder, Find, RemoveMember, ReadHolding,
      ClearModeration, RemoveHolding, Inviting, Redeeming

LEMMA BindingsKept == ASSUME IInv, Next PROVE Bindings'
<1>1. Typed /\ Bindings /\ Staged /\ CallsKnow /\ SpentByKey
  BY DEF IInv
<1>2. ASSUME NEW i \in Invitations, Ask(i) PROVE Bindings'
  <2>1. UNCHANGED identity /\ record[i].consumed = {}
    BY <1>1, <1>2 DEF Ask, Staged
  <2>2. QED BY <1>1, <1>2, <2>1, AskWrites DEF Bindings, Bound
<1>3. ASSUME NEW i \in Invitations, PutRecord(i) \/ Delete(i) PROVE Bindings'
  <2>1. UNCHANGED identity
    BY <1>3 DEF PutRecord, Delete, Inviting
  <2>2. QED BY <1>1, <1>3, <2>1, StoreWrites DEF Bindings, Bound
<1>4. CASE \/ \E i \in Invitations : Expire(i)
           \/ \E n \in Reminders : WriteAlias(n)
           \/ \E v \in Revokers : MarkRevoked(v)
  <2>1. UNCHANGED identity
    BY <1>4 DEF Expire, WriteAlias, MarkRevoked, Inviting
  <2>2. QED BY <1>1, <1>4, <2>1, MarksOnly DEF Bindings, Bound
<1>5. ASSUME NEW c \in Calls, Consume(c) PROVE Bindings'
  <2>1. UNCHANGED identity /\ Inv(c) \in Invitations
    BY <1>1, <1>5 DEF Consume, CallsKnow, Inv
  <2>2. CASE UNCHANGED record
    BY <1>1, <2>1, <2>2 DEF Bindings, Bound
  <2>3. CASE Spend(c) /\ record[Inv(c)].mode = "link"
    BY <1>1, <2>1, <2>3, SpendWrites DEF Bindings, Bound
  <2>4. QED BY <1>5, <2>2, <2>3 DEF Consume, Redeemable
<1>6. ASSUME NEW c \in Calls, Transact(c) PROVE Bindings'
  <2>1. CASE UNCHANGED << record, identity >>
    BY <1>1, <2>1 DEF Bindings, Bound
  <2>2. CASE /\ Spend(c) /\ BindTo(c) /\ identity[call[c].sub] = NoOne
             /\ "first" \notin record[Inv(c)].consumed
    <3> DEFINE k == Inv(c)
               u == call[c].sub
    <3>1. k \in Invitations /\ u \in Subjects
      BY <1>1, <1>6 DEF CallsKnow, Transact, Inv
    <3>2. /\ identity' \in [Subjects -> Invitations \cup {Own, NoOne}]
          /\ identity'[u] = k /\ \A s \in Subjects \ {u} : identity'[s] = identity[s]
      BY <1>1, <2>2, <3>1 DEF Typed, BindTo
    <3>3. record[k].consumed = {} /\ ~Bound(k)
      BY <1>1, <2>2, <3>1 DEF SpentByKey, Bindings
    <3>4. \A j \in Invitations :
             /\ record'[j].mode = record[j].mode
             /\ record'[j].consumed = IF j = k THEN record[j].consumed \cup {"first"}
                                              ELSE record[j].consumed
      BY <1>1, <2>2, <3>1, SpendWrites
    <3>5. \A s \in Subjects : identity[s] # k
      BY <3>3 DEF Bound
    <3>6. NoOne \notin Invitations /\ identity[u] = NoOne
      BY <2>2, InvitationAssumption
    <3> HIDE DEF k, u
    <3>7. \A i \in Invitations : Bound(i)' <=> (Bound(i) \/ i = k)
      BY <3>1, <3>2, <3>6 DEF Bound
    <3>8. \A s, t \in Subjects :
             identity'[s] \in Invitations /\ identity'[s] = identity'[t] => s = t
      BY <1>1, <3>1, <3>2, <3>5 DEF Bindings
    <3>9. QED BY <1>1, <3>4, <3>7, <3>8 DEF Bindings
  <2>3. QED BY <1>6, <2>1, <2>2 DEF Transact, Redeemable, Pending, KeyOf
<1>7. ASSUME NEW s \in Subjects, SignIn(s) PROVE Bindings'
  <2>1. /\ UNCHANGED record
        /\ identity'[s] = Own /\ \A t \in Subjects \ {s} : identity'[t] = identity[t]
    BY <1>1, <1>7 DEF SignIn, Typed
  <2>2. identity[s] \notin Invitations /\ Own \notin Invitations
    BY <1>7, InvitationAssumption DEF SignIn
  <2>3. QED BY <1>1, <2>1, <2>2 DEF Bindings, Bound
<1>8. CASE UNCHANGED << record, identity >>
  BY <1>1, <1>8 DEF Bindings, Bound
<1>9. QED
  BY <1>2, <1>3, <1>4, <1>5, <1>6, <1>7, <1>8
  DEF Next, Mint, AddInvitee, ClaimRole, Undo, UndoRole, Confer, RecordModeration,
      Present, Check, Vend, RemoveExpiration, Reread, Restore, Redeeming,
      FindPending, MailReminder, Find, RemoveMember, ReadHolding, ClearModeration,
      RemoveHolding, Inviting

-----------------------------------------------------------------------------
(* Lapsing, revoking, reminding and the role.                              *)

\* A redemption is one call's, and nothing else moves a call.
LEMMA OtherCalls ==
  ASSUME Typed, NEW c \in Calls,
         \/ Present(c) \/ Check(c) \/ Consume(c) \/ Vend(c) \/ RemoveExpiration(c)
         \/ Transact(c) \/ Reread(c) \/ Restore(c)
  PROVE  \A d \in Calls \ {c} : call'[d] = call[d]
<1>1. call \in [Calls -> Redemptions]
  BY DEF Typed
<1>2. \/ \E x : call' = [call EXCEPT ![c] = x]
      \/ \E at : call' = [call EXCEPT ![c].pc = at]
  BY DEF Present, Check, Consume, Vend, RemoveExpiration, Transact, Reread, Restore, Answers, Goes
<1>3. QED BY <1>1, <1>2

LEMMA LapsingKept == ASSUME IInv, Next PROVE RefusedStillLapses'
<1> DEFINE Busy(c) == call[c].pc \in {"transact", "reread", "restore"}
           Away(j) == \E c \in Calls : Inv(c) = j /\ Busy(c)
           Lapses(j) == Exists(j) /\ ~Bound(j) /\ j \notin stuck /\ ~Away(j) => j \in expiring
           Kept == \A j \in Invitations : Lapses(j)'
<1>1. /\ Typed /\ RefusedStillLapses /\ Bindings /\ Staged /\ CallsKnow
      /\ NoOne \notin Invitations
  BY InvitationAssumption DEF IInv
<1>2. \A j \in Invitations : Lapses(j)
  BY <1>1 DEF RefusedStillLapses
<1>3. SUFFICES Kept
  BY DEF RefusedStillLapses
<1> HIDE DEF Away, Busy
<1>4. ASSUME NEW c \in Calls, ~Busy(c),
             \/ Present(c) \/ Check(c) \/ Consume(c) \/ Vend(c) \/ RemoveExpiration(c)
             \/ Transact(c) \/ Reread(c) \/ Restore(c)
      PROVE  \A j \in Invitations : Away(j) => Away(j)'
  BY <1>1, <1>4, OtherCalls DEF Away, Busy, Inv
<1>5. ASSUME NEW c \in Calls, Busy(c),
             \/ Present(c) \/ Check(c) \/ Consume(c) \/ Vend(c) \/ RemoveExpiration(c)
             \/ Transact(c) \/ Reread(c) \/ Restore(c)
      PROVE  \A j \in Invitations \ {Inv(c)} : Away(j) => Away(j)'
  BY <1>1, <1>5, OtherCalls DEF Away, Busy, Inv
<1>6. ASSUME UNCHANGED << call, expiring, identity >>, stuck \subseteq stuck',
             \A j \in Invitations : Exists(j)' => Exists(j)
      PROVE  Kept
  BY <1>2, <1>6 DEF Bound, Away, Busy, Inv
<1>7. ASSUME NEW i \in Invitations, Ask(i) \/ Delete(i)
      PROVE  Kept
  <2>1. \A j \in Invitations : Exists(j)' => Exists(j)
    BY <1>1, <1>7, AskWrites, StoreWrites DEF Exists, Delete
  <2>2. QED BY <1>6, <1>7, <2>1 DEF Ask, Delete, Inviting
<1>8. ASSUME NEW i \in Invitations, PutRecord(i)
      PROVE  Kept
  <2>1. i \in expiring /\ UNCHANGED << call, expiring, identity, stuck >>
    BY <1>1, <1>8 DEF PutRecord, Staged
  <2>2. \A j \in Invitations : Exists(j)' => Exists(j) \/ j = i
    BY <1>1, <1>8, StoreWrites DEF Exists
  <2>3. QED BY <1>2, <2>1, <2>2 DEF Bound, Away, Busy, Inv
<1>9. CASE \/ \E i \in Invitations : Expire(i)
           \/ \E n \in Reminders : WriteAlias(n)
           \/ \E v \in Revokers : MarkRevoked(v)
  <2>1. UNCHANGED << call, expiring, identity, stuck >>
    BY <1>9 DEF Expire, WriteAlias, MarkRevoked, Inviting
  <2>2. QED BY <1>1, <1>6, <1>9, <2>1, MarksOnly DEF Exists
<1>10. ASSUME NEW i \in Invitations, Mint(i)
       PROVE  Kept
  BY <1>2, <1>10 DEF Mint, Bound, Exists, Away, Busy, Inv
<1>11. ASSUME UNCHANGED << call, expiring, identity, record >>, stuck \subseteq stuck'
       PROVE  Kept
  BY <1>6, <1>11 DEF Exists
<1>12. ASSUME NEW c \in Calls, Present(c) \/ Check(c) \/ Consume(c) \/ Vend(c)
       PROVE  Kept
  <2>1. ~Busy(c) /\ UNCHANGED << expiring, identity, stuck >>
    BY <1>12 DEF Busy, Present, Check, Consume, Vend
  <2>2. \A j \in Invitations : Exists(j)' => Exists(j)
    <3>1. CASE UNCHANGED record
      BY <3>1 DEF Exists
    <3>2. CASE Spend(c) /\ call[c].pc = "consume"
      <4>1. Inv(c) \in Invitations
        BY <1>1, <3>2 DEF CallsKnow, Inv
      <4>2. QED BY <1>1, <3>2, <4>1, SpendWrites DEF Exists
    <3>3. QED BY <1>12, <3>1, <3>2 DEF Present, Check, Consume, Vend
  <2>3. QED BY <1>2, <1>4, <1>12, <2>1, <2>2 DEF Bound
<1>13. ASSUME NEW c \in Calls, RemoveExpiration(c)
       PROVE  Kept
  <2> PICK k \in Invitations : k = Inv(c)
    BY <1>1, <1>13 DEF RemoveExpiration, CallsKnow, Inv
  <2>1. ~Busy(c) /\ UNCHANGED << record, identity >>
    BY <1>13 DEF Busy, RemoveExpiration
  <2>2. \/ UNCHANGED << expiring, stuck >>
        \/ /\ expiring' = expiring \ {k} /\ stuck \subseteq stuck'
           /\ k \in stuck' \/ Away(k)'
    <3>1. CASE Goes(c, "transact")
      <4>1. call'[c].pc = "transact" /\ call'[c].inv = call[c].inv
        BY <1>1, <3>1 DEF Goes, Typed, Redemptions
      <4>2. Away(k)'
        BY <4>1 DEF Away, Busy, Inv
      <4>3. QED BY <1>13, <4>2 DEF RemoveExpiration
    <3>2. QED BY <1>13, <3>1 DEF RemoveExpiration
  <2>3. \A j \in Invitations : Away(j) => Away(j)'
    BY <1>4, <1>13, <2>1
  <2>4. \A j \in Invitations : (Exists(j)' <=> Exists(j)) /\ (Bound(j)' <=> Bound(j))
    BY <2>1 DEF Exists, Bound
  <2>5. SUFFICES ASSUME NEW j \in Invitations PROVE Lapses(j)'
    OBVIOUS
  <2>6. Lapses(j)
    BY <1>2
  <2>7. QED BY <2>2, <2>3, <2>4, <2>6
<1>14. ASSUME NEW c \in Calls, Transact(c) \/ Reread(c) \/ Restore(c)
       PROVE  Kept
  <2> PICK k \in Invitations : k = Inv(c)
    BY <1>1, <1>14 DEF CallsKnow, Inv, Transact, Reread, Restore
  <2>1. Busy(c) /\ call[c].sub \in Subjects /\ record[k].mode = "sign-in"
    BY <1>1, <1>14 DEF Busy, CallsKnow, Inv, Transact, Reread, Restore
  <2>2. \A j \in Invitations \ {k} : Away(j) => Away(j)'
    BY <1>5, <1>14, <2>1
  <2>3. expiring \subseteq expiring' /\ stuck \subseteq stuck'
    BY <1>14 DEF Transact, Reread, Restore
  <2>4. \A j \in Invitations : Exists(j)' => Exists(j)
    <3>1. CASE UNCHANGED record
      BY <3>1 DEF Exists
    <3>2. CASE Spend(c)
      BY <1>1, <2>1, <3>2, SpendWrites DEF Exists
    <3>3. QED BY <1>14, <3>1, <3>2 DEF Transact, Reread, Restore
  <2>5. \A j \in Invitations : Bound(j) => Bound(j)'
    <3>1. CASE UNCHANGED identity
      BY <3>1 DEF Bound
    <3>2. CASE BindTo(c) /\ identity[call[c].sub] = NoOne
      BY <1>1, <2>1, <3>2 DEF BindTo, Bound, Typed
    <3>3. QED BY <1>14, <3>1, <3>2 DEF Transact, Reread, Restore
  <2>6. ASSUME NEW at \in {"reread", "restore"}, Goes(c, at) PROVE Away(k)'
    <3>1. call'[c].pc = at /\ call'[c].inv = call[c].inv
      BY <1>1, <2>6 DEF Goes, Typed, Redemptions
    <3>2. QED BY <3>1 DEF Away, Busy, Inv
  <2>7. Lapses(k)'
    <3>1. CASE Transact(c)
      <4>1. CASE BindTo(c)
        BY <1>1, <2>1, <4>1 DEF BindTo, Bound, Typed
      <4>2. QED BY <2>6, <3>1, <4>1 DEF Transact
    <3>2. CASE Reread(c)
      <4>1. CASE ~Exists(k) \/ "first" \in record[k].consumed
        <5>1. ~Exists(k) \/ Bound(k)
          BY <1>1, <2>1, <4>1 DEF Bindings
        <5>2. ~Exists(k)' \/ Bound(k)'
          BY <2>1, <2>4, <2>5, <5>1
        <5>3. QED BY <5>2
      <4>2. QED BY <2>6, <3>2, <4>1 DEF Reread, KeyOf
    <3>3. CASE Restore(c)
      BY <3>3 DEF Restore
    <3>4. QED BY <1>14, <3>1, <3>2, <3>3
  <2>8. ASSUME NEW j \in Invitations, j # k PROVE Lapses(j)'
    <3>1. Lapses(j)
      BY <1>2
    <3>2. QED BY <2>2, <2>3, <2>4, <2>5, <2>8, <3>1
  <2>9. QED BY <2>7, <2>8
<1>15. ASSUME NEW s \in Subjects, SignIn(s)
       PROVE  Kept
  <2>1. \A j \in Invitations : Bound(j) => Bound(j)'
    BY <1>1, <1>15 DEF SignIn, Typed, Bound
  <2>2. QED BY <1>2, <1>15, <2>1 DEF SignIn, Redeeming, Exists, Away, Busy, Inv
<1>16. QED
  BY <1>7, <1>8, <1>9, <1>10, <1>11, <1>12, <1>13, <1>14, <1>15
  DEF Next, AddInvitee, ClaimRole, Undo, UndoRole, Confer, RecordModeration,
      FindPending, MailReminder, Find, RemoveMember, ReadHolding, ClearModeration,
      RemoveHolding, Inviting

LEMMA RevocationsKept == ASSUME IInv, Next PROVE Revocations'
<1>1. Typed /\ Revocations /\ Staged /\ CallsKnow
  BY DEF IInv
<1>2. ASSUME UNCHANGED revoke, member' \subseteq member,
             \A j \in Invitations : record[j].stored # "no" => record'[j].stored # "no"
      PROVE  Revocations'
  BY <1>1, <1>2 DEF Revocations
<1>3. ASSUME NEW i \in Invitations, Ask(i) \/ PutRecord(i) \/ Delete(i) PROVE Revocations'
  <2>1. UNCHANGED << revoke, member >>
    BY <1>3 DEF Ask, PutRecord, Delete, Inviting
  <2>2. QED BY <1>1, <1>2, <1>3, <2>1, AskWrites, StoreWrites
<1>4. CASE (\E i \in Invitations : Expire(i)) \/ (\E n \in Reminders : WriteAlias(n))
  <2>1. UNCHANGED << revoke, member >>
    BY <1>4 DEF Expire, WriteAlias, Inviting
  <2>2. QED BY <1>1, <1>2, <1>4, <2>1, MarksOnly
<1>5. ASSUME NEW i \in Invitations, AddInvitee(i) PROVE Revocations'
  BY <1>1, <1>5 DEF AddInvitee, Revocations, Staged
<1>6. ASSUME NEW i \in Invitations, Undo(i) PROVE Revocations'
  BY <1>2, <1>6 DEF Undo
<1>7. ASSUME NEW c \in Calls, Consume(c) \/ Transact(c) PROVE Revocations'
  <2>1. UNCHANGED << revoke, member >>
    BY <1>7 DEF Consume, Transact, Redeeming
  <2>2. CASE UNCHANGED record
    BY <1>2, <2>1, <2>2
  <2>3. CASE Spend(c)
    <3>1. Inv(c) \in Invitations
      BY <1>1, <1>7 DEF CallsKnow, Inv, Consume, Transact
    <3>2. QED BY <1>1, <1>2, <2>1, <2>3, <3>1, SpendWrites
  <2>4. QED BY <1>7, <2>2, <2>3 DEF Consume, Transact
<1>8. ASSUME NEW v \in Revokers,
             \/ Find(v) \/ MarkRevoked(v) \/ RemoveMember(v)
             \/ ReadHolding(v) \/ ClearModeration(v) \/ RemoveHolding(v)
      PROVE  Revocations'
  <2>1. revoke \in [Revokers -> Others]
    BY <1>1 DEF Typed
  <2>2. \A j \in Invitations : record'[j].stored = record[j].stored
    BY <1>1, <1>8, MarksOnly DEF Find, RemoveMember, ReadHolding, ClearModeration, RemoveHolding
  <2>3. member' \subseteq member
    BY <1>8 DEF Find, MarkRevoked, RemoveMember, ReadHolding, ClearModeration, RemoveHolding
  <2>4. \A w \in Revokers \ {v} : revoke'[w] = revoke[w]
    BY <1>8, <2>1 DEF Find, MarkRevoked, RemoveMember, ReadHolding, ClearModeration,
                     RemoveHolding, RevocationGoes, RevocationFails
  <2> DEFINE Went == /\ revoke'[v].inv = revoke[v].inv
                     /\ revoke[v].pc \in {"mark", "remove", "release", "take"}
                     /\ revoke'[v].pc \in {"release", "take", "done"} =>
                           revoke[v].inv \notin member' \/ revoke[v].pc \in {"release", "take"}
  <2>5. \/ revoke'[v].pc = "over"
        \/ revoke'[v].pc = "mark" /\ revoke'[v].inv \in Invitations /\ Exists(revoke'[v].inv)
        \/ Went
    <3>1. CASE Find(v)
      BY <2>1, <3>1 DEF Find
    <3>2. CASE RevocationFails(v)
      BY <2>1, <3>2 DEF RevocationFails
    <3>3. ASSUME NEW at, RevocationGoes(v, at)
          PROVE  revoke'[v].pc = at /\ revoke'[v].inv = revoke[v].inv
      BY <2>1, <3>3 DEF RevocationGoes, Others
    <3>4. CASE MarkRevoked(v) \/ RemoveMember(v) \/ RemoveHolding(v)
      BY <3>2, <3>3, <3>4 DEF MarkRevoked, RemoveMember, RemoveHolding
    <3>5. ASSUME NEW at, NEW b, revoke' = [revoke EXCEPT ![v].pc = at, ![v].saw = b]
          PROVE  revoke'[v].pc = at /\ revoke'[v].inv = revoke[v].inv
      BY <2>1, <3>5 DEF Others
    <3>6. ASSUME revoke' = [revoke EXCEPT ![v].saw = FALSE]
          PROVE  revoke'[v].pc = revoke[v].pc /\ revoke'[v].inv = revoke[v].inv
      BY <2>1, <3>6 DEF Others
    <3>7. CASE ReadHolding(v) \/ ClearModeration(v)
      <4>1. revoke[v].pc \in {"release", "take"}
        BY <3>7 DEF ReadHolding, ClearModeration
      <4>2. \/ \E at : RevocationGoes(v, at)
            \/ \E at, b : revoke' = [revoke EXCEPT ![v].pc = at, ![v].saw = b]
            \/ revoke' = [revoke EXCEPT ![v].saw = FALSE]
        BY <3>7 DEF ReadHolding, ClearModeration
      <4>3. revoke'[v].inv = revoke[v].inv
        BY <3>3, <3>5, <3>6, <4>2
      <4>4. QED BY <4>1, <4>3
    <3>8. QED BY <1>8, <3>1, <3>4, <3>7
  <2>6. QED BY <1>1, <2>2, <2>3, <2>4, <2>5 DEF Revocations, Exists
<1>9. CASE UNCHANGED << record, member, revoke >>
  BY <1>2, <1>9
<1>10. QED
  BY <1>3, <1>4, <1>5, <1>6, <1>7, <1>8, <1>9
  DEF Next, Mint, ClaimRole, UndoRole, Confer, RecordModeration,
      Present, Check, Vend, RemoveExpiration, Reread, Restore, SignIn, Redeeming,
      FindPending, MailReminder, Inviting

LEMMA RemindingKept == ASSUME IInv, Next PROVE Reminding'
<1>1. Typed /\ Reminding /\ CallsKnow
  BY DEF IInv
<1>2. ASSUME UNCHANGED << remind, reminded >>,
             \A j \in Invitations : record[j].nudged => record'[j].nudged
      PROVE  Reminding'
  BY <1>1, <1>2 DEF Reminding, Mailing
<1>3. ASSUME NEW i \in Invitations, Ask(i) \/ PutRecord(i) \/ Delete(i) PROVE Reminding'
  <2>1. UNCHANGED << remind, reminded >>
    BY <1>3 DEF Ask, PutRecord, Delete, Inviting
  <2>2. QED BY <1>1, <1>2, <1>3, <2>1, AskWrites, StoreWrites
<1>4. CASE (\E i \in Invitations : Expire(i)) \/ (\E v \in Revokers : MarkRevoked(v))
  <2>1. UNCHANGED << remind, reminded >>
    BY <1>4 DEF Expire, MarkRevoked, Inviting
  <2>2. QED BY <1>1, <1>2, <1>4, <2>1, MarksOnly
<1>5. ASSUME NEW c \in Calls, Consume(c) \/ Transact(c) PROVE Reminding'
  <2>1. UNCHANGED << remind, reminded >>
    BY <1>5 DEF Consume, Transact, Redeeming
  <2>2. CASE UNCHANGED record
    BY <1>2, <2>1, <2>2
  <2>3. CASE Spend(c)
    <3>1. Inv(c) \in Invitations
      BY <1>1, <1>5 DEF CallsKnow, Inv, Consume, Transact
    <3>2. QED BY <1>1, <1>2, <2>1, <2>3, <3>1, SpendWrites
  <2>4. QED BY <1>5, <2>2, <2>3 DEF Consume, Transact
<1>6. ASSUME NEW n \in Reminders, FindPending(n) PROVE Reminding'
  BY <1>1, <1>6 DEF Typed, Reminding, Mailing, FindPending, Inviting
<1>7. ASSUME NEW n \in Reminders, WriteAlias(n) PROVE Reminding'
  <2>1. /\ remind \in [Reminders -> Others] /\ record \in [Invitations -> Records]
        /\ UNCHANGED reminded
    BY <1>1, <1>7 DEF Typed, WriteAlias
  <2>2. \A j \in Invitations : record[j].nudged => record'[j].nudged
    BY <1>1, <1>7, MarksOnly
  <2>3. \A k \in Reminders \ {n} : remind'[k] = remind[k]
    BY <1>7, <2>1 DEF WriteAlias, ReminderGoes, ReminderEnds
  <2>4. CASE remind'[n].pc = "over"
    BY <1>1, <2>1, <2>2, <2>3, <2>4 DEF Reminding, Mailing
  <2>5. CASE /\ Remindable(remind[n].inv) /\ ReminderGoes(n, "mail")
             /\ record' = [record EXCEPT ![remind[n].inv].nudged = TRUE]
    <3> DEFINE i == remind[n].inv
    <3>1. remind'[n].inv = i
      BY <2>1, <2>5 DEF ReminderGoes, Others
    <3>2. ~record[i].nudged /\ (i \in Invitations => record'[i].nudged)
      BY <2>1, <2>5 DEF Remindable, Records
    <3>3. \A k \in Reminders : i \in Invitations => ~Mailing(k, i) /\ reminded[i] = 0
      BY <1>1, <3>2 DEF Reminding
    <3> HIDE DEF i
    <3>4. QED BY <1>1, <2>1, <2>2, <2>3, <3>1, <3>2, <3>3 DEF Reminding, Mailing
  <2>6. QED BY <1>7, <2>1, <2>4, <2>5 DEF WriteAlias, ReminderEnds
<1>8. ASSUME NEW n \in Reminders, MailReminder(n) PROVE Reminding'
  <2>1. /\ UNCHANGED record
        /\ remind'[n].pc = "over" /\ \A k \in Reminders \ {n} : remind'[k] = remind[k]
    BY <1>1, <1>8 DEF Typed, MailReminder, ReminderEnds
  <2>2. CASE UNCHANGED reminded
    BY <1>1, <2>1, <2>2 DEF Reminding, Mailing
  <2>3. CASE reminded' = [reminded EXCEPT ![remind[n].inv] = @ + 1]
    <3> DEFINE i == remind[n].inv
    <3>1. i \in Invitations => /\ reminded[i] = 0 /\ record[i].nudged
                              /\ \A k \in Reminders \ {n} : ~Mailing(k, i)
      BY <1>1, <1>8 DEF Reminding, Mailing, MailReminder
    <3>2. \A j \in Invitations : reminded'[j] = IF j = i THEN reminded[j] + 1 ELSE reminded[j]
      BY <1>1, <2>3 DEF Typed
    <3> HIDE DEF i
    <3>3. QED BY <1>1, <2>1, <3>1, <3>2 DEF Reminding, Mailing
  <2>4. QED BY <1>8, <2>2, <2>3 DEF MailReminder
<1>9. CASE UNCHANGED << record, remind, reminded >>
  BY <1>2, <1>9
<1>10. QED
  BY <1>3, <1>4, <1>5, <1>6, <1>7, <1>8, <1>9
  DEF Next, Mint, AddInvitee, ClaimRole, Undo, UndoRole, Confer, RecordModeration,
      Present, Check, Vend, RemoveExpiration, Reread, Restore, SignIn, Redeeming,
      Find, RemoveMember, ReadHolding, ClearModeration, RemoveHolding, Inviting

LEMMA HoldingKept == ASSUME IInv, Next PROVE Holding'
<1>1. Typed /\ Holding /\ Staged
  BY DEF IInv
<1>2. ASSUME UNCHANGED << create, holds >>, stuck \subseteq stuck' PROVE Holding'
  BY <1>1, <1>2 DEF Holding
<1>3. ASSUME NEW i \in Invitations, Ask(i) \/ AddInvitee(i) \/ Undo(i) PROVE Holding'
  <2>1. UNCHANGED holds /\ stuck \subseteq stuck'
    BY <1>3 DEF Ask, AddInvitee, Undo
  <2>2. \A j \in Invitations : create'[j] \in {"undo", "refused"}
                                => create[j] \in {"undo", "refused"} \/ holds[j] = "no"
    BY <1>1, <1>3 DEF Typed, Staged, Ask, AddInvitee, Undo, Created
  <2>3. QED BY <1>1, <2>1, <2>2 DEF Holding
<1>4. ASSUME NEW i \in Invitations, Mint(i) \/ PutRecord(i) \/ Confer(i) PROVE Holding'
  BY <1>1, <1>4 DEF Typed, Holding, Mint, PutRecord, Confer, Created
<1>5. ASSUME NEW i \in Invitations, ClaimRole(i) \/ RecordModeration(i) PROVE Holding'
  <2>1. /\ stuck \subseteq stuck'
        /\ \A j \in Invitations \ {i} : create'[j] = create[j]
        /\ create'[i] \in {"undo", "refused"} => holds'[i] = "no" \/ i \in stuck'
    BY <1>1, <1>5 DEF Typed, Staged, ClaimRole, RecordModeration, Created
  <2>2. /\ \A j \in Invitations \ {i} : holds'[j] = holds[j]
        /\ holds'[i] = holds[i] \/ MayHold(i)
    BY <1>1, <1>5 DEF Typed, ClaimRole, RecordModeration
  <2>3. QED BY <1>1, <2>1, <2>2 DEF Holding, MayHold
<1>6. ASSUME NEW i \in Invitations, UndoRole(i) PROVE Holding'
  BY <1>1, <1>6 DEF Typed, Holding, UndoRole, Created
<1>7. ASSUME NEW v \in Revokers, RemoveHolding(v) PROVE Holding'
  BY <1>1, <1>7 DEF Typed, Holding, RemoveHolding, Inviting
<1>8. QED
  BY <1>2, <1>3, <1>4, <1>5, <1>6, <1>7
  DEF Next, Expire, Delete, Present, Check, Consume, Vend, RemoveExpiration, Transact, Reread,
      Restore, SignIn, Redeeming, FindPending, WriteAlias, MailReminder,
      Find, MarkRevoked, RemoveMember, ReadHolding, ClearModeration, Inviting

LEMMA LedgerKept == ASSUME IInv, Next PROVE Ledger'
<1>1. (\E c \in Calls : TRUE) \/ UNCHANGED admitted
  BY DEF Next, Ask, Mint, AddInvitee, ClaimRole, PutRecord, Undo, UndoRole, Confer,
         RecordModeration, Expire, Delete, SignIn, FindPending, WriteAlias, MailReminder,
         Find, MarkRevoked, RemoveMember, ReadHolding, ClearModeration, RemoveHolding, Inviting
<1>2. (\E n \in Reminders : TRUE) \/ UNCHANGED reminded
  BY DEF Next, Ask, Mint, AddInvitee, ClaimRole, PutRecord, Undo, UndoRole, Confer,
         RecordModeration, Expire, Delete, Present, Check, Consume, Vend, RemoveExpiration,
         Transact, Reread, Restore, SignIn, Redeeming,
         Find, MarkRevoked, RemoveMember, ReadHolding, ClearModeration, RemoveHolding, Inviting
<1>3. QED BY <1>1, <1>2 DEF IInv, Ledger

-----------------------------------------------------------------------------
(* The promises.                                                           *)

LEMMA NextKeepsIInv == IInv /\ [Next]_vars => IInv'
<1>1. ASSUME IInv, Next PROVE IInv'
  BY <1>1, TypedKept, SpentByKeyKept, StagedKept, CallsKnowKept, BindingsKept, LapsingKept,
     RevocationsKept, RemindingKept, HoldingKept, LedgerKept
  DEF IInv
<1>2. ASSUME IInv, UNCHANGED vars PROVE IInv'
  BY <1>2
  DEF IInv, vars, Typed, SpentByKey, Staged, CallsKnow, Bindings, Bound, RefusedStillLapses,
      Exists, Inv, Revocations, Reminding, Mailing, Holding, Ledger
<1>3. QED BY <1>1, <1>2

LEMMA IInvHolds == Spec => []IInv
  BY InitIInv, NextKeepsIInv, PTL DEF Spec

\* A set with no two elements has at most one.
LEMMA AtMostOne ==
  ASSUME NEW S, \A x, y \in S : x = y
  PROVE  Cardinality(S) <= 1
<1>1. CASE S = {}
  BY <1>1, FS_EmptySet
<1>2. ASSUME NEW x \in S PROVE Cardinality(S) <= 1
  <2>1. S = {x}
    OBVIOUS
  <2>2. QED BY <2>1, FS_Singleton
<1>3. QED BY <1>1, <1>2

\* Type correctness of the invitations (invitations/index.ts, the credential exchange and
\* their stores): what is spent and what is reminded is bounded by the calls there are.
THEOREM TypeCorrect == Spec => []TypeOK
<1>1. IInv => TypeOK
  <2> SUFFICES ASSUME IInv PROVE TypeOK
    OBVIOUS
  <2>1. /\ Cardinality(Calls) \in Nat /\ (Calls # {} => Cardinality(Calls) >= 1)
        /\ Cardinality(Reminders) \in Nat /\ (Reminders # {} => Cardinality(Reminders) >= 1)
    <3>1. Cardinality(Calls) \in Nat /\ Cardinality(Reminders) \in Nat
      BY InvitationAssumption, FS_CardinalityType
    <3>2. (Cardinality(Calls) = 0 <=> Calls = {}) /\ (Cardinality(Reminders) = 0 <=> Reminders = {})
      BY InvitationAssumption, FS_EmptySet
    <3>3. QED BY <3>1, <3>2
  <2>2. \A i \in Invitations : admitted[i] \in 0..Cardinality(Calls)
    BY <2>1 DEF IInv, SpentByKey, Ledger
  <2>3. \A i \in Invitations : reminded[i] \in 0..Cardinality(Reminders)
    <3>1. \A i \in Invitations : reminded[i] \in Nat /\ reminded[i] <= 1
      BY DEF IInv, Typed, Reminding
    <3>2. QED BY <2>1, <3>1 DEF IInv, Ledger
  <2>4. QED BY <2>2, <2>3 DEF IInv, Typed, TypeOK
<1>2. QED BY <1>1, IInvHolds, PTL

\* An invitation is spent once, through whichever link and by whatever races: the one
\* conditional write of redeemTokenKey and of the sign-in's transaction, on the one key.
THEOREM AdmittedOnceThm == Spec => []AdmittedOnce
<1>1. IInv => AdmittedOnce
  BY DEF IInv, SpentByKey, AdmittedOnce
<1>2. QED BY <1>1, IInvHolds, PTL

\* A sign-in invitation is spent exactly when one subject signs in as its invitee: the
\* transaction that writes the row spends the invitation.
THEOREM BoundSpentThm == Spec => []BoundSpent
<1>1. IInv => BoundSpent
  <2> SUFFICES ASSUME IInv, NEW i \in Invitations
               PROVE  /\ record[i].mode = "sign-in" => (Bound(i) <=> record[i].consumed # {})
                      /\ Cardinality({ s \in Subjects : identity[s] = i }) <= 1
    BY DEF BoundSpent
  <2>1. record[i].mode = "sign-in" => (Bound(i) <=> record[i].consumed # {})
    BY DEF IInv, Bindings
  <2>2. \A s, t \in { x \in Subjects : identity[x] = i } : s = t
    BY DEF IInv, Bindings
  <2>3. QED BY <2>1, <2>2, AtMostOne
<1>2. QED BY <1>1, IInvHolds, PTL

\* An invitee whose sign-ins were refused lapses with its invitation: the restoring of the
\* expiration after a refused transaction (the reread of the record decides it).
THEOREM RefusedStillLapsesThm == Spec => []RefusedStillLapses
<1>1. IInv => RefusedStillLapses
  BY DEF IInv
<1>2. QED BY <1>1, IInvHolds, PTL

\* A revocation answered as done left no member: markRevoked goes on to the removal
\* whoever revoked before, and no creation adds the invitee of a stored record.
THEOREM RevokedOutThm == Spec => []RevokedOut
<1>1. IInv => RevokedOut
  BY DEF IInv, Revocations, RevokedOut
<1>2. QED BY <1>1, IInvHolds, PTL

\* An invitation is reminded at most once: the mark and the second link are one
\* transaction, and the call that wrote it mails once.
THEOREM RemindedOnceThm == Spec => []RemindedOnce
<1>1. IInv => RemindedOnce
  BY DEF IInv, Reminding, RemindedOnce
<1>2. QED BY <1>1, IInvHolds, PTL

\* The role has one holder, and a creation that failed keeps none but where its clean-up
\* failed too, or the answer of its claim was lost: the claim before the record, and the
\* undoing of it.
THEOREM HolderInvitedThm == Spec => []HolderInvited
<1>1. IInv => HolderInvited
  <2> SUFFICES ASSUME IInv PROVE HolderInvited
    OBVIOUS
  <2>1. \A i, j \in { k \in Invitations : holds[k] # "no" } : i = j
    BY DEF IInv, Holding
  <2>2. QED BY <2>1, AtMostOne DEF IInv, Holding, HolderInvited
<1>2. QED BY <1>1, IInvHolds, PTL
=============================================================================
