-------------------------- MODULE TurnLock_proofs --------------------------
(***************************************************************************)
(* What the turn lock promises, for any messages, readings and tasks.  The *)
(* three promises of TurnLock.tla and its type invariant are together      *)
(* inductive: a claim or a resume may move the lock only because no answer *)
(* at work can be the one it is taken from, and that is known from         *)
(* LockedAnswerHolds itself; that a resumed answer is not at work is known *)
(* from ParkedAnswerKept.                                                  *)
(***************************************************************************)
EXTENDS TurnLock, TLAPS

IInv ==
    /\ TypeOK
    /\ LockedAnswerHolds
    /\ FinishedAnswerHoldsNothing
    /\ ParkedAnswerKept

USE DEF Turns, Answers, Become, Running, Done

-----------------------------------------------------------------------------
(* Types.                                                                   *)

\* Each write of the record leaves a lock.
LEMMA WritesKeepLocks ==
  ASSUME NEW l \in Locks
  PROVE  /\ \A t \in Turns : ClaimTurn(l, t) \in Locks
         /\ \A t \in Turns : HandOver(l, t) \in Locks
         /\ Release(l) \in Locks
         /\ \A r \in Readings : ClaimTriage(l, r) \in Locks
         /\ \A r \in Readings : ReleaseTriage(l, r) \in Locks
         /\ \A t \in Answers, r \in Readings : Park(l, t, r) \in Locks
         /\ \A r \in Readings : AbandonResume(l, r) \in Locks
         /\ \A r \in Readings : l.parked # NoOne => BeginResume(l, r) \in Locks
         /\ TakeParked(l) \in Locks
  BY DEF Locks, ClaimTurn, HandOver, Release, ClaimTriage, ReleaseTriage, Park,
         AbandonResume, BeginResume, TakeParked

\* Type correctness of the lock protocol (turn-lock.ts, the attributes of the record).
THEOREM TypeCorrect == Spec => []TypeOK
<1>1. Init => TypeOK
  BY DEF Init, TypeOK, Locks, Phases
<1>2. TypeOK /\ [Next]_vars => TypeOK'
  <2> SUFFICES ASSUME TypeOK, [Next]_vars PROVE TypeOK'
    OBVIOUS
  <2>1. ASSUME NEW t \in Answers, AnswerStep(t) PROVE TypeOK'
    BY <2>1, WritesKeepLocks
    DEF TypeOK, Phases, AnswerStep, Claim, GoOnUnclaimed, ParkAnswer, DeliverParked, Admitted
  <2>2. ASSUME NEW r \in Readings, ReadingStep(r) PROVE TypeOK'
    <3>1. CASE ResumeParked(r)
      <4>1. lock.parked \in Turns
        BY <3>1 DEF TypeOK, Locks, ResumeParked, BeginResumeOk
      <4>2. QED BY <3>1, <4>1, WritesKeepLocks
                DEF TypeOK, Phases, ResumeParked, BeginResumeOk
    <3>2. CASE AbandonResumed(r)
      BY <3>2, WritesKeepLocks DEF TypeOK, Phases, AbandonResumed
    <3>3. CASE (\E expired \in BOOLEAN : ClaimQueue(r, expired)) \/ EndQueueClaim(r)
      BY <3>3, WritesKeepLocks DEF TypeOK, Phases, ClaimQueue, EndQueueClaim
    <3>4. QED BY <2>2, <3>1, <3>2, <3>3 DEF ReadingStep
  <2>3. ASSUME NEW t \in Turns, RunStep(t) PROVE TypeOK'
    <3>1. CASE Start(t) \/ NotStarted(t) \/ Redispatch(t) \/ Die(t) \/ ReleaseAtExit(t)
      BY <3>1, WritesKeepLocks
      DEF TypeOK, Phases, Start, NotStarted, Redispatch, Die, ReleaseAtExit, Drop, Admitted
    <3>2. ASSUME NEW r \in Readings, HandToReading(t, r) PROVE TypeOK'
      BY <3>2, WritesKeepLocks DEF TypeOK, Phases, HandToReading
    <3>3. ASSUME NEW k \in Tasks, HandToPickup(t, k) PROVE TypeOK'
      BY <3>3, WritesKeepLocks DEF TypeOK, Phases, HandToPickup
    <3>4. QED BY <2>3, <3>1, <3>2, <3>3 DEF RunStep
  <2>4. CASE UNCHANGED vars
    BY <2>4 DEF TypeOK, vars
  <2>5. QED BY <2>1, <2>2, <2>3, <2>4 DEF Next
<1>3. QED BY <1>1, <1>2, PTL DEF Spec

-----------------------------------------------------------------------------
(* The inductive invariant, one lemma per kind of step that moves the lock. *)

LEMMA InitIInv == Init => IInv
  BY IdsAssumption
  DEF Init, IInv, TypeOK, Locks, Phases, LockedAnswerHolds, FinishedAnswerHoldsNothing,
      ParkedAnswerKept

\* A claim takes the lock from no answer at work: the lock is free, its own, or held
\* by a turn that is not running.
LEMMA ClaimStep == ASSUME NEW t \in Answers, IInv, Claim(t) PROVE IInv'
  BY IdsAssumption
  DEF IInv, TypeOK, Locks, Phases, LockedAnswerHolds, FinishedAnswerHoldsNothing,
      ParkedAnswerKept, Claim, ClaimTurnOk, ClaimTurn, Expired

LEMMA ParkStep ==
  ASSUME NEW t \in Answers, NEW reader \in Readings, IInv, ParkAnswer(t, reader) PROVE IInv'
  BY IdsAssumption
  DEF IInv, TypeOK, Locks, Phases, LockedAnswerHolds, FinishedAnswerHoldsNothing,
      ParkedAnswerKept, ParkAnswer, Park

\* A resume gives the lock to the parked answer, which is not at work, and takes it
\* from a reading or from nobody.
LEMMA ResumeStep ==
  ASSUME NEW reader \in Readings, IInv, ResumeParked(reader) PROVE IInv'
<1> DEFINE p == lock.parked
<1>1. p \in Answers /\ p # NoOne /\ p \notin Readings
  BY IdsAssumption DEF IInv, TypeOK, Locks, ResumeParked, BeginResumeOk
<1>2. /\ lock' = [lock EXCEPT !.holder = p, !.resumedBy = reader]
      /\ phase' = [phase EXCEPT ![p] = "resuming"]
  BY DEF ResumeParked, BeginResume
<1>3. TypeOK'
  BY <1>1, <1>2 DEF IInv, TypeOK, Locks, Phases
<1>4. \A t \in Answers : phase[t] # "working"
  BY IdsAssumption
  DEF IInv, LockedAnswerHolds, ResumeParked, BeginResumeOk, TypeOK, Locks
<1>5. LockedAnswerHolds'
  BY <1>1, <1>2, <1>4 DEF IInv, TypeOK, LockedAnswerHolds
<1>6. FinishedAnswerHoldsNothing'
  BY <1>1, <1>2 DEF IInv, TypeOK, Locks, FinishedAnswerHoldsNothing
<1>7. ParkedAnswerKept'
  <2>1. lock.resumedBy = NoOne
    BY DEF ResumeParked, BeginResumeOk
  <2>2. \A t \in Answers : phase[t] \in {"parked", "resuming"} => t = p
    BY DEF IInv, ParkedAnswerKept
  <2>3. lock'.parked = p /\ \A t \in Answers : t # p => phase'[t] = phase[t]
    BY <1>1, <1>2 DEF IInv, TypeOK, Locks
  <2>4. phase'[p] = "resuming"
    BY <1>1, <1>2 DEF IInv, TypeOK
  <2>5. QED BY <1>1, <2>2, <2>3, <2>4 DEF ParkedAnswerKept
<1>8. QED BY <1>3, <1>5, <1>6, <1>7 DEF IInv

LEMMA AbandonStep ==
  ASSUME NEW reader \in Readings, IInv, AbandonResumed(reader) PROVE IInv'
  BY IdsAssumption
  DEF IInv, TypeOK, Locks, Phases, LockedAnswerHolds, FinishedAnswerHoldsNothing,
      ParkedAnswerKept, AbandonResumed, AbandonResumeOk, AbandonResume

LEMMA DeliverStep == ASSUME NEW t \in Answers, IInv, DeliverParked(t) PROVE IInv'
  BY IdsAssumption
  DEF IInv, TypeOK, Locks, Phases, LockedAnswerHolds, FinishedAnswerHoldsNothing,
      ParkedAnswerKept, DeliverParked, TakeParkedOk, TakeParked, Admitted

LEMMA HandToReadingStep ==
  ASSUME NEW t \in Turns, NEW reader \in Readings, IInv, HandToReading(t, reader) PROVE IInv'
  BY IdsAssumption
  DEF IInv, TypeOK, Locks, Phases, LockedAnswerHolds, FinishedAnswerHoldsNothing,
      ParkedAnswerKept, HandToReading, HandOverOk, HandOver

LEMMA HandToPickupStep ==
  ASSUME NEW t \in Turns, NEW task \in Tasks, IInv, HandToPickup(t, task) PROVE IInv'
  BY IdsAssumption
  DEF IInv, TypeOK, Locks, Phases, LockedAnswerHolds, FinishedAnswerHoldsNothing,
      ParkedAnswerKept, HandToPickup, HandOverOk, HandOver

\* A run that ends, or never starts, drops only its own hold.
LEMMA EndStep ==
  ASSUME NEW t \in Turns, IInv, NotStarted(t) \/ ReleaseAtExit(t) PROVE IInv'
  BY IdsAssumption
  DEF IInv, TypeOK, Locks, Phases, LockedAnswerHolds, FinishedAnswerHoldsNothing,
      ParkedAnswerKept, NotStarted, ReleaseAtExit, Drop, ReleaseOk, Release

\* Steps that do not write the lock.
LEMMA QuietStep ==
  ASSUME NEW t \in Turns, IInv,
         Start(t) \/ Redispatch(t) \/ Die(t) \/ (t \in Answers /\ GoOnUnclaimed(t))
  PROVE  IInv'
  BY IdsAssumption
  DEF IInv, TypeOK, Locks, Phases, LockedAnswerHolds, FinishedAnswerHoldsNothing,
      ParkedAnswerKept, Start, Redispatch, Die, GoOnUnclaimed, Admitted

LEMMA QueueClaimStep ==
  ASSUME NEW reader \in Readings, IInv,
         (\E expired \in BOOLEAN : ClaimQueue(reader, expired)) \/ EndQueueClaim(reader)
  PROVE  IInv'
  BY IdsAssumption
  DEF IInv, TypeOK, Locks, Phases, LockedAnswerHolds, FinishedAnswerHoldsNothing,
      ParkedAnswerKept, ClaimQueue, ClaimTriage, EndQueueClaim, ReleaseTriage

LEMMA NextKeepsIInv == IInv /\ [Next]_vars => IInv'
<1> SUFFICES ASSUME IInv, [Next]_vars PROVE IInv'
  OBVIOUS
<1>1. ASSUME NEW t \in Answers, AnswerStep(t) PROVE IInv'
  BY <1>1, ClaimStep, QuietStep, ParkStep, DeliverStep DEF AnswerStep
<1>2. ASSUME NEW r \in Readings, ReadingStep(r) PROVE IInv'
  BY <1>2, QueueClaimStep, ResumeStep, AbandonStep DEF ReadingStep
<1>3. ASSUME NEW t \in Turns, RunStep(t) PROVE IInv'
  BY <1>3, QuietStep, EndStep, HandToReadingStep, HandToPickupStep DEF RunStep
<1>4. CASE UNCHANGED vars
  BY <1>4 DEF IInv, TypeOK, LockedAnswerHolds, FinishedAnswerHoldsNothing,
              ParkedAnswerKept, vars
<1>5. QED BY <1>1, <1>2, <1>3, <1>4 DEF Next

LEMMA IInvHolds == Spec => []IInv
  BY InitIInv, NextKeepsIInv, PTL DEF Spec

-----------------------------------------------------------------------------
(* The promises.                                                            *)

\* An answer admitted under the lock keeps it while it is at work (the conditions on
\* `holder` in turn-lock.ts).
THEOREM LockedAnswerHoldsThm == Spec => []LockedAnswerHolds
  BY IInvHolds, PTL DEF IInv

\* Two answers admitted under the lock are never at work at once: what ADR-033 is named
\* for, as far as the lock itself gives it.
THEOREM OneLockedAnswer ==
  Spec => [](\A t, u \in Answers : phase[t] = "working" /\ phase[u] = "working" => t = u)
<1>1. IInv => \A t, u \in Answers : phase[t] = "working" /\ phase[u] = "working" => t = u
  BY DEF IInv, LockedAnswerHolds
<1>2. QED BY <1>1, IInvHolds, PTL

\* ADR-033 invariant A, for answers: a finished answer holds nothing.
THEOREM FinishedAnswerHoldsNothingThm == Spec => []FinishedAnswerHoldsNothing
  BY IInvHolds, PTL DEF IInv

\* A parked answer stays in the record until one run takes it (parkTurnForReading,
\* beginResumeParkedTurn, abandonResumeParkedTurn, takeParkedTurn).
THEOREM ParkedAnswerKeptThm == Spec => []ParkedAnswerKept
  BY IInvHolds, PTL DEF IInv
=============================================================================
