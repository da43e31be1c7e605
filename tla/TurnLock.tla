------------------------------ MODULE TurnLock ------------------------------
(***************************************************************************)
(* The turn lock of one (conversation, assistant) pair as a protocol: who  *)
(* may answer, how the lock moves between answering turns, readings of the *)
(* queue and pickup turns, and what happens to an answer parked while a    *)
(* reading runs.  Every step is one conditional write of turn-lock.ts      *)
(* together with what the writer does about its result.                    *)
(*                                                                         *)
(* This is what the lock promises; the queue is left out (a step that      *)
(* depends on the queue may be taken whatever is queued).  TurnQueue.tla   *)
(* models the runs step by step and is checked to implement this module.   *)
(*                                                                         *)
(* A turn is a correlation id.  Messages and Tasks are turns that answer,  *)
(* Readings are turns that read the queue and write no answer.             *)
(***************************************************************************)
EXTENDS TurnRecord

VARIABLES
    lock,    \* the lock attributes of the turn record
    phase    \* how far each turn has come

vars == <<lock, phase>>

Answers == Messages \cup Tasks

Locks == [ holder    : Turns \cup {NoOne},
           triagedBy : Readings \cup {NoOne},
           parked    : Answers \cup {NoOne},
           resumedBy : Readings \cup {NoOne} ]

\* idle      no run is under way; an amended turn is idle until the router claims again
\* named     holds the lock, or a claim on the queue, for a run that has not been admitted
\* working   admitted while the record named this turn as holder (for a reading: admitted)
\* alone     admitted while the record did not
\* parked    the answer is finished and waits in the record
\* resuming  a run that delivers the parked answer has been invoked
\* dead      the run ended without settling the lock
\* over      the answer is done; a reading that is done is idle again, nothing tells it
\*           from one that never ran
Phases == {"idle", "named", "working", "alone", "parked", "resuming", "dead", "over"}

TypeOK == lock \in Locks /\ phase \in [Turns -> Phases]

Init ==
    /\ lock = [holder |-> NoOne, triagedBy |-> NoOne, parked |-> NoOne, resumedBy |-> NoOne]
    /\ phase = [t \in Turns |-> "idle"]

Running(t) == phase[t] \in {"working", "alone"}

\* STALE_AFTER_MS: a running holder ends, or writes the record, before its hold is stale.
Expired == lock.holder # NoOne /\ phase[lock.holder] \notin {"working"}

Become(t, p) == phase' = [phase EXCEPT ![t] = p]

Done(t) == IF t \in Readings THEN "idle" ELSE "over"

Drop(t) == IF ReleaseOk(lock, t) THEN Release(lock) ELSE lock

\* An answer is admitted whether or not the record still names it.
Admitted(t) == IF t \in Answers /\ lock.holder # t THEN "alone" ELSE "working"

-----------------------------------------------------------------------------
(* The router claims the lock for a message or for a ready task.            *)

Claim(t) ==
    /\ phase[t] = "idle"
    /\ ClaimTurnOk(lock, t, Expired)
    /\ lock' = ClaimTurn(lock, t)
    /\ Become(t, "named")

\* The claim could not be written, or its holder was gone by the time it was read:
\* the router goes on as if it had claimed.
GoOnUnclaimed(t) ==
    /\ phase[t] = "idle"
    /\ Become(t, "named")
    /\ UNCHANGED lock

\* The processor admits the run.
Start(t) ==
    /\ phase[t] = "named"
    /\ Become(t, Admitted(t))
    /\ UNCHANGED lock

\* The run could not be dispatched, or every attempt to run it failed.
NotStarted(t) ==
    /\ phase[t] \in {"named", "resuming"}
    /\ lock' = Drop(t)
    /\ Become(t, Done(t))

\* An answer folds its follow-ups, or a reading reads again, under the same id.
Redispatch(t) ==
    /\ Running(t)
    /\ Become(t, IF t \in Readings THEN "named" ELSE "idle")
    /\ UNCHANGED lock

\* A turn is left without settling the lock: the platform ends its run, and with it the
\* readings it had claimed the queue for, or a write that would settle it is not made.
Die(t) ==
    /\ phase[t] \in {"named", "working", "alone", "resuming"}
    /\ \E lost \in SUBSET {r \in Readings : phase[r] = "named"} :
          phase' = [u \in Turns |-> IF u = t \/ u \in lost THEN "dead" ELSE phase[u]]
    /\ UNCHANGED lock

-----------------------------------------------------------------------------
(* A finished answer parks while a reading runs, and is resumed once.       *)

ParkAnswer(t, reader) ==
    /\ Running(t)
    /\ lock.holder = t /\ lock.triagedBy = reader /\ lock.parked = NoOne
    /\ lock' = Park(lock, t, reader)
    /\ Become(t, "parked")

ResumeParked(reader) ==
    /\ Running(reader)
    /\ BeginResumeOk(lock, reader)
    /\ lock' = BeginResume(lock, reader)
    /\ Become(lock.parked, "resuming")

\* The invocation that should deliver the answer could not be made.
AbandonResumed(reader) ==
    /\ Running(reader)
    /\ lock.parked # NoOne /\ phase[lock.parked] = "resuming"
    /\ AbandonResumeOk(lock, reader, lock.parked)
    /\ lock' = AbandonResume(lock, reader)
    /\ Become(lock.parked, "parked")

DeliverParked(t) ==
    /\ phase[t] = "resuming"
    /\ TakeParkedOk(lock, t)
    /\ lock' = TakeParked(lock)
    /\ Become(t, Admitted(t))

-----------------------------------------------------------------------------
(* The end of a run settles the lock.                                       *)

\* To a follow-up reading this run has claimed the queue for, or to the one that
\* has the queue claimed already.
HandToReading(t, reader) ==
    /\ Running(t) /\ reader # t
    /\ HandOverOk(lock, t, reader, FALSE)
    /\ lock.triagedBy = reader \/ phase[reader] = "named"
    /\ lock' = HandOver(lock, reader)
    /\ Become(t, Done(t))

HandToPickup(t, task) ==
    /\ Running(t)
    /\ phase[task] = "idle"
    /\ HandOverOk(lock, t, task, FALSE)
    /\ lock' = HandOver(lock, task)
    /\ phase' = [phase EXCEPT ![t] = Done(t), ![task] = "named"]

ReleaseAtExit(t) ==
    /\ Running(t)
    /\ lock' = Drop(t)
    /\ Become(t, Done(t))

-----------------------------------------------------------------------------
(* The claim on the queue.                                                  *)

ClaimQueue(reader, expired) ==
    /\ phase[reader] = "idle"
    /\ ClaimTriageOk(lock, reader, expired)
    /\ lock' = ClaimTriage(lock, reader)
    /\ Become(reader, "named")

\* Ended with the queue it read, or given up for a reading that does not start.
EndQueueClaim(reader) ==
    /\ lock' = ReleaseTriage(lock, reader)
    /\ \/ UNCHANGED phase
       \/ phase[reader] = "named" /\ Become(reader, "idle")

-----------------------------------------------------------------------------
AnswerStep(t) ==
    \/ Claim(t) \/ GoOnUnclaimed(t)
    \/ \E reader \in Readings : ParkAnswer(t, reader)
    \/ DeliverParked(t)

ReadingStep(reader) ==
    \/ \E expired \in BOOLEAN : ClaimQueue(reader, expired)
    \/ EndQueueClaim(reader)
    \/ ResumeParked(reader) \/ AbandonResumed(reader)

RunStep(t) ==
    \/ Start(t) \/ NotStarted(t) \/ Redispatch(t) \/ Die(t)
    \/ \E reader \in Readings : HandToReading(t, reader)
    \/ \E task \in Tasks : HandToPickup(t, task)
    \/ ReleaseAtExit(t)

Next ==
    \/ \E t \in Answers : AnswerStep(t)
    \/ \E r \in Readings : ReadingStep(r)
    \/ \E t \in Turns : RunStep(t)

Spec == Init /\ [][Next]_vars

-----------------------------------------------------------------------------
(* What the lock promises.                                                  *)

\* An answer admitted under the lock keeps it until it gives it up: no claim, hand-over,
\* resume or release of another turn takes it away (turn-lock.ts, every condition on
\* `holder`).  Two answers admitted under the lock are therefore never at work at once.
LockedAnswerHolds == \A t \in Answers : phase[t] = "working" => lock.holder = t

\* ADR-033 invariant A for answers: when an answer is over, or parked behind a reading,
\* the lock is not in its name.
FinishedAnswerHoldsNothing ==
    \A t \in Answers : phase[t] \in {"over", "parked"} => lock.holder # t

\* A parked answer stays in the record until a run takes it, the record never names
\* an answer that is still at work, and at most one run is under way to deliver it.
ParkedAnswerKept ==
    /\ \A t \in Answers : phase[t] \in {"parked", "resuming"} => lock.parked = t
    /\ lock.parked # NoOne => phase[lock.parked] \in {"parked", "resuming", "over", "dead"}
    /\ lock.resumedBy # NoOne => lock.parked # NoOne
    /\ \A t \in Answers : phase[t] = "parked" => lock.resumedBy = NoOne
=============================================================================
