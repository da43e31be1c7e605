----------------------------- MODULE TurnRecord -----------------------------
(***************************************************************************)
(* The turn-state record of one (conversation, assistant) pair and the     *)
(* conditional writes lambda/src/lib/turn-lock.ts makes to it.  One        *)
(* DynamoDB item holds the turn lock, the queue of waiting messages, the   *)
(* triage claim, the recorded follow-ups and the parked answer, and every  *)
(* function of turn-lock.ts is one conditional UpdateItem on it.  The      *)
(* notice, its stage and the drain task live on the same item and are in   *)
(* TurnNotice.tla; the split offer decides nothing here and is left out.   *)
(*                                                                         *)
(* A write is a pair of operators: XOk(r, ...) is its condition expression *)
(* and X(r, ...) the record it leaves.  The read-then-write loops of the   *)
(* code (three attempts conditional on the list not having moved) are one  *)
(* atomic write here; QueueList.tla models the loops themselves.           *)
(*                                                                         *)
(* The lists `queued` and `amendments` are sets: their order decides only  *)
(* which message an overflow drops, which QueueList.tla keeps.             *)
(***************************************************************************)
EXTENDS Naturals, FiniteSets

CONSTANTS
    Messages,   \* user messages; a message's id is also the id of the turn answering it
    Readings,   \* ids of reading (triage) turns
    Tasks,      \* ids of tasks and of the pickup turns that work them
    QueueMax,   \* TURN_QUEUE_MAX
    NoOne       \* the absent attribute

ASSUME QueueMaxAssumption == QueueMax \in Nat \ {0}

ASSUME IdsAssumption ==
    /\ NoOne \notin Messages \cup Readings \cup Tasks
    /\ Messages \cap Readings = {}
    /\ Messages \cap Tasks = {}
    /\ Readings \cap Tasks = {}

\* Correlation ids: answering turns, reading turns and pickup turns.
Turns == Messages \cup Readings \cup Tasks

TurnRecords ==
    [ holder     : Turns \cup {NoOne},      \* the turn that may answer
      queued     : SUBSET Messages,         \* messages waiting to be read
      amendments : SUBSET Messages,         \* follow-ups recorded for the running answer
      triagedBy  : Readings \cup {NoOne},   \* the reading that may read the queue
      parked     : Messages \cup Tasks \cup {NoOne},   \* the finished answer waiting for a reading
      resumedBy  : Readings \cup {NoOne} ]  \* the reading that resumed it

EmptyRecord ==
    [ holder |-> NoOne, queued |-> {}, amendments |-> {}, triagedBy |-> NoOne,
      parked |-> NoOne, resumedBy |-> NoOne ]

-----------------------------------------------------------------------------
(* The lock.  `expired` says that the holder's last write is older than     *)
(* STALE_AFTER_MS.                                                          *)

\* Mutants (see PROJECT.json): the takeover claims whoever holds; a release or the end of a
\* claim is lost; a hand-over does not ask who holds.
ClaimTurnFromAnyone(r, turn, expired) == r.holder # turn \/ expired
HandOverFromAnyone(r, from, to, onlyWhileReading) == onlyWhileReading => r.triagedBy = to
ReleaseNothing(r) == r

ClaimTurnOk(r, turn, expired) == r.holder \in {NoOne, turn} \/ expired
ClaimTurn(r, turn)            == [r EXCEPT !.holder = turn]

HandOverOk(r, from, to, onlyWhileReading) ==
    r.holder = from /\ (onlyWhileReading => r.triagedBy = to)
HandOver(r, to) == [r EXCEPT !.holder = to]

ReleaseOk(r, turn) == r.holder = turn
Release(r)         == [r EXCEPT !.holder = NoOne]

-----------------------------------------------------------------------------
(* The queue.                                                               *)

Enqueue(r, msg) == [r EXCEPT !.queued = @ \cup {msg}]

OverflowOk(r)        == Cardinality(r.queued) > QueueMax
DropOldest(r, oldest) == [r EXCEPT !.queued = @ \ oldest]

\* Mutant: the clear takes the whole queue, and not what was read.
ClearQueueWhole(r, ids) == [r EXCEPT !.queued = {}, !.triagedBy = NoOne]

\* A reading ends the queue it read, and its claim with it.  What it did not read stays.
ClearQueueOk(r, reading) == r.triagedBy = reading
ClearQueue(r, ids)       == [r EXCEPT !.queued = @ \ ids, !.triagedBy = NoOne]

TakeFoldedOffQueue(r, ids) == [r EXCEPT !.queued = @ \ ids]

-----------------------------------------------------------------------------
(* The triage claim.  `expired` says that it is older than                  *)
(* TRIAGE_CLAIM_TTL_SECONDS.                                                *)

\* Mutants: a claim overwrites another; a claim names the turn that holds the lock.
ClaimTriageAlways(r, reading, expired) == r.triagedBy # reading \/ expired
ClaimTriageForHolder(r, reading)       == [r EXCEPT !.triagedBy = r.holder]

ClaimTriageOk(r, reading, expired) == r.triagedBy \in {NoOne, reading} \/ expired
ClaimTriage(r, reading)            == [r EXCEPT !.triagedBy = reading]

\* Mutants: a claim is given up whoever has it, or by nobody.
ReleaseTriageOfAnyone(r, reading) == [r EXCEPT !.triagedBy = NoOne]
ReleaseTriageOfNobody(r, reading) == r

ReleaseTriage(r, reading) ==
    IF r.triagedBy = reading THEN [r EXCEPT !.triagedBy = NoOne] ELSE r

-----------------------------------------------------------------------------
(* Follow-ups: recorded by a reading for the answer in flight, folded by    *)
(* that answer, or returned to the queue when nothing is left to fold them. *)

RecordAmendments(r, ids) == [r EXCEPT !.amendments = @ \cup (ids \cap r.queued)]

ClearAmendments(r, ids) == [r EXCEPT !.amendments = @ \ ids]

ReturnAmendments(r) ==
    [r EXCEPT !.queued = @ \cup r.amendments, !.amendments = {}]

-----------------------------------------------------------------------------
(* The parked answer.                                                       *)

ParkOk(r, turn, reader) ==
    /\ reader # turn
    /\ r.holder = turn
    /\ r.triagedBy = reader
    /\ r.queued # {}
    /\ r.parked = NoOne
Park(r, turn, reader) == [r EXCEPT !.holder = reader, !.parked = turn]

BeginResumeOk(r, reader) ==
    /\ r.parked # NoOne
    /\ r.resumedBy = NoOne
    /\ r.holder \in {reader, NoOne}
BeginResume(r, reader) == [r EXCEPT !.holder = r.parked, !.resumedBy = reader]

\* Mutant: the abandoned resume still counts as under way.
AbandonResumeHalf(r, reader) == [r EXCEPT !.holder = reader]

AbandonResumeOk(r, reader, turn) == r.holder = turn /\ r.resumedBy = reader
AbandonResume(r, reader)         == [r EXCEPT !.holder = reader, !.resumedBy = NoOne]

\* Mutant: the answer is left in the record.
TakeParkedAndLeave(r)     == [r EXCEPT !.resumedBy = NoOne]

TakeParkedOk(r, turn) == r.parked = turn /\ r.resumedBy # NoOne
TakeParked(r)         == [r EXCEPT !.parked = NoOne, !.resumedBy = NoOne]

=============================================================================
