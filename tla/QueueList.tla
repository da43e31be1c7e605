----------------------------- MODULE QueueList -----------------------------
(***************************************************************************)
(* The two lists of the turn record as lambda/src/lib/turn-lock.ts changes *)
(* them: most changes are a consistent read, a list computed from it, and  *)
(* a write conditional on the list not having moved, tried again a few     *)
(* times.  TurnRecord.tla takes each such loop for one atomic write, and   *)
(* AtomicWrites says that it is one.                                       *)
(*                                                                         *)
(* The callers are the router's invocation for each message, the readings, *)
(* the answer in flight, and the run that folded, which cleans the lists   *)
(* while the answer it dispatched again is already at work.  A list that   *)
(* DynamoDB holds no attribute for is the empty sequence: no write of the  *)
(* code leaves an empty one.                                               *)
(***************************************************************************)
EXTENDS TurnRecord, SequencesExt

CONSTANTS
    Answer,       \* the answer in flight
    Folder,       \* the run that folded, replaced by the run it dispatched
    Attempts,     \* attempts of a loop (3 in the code)
    PassLimit,    \* TRIAGE_MAX_PASSES
    FoldLimit,    \* AMENDMENT_FOLD_LIMIT
    MaxTakeovers  \* bound: claims taken from a reading that is still at work

ASSUME ListAssumption ==
    /\ Attempts \in Nat \ {0} /\ PassLimit \in Nat \ {0}
    /\ FoldLimit \in Nat /\ MaxTakeovers \in Nat
    /\ Answer # Folder /\ {Answer, Folder} \cap Turns = {}

VARIABLES
    queued, amendments, triagedBy,   \* the attributes of the record
    call,                            \* the call each caller is in
    takeovers                        \* takeovers so far

vars == <<queued, amendments, triagedBy, call, takeovers>>
lists == <<queued, amendments, triagedBy>>

Callers == Messages \cup Readings \cup {Answer, Folder}

\* The calls that read first and write on condition.
Loops == {"record", "clear", "unmark", "take", "return"}
Ops   == Loops \cup {"append", "trim", "idle", "claim", "read", "work", "over"}

NoView == [queued |-> <<>>, amendments |-> <<>>, triagedBy |-> NoOne]

Calls == [ op    : Ops,
           ids   : SUBSET Messages,   \* what the caller read, or folded
           amend : SUBSET Messages,   \* what the reading judged a follow-up
           next  : SUBSET Messages,   \* what the next pass of the reading reads
           n     : Nat,               \* the pass, or the folds taken
           tries : 0..Attempts - 1,   \* refused attempts
           got   : BOOLEAN,           \* the lists have been read
           view  : [queued : Seq(Messages), amendments : Seq(Messages),
                    triagedBy : Readings \cup {NoOne}] ]

TypeOK ==
    /\ queued \in Seq(Messages) /\ amendments \in Seq(Messages)
    /\ triagedBy \in Readings \cup {NoOne}
    /\ call \in [Callers -> Calls]
    /\ takeovers \in 0..MaxTakeovers

Fresh(op) ==
    [ op |-> op, ids |-> {}, amend |-> {}, next |-> {}, n |-> 0, tries |-> 0,
      got |-> FALSE, view |-> NoView ]

Init ==
    /\ queued = <<>> /\ amendments = <<>> /\ triagedBy = NoOne
    /\ call = [c \in Callers |-> Fresh(IF c \in Messages THEN "append"
                                       ELSE IF c = Answer THEN "work" ELSE "idle")]
    /\ takeovers = 0

-----------------------------------------------------------------------------
(* Helpers.                                                                 *)

In(c, op)  == call[c].op = op
Over(c)    == In(c, "over")

\* The members of a list that are among ids, in its order (SelectSeq, which the provers
\* cannot look into), and those that are not.
Only(list, ids) ==
    LET kept[n \in 0..Len(list)] ==
            IF n = 0 THEN <<>>
            ELSE IF list[n] \in ids THEN Append(kept[n - 1], list[n]) ELSE kept[n - 1]
    IN  kept[Len(list)]
Without(list, ids) == Only(list, ToSet(list) \ ids)

\* What a call reads of the record as it is now.
Now(c) == [ queued     |-> IF In(c, "unmark") THEN <<>> ELSE queued,
            amendments |-> IF In(c, "clear") \/ In(c, "take") THEN <<>> ELSE amendments,
            triagedBy  |-> IF In(c, "clear") THEN triagedBy ELSE NoOne ]

\* What follows a call, whether it wrote, found nothing to do, or gave up.
After(c) ==
    CASE In(c, "record") -> IF call[c].next # {} THEN "read" ELSE "clear"
      [] In(c, "clear")  -> IF Over(Answer) THEN "return" ELSE "over"
      [] In(c, "unmark") -> "take"
      [] In(c, "take")   -> "idle"
      [] In(c, "return") -> "over"

Finish(c) ==
    call' = [call EXCEPT ![c] = IF After(c) \in {"over", "idle"} THEN Fresh(After(c))
                                ELSE [@ EXCEPT !.op = After(c), !.got = FALSE,
                                               !.view = NoView, !.tries = 0]]

\* Mutant: a loop never gives up.
TryAgainForever(c) ==
    call' = [call EXCEPT ![c].got = FALSE, ![c].view = NoView, ![c].tries = @ + 1]

\* A refused write reads again, until the attempts are used up.
TryAgain(c) ==
    IF call[c].tries + 1 < Attempts
    THEN call' = [call EXCEPT ![c].got = FALSE, ![c].view = NoView, ![c].tries = @ + 1]
    ELSE Finish(c)

Seen(c) == call[c].view

ReadLists(c) ==
    /\ call[c].op \in Loops /\ ~call[c].got
    /\ call' = [call EXCEPT ![c].got = TRUE, ![c].view = Now(c)]
    /\ UNCHANGED <<lists, takeovers>>

Writing(c, op) == In(c, op) /\ call[c].got /\ UNCHANGED takeovers

-----------------------------------------------------------------------------
(* A message arrives (enqueueMessage).                                      *)

AppendMessage(m) ==
    /\ In(m, "append")
    /\ queued' = Append(queued, m)
    /\ call' = [call EXCEPT ![m].op = IF Len(queued') > QueueMax THEN "trim" ELSE "over",
                            ![m].view.queued = queued']
    /\ UNCHANGED <<amendments, triagedBy, takeovers>>

\* The oldest are dropped, unless the queue has moved: then the next message trims it.
Trim(m) ==
    /\ In(m, "trim")
    /\ queued' = IF queued = Seen(m).queued
                 THEN SubSeq(queued, Len(queued) - QueueMax + 1, Len(queued))
                 ELSE queued
    /\ call' = [call EXCEPT ![m].op = "over", ![m].view = NoView]
    /\ UNCHANGED <<amendments, triagedBy, takeovers>>

-----------------------------------------------------------------------------
(* A reading.                                                               *)

\* The queue is read, and then claimed; a claim that is old is taken over.
StartReading(r) ==
    /\ In(r, "idle") /\ queued # <<>>
    /\ call' = [call EXCEPT ![r].op = "claim", ![r].next = ToSet(queued)]
    /\ UNCHANGED <<lists, takeovers>>

ClaimQueue(r) ==
    /\ In(r, "claim")
    /\ \/ triagedBy = NoOne /\ UNCHANGED takeovers
       \/ triagedBy \notin {NoOne, r} /\ takeovers < MaxTakeovers /\ takeovers' = takeovers + 1
    /\ triagedBy' = r
    /\ call' = [call EXCEPT ![r].op = "read"]
    /\ UNCHANGED <<queued, amendments>>

\* The model judges what was read; the queue is looked at again, for another pass.
Judge(r) ==
    LET ids   == call[r].next
        moved == ~(ToSet(queued) \subseteq ids) /\ call[r].n + 1 < PassLimit
    IN  /\ In(r, "read")
        /\ \E amend \in IF Over(Answer) THEN {{}} ELSE SUBSET ids :
              call' = [call EXCEPT ![r].ids = ids, ![r].amend = amend, ![r].n = @ + 1,
                         ![r].next = IF moved THEN ToSet(queued) ELSE {},
                         ![r].op = IF amend # {} THEN "record" ELSE IF moved THEN "read" ELSE "clear"]
        /\ UNCHANGED <<lists, takeovers>>

\* Only what is still waiting is recorded, and only once.
RecordAmended(r) ==
    LET fresh == Only(Seen(r).queued, call[r].amend \ ToSet(Seen(r).amendments))
    IN  /\ Writing(r, "record")
        /\ IF fresh # <<>> /\ queued # Seen(r).queued
           THEN TryAgain(r) /\ UNCHANGED amendments
           ELSE Finish(r) /\ amendments' = amendments \o fresh
        /\ UNCHANGED <<queued, triagedBy>>

\* Mutant: the remainder is written whether or not a message has arrived.
ClearAnyway(r) ==
    /\ Writing(r, "clear")
    /\ IF triagedBy = r
       THEN queued' = Without(Seen(r).queued, call[r].ids) /\ triagedBy' = NoOne
       ELSE UNCHANGED <<queued, triagedBy>>
    /\ Finish(r)
    /\ UNCHANGED amendments

\* What was read leaves the queue, and the claim ends in the same write.  A reading that
\* was displaced leaves the queue to the reading that has the claim.
Clear(r) ==
    /\ Writing(r, "clear")
    /\ \/ /\ Seen(r).triagedBy # r
          /\ Finish(r) /\ UNCHANGED <<queued, triagedBy>>
       \/ /\ Seen(r).triagedBy = r
          /\ queued = Seen(r).queued /\ triagedBy = r
          /\ queued' = Without(queued, call[r].ids) /\ triagedBy' = NoOne
          /\ Finish(r)
       \/ /\ Seen(r).triagedBy = r
          /\ ~(queued = Seen(r).queued /\ triagedBy = r)
          /\ TryAgain(r) /\ UNCHANGED <<queued, triagedBy>>
    /\ UNCHANGED amendments

-----------------------------------------------------------------------------
(* The answer in flight.                                                    *)

\* The follow-ups recorded so far are folded: the answer is dispatched again, and the run
\* that folded is left with the lists.
Fold ==
    /\ In(Answer, "work") /\ call[Answer].n < FoldLimit
    /\ amendments # <<>> /\ In(Folder, "idle")
    /\ call' = [call EXCEPT ![Answer].n = @ + 1,
                            ![Folder].op = "unmark", ![Folder].ids = ToSet(amendments)]
    /\ UNCHANGED <<lists, takeovers>>

\* One attempt: if a follow-up was recorded meanwhile the list is left as it is.
Unmark ==
    /\ Writing(Folder, "unmark")
    /\ amendments' = IF amendments = Seen(Folder).amendments
                     THEN Without(amendments, call[Folder].ids) ELSE amendments
    /\ Finish(Folder)
    /\ UNCHANGED <<queued, triagedBy>>

\* Folded messages are no longer waiting.
TakeFolded ==
    LET rest == Without(Seen(Folder).queued, call[Folder].ids) IN
    /\ Writing(Folder, "take")
    /\ IF rest # Seen(Folder).queued /\ queued # Seen(Folder).queued
       THEN TryAgain(Folder) /\ UNCHANGED queued
       ELSE Finish(Folder) /\ queued' = IF rest = Seen(Folder).queued THEN queued ELSE rest
    /\ UNCHANGED <<amendments, triagedBy>>

\* The answer is delivered.
EndAnswer ==
    /\ In(Answer, "work")
    /\ call' = [call EXCEPT ![Answer] = Fresh("return")]
    /\ UNCHANGED <<lists, takeovers>>

\* Mutant: a follow-up is added to the queue it is still on.
ReturnAgain(c) ==
    LET v == Seen(c) IN
    /\ Writing(c, "return")
    /\ IF v.amendments # <<>> /\ ~(queued = v.queued /\ amendments = v.amendments)
       THEN TryAgain(c) /\ UNCHANGED <<queued, amendments>>
       ELSE /\ Finish(c)
            /\ queued' = queued \o v.amendments
            /\ amendments' = IF v.amendments = <<>> THEN amendments ELSE <<>>
    /\ UNCHANGED triagedBy

\* What was recorded and not folded goes back to the queue, in one write of both lists.
Return(c) ==
    LET v == Seen(c) IN
    /\ Writing(c, "return")
    /\ IF v.amendments # <<>> /\ ~(queued = v.queued /\ amendments = v.amendments)
       THEN TryAgain(c) /\ UNCHANGED <<queued, amendments>>
       ELSE /\ Finish(c)
            /\ queued' = queued \o Without(v.amendments, ToSet(v.queued))
            /\ amendments' = IF v.amendments = <<>> THEN amendments ELSE <<>>
    /\ UNCHANGED triagedBy

Next ==
    \/ \E c \in Callers : ReadLists(c)
    \/ \E m \in Messages : AppendMessage(m) \/ Trim(m)
    \/ \E r \in Readings : StartReading(r) \/ ClaimQueue(r) \/ Judge(r) \/ RecordAmended(r) \/ Clear(r)
    \/ Fold \/ Unmark \/ TakeFolded \/ EndAnswer
    \/ \E c \in Readings \cup {Answer} : Return(c)

Spec == Init /\ [][Next]_vars

-----------------------------------------------------------------------------
(* Properties.                                                              *)

\* The lists as a turn record.
Record == [EmptyRecord EXCEPT !.queued = ToSet(queued), !.amendments = ToSet(amendments),
                              !.triagedBy = triagedBy]

\* One write of TurnRecord.tla, made to the record as it is now.
AtomicWrite ==
    \/ \E m \in Messages : In(m, "append") /\ Record' = Enqueue(Record, m)
    \/ \E oldest \in SUBSET ToSet(queued) :
          /\ Len(queued) > QueueMax /\ (takeovers = 0 => OverflowOk(Record))
          /\ Cardinality(Record.queued \ oldest) <= QueueMax
          /\ Record' = DropOldest(Record, oldest)
    \/ \E r \in Readings :
          \/ \E expired \in BOOLEAN : ClaimTriageOk(Record, r, expired) /\ Record' = ClaimTriage(Record, r)
          \/ /\ In(r, "record")
             /\ Record' = RecordAmendments(Record, call[r].amend \ ToSet(Seen(r).amendments))
          \/ In(r, "clear") /\ ClearQueueOk(Record, r) /\ Record' = ClearQueue(Record, call[r].ids)
    \/ In(Folder, "unmark") /\ Record' = ClearAmendments(Record, call[Folder].ids)
    \/ In(Folder, "take") /\ Record' = TakeFoldedOffQueue(Record, call[Folder].ids)
    \/ (\E c \in Readings \cup {Answer} : In(c, "return")) /\ Record' = ReturnAmendments(Record)

\* Every loop changes the lists as one atomic write at the moment it writes: whatever the
\* other callers wrote since it read, no message they put there is lost and none they took
\* comes back.  A reading leaves out what it saw recorded, which may have been folded or
\* returned since; and once a claim was taken over, a queue on which a message waits twice
\* overflows with fewer messages than it may hold.
AtomicWrites == [][AtomicWrite]_Record

\* "An id already queued is not added twice" (returnAmendmentsToQueue), as long as no claim
\* is taken from a reading at work: two readings may record one message twice.
WaitingOnce == takeovers = 0 => IsInjective(queued)
=============================================================================
