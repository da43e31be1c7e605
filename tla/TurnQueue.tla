----------------------------- MODULE TurnQueue -----------------------------
(***************************************************************************)
(* The turn queue of one (conversation, assistant) pair: every run that    *)
(* touches the turn record, one conditional write or one read at a time.   *)
(*                                                                         *)
(*   - the router claims the lock for a message, or queues the message     *)
(*     behind the turn that holds it and posts a notice (ask);             *)
(*   - a notice starts a reading of the queue (events);                    *)
(*   - the processor runs answering turns and readings: an answer folds    *)
(*     the follow-ups a reading recorded for it, or parks while one runs;  *)
(*     a reading records follow-ups, resumes the parked answer, makes      *)
(*     tasks of the rest and clears what it read (run);                    *)
(*   - every run ends by settling the lock: it returns follow-ups nobody   *)
(*     will fold, hands the lock to a reading, or releases it (run).       *)
(*                                                                         *)
(* A run keeps what it has read in its own fields, so a step acts on the   *)
(* record as it WAS, which is where the interleavings are.  Pickup turns   *)
(* are left to TurnLock.tla: Tasks is empty here.  Retries and deliveries  *)
(* made twice are in TurnRecovery.tla.                                     *)
(***************************************************************************)
EXTENDS TurnRecord

CONSTANTS
    FoldLimit,   \* AMENDMENT_FOLD_LIMIT
    PassLimit,   \* TRIAGE_MAX_PASSES
    MaxEvents,   \* bound: notices waiting to be taken up at once
    Faults,      \* the kinds of failure that may happen
    MaxFaults    \* bound: how many failures in all

ASSUME NoPickups == Tasks = {}

ASSUME LimitsAssumption ==
    /\ FoldLimit \in Nat /\ PassLimit \in Nat \ {0}
    /\ MaxEvents \in Nat \ {0} /\ MaxFaults \in Nat

VARIABLES
    rec,        \* the turn record
    ask,        \* the router's invocation for each message
    run,        \* the processor's run of each turn
    tail,       \* the clean-up left to a run that has folded
    events,     \* notices whose message event has not been handled
    redacted,   \* messages whose content is gone
    answered,   \* how often each message was answered
    tasked,     \* how often each message was made a task
    judged,     \* messages a reading took for follow-ups of an answer in flight
    told,       \* messages whose sender was told they would not be read
    faults      \* failures left

vars == <<rec, ask, run, tail, events, redacted, answered, tasked, judged, told,
          faults>>

ledger == <<redacted, answered, tasked, judged, told>>
router == <<ask, tail, events>>

Procs == Messages \cup Readings

AskPcs == {"unsent", "claim", "read", "claimed", "undo", "enqueue", "trim", "notice", "done"}

RunPcs == { "none", "over", "dead", "parked",
            "claim", "fetch",                                             \* a notice's reading
            "go", "park", "fold", "resumed",                              \* an answer
            "still", "record", "resume", "invoke", "abandon", "clear",    \* a reading
            "exit", "return", "follow", "yield", "messages", "empty",     \* the end of a run
            "hand", "send", "free", "giveup", "release" }

\* A run acts under the correlation id of its turn.
Runs == [ pc      : RunPcs,
          n       : 0..(IF FoldLimit > PassLimit THEN FoldLimit ELSE PassLimit),   \* folds taken, or the pass of a reading
          ids     : SUBSET Messages,     \* the messages this run answers or reads
          seen    : SUBSET Messages,     \* the queue as last read
          amend   : SUBSET Messages,     \* follow-ups judged, or pending for the fold
          other   : Readings \cup {NoOne},   \* the reading seen, or claimed to follow
          busy    : BOOLEAN,             \* another turn was answering when last read
          again   : BOOLEAN,             \* the queue moved, the reading will read once more
          closing : BOOLEAN,             \* the reading is at its end
          handed  : BOOLEAN,             \* the run has given the lock to its follow-up
          once    : BOOLEAN ]            \* the answer has been parked before

TypeOK ==
    /\ rec \in TurnRecords
    /\ ask \in [Messages -> AskPcs]
    /\ run \in [Procs -> Runs]
    /\ tail \in [Messages -> [pc : {"none", "clear", "take"},
                              clear : SUBSET Messages, take : SUBSET Messages]]
    /\ events \in 0..MaxEvents
    /\ redacted \subseteq Messages /\ judged \subseteq Messages /\ told \subseteq Messages
    /\ answered \in [Messages -> 0..2] /\ tasked \in [Messages -> 0..2]
    /\ faults \in 0..MaxFaults

NoTail == [pc |-> "none", clear |-> {}, take |-> {}]

Fresh(t) ==
    [ pc |-> "none", n |-> 0, ids |-> IF t \in Messages THEN {t} ELSE {},
      seen |-> {}, amend |-> {}, other |-> NoOne, busy |-> FALSE, again |-> FALSE,
      closing |-> FALSE, handed |-> FALSE, once |-> FALSE ]

Init ==
    /\ rec = EmptyRecord
    /\ ask = [m \in Messages |-> "unsent"]
    /\ run = [p \in Procs |-> Fresh(p)]
    /\ tail = [m \in Messages |-> NoTail]
    /\ events = 0
    /\ redacted = {} /\ judged = {} /\ told = {}
    /\ answered = [m \in Messages |-> 0] /\ tasked = [m \in Messages |-> 0]
    /\ faults = MaxFaults

-----------------------------------------------------------------------------
(* Helpers.                                                                 *)

Fails(kind) == kind \in Faults /\ faults > 0 /\ faults' = faults - 1
Works       == UNCHANGED faults

Reads(p)   == p \in Readings
Answers(p) == p \in Messages

Goes(p, pc) == run' = [run EXCEPT ![p].pc = pc]
Ended(t)    == [Fresh(t) EXCEPT !.pc = "over"]
Ends(p)     == run' = [run EXCEPT ![p] = Ended(p)]

Count(f, ids) == [m \in Messages |-> IF m \in ids /\ f[m] < 2 THEN f[m] + 1 ELSE f[m]]

Active(p) == run[p].pc \notin {"none", "over", "dead", "parked"}

\* The reading a run has claimed the queue for and not started.
ClaimedFor(p) ==
    {r \in Readings : /\ run[p].other = r
                      /\ \/ run[p].pc \in {"messages", "empty", "hand", "send", "free"}
                         \/ run[p].pc = "giveup" /\ ~run[p].handed}

\* Until it has given up that claim a run acts for the reading, and a reading acts for the
\* answer it is resuming.
ActsFor(p) ==
    {p} \cup ClaimedFor(p)
    \cup (IF run[p].pc = "giveup" THEN {run[p].other} ELSE {})
    \cup (IF run[p].pc \in {"invoke", "abandon"} THEN {rec.parked} ELSE {})

Live(t) ==
    \/ \E p \in Procs : Active(p) /\ t \in ActsFor(p)
    \/ t \in Messages /\ ask[t] \in {"claim", "claimed", "undo"}

\* A hold or a claim expires only when nothing runs under it (STALE_AFTER_MS and
\* TRIAGE_CLAIM_TTL_SECONDS are longer than any run).
Gone(t) == t # NoOne /\ ~Live(t)

\* A reading id nothing refers to any more.
Unused(r) ==
    /\ run[r].pc \in {"none", "over"}
    /\ r \notin {rec.holder, rec.triagedBy, rec.resumedBy}
    /\ \A p \in Procs : run[p].other # r

-----------------------------------------------------------------------------
(* The router.                                                              *)

ClaimTurnFor(m) ==
    /\ ask[m] \in {"unsent", "claim"}
    /\ \/ /\ \E expired \in {FALSE, Gone(rec.holder)} : ClaimTurnOk(rec, m, expired)
          /\ rec' = ClaimTurn(rec, m)
          /\ ask' = [ask EXCEPT ![m] = "claimed"]
          /\ Works
       \/ /\ ~ClaimTurnOk(rec, m, FALSE)
          /\ ask' = [ask EXCEPT ![m] = "read"]
          /\ Works /\ UNCHANGED rec
       \/ /\ Fails("claim")
          /\ ask' = [ask EXCEPT ![m] = "claimed"]
          /\ UNCHANGED rec
    /\ UNCHANGED <<run, tail, events, ledger>>

\* A refused claim reads who holds the lock; if nobody does any more, or the read fails,
\* it goes on.
ReadHolder(m) ==
    /\ ask[m] = "read"
    /\ \/ /\ ask' = [ask EXCEPT ![m] = IF rec.holder = NoOne THEN "claimed" ELSE "enqueue"]
          /\ Works
       \/ Fails("claim") /\ ask' = [ask EXCEPT ![m] = "claimed"]
    /\ UNCHANGED <<rec, run, tail, events, ledger>>

Dispatch(m) ==
    /\ ask[m] = "claimed"
    /\ \/ /\ ask' = [ask EXCEPT ![m] = "done"]
          /\ Goes(m, "go")
          /\ Works
       \/ /\ Fails("dispatch")
          /\ ask' = [ask EXCEPT ![m] = "undo"]
          /\ UNCHANGED run
    /\ UNCHANGED <<rec, tail, events, ledger>>

\* The finally of the router: a claim it could not hand on is released.
UndoClaim(m) ==
    /\ ask[m] = "undo"
    /\ \/ /\ rec' = IF ReleaseOk(rec, m) THEN Release(rec) ELSE rec
          /\ Ends(m) /\ Works
       \/ Fails("release") /\ Goes(m, "dead") /\ UNCHANGED rec
    /\ ask' = [ask EXCEPT ![m] = "done"]
    /\ told' = told \cup run[m].ids
    /\ UNCHANGED <<tail, events, redacted, answered, tasked, judged>>

\* Mutant: a message that could not be queued is dropped without telling its sender.
EnqueueSilently(m) ==
    /\ ask[m] = "enqueue"
    /\ \/ /\ rec' = Enqueue(rec, m)
          /\ ask' = [ask EXCEPT ![m] = IF OverflowOk(rec') THEN "trim" ELSE "notice"]
          /\ run' = [run EXCEPT ![m].seen = rec'.queued]
          /\ Works
       \/ /\ Fails("enqueue")
          /\ ask' = [ask EXCEPT ![m] = "done"]
          /\ UNCHANGED <<rec, run>>
    /\ UNCHANGED <<tail, events, ledger>>

\* The write returns the queue it left, which the trim below depends on.
EnqueueMessage(m) ==
    /\ ask[m] = "enqueue"
    /\ \/ /\ rec' = Enqueue(rec, m)
          /\ ask' = [ask EXCEPT ![m] = IF OverflowOk(rec') THEN "trim" ELSE "notice"]
          /\ run' = [run EXCEPT ![m].seen = rec'.queued]
          /\ Works /\ UNCHANGED told
       \/ /\ Fails("enqueue")
          /\ ask' = [ask EXCEPT ![m] = "done"]
          /\ told' = told \cup {m}
          /\ UNCHANGED <<rec, run>>
    /\ UNCHANGED <<tail, events, redacted, answered, tasked, judged>>

\* Over the bound the oldest waiting messages are dropped, and the notice says so; if the
\* queue has moved meanwhile the trim is left to the next message.
TrimQueue(m) ==
    /\ ask[m] = "trim"
    /\ IF rec.queued = run[m].seen
       THEN \E oldest \in SUBSET (rec.queued \ {m}) :
               /\ Cardinality(rec.queued \ oldest) = QueueMax
               /\ rec' = DropOldest(rec, oldest)
               /\ told' = told \cup oldest
       ELSE UNCHANGED <<rec, told>>
    /\ ask' = [ask EXCEPT ![m] = "notice"]
    /\ UNCHANGED <<run, tail, events, redacted, answered, tasked, judged, faults>>

PostNotice(m) ==
    /\ ask[m] = "notice"
    /\ \/ events < MaxEvents /\ events' = events + 1 /\ Works
       \/ Fails("notice") /\ UNCHANGED events
    /\ ask' = [ask EXCEPT ![m] = "done"]
    /\ run' = [run EXCEPT ![m].seen = {}]
    /\ UNCHANGED <<rec, tail, ledger>>

-----------------------------------------------------------------------------
(* A notice starts a reading (triageOnArrival).                             *)

TakeUpNotice ==
    /\ events > 0
    /\ events' = events - 1
    /\ \/ rec.queued = {} /\ UNCHANGED run
       \/ /\ rec.queued # {}
          /\ \E r \in Readings :
                /\ Unused(r)
                /\ run' = [run EXCEPT ![r] =
                     [Fresh(r) EXCEPT !.pc = "claim", !.seen = rec.queued,
                                      !.busy = (rec.holder # NoOne)]]
    /\ UNCHANGED <<rec, ask, tail, ledger, faults>>

ClaimQueueOnArrival(r) ==
    /\ run[r].pc = "claim"
    /\ \/ /\ \E expired \in {FALSE, Gone(rec.triagedBy)} : ClaimTriageOk(rec, r, expired)
          /\ rec' = ClaimTriage(rec, r)
          /\ Goes(r, "fetch")
          /\ Works
       \/ /\ (~ClaimTriageOk(rec, r, FALSE) /\ Works) \/ Fails("claim")
          /\ Ends(r)
          /\ UNCHANGED rec
    /\ UNCHANGED <<router, ledger>>

\* Reads the messages and dispatches the reading, unless nothing in them can be read.
StartReading(r) ==
    /\ run[r].pc = "fetch"
    /\ \/ /\ run[r].seen \subseteq redacted
          /\ Goes(r, "empty") /\ Works
       \/ /\ ~(run[r].seen \subseteq redacted)
          /\ run' = [run EXCEPT ![r].pc = "go", ![r].n = 1, ![r].ids = run[r].seen]
          /\ Works
       \/ Fails("dispatch") /\ Goes(r, "giveup")
    /\ UNCHANGED <<rec, router, ledger>>

-----------------------------------------------------------------------------
(* An answering turn.                                                       *)

\* The answer is delivered and the run comes to its end.
Deliver(p) ==
    /\ answered' = Count(answered, run[p].ids)
    /\ run' = [run EXCEPT ![p].pc = "exit", ![p].amend = {}, ![p].other = NoOne]

\* The one look an answer takes at the record before it is delivered.
Checkpoint(p) ==
    LET reader == rec.triagedBy
        parks  == reader # NoOne /\ rec.queued # {} /\ ~run[p].once
        looks  == run[p].n < FoldLimit
    IN  /\ run[p].pc = "go" /\ Answers(p)
        /\ \/ /\ looks /\ parks
              /\ run' = [run EXCEPT ![p].pc = "park", ![p].other = reader,
                                    ![p].amend = rec.amendments]
              /\ UNCHANGED answered
           \/ /\ looks /\ ~parks /\ rec.amendments # {}
              /\ run' = [run EXCEPT ![p].pc = "fold", ![p].amend = rec.amendments]
              /\ UNCHANGED answered
           \/ ~(looks /\ (parks \/ rec.amendments # {})) /\ Deliver(p)
        /\ UNCHANGED <<rec, router, redacted, tasked, judged, told, faults>>

ParkForReading(p) ==
    /\ run[p].pc = "park"
    /\ \/ /\ ParkOk(rec, p, run[p].other)
          /\ rec' = Park(rec, p, run[p].other)
          /\ run' = [run EXCEPT ![p].pc = "parked", ![p].once = TRUE, ![p].other = NoOne,
                                ![p].amend = {}]
          /\ UNCHANGED answered
       \/ /\ ~ParkOk(rec, p, run[p].other)
          /\ \/ run[p].amend = {} /\ Deliver(p)
             \/ run[p].amend # {} /\ Goes(p, "fold") /\ UNCHANGED answered
          /\ UNCHANGED rec
    /\ UNCHANGED <<router, redacted, tasked, judged, told, faults>>

\* The turn is dispatched again, amended, through the router and under its own id;
\* the run that folded still has the record to clean up.
Fold(p) ==
    LET foldable == run[p].amend \ redacted IN
    /\ run[p].pc = "fold"
    /\ \/ /\ foldable # {} /\ Works
          /\ run' = [run EXCEPT ![p] = [Fresh(p) EXCEPT !.n = run[p].n + 1,
                          !.ids = run[p].ids \cup foldable]]
          /\ ask' = [ask EXCEPT ![p] = "claim"]
          /\ tail' = [tail EXCEPT ![p] = [pc |-> "clear", clear |-> run[p].amend,
                                          take |-> foldable]]
          /\ UNCHANGED answered
       \/ /\ (foldable = {} /\ Works) \/ Fails("dispatch")
          /\ Deliver(p)
          /\ UNCHANGED <<ask, tail>>
    /\ UNCHANGED <<rec, events, redacted, tasked, judged, told>>

ClearFolded(m) ==
    /\ tail[m].pc = "clear"
    /\ rec' = ClearAmendments(rec, tail[m].clear)
    /\ tail' = [tail EXCEPT ![m].pc = "take"]
    /\ UNCHANGED <<ask, run, events, ledger, faults>>

TakeFolded(m) ==
    /\ tail[m].pc = "take"
    /\ rec' = TakeFoldedOffQueue(rec, tail[m].take)
    /\ tail' = [tail EXCEPT ![m] = NoTail]
    /\ UNCHANGED <<ask, run, events, ledger, faults>>

\* A resume takes the parked answer, or finds it taken: then it ends, unless the record
\* says this turn holds the conversation with nothing parked.  A take that could not be
\* written ends the run as well, with the answer still in the record.
DeliverParked(p) ==
    /\ run[p].pc = "resumed"
    /\ \/ /\ TakeParkedOk(rec, p)
          /\ rec' = TakeParked(rec)
          /\ Goes(p, "go")
          /\ Works
       \/ /\ ~TakeParkedOk(rec, p)
          /\ IF rec.holder = p /\ rec.parked = NoOne THEN Goes(p, "exit") ELSE Ends(p)
          /\ Works /\ UNCHANGED rec
       \/ Fails("take") /\ Goes(p, "dead") /\ UNCHANGED rec
    /\ UNCHANGED <<router, ledger>>

-----------------------------------------------------------------------------
(* A reading.                                                               *)

\* The reading goes on: another pass over the queue it saw, or its follow-through.
NextPass(r, again, seen) ==
    IF again
    THEN [run EXCEPT ![r] = [Fresh(r) EXCEPT !.pc = "go", !.n = run[r].n + 1,
                                             !.ids = seen, !.busy = run[r].busy]]
    ELSE [run EXCEPT ![r].pc = "resume", ![r].again = FALSE]

\* The model has answered: it may have judged some messages to amend the work in flight.
\* The queue is read again, and read through again if it has moved, or if the model asks to;
\* an answer that cannot be used, or a pass it asks for and cannot have, leaves the queue as
\* it is.
Look(r) ==
    LET mayRead == run[r].n < PassLimit
        moved   == mayRead /\ ~(rec.queued \subseteq run[r].ids) /\ ~(rec.queued \subseteq redacted)
        judges(again) ==
            \E amend \in IF run[r].busy THEN SUBSET (run[r].ids \ redacted) ELSE {{}} :
               run' = IF amend = {}
                      THEN NextPass(r, again, rec.queued)
                      ELSE [run EXCEPT ![r].pc = "still", ![r].again = again,
                                       ![r].seen = rec.queued, ![r].amend = amend]
    IN  /\ run[r].pc = "go" /\ Reads(r)
        /\ \/ judges(moved) /\ Works
           \/ moved /\ judges(FALSE) /\ (Fails("read") \/ Fails("dispatch"))
           \/ /\ mayRead /\ ~moved /\ ~(run[r].ids \subseteq redacted)
              /\ run' = NextPass(r, TRUE, run[r].ids)
              /\ Works
           \/ /\ Fails("unusable")
              /\ run' = [run EXCEPT ![r].pc = "resume", ![r].closing = TRUE]
        /\ UNCHANGED <<rec, router, ledger>>

\* Follow-ups are recorded only for an answer that is still coming; with none, they
\* are new work.  If that cannot be read, the last pass keeps what it was started with.
StillRunning(r) ==
    /\ run[r].pc = "still"
    /\ \/ /\ run' = IF rec.holder \notin {NoOne, r} \/ rec.parked # NoOne
                    THEN [run EXCEPT ![r].pc = "record"]
                    ELSE IF run[r].again THEN NextPass(r, TRUE, run[r].seen)
                    ELSE [run EXCEPT ![r].pc = "resume", ![r].amend = {}]
          /\ Works
       \/ /\ Fails("read")
          /\ run' = IF run[r].again THEN NextPass(r, TRUE, run[r].seen)
                    ELSE [run EXCEPT ![r].pc = "record"]
    /\ UNCHANGED <<rec, router, ledger>>

RecordFollowUps(r) ==
    /\ run[r].pc = "record"
    /\ \/ rec' = RecordAmendments(rec, run[r].amend) /\ Works
       \/ Fails("record") /\ UNCHANGED rec
    /\ judged' = judged \cup run[r].amend
    /\ run' = NextPass(r, run[r].again, run[r].seen)
    /\ UNCHANGED <<router, redacted, answered, tasked, told>>

AfterResume(r) == IF run[r].closing THEN "exit" ELSE "clear"

ResumeParked(r) ==
    /\ run[r].pc = "resume"
    /\ \/ /\ BeginResumeOk(rec, r)
          /\ rec' = BeginResume(rec, r)
          /\ Goes(r, "invoke")
       \/ /\ ~BeginResumeOk(rec, r)
          /\ Goes(r, AfterResume(r))
          /\ UNCHANGED rec
    /\ UNCHANGED <<router, ledger, faults>>

InvokeResume(r) ==
    /\ run[r].pc = "invoke"
    /\ \/ /\ run' = [run EXCEPT ![r].pc = AfterResume(r), ![rec.parked].pc = "resumed"]
          /\ Works
       \/ Fails("invoke") /\ Goes(r, "abandon")
    /\ UNCHANGED <<rec, router, ledger>>

\* If the answer cannot be handed back either, nobody delivers it any more.
AbandonResumed(r) ==
    /\ run[r].pc = "abandon"
    /\ \/ /\ rec' = IF AbandonResumeOk(rec, r, rec.parked) THEN AbandonResume(rec, r) ELSE rec
          /\ Goes(r, AfterResume(r))
          /\ Works
       \/ /\ Fails("abandon")
          /\ run' = [run EXCEPT ![r].pc = AfterResume(r), ![rec.parked].pc = "dead"]
          /\ UNCHANGED rec
    /\ UNCHANGED <<router, ledger>>

\* What does not amend becomes a task; what was read leaves the queue, if the reading
\* still has the claim.
ClearQueueRead(r) ==
    /\ run[r].pc = "clear"
    /\ tasked' = Count(tasked, run[r].ids \ (run[r].amend \cup redacted))
    /\ \/ /\ rec' = IF ClearQueueOk(rec, r) THEN ClearQueue(rec, run[r].ids) ELSE rec
          /\ Works
       \/ Fails("clear") /\ UNCHANGED rec
    /\ run' = [run EXCEPT ![r].pc = "resume", ![r].closing = TRUE]
    /\ UNCHANGED <<router, redacted, answered, judged, told>>

-----------------------------------------------------------------------------
(* The end of a run (settleTurnLockAtExit, handOverToFollowUpTriage).       *)

\* Mutant: the follow-up of a reading has no last pass.
SettlesAnyPass(p, queue, reader) ==
    IF queue = {} \/ reader = p THEN "release" ELSE "follow"

\* With this queue and this reading, does the run hand over or release?
Settles(p, queue, reader) ==
    IF queue = {} \/ (Reads(p) /\ run[p].n >= PassLimit) \/ reader = p
    THEN "release" ELSE "follow"

\* A read that fails is taken for an empty record.
ReadAtExit(p) ==
    LET held == rec.holder \notin {NoOne, p} IN
    /\ run[p].pc = "exit"
    /\ \/ /\ run' = [run EXCEPT ![p].seen = rec.queued, ![p].other = rec.triagedBy,
                       ![p].pc = IF Reads(p) /\ held
                                 THEN Settles(p, rec.queued, rec.triagedBy) ELSE "return"]
          /\ Works
       \/ /\ Fails("read")
          /\ run' = [run EXCEPT ![p].seen = {}, ![p].other = NoOne, ![p].pc = "return"]
    /\ UNCHANGED <<rec, router, ledger>>

\* Follow-ups nobody is left to fold go back on the queue.
ReturnFollowUps(p) ==
    LET queue == run[p].seen \cup rec.amendments IN
    /\ run[p].pc = "return"
    /\ rec' = ReturnAmendments(rec)
    /\ run' = [run EXCEPT ![p].seen = queue, ![p].pc = Settles(p, queue, run[p].other)]
    /\ UNCHANGED <<router, ledger, faults>>

ClaimFollowUp(p) ==
    /\ run[p].pc = "follow"
    /\ \/ \E c \in Readings, expired \in {FALSE, Gone(rec.triagedBy)} :
             /\ Unused(c) /\ ClaimTriageOk(rec, c, expired)
             /\ rec' = ClaimTriage(rec, c)
             /\ run' = [run EXCEPT ![p].pc = "messages", ![p].other = c]
             /\ Works
       \/ /\ (rec.triagedBy # NoOne /\ Works) \/ Fails("claim")
          /\ Goes(p, IF run[p].other = NoOne THEN "release" ELSE "yield")
          /\ UNCHANGED rec
    /\ UNCHANGED <<router, ledger>>

YieldToReading(p) ==
    LET ok == HandOverOk(rec, p, run[p].other, TRUE) IN
    /\ run[p].pc = "yield"
    /\ rec' = IF ok THEN HandOver(rec, run[p].other) ELSE rec
    /\ IF ok THEN Ends(p) ELSE Goes(p, "release")
    /\ UNCHANGED <<router, ledger, faults>>

FetchFollowUp(p) ==
    /\ run[p].pc = "messages"
    /\ \/ Goes(p, IF run[p].seen \subseteq redacted THEN "empty" ELSE "hand") /\ Works
       \/ Fails("fetch") /\ Goes(p, "giveup")
    /\ UNCHANGED <<rec, router, ledger>>

\* The claim this run took: under its own id by a notice, for another reading at an exit.
Claimed(p) == IF run[p].other = NoOne THEN p ELSE run[p].other

\* Nothing to read is left in the messages: the queue is cleared without a reading.
ClearEmptied(p) ==
    /\ run[p].pc = "empty"
    /\ \/ /\ rec' = IF ClearQueueOk(rec, Claimed(p)) THEN ClearQueue(rec, run[p].seen) ELSE rec
          /\ Works
       \/ Fails("clear") /\ UNCHANGED rec
    /\ Goes(p, "giveup")
    /\ UNCHANGED <<router, ledger>>

HandOverToFollowUp(p) ==
    LET ok == HandOverOk(rec, p, run[p].other, FALSE) IN
    /\ run[p].pc = "hand"
    /\ rec' = IF ok THEN HandOver(rec, run[p].other) ELSE rec
    /\ run' = [run EXCEPT ![p].pc = IF ok THEN "send" ELSE "giveup", ![p].handed = ok]
    /\ UNCHANGED <<router, ledger, faults>>

DispatchFollowUp(p) ==
    LET c == run[p].other
        pass == IF Reads(p) THEN run[p].n + 1 ELSE 1
    IN  /\ run[p].pc = "send"
        /\ \/ /\ run' = [run EXCEPT ![p] = Ended(p),
                           ![c] = [Fresh(c) EXCEPT !.pc = "go", !.n = pass, !.ids = run[p].seen]]
              /\ Works
           \/ Fails("dispatch") /\ Goes(p, "free")
        /\ UNCHANGED <<rec, router, ledger>>

FreeFollowUp(p) ==
    /\ run[p].pc = "free"
    /\ \/ /\ rec' = IF ReleaseOk(rec, run[p].other) THEN Release(rec) ELSE rec
          /\ Goes(p, "giveup")
          /\ Works
       \/ /\ Fails("release")
          /\ run' = [run EXCEPT ![p].pc = "giveup", ![run[p].other].pc = "dead"]
          /\ UNCHANGED rec
    /\ UNCHANGED <<router, ledger>>

\* No reading was started, so the claim is given up; a notice's reading ends here.  A claim
\* it still has and cannot give up stays with a reading that never runs.
GiveUpClaim(p) ==
    LET goesOn == [run EXCEPT ![p].pc = "release", ![p].other = NoOne] IN
    /\ run[p].pc = "giveup"
    /\ \/ /\ rec' = ReleaseTriage(rec, Claimed(p))
          /\ IF run[p].other = NoOne THEN Ends(p) ELSE run' = goesOn
          /\ Works
       \/ /\ rec.triagedBy = Claimed(p) /\ Fails("giveup")
          /\ run' = IF run[p].other = NoOne THEN [run EXCEPT ![p].pc = "dead"]
                    ELSE IF run[p].handed THEN goesOn
                    ELSE [goesOn EXCEPT ![run[p].other].pc = "dead"]
          /\ UNCHANGED rec
    /\ UNCHANGED <<router, ledger>>

ReleaseAtExit(p) ==
    /\ run[p].pc = "release"
    /\ \/ /\ rec' = IF ReleaseOk(rec, p) THEN Release(rec) ELSE rec
          /\ Ends(p)
          /\ Works
       \/ Fails("release") /\ Goes(p, "dead") /\ UNCHANGED rec
    /\ UNCHANGED <<router, ledger>>

-----------------------------------------------------------------------------
(* What happens around the runs.                                            *)

\* A person redacts a message that is waiting.
Redact(m) ==
    /\ Fails("redact")
    /\ m \in rec.queued \ redacted
    /\ redacted' = redacted \cup {m}
    /\ UNCHANGED <<rec, ask, run, tail, events, answered, tasked, judged, told>>

\* The platform ends a run: it was admitted, so its redelivery is taken for a duplicate.
\* A reading it had claimed the queue for never starts.
Die(p) ==
    /\ Fails("kill")
    /\ Active(p) /\ run[p].pc # "claim"
    /\ run' = [q \in Procs |->
                 IF q = p \/ q \in ClaimedFor(p) THEN [run[q] EXCEPT !.pc = "dead"]
                 ELSE run[q]]
    /\ UNCHANGED <<rec, router, ledger>>

-----------------------------------------------------------------------------
RouterStep(m) ==
    \/ ReadHolder(m) \/ Dispatch(m) \/ UndoClaim(m)
    \/ EnqueueMessage(m) \/ TrimQueue(m) \/ PostNotice(m)
    \/ ClearFolded(m) \/ TakeFolded(m)

AnswerStep(p) == Checkpoint(p) \/ ParkForReading(p) \/ Fold(p) \/ DeliverParked(p)

ReadingStep(r) ==
    \/ ClaimQueueOnArrival(r) \/ StartReading(r)
    \/ Look(r) \/ StillRunning(r) \/ RecordFollowUps(r)
    \/ ResumeParked(r) \/ InvokeResume(r) \/ AbandonResumed(r) \/ ClearQueueRead(r)

ExitStep(p) ==
    \/ ReadAtExit(p) \/ ReturnFollowUps(p)
    \/ ClaimFollowUp(p) \/ YieldToReading(p)
    \/ FetchFollowUp(p) \/ ClearEmptied(p) \/ HandOverToFollowUp(p)
    \/ DispatchFollowUp(p) \/ FreeFollowUp(p) \/ GiveUpClaim(p)
    \/ ReleaseAtExit(p)

Next ==
    \/ \E m \in Messages : ClaimTurnFor(m) \/ RouterStep(m) \/ Redact(m)
    \/ TakeUpNotice
    \/ \E p \in Procs : AnswerStep(p) \/ ExitStep(p) \/ Die(p)
    \/ \E r \in Readings : ReadingStep(r)

Spec == Init /\ [][Next]_vars

\* A run that is under way goes on to its end, and a posted notice is delivered: the
\* platform runs every invocation that it does not kill.  People need not write.
Fairness ==
    /\ \A m \in Messages :
          /\ WF_vars(RouterStep(m))
          /\ WF_vars(ask[m] = "claim" /\ ClaimTurnFor(m))
    /\ WF_vars(TakeUpNotice)
    /\ \A p \in Procs : WF_vars(AnswerStep(p) \/ ExitStep(p))
    /\ \A r \in Readings : WF_vars(ReadingStep(r))

FairSpec == Spec /\ Fairness

-----------------------------------------------------------------------------
(* Properties.                                                              *)

\* A run still has the message: it is answering or reading it, or is about to start the
\* reading of a queue it is in.  A run that ended without settling the lock is counted: what
\* it had is what the platform, or the write that failed, cut off.
InHand(m) ==
    \/ \E p \in Messages : ask[p] # "done" /\ m \in run[p].ids
    \/ \E p \in Procs : run[p].pc \notin {"none", "over"} /\ m \in run[p].ids \cup run[p].seen

\* A message is somewhere: waiting, recorded as a follow-up, in the hands of a run,
\* answered, made a task, or its sender was told.
Kept(m) ==
    \/ m \in rec.queued \cup rec.amendments \cup told \cup redacted
    \/ answered[m] + tasked[m] > 0
    \/ InHand(m)

\* Every message that enters the queue leaves it "read, emptied, or dropped with the
\* sender told" (ADR-033 invariant B).
NoMessageLost == \A m \in Messages : ask[m] = "done" => Kept(m)

\* The same for every message no reading took for a follow-up: clears, trims, returns
\* and hand-overs in any order lose no request of its own.
NoRequestLost == \A m \in Messages \ judged : ask[m] = "done" => Kept(m)

\* A reading that has not cleared what it read still has the claim on the queue: the
\* queue is read by one reading at a time (claimTriage, and every clear conditional on it).
Unread(r) ==
    \/ run[r].pc \in {"fetch", "go", "still", "record"}
    \/ run[r].pc \in {"resume", "invoke", "abandon", "clear"} /\ ~run[r].closing
OneReadingAtATime == \A r \in Readings : Unread(r) => rec.triagedBy = r

Quiet ==
    /\ events = 0
    /\ \A m \in Messages : ask[m] \in {"unsent", "done"} /\ tail[m] = NoTail
    /\ \A p \in Procs : ~Active(p)

\* When nothing runs any more no claim on the queue is left: every run that claimed it
\* cleared it, gave it up, or started the reading it was claimed for.
NoClaimLeft == Quiet => rec.triagedBy = NoOne

\* A message that no reading took for a follow-up is answered at most once, by its own
\* run, however often that run is parked, resumed, folded and dispatched again.  (A
\* follow-up may be: two answers at work at once both fold it.)
AnsweredOnce == \A m \in Messages \ judged : answered[m] <= 1

\* One answer at a time (the title of ADR-033).
Answering(m) == run[m].pc \in {"go", "park", "fold"}
OneAnswerAtATime == \A m, o \in Messages : Answering(m) /\ Answering(o) => m = o

\* The run that had the answer was ended by the platform, or one of the writes that should
\* have given the lock up was not made: its release, the take of its parked answer, or the
\* handing back of that answer by a reading that could not have it resumed.  Or it needs a new
\* reading and the instance has none left to name.
Abandoned(m) ==
    \/ \E p \in Procs : run[p].pc = "dead" /\ (p = m \/ (rec.parked = m /\ rec.resumedBy = p))
    \/ run[m].pc = "follow" /\ rec.triagedBy = NoOne /\ \A r \in Readings : ~Unused(r)

\* An answer that takes the lock gives it up: to a reading it parks for, to a follow-up
\* reading, or by releasing it (ADR-033 invariant A), unless it is abandoned: a lost notice,
\* dispatch, read, record, clear or claim on the queue keeps no answer on the lock.
LockGivenUp ==
    \A m \in Messages : rec.holder = m ~> rec.holder # m \/ Abandoned(m)

-----------------------------------------------------------------------------
(* The lock as TurnLock.tla promises it.                                    *)

\* The cases of either exclude one another in every state a run can come to.
PhaseOfAnswer(m) ==
    LET routed == ask[m] \in {"claimed", "undo"}
    IN  CASE routed                                    -> "named"
          [] ~routed /\ run[m].pc = "none"             -> "idle"
          [] run[m].pc = "parked" /\ rec.resumedBy = NoOne -> "parked"
          [] run[m].pc = "parked" /\ rec.resumedBy # NoOne -> "resuming"
          [] run[m].pc = "resumed"                     -> "resuming"
          [] run[m].pc = "over" \/ run[m].handed       -> "over"
          [] run[m].pc = "dead" /\ ~run[m].handed      -> "dead"
          [] OTHER -> IF rec.holder = m THEN "working" ELSE "alone"

PhaseOfReading(r) ==
    LET idle   == run[r].pc \in {"none", "over", "claim"}
        wanted == \E p \in Procs : r \in ClaimedFor(p)
        begins == run[r].pc = "fetch" \/ (run[r].pc \in {"empty", "giveup"} /\ run[r].other = NoOne)
    IN  CASE idle                                 -> IF wanted THEN "named" ELSE "idle"
          [] run[r].handed                        -> "idle"
          [] run[r].pc = "dead" /\ ~run[r].handed -> "dead"
          [] begins /\ ~run[r].handed             -> "named"
          [] OTHER                                -> "working"

Lock == INSTANCE TurnLock WITH
    lock  <- [ holder |-> rec.holder, triagedBy |-> rec.triagedBy,
               parked |-> rec.parked, resumedBy |-> rec.resumedBy ],
    phase <- [t \in Turns |-> IF t \in Readings THEN PhaseOfReading(t) ELSE PhaseOfAnswer(t)]

\* Every run keeps to the protocol of the lock: no step takes the lock from an answer
\* that was admitted under it, and a parked answer is delivered by one run.
ImplementsTurnLock == Lock!Spec
=============================================================================
