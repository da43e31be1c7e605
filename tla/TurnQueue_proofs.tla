-------------------------- MODULE TurnQueue_proofs --------------------------
(***************************************************************************)
(* Theorems about TurnQueue.tla, for any messages and readings, any limits *)
(* and any number of failures: one reading reads the queue at a time, no   *)
(* request is lost, a message is answered once by its own run, no claim is *)
(* left behind, and every step of every run is a step of the protocol of   *)
(* TurnLock.tla.                                                           *)
(*                                                                         *)
(* What a step does is said once per action (the lemmas ...Step); each     *)
(* part of the inductive invariant IInv then has a lemma over the actions  *)
(* (...Kept), and so has the refinement.                                   *)
(***************************************************************************)
EXTENDS TurnQueue, TLAPS

-----------------------------------------------------------------------------
(* The inductive invariant.                                                 *)

ExitPcs    == { "exit", "return", "follow", "yield", "messages", "empty", "hand", "send", "free",
                "giveup", "release" }
AnswerPcs  == {"none", "over", "dead", "parked", "go", "park", "fold", "resumed"} \cup ExitPcs
ReadingPcs == { "none", "over", "dead", "claim", "fetch", "go", "still", "record", "resume",
                "invoke", "abandon", "clear" } \cup ExitPcs

(* A run has claimed the queue for another reading, its follow-up.          *)
Follows(p) ==
    \/ run[p].pc \in {"messages", "hand", "send", "free"}
    \/ run[p].pc \in {"empty", "giveup"} /\ run[p].other # NoOne

(* What a run at each point has read and done.                              *)
RunShaped(p) ==
    /\ p \in Readings => run[p].pc \in ReadingPcs
    /\ p \in Messages => run[p].pc \in AnswerPcs
    /\ run[p].pc \in {"park", "yield", "messages", "hand", "send", "free"} => run[p].other # NoOne
    /\ p \in Messages /\ run[p].pc \in {"empty", "giveup"} => run[p].other # NoOne
    /\ run[p].pc \in {"follow", "yield"} => run[p].other # p
    /\ run[p].pc \in {"claim", "fetch"} => run[p].other = NoOne
    /\ p \in Messages => ~run[p].closing
    /\ run[p].handed => run[p].pc \in {"send", "free", "giveup", "release", "dead"}
    /\ run[p].pc \in {"send", "free"} => run[p].handed
    /\ run[p].pc \in {"claim", "fetch", "go", "still", "record"} => ~run[p].closing
Shaped == \A p \in Procs : RunShaped(p)

(* A reading reads at most PassLimit times, an answer folds at most FoldLimit times. *)
RunBounded(p) ==
    /\ p \in Readings =>
         /\ run[p].n <= PassLimit
         /\ run[p].pc \in {"still", "record"} /\ run[p].again => run[p].n < PassLimit
         /\ run[p].pc \in {"follow", "messages", "hand", "send"} => run[p].n < PassLimit
    /\ p \in Messages =>
         /\ run[p].n <= FoldLimit
         /\ run[p].pc \in {"park", "fold"} => run[p].n < FoldLimit
Bounded == \A p \in Procs : RunBounded(p)

(* While the router has a message, its run has not begun.                   *)
Asking == \A m \in Messages : ask[m] # "done" => run[m].pc = "none"

(* The record's parked answer, the run it is of, and the reading resuming it. *)
Parking ==
    /\ rec.resumedBy # NoOne => rec.parked # NoOne
    /\ \A m \in Messages :
         /\ run[m].pc \in {"parked", "resumed"} => rec.parked = m
         /\ run[m].pc = "resumed" => rec.resumedBy # NoOne
         /\ rec.parked = m => \/ run[m].pc = "parked"
                              \/ rec.resumedBy # NoOne /\ run[m].pc \in {"resumed", "dead"}
    /\ \A r \in Readings : run[r].pc \in {"invoke", "abandon"} =>
         rec.resumedBy = r /\ rec.parked \in Messages /\ run[rec.parked].pc = "parked"

(* A follow-up is idle, unless it was left with the lock, has one run starting it, and has  *)
(* the claim on the queue.                                                  *)
Following ==
    \A p \in Procs : Follows(p) =>
        /\ run[p].other \in Readings
        /\ \/ run[run[p].other].pc \in {"none", "over"}
           \/ run[p].handed /\ run[p].pc = "giveup" /\ run[run[p].other].pc = "dead"
        /\ \A q \in Procs : Follows(q) /\ run[q].other = run[p].other => q = p
        /\ run[p].pc # "giveup" => rec.triagedBy = run[p].other

(* Whoever handed the lock to its follow-up gets neither lock nor claim back. *)
HandedAway == \A p \in Procs : run[p].handed => rec.holder # p /\ rec.triagedBy # p

(* A run that will end the claim on the queue or hand it on.                *)
Watches(p) ==
    \/ /\ p \in Readings /\ rec.triagedBy = p
       /\ Unread(p) \/ (run[p].pc \in {"empty", "giveup"} /\ run[p].other = NoOne)
    \/ Follows(p) /\ rec.triagedBy = run[p].other

(* Nothing holds the claim for good, unless a run is ended, a reading leaves the queue as it *)
(* is, or the write that ends the claim fails.                              *)
Unfailing == Faults \cap {"kill", "unusable", "clear", "giveup"} = {}
ClaimWatched ==
    Unfailing /\ rec.triagedBy # NoOne => \E p \in Procs : Watches(p)

(* A run amends with messages judged follow-ups only, and clears as empty redacted ones only. *)
RunJudged(p) ==
    /\ p \in Messages =>
         run[p].amend \subseteq judged /\ p \in run[p].ids /\ run[p].ids \subseteq judged \cup {p}
    /\ p \in Readings =>
         /\ run[p].pc \in {"claim", "fetch", "go"} => run[p].amend = {}
         /\ run[p].pc \in {"resume", "invoke", "abandon", "clear"} => run[p].amend \subseteq judged
    /\ run[p].pc = "empty" => run[p].seen \subseteq redacted

(* Only messages judged follow-ups are recorded, folded and taken off the queue as folded. *)
FollowUpsJudged ==
    /\ rec.amendments \subseteq judged
    /\ \A m \in Messages : tail[m].take \subseteq judged
    /\ \A p \in Procs : RunJudged(p)

(* A message of its own is waiting, done with, or has a run.                *)
Requests ==
    \A m \in Messages :
        /\ run[m].pc \in ExitPcs => answered[m] > 0
        /\ m \notin judged /\ ask[m] \in {"trim", "notice", "done"} =>
             \/ m \in rec.queued \cup told \cup redacted
             \/ answered[m] > 0 \/ tasked[m] > 0
             \/ run[m].pc \notin {"none", "over"}

(* Its answer is given at the end of its run, which is not begun again.     *)
AnsweredAtEnd ==
    \A m \in Messages \ judged :
        \/ answered[m] = 0
        \/ answered[m] = 1 /\ ask[m] = "done" /\ run[m].pc \in ExitPcs \cup {"over", "dead"}

IInv ==
    /\ TypeOK /\ Shaped /\ Bounded /\ Asking /\ Parking /\ Following /\ OneReadingAtATime
    /\ HandedAway /\ ClaimWatched /\ FollowUpsJudged /\ Requests /\ AnsweredAtEnd

-----------------------------------------------------------------------------
(* What the writes of the turn record leave, each once.                     *)

(* The fields of a record, and those of a run that the proofs speak of.     *)
RecIs(r, holder, queued, amendments, triagedBy, parked, resumedBy) ==
    /\ r.holder = holder /\ r.queued = queued /\ r.amendments = amendments
    /\ r.triagedBy = triagedBy /\ r.parked = parked /\ r.resumedBy = resumedBy

RunIs(s, pc, n, ids, seen, amend, other, again, closing, handed) ==
    /\ s.pc = pc /\ s.n = n /\ s.ids = ids /\ s.seen = seen /\ s.amend = amend
    /\ s.other = other /\ s.again = again /\ s.closing = closing /\ s.handed = handed

LEMMA HolderWrites ==
  ASSUME NEW r \in TurnRecords, NEW t \in Turns
  PROVE  /\ ClaimTurn(r, t) \in TurnRecords /\ HandOver(r, t) \in TurnRecords
         /\ RecIs(ClaimTurn(r, t), t, r.queued, r.amendments, r.triagedBy, r.parked, r.resumedBy)
         /\ RecIs(HandOver(r, t), t, r.queued, r.amendments, r.triagedBy, r.parked, r.resumedBy)
<1>1. ClaimTurn(r, t) \in TurnRecords /\ HandOver(r, t) \in TurnRecords
  BY DEF TurnRecords, ClaimTurn, HandOver
<1>2. RecIs(ClaimTurn(r, t), t, r.queued, r.amendments, r.triagedBy, r.parked, r.resumedBy)
  BY DEF TurnRecords, ClaimTurn, RecIs
<1>3. RecIs(HandOver(r, t), t, r.queued, r.amendments, r.triagedBy, r.parked, r.resumedBy)
  BY DEF TurnRecords, HandOver, RecIs
<1>4. QED BY <1>1, <1>2, <1>3

LEMMA ReleaseWrites ==
  ASSUME NEW r \in TurnRecords
  PROVE  /\ Release(r) \in TurnRecords
         /\ RecIs(Release(r), NoOne, r.queued, r.amendments, r.triagedBy, r.parked, r.resumedBy)
<1>1. Release(r) \in TurnRecords
  BY DEF TurnRecords, Release
<1>2. RecIs(Release(r), NoOne, r.queued, r.amendments, r.triagedBy, r.parked, r.resumedBy)
  BY DEF TurnRecords, Release, RecIs
<1>3. QED BY <1>1, <1>2

LEMMA EnqueueWrites ==
  ASSUME NEW r \in TurnRecords, NEW m \in Messages
  PROVE  /\ Enqueue(r, m) \in TurnRecords
         /\ RecIs(Enqueue(r, m), r.holder, r.queued \cup {m}, r.amendments, r.triagedBy, r.parked,
                  r.resumedBy)
<1>1. Enqueue(r, m) \in TurnRecords
  BY DEF TurnRecords, Enqueue
<1>2. RecIs(Enqueue(r, m), r.holder, r.queued \cup {m}, r.amendments, r.triagedBy, r.parked,
            r.resumedBy)
  BY DEF TurnRecords, Enqueue, RecIs
<1>3. QED BY <1>1, <1>2

LEMMA QueueWrites ==
  ASSUME NEW r \in TurnRecords, NEW ids \in SUBSET Messages
  PROVE  /\ DropOldest(r, ids) \in TurnRecords
         /\ ClearQueue(r, ids) \in TurnRecords /\ TakeFoldedOffQueue(r, ids) \in TurnRecords
         /\ RecIs(DropOldest(r, ids), r.holder, r.queued \ ids, r.amendments, r.triagedBy, r.parked,
                  r.resumedBy)
         /\ RecIs(ClearQueue(r, ids), r.holder, r.queued \ ids, r.amendments, NoOne, r.parked,
                  r.resumedBy)
         /\ RecIs(TakeFoldedOffQueue(r, ids), r.holder, r.queued \ ids, r.amendments, r.triagedBy,
                  r.parked, r.resumedBy)
<1>1. DropOldest(r, ids) \in TurnRecords
  BY DEF TurnRecords, DropOldest
<1>2. ClearQueue(r, ids) \in TurnRecords /\ TakeFoldedOffQueue(r, ids) \in TurnRecords
  BY DEF TurnRecords, ClearQueue, TakeFoldedOffQueue
<1>4. RecIs(DropOldest(r, ids), r.holder, r.queued \ ids, r.amendments, r.triagedBy, r.parked,
            r.resumedBy)
  BY DEF TurnRecords, DropOldest, RecIs
<1>5. RecIs(ClearQueue(r, ids), r.holder, r.queued \ ids, r.amendments, NoOne, r.parked,
            r.resumedBy)
  BY DEF TurnRecords, ClearQueue, RecIs
<1>6. RecIs(TakeFoldedOffQueue(r, ids), r.holder, r.queued \ ids, r.amendments, r.triagedBy,
            r.parked, r.resumedBy)
  BY DEF TurnRecords, TakeFoldedOffQueue, RecIs
<1>7. QED BY <1>1, <1>2, <1>4, <1>5, <1>6

LEMMA ClaimWrites ==
  ASSUME NEW r \in TurnRecords, NEW c \in Readings
  PROVE  /\ ClaimTriage(r, c) \in TurnRecords
         /\ RecIs(ClaimTriage(r, c), r.holder, r.queued, r.amendments, c, r.parked, r.resumedBy)
<1>1. ClaimTriage(r, c) \in TurnRecords
  BY DEF TurnRecords, ClaimTriage
<1>2. RecIs(ClaimTriage(r, c), r.holder, r.queued, r.amendments, c, r.parked, r.resumedBy)
  BY DEF TurnRecords, ClaimTriage, RecIs
<1>3. QED BY <1>1, <1>2

\* A claim given up is given up by whoever has it, and by nobody else.
LEMMA ReleaseTriageWrites ==
  ASSUME NEW r \in TurnRecords, NEW c
  PROVE  /\ ReleaseTriage(r, c) \in TurnRecords
         /\ RecIs(ReleaseTriage(r, c), r.holder, r.queued, r.amendments,
                  IF r.triagedBy = c THEN NoOne ELSE r.triagedBy, r.parked, r.resumedBy)
<1>1. CASE r.triagedBy = c
  <2>1. ReleaseTriage(r, c) = [r EXCEPT !.triagedBy = NoOne]
    BY <1>1 DEF ReleaseTriage
  <2>2. ReleaseTriage(r, c) \in TurnRecords
    BY <2>1 DEF TurnRecords
  <2>3. RecIs(ReleaseTriage(r, c), r.holder, r.queued, r.amendments, NoOne, r.parked, r.resumedBy)
    BY <2>1 DEF TurnRecords, RecIs
  <2>4. QED BY <1>1, <2>2, <2>3
<1>2. CASE r.triagedBy # c
  BY <1>2 DEF ReleaseTriage, RecIs
<1>3. QED BY <1>1, <1>2

LEMMA FollowUpWrites ==
  ASSUME NEW r \in TurnRecords, NEW ids \in SUBSET Messages
  PROVE  /\ RecordAmendments(r, ids) \in TurnRecords /\ ClearAmendments(r, ids) \in TurnRecords
         /\ ReturnAmendments(r) \in TurnRecords
         /\ RecIs(RecordAmendments(r, ids), r.holder, r.queued,
                  r.amendments \cup (ids \cap r.queued), r.triagedBy, r.parked, r.resumedBy)
         /\ RecIs(ClearAmendments(r, ids), r.holder, r.queued, r.amendments \ ids, r.triagedBy,
                  r.parked, r.resumedBy)
         /\ RecIs(ReturnAmendments(r), r.holder, r.queued \cup r.amendments, {}, r.triagedBy,
                  r.parked, r.resumedBy)
<1>1. RecordAmendments(r, ids) \in TurnRecords /\ ClearAmendments(r, ids) \in TurnRecords
  BY DEF TurnRecords, RecordAmendments, ClearAmendments
<1>2. ReturnAmendments(r) \in TurnRecords
  BY DEF TurnRecords, ReturnAmendments
<1>3. RecIs(RecordAmendments(r, ids), r.holder, r.queued,
            r.amendments \cup (ids \cap r.queued), r.triagedBy, r.parked, r.resumedBy)
  BY DEF TurnRecords, RecordAmendments, RecIs
<1>4. RecIs(ClearAmendments(r, ids), r.holder, r.queued, r.amendments \ ids, r.triagedBy,
            r.parked, r.resumedBy)
  BY DEF TurnRecords, ClearAmendments, RecIs
<1>5. RecIs(ReturnAmendments(r), r.holder, r.queued \cup r.amendments, {}, r.triagedBy, r.parked,
            r.resumedBy)
  BY DEF TurnRecords, ReturnAmendments, RecIs
<1>6. QED BY <1>1, <1>2, <1>3, <1>4, <1>5

LEMMA ParkedWrites ==
  ASSUME NEW r \in TurnRecords, NEW t \in Messages, NEW c \in Readings
  PROVE  /\ Park(r, t, c) \in TurnRecords /\ TakeParked(r) \in TurnRecords
         /\ AbandonResume(r, c) \in TurnRecords
         /\ r.parked \in Messages => BeginResume(r, c) \in TurnRecords
         /\ RecIs(Park(r, t, c), c, r.queued, r.amendments, r.triagedBy, t, r.resumedBy)
         /\ RecIs(TakeParked(r), r.holder, r.queued, r.amendments, r.triagedBy, NoOne, NoOne)
         /\ RecIs(AbandonResume(r, c), c, r.queued, r.amendments, r.triagedBy, r.parked, NoOne)
         /\ RecIs(BeginResume(r, c), r.parked, r.queued, r.amendments, r.triagedBy, r.parked, c)
<1>1. Park(r, t, c) \in TurnRecords /\ TakeParked(r) \in TurnRecords
  BY DEF TurnRecords, Park, TakeParked, Turns
<1>2. AbandonResume(r, c) \in TurnRecords
  BY DEF TurnRecords, AbandonResume, Turns
<1>3. ASSUME r.parked \in Messages PROVE BeginResume(r, c) \in TurnRecords
  BY <1>3 DEF TurnRecords, BeginResume, Turns
<1>4. RecIs(Park(r, t, c), c, r.queued, r.amendments, r.triagedBy, t, r.resumedBy)
  BY DEF TurnRecords, Park, RecIs
<1>5. RecIs(TakeParked(r), r.holder, r.queued, r.amendments, r.triagedBy, NoOne, NoOne)
  BY DEF TurnRecords, TakeParked, RecIs
<1>6. RecIs(AbandonResume(r, c), c, r.queued, r.amendments, r.triagedBy, r.parked, NoOne)
  BY DEF TurnRecords, AbandonResume, RecIs
<1>7. RecIs(BeginResume(r, c), r.parked, r.queued, r.amendments, r.triagedBy, r.parked, c)
  BY DEF TurnRecords, BeginResume, RecIs
<1>8. QED BY <1>1, <1>2, <1>3, <1>4, <1>5, <1>6, <1>7

-----------------------------------------------------------------------------
(* What the writes of a run leave.                                          *)

Most == IF FoldLimit > PassLimit THEN FoldLimit ELSE PassLimit

LEMMA RunsAre ==
  Runs = [ pc : RunPcs, n : 0..Most, ids : SUBSET Messages, seen : SUBSET Messages,
           amend : SUBSET Messages, other : Readings \cup {NoOne}, busy : BOOLEAN, again : BOOLEAN,
           closing : BOOLEAN, handed : BOOLEAN, once : BOOLEAN ]
BY DEF Runs, Most

LEMMA Within ==
  ASSUME NEW k \in Nat, k <= FoldLimit \/ k <= PassLimit PROVE k \in 0..Most
BY LimitsAssumption DEF Most

LEMMA Apart == /\ \A p \in Procs : p \in Readings <=> p \notin Messages
               /\ \A p \in Procs : p # NoOne
               /\ NoOne \notin Messages \cup Readings
BY IdsAssumption DEF Procs

\* The fields of a run are what Runs says they are.
LEMMA RunFields ==
  ASSUME NEW s \in Runs
  PROVE  /\ s.pc \in RunPcs /\ s.n \in 0..Most /\ s.n \in Nat
         /\ s.ids \subseteq Messages /\ s.seen \subseteq Messages /\ s.amend \subseteq Messages
         /\ s.other \in Readings \cup {NoOne}
         /\ s.again \in BOOLEAN /\ s.closing \in BOOLEAN /\ s.handed \in BOOLEAN
         /\ s.busy \in BOOLEAN /\ s.once \in BOOLEAN
<1>1. s.n \in 0..Most
  BY DEF Runs, Most
<1>2. QED BY <1>1 DEF Runs

LEMMA FreshRun ==
  ASSUME NEW p \in Procs
  PROVE  /\ Fresh(p) \in Runs
         /\ RunIs(Fresh(p), "none", 0, IF p \in Messages THEN {p} ELSE {}, {}, {}, NoOne, FALSE,
                  FALSE, FALSE)
<1>1. 0 \in 0..Most
  BY Within, LimitsAssumption
<1>2. PICK own \in SUBSET Messages : own = IF p \in Messages THEN {p} ELSE {}
  OBVIOUS
<1>3. Fresh(p) = [ pc |-> "none", n |-> 0, ids |-> own, seen |-> {}, amend |-> {}, other |-> NoOne,
                   busy |-> FALSE, again |-> FALSE, closing |-> FALSE, handed |-> FALSE,
                   once |-> FALSE ]
  BY <1>2 DEF Fresh
<1>4. Fresh(p) \in Runs
  BY <1>1, <1>3 DEF Runs, RunPcs, Most
<1>5. QED BY <1>2, <1>3, <1>4 DEF RunIs

LEMMA Wrote ==
  ASSUME run \in [Procs -> Runs], NEW p \in Procs, NEW s \in Runs, run' = [run EXCEPT ![p] = s]
  PROVE  /\ run' \in [Procs -> Runs] /\ run'[p] = s
         /\ \A q \in Procs \ {p} : run'[q] = run[q]
OBVIOUS

(* A run goes on to another point, is over, and leaves the others alone.    *)
Others(p)    == \A q \in Procs \ {p} : run'[q] = run[q]
Moved(p, pc) == RunIs(run'[p], pc, run[p].n, run[p].ids, run[p].seen, run[p].amend, run[p].other,
                      run[p].again, run[p].closing, run[p].handed)
IsOver(p)    == RunIs(run'[p], "over", 0, IF p \in Messages THEN {p} ELSE {}, {}, {}, NoOne, FALSE,
                      FALSE, FALSE)
RunsKept     == run' \in [Procs -> Runs]
LeftOrDead(p) == \A q \in Procs \ {p} : run'[q] = run[q] \/ Moved(q, "dead")

LEMMA GoesTo ==
  ASSUME run \in [Procs -> Runs], NEW p \in Procs, NEW pc \in RunPcs, Goes(p, pc)
  PROVE  RunsKept /\ Others(p) /\ Moved(p, pc)
<1> DEFINE s == [run[p] EXCEPT !.pc = pc]
<1>1. run[p] \in Runs
  OBVIOUS
<1>2. s \in Runs
  BY <1>1 DEF Runs
<1>3. RunIs(s, pc, run[p].n, run[p].ids, run[p].seen, run[p].amend, run[p].other, run[p].again,
            run[p].closing, run[p].handed)
  BY <1>1 DEF Runs, RunIs
<1>4. run' = [run EXCEPT ![p] = s]
  BY DEF Goes
<1> HIDE DEF s
<1>5. RunsKept /\ run'[p] = s /\ Others(p)
  BY <1>2, <1>4, Wrote DEF RunsKept, Others
<1>6. QED BY <1>3, <1>5 DEF Moved

LEMMA EndsRun ==
  ASSUME run \in [Procs -> Runs], NEW p \in Procs, Ends(p)
  PROVE  RunsKept /\ Others(p) /\ IsOver(p)
<1> DEFINE f == Fresh(p)
           s == Ended(p)
<1>1. f \in Runs
  BY FreshRun
<1>2. PICK own : own = IF p \in Messages THEN {p} ELSE {}
  OBVIOUS
<1>3. RunIs(f, "none", 0, own, {}, {}, NoOne, FALSE, FALSE, FALSE)
  BY <1>2, FreshRun
<1>4. s = [f EXCEPT !.pc = "over"]
  BY DEF Ended
<1>5. s \in Runs
  BY <1>1, <1>4 DEF Runs, RunPcs
<1>6. RunIs(s, "over", 0, own, {}, {}, NoOne, FALSE, FALSE, FALSE)
  BY <1>1, <1>3, <1>4 DEF Runs, RunIs
<1>7. run' = [run EXCEPT ![p] = s]
  BY DEF Ends
<1> HIDE DEF s
<1>8. RunsKept /\ run'[p] = s /\ Others(p)
  BY <1>5, <1>7, Wrote DEF RunsKept, Others
<1>9. QED BY <1>2, <1>6, <1>8 DEF IsOver

(* The writes of several fields, named so that a lemma can speak of them.   *)
WroteSeen(p, seen) == run' = [run EXCEPT ![p].seen = seen]
WroteTaken(p, seen, busy) ==
    run' = [run EXCEPT ![p] = [Fresh(p) EXCEPT !.pc = "claim", !.seen = seen, !.busy = busy]]
WroteStart(p, n, ids) == run' = [run EXCEPT ![p].pc = "go", ![p].n = n, ![p].ids = ids]
WroteDelivered(p) == run' = [run EXCEPT ![p].pc = "exit", ![p].amend = {}, ![p].other = NoOne]
WroteReader(p, other, amend) ==
    run' = [run EXCEPT ![p].pc = "park", ![p].other = other, ![p].amend = amend]
WroteFold(p, amend) == run' = [run EXCEPT ![p].pc = "fold", ![p].amend = amend]
WroteParked(p) ==
    run' = [run EXCEPT ![p].pc = "parked", ![p].once = TRUE, ![p].other = NoOne, ![p].amend = {}]
WroteFolded(p, n, ids) == run' = [run EXCEPT ![p] = [Fresh(p) EXCEPT !.n = n, !.ids = ids]]
WrotePass(p, n, ids, busy) ==
    run' = [run EXCEPT ![p] = [Fresh(p) EXCEPT !.pc = "go", !.n = n, !.ids = ids, !.busy = busy]]
WroteNoPass(p) == run' = [run EXCEPT ![p].pc = "resume", ![p].again = FALSE]
WroteJudged(p, again, seen, amend) ==
    run' = [run EXCEPT ![p].pc = "still", ![p].again = again, ![p].seen = seen, ![p].amend = amend]
WroteClosing(p) == run' = [run EXCEPT ![p].pc = "resume", ![p].closing = TRUE]
WroteNoFollowUps(p) == run' = [run EXCEPT ![p].pc = "resume", ![p].amend = {}]
WroteExit(p, seen, other, pc) ==
    run' = [run EXCEPT ![p].seen = seen, ![p].other = other, ![p].pc = pc]
WroteReturned(p, seen, pc) == run' = [run EXCEPT ![p].seen = seen, ![p].pc = pc]
WroteClaim(p, pc, other) == run' = [run EXCEPT ![p].pc = pc, ![p].other = other]
WroteHand(p, pc, handed) == run' = [run EXCEPT ![p].pc = pc, ![p].handed = handed]

LEMMA SeenWritten ==
  ASSUME run \in [Procs -> Runs], NEW p \in Procs, NEW seen \in SUBSET Messages,
         WroteSeen(p, seen)
  PROVE  /\ RunsKept /\ Others(p)
         /\ RunIs(run'[p], run[p].pc, run[p].n, run[p].ids, seen, run[p].amend, run[p].other,
                  run[p].again, run[p].closing, run[p].handed)
<1> DEFINE s == [run[p] EXCEPT !.seen = seen]
<1>1. run[p] \in Runs
  OBVIOUS
<1>2. s \in Runs
  BY <1>1, RunsAre DEF RunPcs
<1>3. RunIs(s, run[p].pc, run[p].n, run[p].ids, seen, run[p].amend, run[p].other, run[p].again,
            run[p].closing, run[p].handed)
  BY <1>1, RunsAre DEF RunIs
<1>4. run' = [run EXCEPT ![p] = s]
  BY DEF WroteSeen
<1> HIDE DEF s
<1>5. RunsKept /\ run'[p] = s /\ Others(p)
  BY <1>2, <1>4, Wrote DEF RunsKept, Others
<1>6. QED BY <1>3, <1>5

LEMMA TakenWritten ==
  ASSUME run \in [Procs -> Runs], NEW p \in Procs, NEW seen \in SUBSET Messages,
         NEW busy \in BOOLEAN, WroteTaken(p, seen, busy)
  PROVE  /\ RunsKept /\ Others(p)
         /\ RunIs(run'[p], "claim", 0, IF p \in Messages THEN {p} ELSE {}, seen, {}, NoOne,
                  FALSE, FALSE, FALSE)
<1> DEFINE f == Fresh(p)
           s == [f EXCEPT !.pc = "claim", !.seen = seen, !.busy = busy]
<1>1. f \in Runs
  BY FreshRun
<1>2. PICK own : own = IF p \in Messages THEN {p} ELSE {}
  OBVIOUS
<1>3. RunIs(f, "none", 0, own, {}, {}, NoOne, FALSE, FALSE, FALSE)
  BY <1>2, FreshRun
<1>4. run' = [run EXCEPT ![p] = s]
  BY DEF WroteTaken
<1> HIDE DEF f
<1>5. s \in Runs
  BY <1>1, RunsAre DEF RunPcs
<1>6. RunIs(s, "claim", 0, own, seen, {}, NoOne, FALSE, FALSE, FALSE)
  BY <1>1, <1>3, RunsAre DEF RunIs
<1> HIDE DEF s
<1>7. RunsKept /\ run'[p] = s /\ Others(p)
  BY <1>4, <1>5, Wrote DEF RunsKept, Others
<1>8. QED BY <1>2, <1>6, <1>7

LEMMA StartWritten ==
  ASSUME run \in [Procs -> Runs], NEW p \in Procs, NEW n \in 0..Most,
         NEW ids \in SUBSET Messages, WroteStart(p, n, ids)
  PROVE  /\ RunsKept /\ Others(p)
         /\ RunIs(run'[p], "go", n, ids, run[p].seen, run[p].amend, run[p].other, run[p].again,
                  run[p].closing, run[p].handed)
<1> DEFINE s == [run[p] EXCEPT !.pc = "go", !.n = n, !.ids = ids]
<1>1. run[p] \in Runs
  OBVIOUS
<1>2. s \in Runs
  BY <1>1, RunsAre DEF RunPcs
<1>3. RunIs(s, "go", n, ids, run[p].seen, run[p].amend, run[p].other, run[p].again,
            run[p].closing, run[p].handed)
  BY <1>1, RunsAre DEF RunIs
<1>4. run' = [run EXCEPT ![p] = s]
  BY DEF WroteStart
<1> HIDE DEF s
<1>5. RunsKept /\ run'[p] = s /\ Others(p)
  BY <1>2, <1>4, Wrote DEF RunsKept, Others
<1>6. QED BY <1>3, <1>5

LEMMA DeliveredWritten ==
  ASSUME run \in [Procs -> Runs], NEW p \in Procs, WroteDelivered(p)
  PROVE  /\ RunsKept /\ Others(p)
         /\ RunIs(run'[p], "exit", run[p].n, run[p].ids, run[p].seen, {}, NoOne, run[p].again,
                  run[p].closing, run[p].handed)
<1> DEFINE s == [run[p] EXCEPT !.pc = "exit", !.amend = {}, !.other = NoOne]
<1>1. run[p] \in Runs
  OBVIOUS
<1>2. s \in Runs
  BY <1>1, RunsAre DEF RunPcs
<1>3. RunIs(s, "exit", run[p].n, run[p].ids, run[p].seen, {}, NoOne, run[p].again,
            run[p].closing, run[p].handed)
  BY <1>1, RunsAre DEF RunIs
<1>4. run' = [run EXCEPT ![p] = s]
  BY DEF WroteDelivered
<1> HIDE DEF s
<1>5. RunsKept /\ run'[p] = s /\ Others(p)
  BY <1>2, <1>4, Wrote DEF RunsKept, Others
<1>6. QED BY <1>3, <1>5

LEMMA ReaderWritten ==
  ASSUME run \in [Procs -> Runs], NEW p \in Procs, NEW other \in Readings \cup {NoOne},
         NEW amend \in SUBSET Messages, WroteReader(p, other, amend)
  PROVE  /\ RunsKept /\ Others(p)
         /\ RunIs(run'[p], "park", run[p].n, run[p].ids, run[p].seen, amend, other, run[p].again,
                  run[p].closing, run[p].handed)
<1> DEFINE s == [run[p] EXCEPT !.pc = "park", !.other = other, !.amend = amend]
<1>1. run[p] \in Runs
  OBVIOUS
<1>2. s \in Runs
  BY <1>1, RunsAre DEF RunPcs
<1>3. RunIs(s, "park", run[p].n, run[p].ids, run[p].seen, amend, other, run[p].again,
            run[p].closing, run[p].handed)
  BY <1>1, RunsAre DEF RunIs
<1>4. run' = [run EXCEPT ![p] = s]
  BY DEF WroteReader
<1> HIDE DEF s
<1>5. RunsKept /\ run'[p] = s /\ Others(p)
  BY <1>2, <1>4, Wrote DEF RunsKept, Others
<1>6. QED BY <1>3, <1>5

LEMMA FoldWritten ==
  ASSUME run \in [Procs -> Runs], NEW p \in Procs, NEW amend \in SUBSET Messages,
         WroteFold(p, amend)
  PROVE  /\ RunsKept /\ Others(p)
         /\ RunIs(run'[p], "fold", run[p].n, run[p].ids, run[p].seen, amend, run[p].other,
                  run[p].again, run[p].closing, run[p].handed)
<1> DEFINE s == [run[p] EXCEPT !.pc = "fold", !.amend = amend]
<1>1. run[p] \in Runs
  OBVIOUS
<1>2. s \in Runs
  BY <1>1, RunsAre DEF RunPcs
<1>3. RunIs(s, "fold", run[p].n, run[p].ids, run[p].seen, amend, run[p].other, run[p].again,
            run[p].closing, run[p].handed)
  BY <1>1, RunsAre DEF RunIs
<1>4. run' = [run EXCEPT ![p] = s]
  BY DEF WroteFold
<1> HIDE DEF s
<1>5. RunsKept /\ run'[p] = s /\ Others(p)
  BY <1>2, <1>4, Wrote DEF RunsKept, Others
<1>6. QED BY <1>3, <1>5

LEMMA ParkedWritten ==
  ASSUME run \in [Procs -> Runs], NEW p \in Procs, WroteParked(p)
  PROVE  /\ RunsKept /\ Others(p)
         /\ RunIs(run'[p], "parked", run[p].n, run[p].ids, run[p].seen, {}, NoOne, run[p].again,
                  run[p].closing, run[p].handed)
<1> DEFINE s == [run[p] EXCEPT !.pc = "parked", !.once = TRUE, !.other = NoOne, !.amend = {}]
<1>1. run[p] \in Runs
  OBVIOUS
<1>2. s \in Runs
  BY <1>1, RunsAre DEF RunPcs
<1>3. RunIs(s, "parked", run[p].n, run[p].ids, run[p].seen, {}, NoOne, run[p].again,
            run[p].closing, run[p].handed)
  BY <1>1, RunsAre DEF RunIs
<1>4. run' = [run EXCEPT ![p] = s]
  BY DEF WroteParked
<1> HIDE DEF s
<1>5. RunsKept /\ run'[p] = s /\ Others(p)
  BY <1>2, <1>4, Wrote DEF RunsKept, Others
<1>6. QED BY <1>3, <1>5

LEMMA FoldedWritten ==
  ASSUME run \in [Procs -> Runs], NEW p \in Procs, NEW n \in 0..Most,
         NEW ids \in SUBSET Messages, WroteFolded(p, n, ids)
  PROVE  /\ RunsKept /\ Others(p)
         /\ RunIs(run'[p], "none", n, ids, {}, {}, NoOne, FALSE, FALSE, FALSE)
<1> DEFINE f == Fresh(p)
           s == [f EXCEPT !.n = n, !.ids = ids]
<1>1. f \in Runs
  BY FreshRun
<1>2. PICK own : own = IF p \in Messages THEN {p} ELSE {}
  OBVIOUS
<1>3. RunIs(f, "none", 0, own, {}, {}, NoOne, FALSE, FALSE, FALSE)
  BY <1>2, FreshRun
<1>4. run' = [run EXCEPT ![p] = s]
  BY DEF WroteFolded
<1> HIDE DEF f
<1>5. s \in Runs
  BY <1>1, RunsAre DEF RunPcs
<1>6. RunIs(s, "none", n, ids, {}, {}, NoOne, FALSE, FALSE, FALSE)
  BY <1>1, <1>3, RunsAre DEF RunIs
<1> HIDE DEF s
<1>7. RunsKept /\ run'[p] = s /\ Others(p)
  BY <1>4, <1>5, Wrote DEF RunsKept, Others
<1>8. QED BY <1>2, <1>6, <1>7

LEMMA PassWritten ==
  ASSUME run \in [Procs -> Runs], NEW p \in Procs, NEW n \in 0..Most,
         NEW ids \in SUBSET Messages, NEW busy \in BOOLEAN, WrotePass(p, n, ids, busy)
  PROVE  /\ RunsKept /\ Others(p)
         /\ RunIs(run'[p], "go", n, ids, {}, {}, NoOne, FALSE, FALSE, FALSE)
<1> DEFINE f == Fresh(p)
           s == [f EXCEPT !.pc = "go", !.n = n, !.ids = ids, !.busy = busy]
<1>1. f \in Runs
  BY FreshRun
<1>2. PICK own : own = IF p \in Messages THEN {p} ELSE {}
  OBVIOUS
<1>3. RunIs(f, "none", 0, own, {}, {}, NoOne, FALSE, FALSE, FALSE)
  BY <1>2, FreshRun
<1>4. run' = [run EXCEPT ![p] = s]
  BY DEF WrotePass
<1> HIDE DEF f
<1>5. s \in Runs
  BY <1>1, RunsAre DEF RunPcs
<1>6. RunIs(s, "go", n, ids, {}, {}, NoOne, FALSE, FALSE, FALSE)
  BY <1>1, <1>3, RunsAre DEF RunIs
<1> HIDE DEF s
<1>7. RunsKept /\ run'[p] = s /\ Others(p)
  BY <1>4, <1>5, Wrote DEF RunsKept, Others
<1>8. QED BY <1>2, <1>6, <1>7

LEMMA NoPassWritten ==
  ASSUME run \in [Procs -> Runs], NEW p \in Procs, WroteNoPass(p)
  PROVE  /\ RunsKept /\ Others(p)
         /\ RunIs(run'[p], "resume", run[p].n, run[p].ids, run[p].seen, run[p].amend,
                  run[p].other, FALSE, run[p].closing, run[p].handed)
<1> DEFINE s == [run[p] EXCEPT !.pc = "resume", !.again = FALSE]
<1>1. run[p] \in Runs
  OBVIOUS
<1>2. s \in Runs
  BY <1>1, RunsAre DEF RunPcs
<1>3. RunIs(s, "resume", run[p].n, run[p].ids, run[p].seen, run[p].amend, run[p].other, FALSE,
            run[p].closing, run[p].handed)
  BY <1>1, RunsAre DEF RunIs
<1>4. run' = [run EXCEPT ![p] = s]
  BY DEF WroteNoPass
<1> HIDE DEF s
<1>5. RunsKept /\ run'[p] = s /\ Others(p)
  BY <1>2, <1>4, Wrote DEF RunsKept, Others
<1>6. QED BY <1>3, <1>5

LEMMA JudgedWritten ==
  ASSUME run \in [Procs -> Runs], NEW p \in Procs, NEW again \in BOOLEAN,
         NEW seen \in SUBSET Messages, NEW amend \in SUBSET Messages,
         WroteJudged(p, again, seen, amend)
  PROVE  /\ RunsKept /\ Others(p)
         /\ RunIs(run'[p], "still", run[p].n, run[p].ids, seen, amend, run[p].other, again,
                  run[p].closing, run[p].handed)
<1> DEFINE s == [run[p] EXCEPT !.pc = "still", !.again = again, !.seen = seen, !.amend = amend]
<1>1. run[p] \in Runs
  OBVIOUS
<1>2. s \in Runs
  BY <1>1, RunsAre DEF RunPcs
<1>3. RunIs(s, "still", run[p].n, run[p].ids, seen, amend, run[p].other, again, run[p].closing,
            run[p].handed)
  BY <1>1, RunsAre DEF RunIs
<1>4. run' = [run EXCEPT ![p] = s]
  BY DEF WroteJudged
<1> HIDE DEF s
<1>5. RunsKept /\ run'[p] = s /\ Others(p)
  BY <1>2, <1>4, Wrote DEF RunsKept, Others
<1>6. QED BY <1>3, <1>5

LEMMA ClosingWritten ==
  ASSUME run \in [Procs -> Runs], NEW p \in Procs, WroteClosing(p)
  PROVE  /\ RunsKept /\ Others(p)
         /\ RunIs(run'[p], "resume", run[p].n, run[p].ids, run[p].seen, run[p].amend,
                  run[p].other, run[p].again, TRUE, run[p].handed)
<1> DEFINE s == [run[p] EXCEPT !.pc = "resume", !.closing = TRUE]
<1>1. run[p] \in Runs
  OBVIOUS
<1>2. s \in Runs
  BY <1>1, RunsAre DEF RunPcs
<1>3. RunIs(s, "resume", run[p].n, run[p].ids, run[p].seen, run[p].amend, run[p].other,
            run[p].again, TRUE, run[p].handed)
  BY <1>1, RunsAre DEF RunIs
<1>4. run' = [run EXCEPT ![p] = s]
  BY DEF WroteClosing
<1> HIDE DEF s
<1>5. RunsKept /\ run'[p] = s /\ Others(p)
  BY <1>2, <1>4, Wrote DEF RunsKept, Others
<1>6. QED BY <1>3, <1>5

LEMMA NoFollowUpsWritten ==
  ASSUME run \in [Procs -> Runs], NEW p \in Procs, WroteNoFollowUps(p)
  PROVE  /\ RunsKept /\ Others(p)
         /\ RunIs(run'[p], "resume", run[p].n, run[p].ids, run[p].seen, {}, run[p].other,
                  run[p].again, run[p].closing, run[p].handed)
<1> DEFINE s == [run[p] EXCEPT !.pc = "resume", !.amend = {}]
<1>1. run[p] \in Runs
  OBVIOUS
<1>2. s \in Runs
  BY <1>1, RunsAre DEF RunPcs
<1>3. RunIs(s, "resume", run[p].n, run[p].ids, run[p].seen, {}, run[p].other, run[p].again,
            run[p].closing, run[p].handed)
  BY <1>1, RunsAre DEF RunIs
<1>4. run' = [run EXCEPT ![p] = s]
  BY DEF WroteNoFollowUps
<1> HIDE DEF s
<1>5. RunsKept /\ run'[p] = s /\ Others(p)
  BY <1>2, <1>4, Wrote DEF RunsKept, Others
<1>6. QED BY <1>3, <1>5

LEMMA ExitWritten ==
  ASSUME run \in [Procs -> Runs], NEW p \in Procs, NEW seen \in SUBSET Messages,
         NEW other \in Readings \cup {NoOne}, NEW pc \in RunPcs, WroteExit(p, seen, other, pc)
  PROVE  /\ RunsKept /\ Others(p)
         /\ RunIs(run'[p], pc, run[p].n, run[p].ids, seen, run[p].amend, other, run[p].again,
                  run[p].closing, run[p].handed)
<1> DEFINE s == [run[p] EXCEPT !.seen = seen, !.other = other, !.pc = pc]
<1>1. run[p] \in Runs
  OBVIOUS
<1>2. s \in Runs
  BY <1>1, RunsAre
<1>3. RunIs(s, pc, run[p].n, run[p].ids, seen, run[p].amend, other, run[p].again, run[p].closing,
            run[p].handed)
  BY <1>1, RunsAre DEF RunIs
<1>4. run' = [run EXCEPT ![p] = s]
  BY DEF WroteExit
<1> HIDE DEF s
<1>5. RunsKept /\ run'[p] = s /\ Others(p)
  BY <1>2, <1>4, Wrote DEF RunsKept, Others
<1>6. QED BY <1>3, <1>5

LEMMA ReturnedWritten ==
  ASSUME run \in [Procs -> Runs], NEW p \in Procs, NEW seen \in SUBSET Messages,
         NEW pc \in RunPcs, WroteReturned(p, seen, pc)
  PROVE  /\ RunsKept /\ Others(p)
         /\ RunIs(run'[p], pc, run[p].n, run[p].ids, seen, run[p].amend, run[p].other,
                  run[p].again, run[p].closing, run[p].handed)
<1> DEFINE s == [run[p] EXCEPT !.seen = seen, !.pc = pc]
<1>1. run[p] \in Runs
  OBVIOUS
<1>2. s \in Runs
  BY <1>1, RunsAre
<1>3. RunIs(s, pc, run[p].n, run[p].ids, seen, run[p].amend, run[p].other, run[p].again,
            run[p].closing, run[p].handed)
  BY <1>1, RunsAre DEF RunIs
<1>4. run' = [run EXCEPT ![p] = s]
  BY DEF WroteReturned
<1> HIDE DEF s
<1>5. RunsKept /\ run'[p] = s /\ Others(p)
  BY <1>2, <1>4, Wrote DEF RunsKept, Others
<1>6. QED BY <1>3, <1>5

LEMMA ClaimWritten ==
  ASSUME run \in [Procs -> Runs], NEW p \in Procs, NEW pc \in RunPcs,
         NEW other \in Readings \cup {NoOne}, WroteClaim(p, pc, other)
  PROVE  /\ RunsKept /\ Others(p)
         /\ RunIs(run'[p], pc, run[p].n, run[p].ids, run[p].seen, run[p].amend, other,
                  run[p].again, run[p].closing, run[p].handed)
<1> DEFINE s == [run[p] EXCEPT !.pc = pc, !.other = other]
<1>1. run[p] \in Runs
  OBVIOUS
<1>2. s \in Runs
  BY <1>1, RunsAre
<1>3. RunIs(s, pc, run[p].n, run[p].ids, run[p].seen, run[p].amend, other, run[p].again,
            run[p].closing, run[p].handed)
  BY <1>1, RunsAre DEF RunIs
<1>4. run' = [run EXCEPT ![p] = s]
  BY DEF WroteClaim
<1> HIDE DEF s
<1>5. RunsKept /\ run'[p] = s /\ Others(p)
  BY <1>2, <1>4, Wrote DEF RunsKept, Others
<1>6. QED BY <1>3, <1>5

LEMMA HandWritten ==
  ASSUME run \in [Procs -> Runs], NEW p \in Procs, NEW pc \in RunPcs, NEW handed \in BOOLEAN,
         WroteHand(p, pc, handed)
  PROVE  /\ RunsKept /\ Others(p)
         /\ RunIs(run'[p], pc, run[p].n, run[p].ids, run[p].seen, run[p].amend, run[p].other,
                  run[p].again, run[p].closing, handed)
<1> DEFINE s == [run[p] EXCEPT !.pc = pc, !.handed = handed]
<1>1. run[p] \in Runs
  OBVIOUS
<1>2. s \in Runs
  BY <1>1, RunsAre
<1>3. RunIs(s, pc, run[p].n, run[p].ids, run[p].seen, run[p].amend, run[p].other, run[p].again,
            run[p].closing, handed)
  BY <1>1, RunsAre DEF RunIs
<1>4. run' = [run EXCEPT ![p] = s]
  BY DEF WroteHand
<1> HIDE DEF s
<1>5. RunsKept /\ run'[p] = s /\ Others(p)
  BY <1>2, <1>4, Wrote DEF RunsKept, Others
<1>6. QED BY <1>3, <1>5

\* A write that failed leaves another run, or a reading that was claimed for, dead.
WroteDead(p, pc, q)    == run' = [run EXCEPT ![p].pc = pc, ![q].pc = "dead"]
WroteGivenUp(p, pc, q) == run' = [run EXCEPT ![p].pc = pc, ![p].other = NoOne, ![q].pc = "dead"]

LEMMA DeadWritten ==
  ASSUME run \in [Procs -> Runs], NEW p \in Procs, NEW q \in Procs, q # p, NEW pc \in RunPcs,
         WroteDead(p, pc, q) \/ WroteGivenUp(p, pc, q)
  PROVE  /\ RunsKept /\ Moved(q, "dead") /\ \A o \in Procs \ {p, q} : run'[o] = run[o]
         /\ WroteDead(p, pc, q) => Moved(p, pc)
         /\ WroteGivenUp(p, pc, q) =>
              RunIs(run'[p], pc, run[p].n, run[p].ids, run[p].seen, run[p].amend, NoOne,
                    run[p].again, run[p].closing, run[p].handed)
<1> DEFINE s == [run[p] EXCEPT !.pc = pc]
           t == [run[p] EXCEPT !.pc = pc, !.other = NoOne]
           u == [run[q] EXCEPT !.pc = "dead"]
<1>1. run[p] \in Runs /\ run[q] \in Runs
  OBVIOUS
<1>2. s \in Runs
  BY <1>1, RunsAre
<1>3. t \in Runs
  BY <1>1, RunsAre
<1>4. u \in Runs
  BY <1>1, RunsAre DEF RunPcs
<1>5. RunIs(s, pc, run[p].n, run[p].ids, run[p].seen, run[p].amend, run[p].other, run[p].again,
            run[p].closing, run[p].handed)
  BY <1>1, RunsAre DEF RunIs
<1>6. RunIs(t, pc, run[p].n, run[p].ids, run[p].seen, run[p].amend, NoOne, run[p].again,
            run[p].closing, run[p].handed)
  BY <1>1, RunsAre DEF RunIs
<1>7. RunIs(u, "dead", run[q].n, run[q].ids, run[q].seen, run[q].amend, run[q].other,
            run[q].again, run[q].closing, run[q].handed)
  BY <1>1, RunsAre DEF RunIs
<1>8. CASE WroteDead(p, pc, q)
  <2>1. run' = [run EXCEPT ![p] = s, ![q] = u]
    BY <1>8 DEF WroteDead
  <2> HIDE DEF s, t, u
  <2>2. RunsKept /\ run'[p] = s /\ run'[q] = u /\ \A o \in Procs \ {p, q} : run'[o] = run[o]
    BY <1>2, <1>4, <2>1 DEF RunsKept
  <2>3. Moved(p, pc) /\ Moved(q, "dead")
    BY <1>5, <1>7, <2>2 DEF Moved
  <2>4. QED
    <3>1. CASE WroteGivenUp(p, pc, q)
      <4>1. run'[p].other = NoOne
        BY <1>1, <3>1, RunsAre DEF WroteGivenUp
      <4>2. QED BY <2>2, <2>3, <4>1 DEF Moved, RunIs
    <3>2. QED BY <2>2, <2>3, <3>1
<1>9. CASE WroteGivenUp(p, pc, q) /\ ~WroteDead(p, pc, q)
  <2>1. run' = [run EXCEPT ![p] = t, ![q] = u]
    BY <1>9 DEF WroteGivenUp
  <2> HIDE DEF s, t, u
  <2>2. RunsKept /\ run'[p] = t /\ run'[q] = u /\ \A o \in Procs \ {p, q} : run'[o] = run[o]
    BY <1>3, <1>4, <2>1 DEF RunsKept
  <2>3. QED BY <1>6, <1>7, <1>9, <2>2 DEF Moved
<1>10. QED BY <1>8, <1>9

-----------------------------------------------------------------------------
(* What a step leaves, over all the variables.                              *)

LedgerSame == /\ redacted' = redacted /\ answered' = answered /\ tasked' = tasked
              /\ judged' = judged /\ told' = told

(* The router's invocation for m goes on, the others do not.                *)
AskGoes(m, pcs) == ask'[m] \in pcs /\ \A o \in Messages \ {m} : ask'[o] = ask[o]

(* The holder alone is written; nothing but the queue is.                   *)
HolderIs(h) == RecIs(rec', h, rec.queued, rec.amendments, rec.triagedBy, rec.parked, rec.resumedBy)
QueueIs(q)  == RecIs(rec', rec.holder, q, rec.amendments, rec.triagedBy, rec.parked, rec.resumedBy)
ClaimIs(c)  == RecIs(rec', rec.holder, rec.queued, rec.amendments, c, rec.parked, rec.resumedBy)

LEMMA Failing ==
  ASSUME TypeOK, NEW kind, Works \/ Fails(kind)
  PROVE  faults' \in 0..MaxFaults /\ (UNCHANGED faults \/ kind \in Faults)
BY LimitsAssumption DEF TypeOK, Works, Fails

LEMMA Counting ==
  ASSUME NEW f \in [Messages -> 0..2], NEW ids
  PROVE  /\ Count(f, ids) \in [Messages -> 0..2]
         /\ \A m \in Messages : /\ Count(f, ids)[m] >= f[m]
                                /\ m \notin ids => Count(f, ids)[m] = f[m]
                                /\ m \in ids => Count(f, ids)[m] > 0
                                /\ m \in ids /\ f[m] = 0 => Count(f, ids)[m] = 1
BY DEF Count

\* A claim on the queue is taken only from nobody, or from a reading nothing runs under.
LEMMA ClaimTaken ==
  ASSUME NEW r \in Readings,
         \E expired \in {FALSE, Gone(rec.triagedBy)} : ClaimTriageOk(rec, r, expired)
  PROVE  rec.triagedBy \in {NoOne, r} \/ ~Live(rec.triagedBy)
BY DEF ClaimTriageOk, Gone

\* What a step that changes the record and the runs only has to show of TypeOK.
LEMMA RunTyped ==
  ASSUME TypeOK, rec' \in TurnRecords, RunsKept, faults' \in 0..MaxFaults, UNCHANGED router,
         LedgerSame
  PROVE  TypeOK'
<1>1. ask' = ask /\ tail' = tail /\ events' = events
  BY DEF router
<1>2. rec' \in TurnRecords /\ run' \in [Procs -> Runs] /\ faults' \in 0..MaxFaults
  BY DEF RunsKept
<1>3. /\ redacted' \subseteq Messages /\ judged' \subseteq Messages /\ told' \subseteq Messages
      /\ answered' \in [Messages -> 0..2] /\ tasked' \in [Messages -> 0..2]
  BY DEF TypeOK, LedgerSame
<1>4. QED BY <1>1, <1>2, <1>3 DEF TypeOK

-----------------------------------------------------------------------------
(* The steps of the router.                                                 *)

LEMMA ClaimTurnForStep ==
  ASSUME TypeOK, NEW m \in Messages, ClaimTurnFor(m)
  PROVE  /\ TypeOK' /\ ask[m] \in {"unsent", "claim"} /\ run' = run /\ tail' = tail /\ LedgerSame
         /\ \/ HolderIs(m) /\ AskGoes(m, {"claimed"})
            \/ rec' = rec /\ AskGoes(m, {"claimed", "read"})
<1>1. ask[m] \in {"unsent", "claim"} /\ run' = run /\ tail' = tail /\ events' = events /\ LedgerSame
  BY DEF ClaimTurnFor, ledger, LedgerSame
<1>2. faults' \in 0..MaxFaults
  BY Failing DEF ClaimTurnFor
<1>3. CASE rec' = ClaimTurn(rec, m) /\ ask' = [ask EXCEPT ![m] = "claimed"]
  <2>1. rec' \in TurnRecords /\ HolderIs(m)
    BY <1>3, HolderWrites DEF TypeOK, Turns, HolderIs
  <2>2. TypeOK' /\ AskGoes(m, {"claimed"})
    BY <1>1, <1>2, <1>3, <2>1 DEF TypeOK, AskPcs, AskGoes, LedgerSame
  <2>3. QED BY <1>1, <2>1, <2>2
<1>4. CASE rec' = rec /\ \E pc \in {"claimed", "read"} : ask' = [ask EXCEPT ![m] = pc]
  <2>1. TypeOK' /\ AskGoes(m, {"claimed", "read"})
    BY <1>1, <1>2, <1>4 DEF TypeOK, AskPcs, AskGoes, LedgerSame
  <2>2. QED BY <1>1, <1>4, <2>1
<1>5. QED BY <1>3, <1>4 DEF ClaimTurnFor

LEMMA ReadHolderStep ==
  ASSUME TypeOK, NEW m \in Messages, ReadHolder(m)
  PROVE  /\ TypeOK' /\ ask[m] = "read" /\ rec' = rec /\ run' = run /\ tail' = tail /\ LedgerSame
         /\ AskGoes(m, {"claimed", "enqueue"})
<1>1. PICK pc \in {"claimed", "enqueue"} : ask' = [ask EXCEPT ![m] = pc]
  BY DEF ReadHolder
<1>2. TypeOK' /\ AskGoes(m, {"claimed", "enqueue"})
  BY <1>1, Failing DEF ReadHolder, TypeOK, AskPcs, AskGoes, ledger
<1>3. QED BY <1>2 DEF ReadHolder, ledger, LedgerSame

LEMMA DispatchStep ==
  ASSUME TypeOK, NEW m \in Messages, Dispatch(m)
  PROVE  /\ TypeOK' /\ ask[m] = "claimed" /\ rec' = rec /\ tail' = tail /\ LedgerSame
         /\ \/ AskGoes(m, {"done"}) /\ RunsKept /\ Others(m) /\ Moved(m, "go")
            \/ AskGoes(m, {"undo"}) /\ run' = run
<1>1. ask[m] = "claimed" /\ rec' = rec /\ tail' = tail /\ events' = events /\ LedgerSame
  BY DEF Dispatch, ledger, LedgerSame
<1>2. faults' \in 0..MaxFaults
  BY Failing DEF Dispatch
<1>3. CASE ask' = [ask EXCEPT ![m] = "done"] /\ Goes(m, "go")
  <2>1. RunsKept /\ Others(m) /\ Moved(m, "go")
    BY <1>3, GoesTo DEF TypeOK, Procs, RunPcs
  <2>2. TypeOK' /\ AskGoes(m, {"done"})
    BY <1>1, <1>2, <1>3, <2>1 DEF TypeOK, AskPcs, AskGoes, LedgerSame, RunsKept
  <2>3. QED BY <1>1, <2>1, <2>2
<1>4. CASE ask' = [ask EXCEPT ![m] = "undo"] /\ run' = run
  <2>1. TypeOK' /\ AskGoes(m, {"undo"})
    BY <1>1, <1>2, <1>4 DEF TypeOK, AskPcs, AskGoes, LedgerSame
  <2>2. QED BY <1>1, <1>4, <2>1
<1>5. QED BY <1>3, <1>4 DEF Dispatch

LEMMA UndoClaimStep ==
  ASSUME TypeOK, NEW m \in Messages, UndoClaim(m)
  PROVE  /\ TypeOK' /\ ask[m] = "undo" /\ AskGoes(m, {"done"}) /\ RunsKept /\ Others(m)
         /\ tail' = tail /\ redacted' = redacted /\ answered' = answered /\ tasked' = tasked
         /\ judged' = judged /\ told' = told \cup run[m].ids
         /\ \/ IsOver(m) /\ ((rec.holder = m /\ HolderIs(NoOne)) \/ (rec.holder # m /\ rec' = rec))
            \/ Moved(m, "dead") /\ rec' = rec
<1>1. m \in Procs /\ faults' \in 0..MaxFaults
  BY Failing DEF UndoClaim, Procs
<1>2. run[m].ids \subseteq Messages
  BY RunFields DEF TypeOK, Procs
<1>3. AskGoes(m, {"done"}) /\ ask' \in [Messages -> AskPcs]
  BY DEF UndoClaim, TypeOK, AskPcs, AskGoes
<1>4. CASE rec' = (IF ReleaseOk(rec, m) THEN Release(rec) ELSE rec) /\ Ends(m)
  <2>1. RunsKept /\ Others(m) /\ IsOver(m)
    BY <1>1, <1>4, EndsRun DEF TypeOK
  <2>2. /\ rec' \in TurnRecords
        /\ (rec.holder = m /\ HolderIs(NoOne)) \/ (rec.holder # m /\ rec' = rec)
    <3>1. CASE rec.holder = m
      <4>1. rec' = Release(rec)
        BY <1>4, <3>1 DEF ReleaseOk
      <4>2. QED BY <3>1, <4>1, ReleaseWrites DEF TypeOK, HolderIs
    <3>2. CASE rec.holder # m
      BY <1>4, <3>2 DEF ReleaseOk, TypeOK
    <3>3. QED BY <3>1, <3>2
  <2>3. TypeOK'
    BY <1>1, <1>2, <1>3, <2>1, <2>2 DEF UndoClaim, TypeOK, RunsKept
  <2>4. QED BY <1>3, <2>1, <2>2, <2>3 DEF UndoClaim
<1>5. CASE rec' = rec /\ Goes(m, "dead")
  <2>1. RunsKept /\ Others(m) /\ Moved(m, "dead")
    BY <1>1, <1>5, GoesTo DEF TypeOK, RunPcs
  <2>2. TypeOK'
    BY <1>1, <1>2, <1>3, <1>5, <2>1 DEF UndoClaim, TypeOK, RunsKept
  <2>3. QED BY <1>3, <1>5, <2>1, <2>2 DEF UndoClaim
<1>6. QED BY <1>4, <1>5 DEF UndoClaim

LEMMA EnqueueMessageStep ==
  ASSUME TypeOK, NEW m \in Messages, EnqueueMessage(m)
  PROVE  /\ TypeOK' /\ ask[m] = "enqueue" /\ tail' = tail /\ redacted' = redacted
         /\ answered' = answered /\ tasked' = tasked /\ judged' = judged
         /\ \/ /\ AskGoes(m, {"trim", "notice"}) /\ QueueIs(rec.queued \cup {m}) /\ told' = told
               /\ RunsKept /\ Others(m)
               /\ RunIs(run'[m], run[m].pc, run[m].n, run[m].ids, rec'.queued, run[m].amend,
                        run[m].other, run[m].again, run[m].closing, run[m].handed)
            \/ AskGoes(m, {"done"}) /\ rec' = rec /\ run' = run /\ told' = told \cup {m}
<1>1. /\ ask[m] = "enqueue" /\ tail' = tail /\ events' = events /\ redacted' = redacted
      /\ answered' = answered /\ tasked' = tasked /\ judged' = judged
  BY DEF EnqueueMessage
<1>2. faults' \in 0..MaxFaults
  BY Failing DEF EnqueueMessage
<1>3. CASE /\ rec' = Enqueue(rec, m)
           /\ ask' = [ask EXCEPT ![m] = IF OverflowOk(rec') THEN "trim" ELSE "notice"]
           /\ run' = [run EXCEPT ![m].seen = rec'.queued] /\ UNCHANGED told
  <2>1. rec' \in TurnRecords /\ QueueIs(rec.queued \cup {m})
    BY <1>3, EnqueueWrites DEF TypeOK, QueueIs
  <2>2. rec'.queued \in SUBSET Messages
    BY <2>1 DEF TurnRecords
  <2>3. WroteSeen(m, rec'.queued)
    BY <1>3 DEF WroteSeen
  <2>4. RunsKept /\ Others(m)
        /\ RunIs(run'[m], run[m].pc, run[m].n, run[m].ids, rec'.queued, run[m].amend,
                 run[m].other, run[m].again, run[m].closing, run[m].handed)
    BY <2>2, <2>3, SeenWritten DEF TypeOK, Procs
  <2>5. PICK pc \in {"trim", "notice"} : ask' = [ask EXCEPT ![m] = pc]
    BY <1>3
  <2>6. TypeOK' /\ AskGoes(m, {"trim", "notice"})
    BY <1>1, <1>2, <1>3, <2>1, <2>4, <2>5 DEF TypeOK, AskPcs, AskGoes, RunsKept
  <2>7. QED BY <1>1, <1>3, <2>1, <2>4, <2>6
<1>4. CASE /\ ask' = [ask EXCEPT ![m] = "done"] /\ told' = told \cup {m}
           /\ UNCHANGED <<rec, run>>
  <2>1. TypeOK' /\ AskGoes(m, {"done"})
    BY <1>1, <1>2, <1>4 DEF TypeOK, AskPcs, AskGoes
  <2>2. QED BY <1>1, <1>4, <2>1
<1>5. QED BY <1>3, <1>4 DEF EnqueueMessage

LEMMA TrimQueueStep ==
  ASSUME TypeOK, NEW m \in Messages, TrimQueue(m)
  PROVE  /\ TypeOK' /\ ask[m] = "trim" /\ AskGoes(m, {"notice"}) /\ run' = run /\ tail' = tail
         /\ redacted' = redacted /\ answered' = answered /\ tasked' = tasked /\ judged' = judged
         /\ \E oldest \in SUBSET Messages :
               QueueIs(rec.queued \ oldest) /\ told' = told \cup oldest
<1>1. /\ ask[m] = "trim" /\ run' = run /\ tail' = tail /\ events' = events /\ faults' = faults
      /\ redacted' = redacted /\ answered' = answered /\ tasked' = tasked /\ judged' = judged
  BY DEF TrimQueue
<1>2. AskGoes(m, {"notice"}) /\ ask' \in [Messages -> AskPcs]
  BY DEF TrimQueue, TypeOK, AskPcs, AskGoes
<1>3. PICK oldest \in SUBSET Messages :
        rec' \in TurnRecords /\ QueueIs(rec.queued \ oldest) /\ told' = told \cup oldest
  <2>1. CASE rec.queued = run[m].seen
    <3>1. PICK oldest \in SUBSET (rec.queued \ {m}) :
            rec' = DropOldest(rec, oldest) /\ told' = told \cup oldest
      BY <2>1 DEF TrimQueue
    <3>2. oldest \in SUBSET Messages
      BY <3>1 DEF TypeOK, TurnRecords
    <3>3. rec' \in TurnRecords /\ QueueIs(rec.queued \ oldest)
      BY <3>1, <3>2, QueueWrites DEF TypeOK, QueueIs
    <3>4. QED BY <3>1, <3>2, <3>3
  <2>2. CASE rec.queued # run[m].seen
    <3>1. rec' = rec /\ told' = told
      BY <2>2 DEF TrimQueue
    <3>2. QueueIs(rec.queued \ {}) /\ told' = told \cup {} /\ rec' \in TurnRecords
      BY <3>1 DEF QueueIs, RecIs, TypeOK
    <3>3. QED BY <3>2
  <2>3. QED BY <2>1, <2>2
<1>4. TypeOK'
  BY <1>1, <1>2, <1>3 DEF TypeOK
<1>5. QED BY <1>1, <1>2, <1>3, <1>4

LEMMA PostNoticeStep ==
  ASSUME TypeOK, NEW m \in Messages, PostNotice(m)
  PROVE  /\ TypeOK' /\ ask[m] = "notice" /\ AskGoes(m, {"done"}) /\ rec' = rec /\ tail' = tail
         /\ LedgerSame /\ RunsKept /\ Others(m)
         /\ RunIs(run'[m], run[m].pc, run[m].n, run[m].ids, {}, run[m].amend, run[m].other,
                  run[m].again, run[m].closing, run[m].handed)
<1>1. ask[m] = "notice" /\ rec' = rec /\ tail' = tail /\ LedgerSame
  BY DEF PostNotice, ledger, LedgerSame
<1>2. faults' \in 0..MaxFaults
  BY Failing DEF PostNotice
<1>3. events' \in 0..MaxEvents
  BY LimitsAssumption DEF PostNotice, TypeOK
<1>4. AskGoes(m, {"done"}) /\ ask' \in [Messages -> AskPcs]
  BY DEF PostNotice, TypeOK, AskPcs, AskGoes
<1>5. WroteSeen(m, {})
  BY DEF PostNotice, WroteSeen
<1>6. RunsKept /\ Others(m)
      /\ RunIs(run'[m], run[m].pc, run[m].n, run[m].ids, {}, run[m].amend, run[m].other,
               run[m].again, run[m].closing, run[m].handed)
  BY <1>5, SeenWritten DEF TypeOK, Procs
<1>7. TypeOK'
  BY <1>1, <1>2, <1>3, <1>4, <1>6 DEF TypeOK, LedgerSame, RunsKept
<1>8. QED BY <1>1, <1>4, <1>6, <1>7

LEMMA ClearFoldedStep ==
  ASSUME TypeOK, NEW m \in Messages, ClearFolded(m)
  PROVE  /\ TypeOK' /\ ask' = ask /\ run' = run /\ LedgerSame
         /\ \A o \in Messages : tail'[o].take = tail[o].take
         /\ RecIs(rec', rec.holder, rec.queued, rec.amendments \ tail[m].clear, rec.triagedBy,
                  rec.parked, rec.resumedBy)
<1>1. tail[m].clear \in SUBSET Messages
  BY DEF TypeOK
<1>2. rec' \in TurnRecords
      /\ RecIs(rec', rec.holder, rec.queued, rec.amendments \ tail[m].clear, rec.triagedBy,
               rec.parked, rec.resumedBy)
  BY <1>1, FollowUpWrites DEF ClearFolded, TypeOK
<1>3. tail' = [tail EXCEPT ![m].pc = "take"]
  BY DEF ClearFolded
<1>4. /\ tail' \in [Messages -> [pc : {"none", "clear", "take"},
                                 clear : SUBSET Messages, take : SUBSET Messages]]
      /\ \A o \in Messages : tail'[o].take = tail[o].take
  BY <1>3 DEF TypeOK
<1>5. TypeOK'
  BY <1>2, <1>4 DEF ClearFolded, TypeOK, ledger
<1>6. QED BY <1>2, <1>4, <1>5 DEF ClearFolded, ledger, LedgerSame

LEMMA TakeFoldedStep ==
  ASSUME TypeOK, NEW m \in Messages, TakeFolded(m)
  PROVE  /\ TypeOK' /\ ask' = ask /\ run' = run /\ LedgerSame
         /\ \A o \in Messages : tail'[o].take \subseteq tail[o].take
         /\ QueueIs(rec.queued \ tail[m].take)
<1>1. tail[m].take \in SUBSET Messages
  BY DEF TypeOK
<1>2. rec' \in TurnRecords /\ QueueIs(rec.queued \ tail[m].take)
  BY <1>1, QueueWrites DEF TakeFolded, TypeOK, QueueIs
<1>3. /\ tail' \in [Messages -> [pc : {"none", "clear", "take"},
                                 clear : SUBSET Messages, take : SUBSET Messages]]
      /\ \A o \in Messages : tail'[o].take \subseteq tail[o].take
  BY DEF TakeFolded, TypeOK, NoTail
<1>4. TypeOK'
  BY <1>2, <1>3 DEF TakeFolded, TypeOK, ledger
<1>5. QED BY <1>2, <1>3, <1>4 DEF TakeFolded, ledger, LedgerSame

LEMMA RedactStep ==
  ASSUME TypeOK, NEW m \in Messages, Redact(m)
  PROVE  /\ TypeOK' /\ rec' = rec /\ ask' = ask /\ run' = run /\ tail' = tail
         /\ redacted' = redacted \cup {m} /\ answered' = answered /\ tasked' = tasked
         /\ judged' = judged /\ told' = told
<1>1. faults' \in 0..MaxFaults
  BY Failing DEF Redact
<1>2. QED BY <1>1 DEF Redact, TypeOK

-----------------------------------------------------------------------------
(* The steps of an answer.                                                  *)

(* What an answer leaves when it is delivered.                              *)
Delivered(p) ==
    /\ RunIs(run'[p], "exit", run[p].n, run[p].ids, run[p].seen, {}, NoOne, run[p].again,
             run[p].closing, run[p].handed)
    /\ answered' = Count(answered, run[p].ids)

LEMMA Delivering ==
  ASSUME TypeOK, NEW p \in Procs, Deliver(p)
  PROVE  RunsKept /\ Others(p) /\ Delivered(p) /\ answered' \in [Messages -> 0..2]
<1>1. WroteDelivered(p) /\ answered' = Count(answered, run[p].ids)
  BY DEF Deliver, WroteDelivered
<1>2. answered' \in [Messages -> 0..2]
  BY <1>1, Counting DEF TypeOK
<1>3. QED BY <1>1, <1>2, DeliveredWritten DEF TypeOK, Delivered

LEMMA CheckpointStep ==
  ASSUME TypeOK, NEW p \in Procs, Checkpoint(p)
  PROVE  /\ TypeOK' /\ p \in Messages /\ run[p].pc = "go" /\ rec' = rec /\ ask' = ask /\ tail' = tail
         /\ redacted' = redacted /\ tasked' = tasked /\ judged' = judged /\ told' = told
         /\ RunsKept /\ Others(p)
         /\ \/ /\ run[p].n < FoldLimit /\ answered' = answered
               /\ \E other : \E pc \in {"park", "fold"} :
                     (pc = "park" => other # NoOne) /\
                     RunIs(run'[p], pc, run[p].n, run[p].ids, run[p].seen, rec.amendments, other,
                           run[p].again, run[p].closing, run[p].handed)
            \/ Delivered(p)
<1>1. /\ p \in Messages /\ run[p].pc = "go" /\ rec' = rec /\ ask' = ask /\ tail' = tail
      /\ events' = events /\ redacted' = redacted /\ tasked' = tasked /\ judged' = judged
      /\ told' = told /\ faults' = faults
  BY DEF Checkpoint, Answers, router
<1>2. rec.amendments \in SUBSET Messages /\ rec.triagedBy \in Readings \cup {NoOne}
  BY DEF TypeOK, TurnRecords
<1>3. CASE run[p].n < FoldLimit /\ answered' = answered /\ rec.triagedBy # NoOne
           /\ WroteReader(p, rec.triagedBy, rec.amendments)
  <2>1. RunsKept /\ Others(p)
        /\ RunIs(run'[p], "park", run[p].n, run[p].ids, run[p].seen, rec.amendments, rec.triagedBy,
                 run[p].again, run[p].closing, run[p].handed)
    BY <1>2, <1>3, ReaderWritten DEF TypeOK
  <2>2. TypeOK'
    BY <1>1, <1>3, <2>1 DEF TypeOK, RunsKept
  <2>3. QED BY <1>1, <1>3, <2>1, <2>2
<1>4. CASE run[p].n < FoldLimit /\ answered' = answered /\ WroteFold(p, rec.amendments)
  <2>1. RunsKept /\ Others(p)
        /\ RunIs(run'[p], "fold", run[p].n, run[p].ids, run[p].seen, rec.amendments, run[p].other,
                 run[p].again, run[p].closing, run[p].handed)
    BY <1>2, <1>4, FoldWritten DEF TypeOK
  <2>2. TypeOK'
    BY <1>1, <1>4, <2>1 DEF TypeOK, RunsKept
  <2>3. QED BY <1>1, <1>4, <2>1, <2>2
<1>5. CASE Deliver(p)
  <2>1. RunsKept /\ Others(p) /\ Delivered(p) /\ answered' \in [Messages -> 0..2]
    BY <1>5, Delivering
  <2>2. TypeOK'
    BY <1>1, <2>1 DEF TypeOK, RunsKept
  <2>3. QED BY <1>1, <2>1, <2>2
<1>6. QED BY <1>3, <1>4, <1>5 DEF Checkpoint, WroteReader, WroteFold

LEMMA ParkForReadingStep ==
  ASSUME IInv, NEW p \in Procs, ParkForReading(p)
  PROVE  /\ TypeOK' /\ p \in Messages /\ run[p].pc = "park" /\ ask' = ask /\ tail' = tail
         /\ redacted' = redacted /\ tasked' = tasked /\ judged' = judged /\ told' = told
         /\ RunsKept /\ Others(p)
         /\ \/ /\ ParkOk(rec, p, run[p].other) /\ run[p].other \in Readings /\ answered' = answered
               /\ RecIs(rec', run[p].other, rec.queued, rec.amendments, rec.triagedBy, p,
                        rec.resumedBy)
               /\ RunIs(run'[p], "parked", run[p].n, run[p].ids, run[p].seen, {}, NoOne,
                        run[p].again, run[p].closing, run[p].handed)
            \/ rec' = rec /\ answered' = answered /\ Moved(p, "fold")
            \/ rec' = rec /\ Delivered(p)
<1>0. TypeOK /\ Shaped
  BY DEF IInv
<1>1. /\ run[p].pc = "park" /\ ask' = ask /\ tail' = tail
      /\ events' = events /\ redacted' = redacted /\ tasked' = tasked /\ judged' = judged
      /\ told' = told /\ faults' = faults
  BY DEF ParkForReading, router
<1>2. p \in Messages
  BY <1>0, <1>1 DEF Shaped, RunShaped, ReadingPcs, ExitPcs, Procs
<1>3. CASE ParkOk(rec, p, run[p].other) /\ rec' = Park(rec, p, run[p].other) /\ WroteParked(p)
           /\ answered' = answered
  <2>1. run[p].other \in Readings
    <3>1. run[p].other \in Readings \cup {NoOne} /\ rec.triagedBy = run[p].other
      BY <1>0, <1>3, RunFields DEF TypeOK, ParkOk
    <3>2. run[p].other # NoOne
      BY <1>0, <1>1 DEF Shaped, RunShaped
    <3>3. QED BY <3>1, <3>2
  <2>2. rec' \in TurnRecords
        /\ RecIs(rec', run[p].other, rec.queued, rec.amendments, rec.triagedBy, p, rec.resumedBy)
    BY <1>0, <1>2, <1>3, <2>1, ParkedWrites DEF TypeOK
  <2>3. RunsKept /\ Others(p)
        /\ RunIs(run'[p], "parked", run[p].n, run[p].ids, run[p].seen, {}, NoOne,
                 run[p].again, run[p].closing, run[p].handed)
    BY <1>0, <1>3, ParkedWritten DEF TypeOK
  <2>4. TypeOK'
    BY <1>0, <1>1, <1>3, <2>2, <2>3 DEF TypeOK, RunsKept
  <2>5. QED BY <1>1, <1>2, <1>3, <2>1, <2>2, <2>3, <2>4
<1>4. CASE rec' = rec /\ Goes(p, "fold") /\ answered' = answered
  <2>1. RunsKept /\ Others(p) /\ Moved(p, "fold")
    BY <1>0, <1>4, GoesTo DEF TypeOK, RunPcs
  <2>2. TypeOK'
    BY <1>0, <1>1, <1>4, <2>1 DEF TypeOK, RunsKept
  <2>3. QED BY <1>1, <1>2, <1>4, <2>1, <2>2
<1>5. CASE rec' = rec /\ Deliver(p)
  <2>1. RunsKept /\ Others(p) /\ Delivered(p) /\ answered' \in [Messages -> 0..2]
    BY <1>0, <1>5, Delivering
  <2>2. TypeOK'
    BY <1>0, <1>1, <1>5, <2>1 DEF TypeOK, RunsKept
  <2>3. QED BY <1>1, <1>2, <1>5, <2>1, <2>2
<1>6. QED BY <1>3, <1>4, <1>5 DEF ParkForReading, WroteParked

LEMMA FoldStep ==
  ASSUME IInv, NEW p \in Procs, Fold(p)
  PROVE  /\ TypeOK' /\ p \in Messages /\ run[p].pc = "fold" /\ rec' = rec
         /\ redacted' = redacted /\ tasked' = tasked /\ judged' = judged /\ told' = told
         /\ RunsKept /\ Others(p)
         /\ \/ /\ answered' = answered /\ AskGoes(p, {"claim"})
               /\ tail'[p].take = run[p].amend \ redacted
               /\ \A o \in Messages \ {p} : tail'[o] = tail[o]
               /\ run[p].n < FoldLimit
               /\ RunIs(run'[p], "none", run[p].n + 1, run[p].ids \cup (run[p].amend \ redacted), {}, {},
                        NoOne, FALSE, FALSE, FALSE)
            \/ ask' = ask /\ tail' = tail /\ Delivered(p)
<1>0. TypeOK /\ Shaped /\ Bounded
  BY DEF IInv
<1>1. /\ run[p].pc = "fold" /\ rec' = rec /\ events' = events
      /\ redacted' = redacted /\ tasked' = tasked /\ judged' = judged /\ told' = told
  BY DEF Fold
<1>2. p \in Messages
  BY <1>0, <1>1 DEF Shaped, RunShaped, ReadingPcs, ExitPcs, Procs
<1>3. faults' \in 0..MaxFaults
  BY <1>0, Failing DEF Fold
<1> DEFINE foldable == run[p].amend \ redacted
<1>4. run[p].n < FoldLimit /\ run[p].n \in Nat
      /\ run[p].ids \subseteq Messages /\ run[p].amend \subseteq Messages
  BY <1>0, <1>1, <1>2, RunFields DEF TypeOK, Bounded, RunBounded
<1>5. CASE /\ WroteFolded(p, run[p].n + 1, run[p].ids \cup foldable)
           /\ ask' = [ask EXCEPT ![p] = "claim"]
           /\ tail' = [tail EXCEPT ![p] = [pc |-> "clear", clear |-> run[p].amend,
                                           take |-> foldable]]
           /\ answered' = answered
  <2>1. run[p].n + 1 \in 0..Most /\ run[p].ids \cup foldable \in SUBSET Messages
    BY <1>4, Within, LimitsAssumption
  <2>2. RunsKept /\ Others(p)
        /\ RunIs(run'[p], "none", run[p].n + 1, run[p].ids \cup foldable, {}, {},
                 NoOne, FALSE, FALSE, FALSE)
    BY <1>0, <1>5, <2>1, FoldedWritten DEF TypeOK
  <2>3. /\ tail' \in [Messages -> [pc : {"none", "clear", "take"},
                                   clear : SUBSET Messages, take : SUBSET Messages]]
        /\ tail'[p].take = foldable /\ \A o \in Messages \ {p} : tail'[o] = tail[o]
    BY <1>0, <1>2, <1>4, <1>5 DEF TypeOK
  <2>4. AskGoes(p, {"claim"}) /\ ask' \in [Messages -> AskPcs]
    BY <1>0, <1>2, <1>5 DEF TypeOK, AskPcs, AskGoes
  <2>5. TypeOK'
    BY <1>0, <1>1, <1>3, <1>5, <2>2, <2>3, <2>4 DEF TypeOK, RunsKept
  <2>6. QED BY <1>1, <1>2, <1>4, <1>5, <2>2, <2>3, <2>4, <2>5
<1>6. CASE Deliver(p) /\ UNCHANGED <<ask, tail>>
  <2>1. RunsKept /\ Others(p) /\ Delivered(p) /\ answered' \in [Messages -> 0..2]
    BY <1>0, <1>6, Delivering
  <2>2. TypeOK'
    BY <1>0, <1>1, <1>3, <1>6, <2>1 DEF TypeOK, RunsKept
  <2>3. QED BY <1>1, <1>2, <1>6, <2>1, <2>2
<1>7. QED BY <1>5, <1>6 DEF Fold, WroteFolded

\* A resume always finds its answer in the record, and may fail to take it.
LEMMA DeliverParkedStep ==
  ASSUME IInv, NEW p \in Procs, DeliverParked(p)
  PROVE  /\ TypeOK' /\ p \in Messages /\ run[p].pc = "resumed" /\ ask' = ask /\ tail' = tail
         /\ LedgerSame /\ RunsKept /\ Others(p)
         /\ \/ /\ Moved(p, "go") /\ TakeParkedOk(rec, p) /\ rec' = TakeParked(rec)
               /\ RecIs(rec', rec.holder, rec.queued, rec.amendments, rec.triagedBy, NoOne, NoOne)
            \/ Moved(p, "dead") /\ rec' = rec
<1>0. TypeOK /\ Shaped /\ Parking
  BY DEF IInv
<1>1. run[p].pc = "resumed" /\ UNCHANGED router /\ UNCHANGED ledger /\ faults' \in 0..MaxFaults
  BY <1>0, Failing DEF DeliverParked
<1>2. p \in Messages
  BY <1>0, <1>1 DEF Shaped, RunShaped, ReadingPcs, ExitPcs, Procs
<1>3. TakeParkedOk(rec, p)
  BY <1>0, <1>1, <1>2 DEF Parking, TakeParkedOk
<1>4. LedgerSame /\ ask' = ask /\ tail' = tail
  BY <1>1 DEF ledger, LedgerSame, router
<1>5. CASE rec' = TakeParked(rec) /\ Goes(p, "go")
  <2>1. PICK r \in Readings : rec.resumedBy = r
    BY <1>0, <1>3 DEF TypeOK, TurnRecords, TakeParkedOk
  <2>2. rec' \in TurnRecords
        /\ RecIs(rec', rec.holder, rec.queued, rec.amendments, rec.triagedBy, NoOne, NoOne)
    BY <1>0, <1>2, <1>5, <2>1, ParkedWrites DEF TypeOK
  <2>3. RunsKept /\ Others(p) /\ Moved(p, "go")
    BY <1>0, <1>5, GoesTo DEF TypeOK, RunPcs
  <2>4. TypeOK'
    BY <1>0, <1>1, <1>4, <2>2, <2>3, RunTyped DEF TypeOK
  <2>5. QED BY <1>1, <1>2, <1>3, <1>4, <1>5, <2>2, <2>3, <2>4
<1>6. CASE rec' = rec /\ Goes(p, "dead")
  <2>1. RunsKept /\ Others(p) /\ Moved(p, "dead")
    BY <1>0, <1>6, GoesTo DEF TypeOK, RunPcs
  <2>2. TypeOK'
    BY <1>0, <1>1, <1>4, <1>6, <2>1, RunTyped DEF TypeOK
  <2>3. QED BY <1>1, <1>2, <1>4, <1>6, <2>1, <2>2
<1>7. QED BY <1>3, <1>5, <1>6 DEF DeliverParked

-----------------------------------------------------------------------------
(* The steps of a reading.                                                  *)

LEMMA TakeUpNoticeStep ==
  ASSUME TypeOK, TakeUpNotice
  PROVE  /\ TypeOK' /\ rec' = rec /\ ask' = ask /\ tail' = tail /\ LedgerSame /\ RunsKept
         /\ \/ run' = run
            \/ \E r \in Readings : /\ Unused(r) /\ Others(r)
                                   /\ RunIs(run'[r], "claim", 0, {}, rec.queued, {}, NoOne, FALSE,
                                            FALSE, FALSE)
<1>1. /\ rec' = rec /\ ask' = ask /\ tail' = tail /\ LedgerSame /\ faults' = faults
  BY DEF TakeUpNotice, ledger, LedgerSame
<1>2. events' \in 0..MaxEvents
  <2>1. events > 0 /\ events' = events - 1
    BY DEF TakeUpNotice
  <2>2. QED BY <2>1, LimitsAssumption DEF TypeOK
<1>3. CASE run' = run
  BY <1>1, <1>2, <1>3 DEF TypeOK, LedgerSame, RunsKept
<1>4. CASE \E r \in Readings : Unused(r) /\ WroteTaken(r, rec.queued, rec.holder # NoOne)
  <2>1. PICK r \in Readings : Unused(r) /\ WroteTaken(r, rec.queued, rec.holder # NoOne)
    BY <1>4
  <2>2. rec.queued \in SUBSET Messages /\ r \in Procs /\ (rec.holder # NoOne) \in BOOLEAN
        /\ r \notin Messages
    BY Apart DEF TypeOK, TurnRecords, Procs
  <2>3. RunsKept /\ Others(r)
        /\ RunIs(run'[r], "claim", 0, {}, rec.queued, {}, NoOne, FALSE, FALSE, FALSE)
    BY <2>1, <2>2, TakenWritten DEF TypeOK
  <2>4. TypeOK'
    BY <1>1, <1>2, <2>3 DEF TypeOK, LedgerSame, RunsKept
  <2>5. QED BY <1>1, <2>1, <2>3, <2>4
<1>5. QED BY <1>3, <1>4 DEF TakeUpNotice, WroteTaken

LEMMA ClaimQueueOnArrivalStep ==
  ASSUME TypeOK, NEW r \in Readings, ClaimQueueOnArrival(r)
  PROVE  /\ TypeOK' /\ run[r].pc = "claim" /\ ask' = ask /\ tail' = tail /\ LedgerSame
         /\ RunsKept /\ Others(r)
         /\ \/ /\ rec.triagedBy \in {NoOne, r} \/ ~Live(rec.triagedBy)
               /\ ClaimIs(r) /\ Moved(r, "fetch")
            \/ rec' = rec /\ IsOver(r)
<1>1. /\ run[r].pc = "claim" /\ UNCHANGED router /\ UNCHANGED ledger /\ faults' \in 0..MaxFaults
      /\ r \in Procs
  BY Failing DEF ClaimQueueOnArrival, Procs
<1>2. LedgerSame /\ ask' = ask /\ tail' = tail
  BY <1>1 DEF ledger, LedgerSame, router
<1>3. CASE /\ \E expired \in {FALSE, Gone(rec.triagedBy)} : ClaimTriageOk(rec, r, expired)
           /\ rec' = ClaimTriage(rec, r) /\ Goes(r, "fetch")
  <2>1. rec.triagedBy \in {NoOne, r} \/ ~Live(rec.triagedBy)
    BY <1>3, ClaimTaken
  <2>2. rec' \in TurnRecords /\ ClaimIs(r)
    BY <1>3, ClaimWrites DEF TypeOK, ClaimIs
  <2>3. RunsKept /\ Others(r) /\ Moved(r, "fetch")
    BY <1>1, <1>3, GoesTo DEF TypeOK, RunPcs
  <2>4. TypeOK'
    BY <1>1, <1>2, <2>2, <2>3, RunTyped DEF TypeOK
  <2>5. QED BY <1>1, <1>2, <2>1, <2>2, <2>3, <2>4
<1>4. CASE rec' = rec /\ Ends(r)
  <2>1. RunsKept /\ Others(r) /\ IsOver(r)
    BY <1>1, <1>4, EndsRun DEF TypeOK
  <2>2. TypeOK'
    BY <1>1, <1>2, <1>4, <2>1, RunTyped DEF TypeOK
  <2>3. QED BY <1>1, <1>2, <1>4, <2>1, <2>2
<1>5. QED BY <1>3, <1>4 DEF ClaimQueueOnArrival

LEMMA StartReadingStep ==
  ASSUME TypeOK, NEW r \in Readings, StartReading(r)
  PROVE  /\ TypeOK' /\ run[r].pc = "fetch" /\ rec' = rec /\ ask' = ask /\ tail' = tail /\ LedgerSame
         /\ RunsKept /\ Others(r)
         /\ \/ Moved(r, "empty") /\ run[r].seen \subseteq redacted
            \/ RunIs(run'[r], "go", 1, run[r].seen, run[r].seen, run[r].amend, run[r].other,
                     run[r].again, run[r].closing, run[r].handed)
            \/ Moved(r, "giveup")
<1>1. /\ run[r].pc = "fetch" /\ UNCHANGED router /\ UNCHANGED ledger /\ rec' = rec /\ r \in Procs
      /\ faults' \in 0..MaxFaults
  BY Failing DEF StartReading, Procs
<1>2. LedgerSame /\ ask' = ask /\ tail' = tail
  BY <1>1 DEF ledger, LedgerSame, router
<1>3. CASE Goes(r, "empty") /\ run[r].seen \subseteq redacted
  <2>1. RunsKept /\ Others(r) /\ Moved(r, "empty")
    BY <1>1, <1>3, GoesTo DEF TypeOK, RunPcs
  <2>2. QED BY <1>1, <1>2, <1>3, <2>1, RunTyped DEF TypeOK
<1>4. CASE WroteStart(r, 1, run[r].seen)
  <2>1. 1 \in 0..Most /\ run[r].seen \in SUBSET Messages
    <3>1. 1 \in Nat /\ 1 <= PassLimit
      BY LimitsAssumption
    <3>2. 1 \in 0..Most
      BY <3>1, Within
    <3>3. QED BY <1>1, <3>2, RunFields DEF TypeOK
  <2>2. RunsKept /\ Others(r)
        /\ RunIs(run'[r], "go", 1, run[r].seen, run[r].seen, run[r].amend, run[r].other,
                 run[r].again, run[r].closing, run[r].handed)
    BY <1>1, <1>4, <2>1, StartWritten DEF TypeOK
  <2>3. QED BY <1>1, <1>2, <2>2, RunTyped DEF TypeOK
<1>5. CASE Goes(r, "giveup")
  <2>1. RunsKept /\ Others(r) /\ Moved(r, "giveup")
    BY <1>1, <1>5, GoesTo DEF TypeOK, RunPcs
  <2>2. QED BY <1>1, <1>2, <2>1, RunTyped DEF TypeOK
<1>6. QED BY <1>3, <1>4, <1>5 DEF StartReading, WroteStart

(* A reading reads once more, or follows through.                           *)
ReadsOnce(r, ids) ==
    /\ run[r].n < PassLimit
    /\ RunIs(run'[r], "go", run[r].n + 1, ids, {}, {}, NoOne, FALSE, FALSE, FALSE)
FollowsThrough(r) ==
    RunIs(run'[r], "resume", run[r].n, run[r].ids, run[r].seen, run[r].amend, run[r].other, FALSE,
          run[r].closing, run[r].handed)

LEMMA NextPassWrites ==
  ASSUME TypeOK, NEW r \in Readings, NEW again \in BOOLEAN, NEW seen \in SUBSET Messages,
         again => run[r].n < PassLimit, run' = NextPass(r, again, seen)
  PROVE  RunsKept /\ Others(r) /\ ((again /\ ReadsOnce(r, seen)) \/ (~again /\ FollowsThrough(r)))
<1>1. r \in Procs /\ r \notin Messages /\ run[r].n \in Nat /\ run[r].busy \in BOOLEAN
  BY Apart, RunFields DEF TypeOK, Procs
<1>2. CASE again
  <2>1. WrotePass(r, run[r].n + 1, seen, run[r].busy)
    BY <1>2 DEF NextPass, WrotePass
  <2>2. run[r].n + 1 \in 0..Most
    BY <1>1, <1>2, Within, LimitsAssumption
  <2>3. RunsKept /\ Others(r)
        /\ RunIs(run'[r], "go", run[r].n + 1, seen, {}, {}, NoOne, FALSE, FALSE, FALSE)
    BY <1>1, <2>1, <2>2, PassWritten DEF TypeOK
  <2>4. run[r].n < PassLimit
    BY <1>2
  <2>5. ReadsOnce(r, seen)
    BY <2>3, <2>4 DEF ReadsOnce
  <2>6. again /\ ReadsOnce(r, seen)
    BY <1>2, <2>5
  <2>7. QED BY <2>3, <2>6
<1>3. CASE ~again
  <2>1. NextPass(r, again, seen) = [run EXCEPT ![r].pc = "resume", ![r].again = FALSE]
    BY <1>3, Zenon DEF NextPass
  <2>2. WroteNoPass(r)
    BY <2>1, Zenon DEF WroteNoPass
  <2>3. /\ RunsKept /\ Others(r)
        /\ RunIs(run'[r], "resume", run[r].n, run[r].ids, run[r].seen, run[r].amend,
                 run[r].other, FALSE, run[r].closing, run[r].handed)
    BY <1>1, <2>2, NoPassWritten, Zenon DEF TypeOK
  <2>4. QED BY <1>3, <2>3, Zenon DEF FollowsThrough
<1>4. QED BY <1>2, <1>3

LEMMA LookStep ==
  ASSUME TypeOK, NEW r \in Readings, Look(r)
  PROVE  /\ TypeOK' /\ run[r].pc = "go" /\ rec' = rec /\ ask' = ask /\ tail' = tail
         /\ LedgerSame /\ RunsKept /\ Others(r)
         /\ \/ ReadsOnce(r, rec.queued) \/ ReadsOnce(r, run[r].ids) \/ FollowsThrough(r)
            \/ \E again \in BOOLEAN, amend \in SUBSET run[r].ids :
                  /\ again => run[r].n < PassLimit
                  /\ RunIs(run'[r], "still", run[r].n, run[r].ids, rec.queued, amend, run[r].other,
                           again, run[r].closing, run[r].handed)
            \/ /\ "unusable" \in Faults
               /\ RunIs(run'[r], "resume", run[r].n, run[r].ids, run[r].seen, run[r].amend,
                        run[r].other, run[r].again, TRUE, run[r].handed)
<1>1. /\ r \in Procs /\ run[r].pc = "go" /\ UNCHANGED router /\ UNCHANGED ledger /\ rec' = rec
      /\ faults' \in 0..MaxFaults
  BY Failing DEF Look, Procs
<1>2. LedgerSame /\ ask' = ask /\ tail' = tail
  BY <1>1 DEF ledger, LedgerSame, router
<1>3. rec.queued \in SUBSET Messages /\ run[r].ids \in SUBSET Messages
  BY RunFields DEF TypeOK, TurnRecords, Procs
<1>4. ASSUME NEW again \in BOOLEAN, again => run[r].n < PassLimit,
             NEW seen \in {rec.queued, run[r].ids}, run' = NextPass(r, again, seen)
      PROVE  /\ TypeOK' /\ RunsKept /\ Others(r)
             /\ ReadsOnce(r, seen) \/ FollowsThrough(r)
  <2>1. RunsKept /\ Others(r) /\ (ReadsOnce(r, seen) \/ FollowsThrough(r))
    BY <1>1, <1>3, <1>4, NextPassWrites
  <2>2. QED BY <1>1, <1>2, <2>1, RunTyped DEF TypeOK
<1>5. ASSUME NEW again \in BOOLEAN, again => run[r].n < PassLimit, NEW amend \in SUBSET run[r].ids,
             WroteJudged(r, again, rec.queued, amend)
      PROVE  /\ TypeOK' /\ RunsKept /\ Others(r)
             /\ RunIs(run'[r], "still", run[r].n, run[r].ids, rec.queued, amend, run[r].other,
                      again, run[r].closing, run[r].handed)
  <2>1. amend \in SUBSET Messages
    BY <1>3
  <2>2. RunsKept /\ Others(r)
        /\ RunIs(run'[r], "still", run[r].n, run[r].ids, rec.queued, amend, run[r].other,
                 again, run[r].closing, run[r].handed)
    BY <1>1, <1>3, <1>5, <2>1, JudgedWritten DEF TypeOK
  <2>3. QED BY <1>1, <1>2, <2>2, RunTyped DEF TypeOK
<1>6. CASE "unusable" \in Faults /\ WroteClosing(r)
  <2>1. RunsKept /\ Others(r)
        /\ RunIs(run'[r], "resume", run[r].n, run[r].ids, run[r].seen, run[r].amend,
                 run[r].other, run[r].again, TRUE, run[r].handed)
    BY <1>1, <1>6, ClosingWritten DEF TypeOK
  <2>2. QED BY <1>1, <1>2, <1>6, <2>1, RunTyped DEF TypeOK
<1>7. CASE run[r].n < PassLimit /\ run' = NextPass(r, TRUE, run[r].ids)
  <2>1. /\ TypeOK' /\ RunsKept /\ Others(r)
        /\ ReadsOnce(r, run[r].ids) \/ FollowsThrough(r)
    BY <1>4, <1>7
  <2>2. QED BY <1>1, <1>2, <2>1
<1>8. CASE \E again \in BOOLEAN : \E amend \in SUBSET run[r].ids :
             /\ again => run[r].n < PassLimit
             /\ run' = IF amend = {} THEN NextPass(r, again, rec.queued)
                       ELSE [run EXCEPT ![r].pc = "still", ![r].again = again,
                                        ![r].seen = rec.queued, ![r].amend = amend]
  <2>1. PICK again \in BOOLEAN, amend \in SUBSET run[r].ids :
             /\ again => run[r].n < PassLimit
             /\ run' = IF amend = {} THEN NextPass(r, again, rec.queued)
                       ELSE [run EXCEPT ![r].pc = "still", ![r].again = again,
                                        ![r].seen = rec.queued, ![r].amend = amend]
    BY <1>8
  <2>2. CASE run' = NextPass(r, again, rec.queued)
    <3>1. /\ TypeOK' /\ RunsKept /\ Others(r)
          /\ ReadsOnce(r, rec.queued) \/ FollowsThrough(r)
      BY <1>4, <2>1, <2>2
    <3>2. QED BY <1>1, <1>2, <3>1
  <2>3. CASE WroteJudged(r, again, rec.queued, amend)
    <3>1. /\ TypeOK' /\ RunsKept /\ Others(r)
          /\ RunIs(run'[r], "still", run[r].n, run[r].ids, rec.queued, amend, run[r].other,
                   again, run[r].closing, run[r].handed)
      BY <1>5, <2>1, <2>3
    <3>2. QED BY <1>1, <1>2, <2>1, <3>1
  <2>4. QED BY <2>1, <2>2, <2>3 DEF WroteJudged
<1>9. QED
  <2> DEFINE mayRead == run[r].n < PassLimit
             moved   == mayRead /\ ~(rec.queued \subseteq run[r].ids)
                        /\ ~(rec.queued \subseteq redacted)
             judges(again) ==
               \E amend \in IF run[r].busy THEN SUBSET (run[r].ids \ redacted) ELSE {{}} :
                  run' = IF amend = {} THEN NextPass(r, again, rec.queued)
                         ELSE [run EXCEPT ![r].pc = "still", ![r].again = again,
                                          ![r].seen = rec.queued, ![r].amend = amend]
  <2>1. \/ \E again \in {moved, FALSE} : judges(again)
        \/ mayRead /\ run' = NextPass(r, TRUE, run[r].ids)
        \/ "unusable" \in Faults /\ WroteClosing(r)
    BY DEF Look, Fails, WroteClosing
  <2>2. CASE \E again \in {moved, FALSE} : judges(again)
    <3>1. PICK again \in {moved, FALSE} : judges(again)
      BY <2>2
    <3>2. again \in BOOLEAN /\ (again => run[r].n < PassLimit)
      BY <3>1
    <3>3. \E amend \in SUBSET run[r].ids :
             run' = IF amend = {} THEN NextPass(r, again, rec.queued)
                    ELSE [run EXCEPT ![r].pc = "still", ![r].again = again,
                                     ![r].seen = rec.queued, ![r].amend = amend]
      BY <3>1
    <3>4. QED BY <1>8, <3>2, <3>3
  <2>3. CASE mayRead /\ run' = NextPass(r, TRUE, run[r].ids)
    BY <1>7, <2>3
  <2>4. CASE "unusable" \in Faults /\ WroteClosing(r)
    BY <1>6, <2>4
  <2> HIDE DEF mayRead, judges
  <2>5. QED BY <2>1, <2>2, <2>3, <2>4, Zenon

LEMMA StillRunningStep ==
  ASSUME IInv, NEW r \in Readings, StillRunning(r)
  PROVE  /\ TypeOK' /\ run[r].pc = "still" /\ rec' = rec /\ ask' = ask /\ tail' = tail
         /\ LedgerSame /\ RunsKept /\ Others(r)
         /\ \/ Moved(r, "record") \/ ReadsOnce(r, run[r].seen)
            \/ RunIs(run'[r], "resume", run[r].n, run[r].ids, run[r].seen, {}, run[r].other,
                     run[r].again, run[r].closing, run[r].handed)
<1>0. TypeOK /\ Bounded /\ r \in Procs
  BY DEF IInv, Procs
<1>1. /\ run[r].pc = "still" /\ UNCHANGED router /\ UNCHANGED ledger /\ rec' = rec
      /\ faults' \in 0..MaxFaults
  BY <1>0, Failing DEF StillRunning
<1>2. LedgerSame /\ ask' = ask /\ tail' = tail
  BY <1>1 DEF ledger, LedgerSame, router
<1>3. run[r].seen \in SUBSET Messages /\ (run[r].again => run[r].n < PassLimit)
  BY <1>0, <1>1, RunFields DEF TypeOK, Bounded, RunBounded
<1>4. CASE Goes(r, "record")
  <2>1. RunsKept /\ Others(r) /\ Moved(r, "record")
    BY <1>0, <1>4, GoesTo DEF TypeOK, RunPcs
  <2>2. QED BY <1>0, <1>1, <1>2, <2>1, RunTyped DEF TypeOK
<1>5. CASE run[r].again /\ run' = NextPass(r, TRUE, run[r].seen)
  <2>1. RunsKept /\ Others(r) /\ ReadsOnce(r, run[r].seen)
    BY <1>0, <1>3, <1>5, NextPassWrites
  <2>2. QED BY <1>0, <1>1, <1>2, <2>1, RunTyped DEF TypeOK
<1>6. CASE WroteNoFollowUps(r)
  <2>1. RunsKept /\ Others(r)
        /\ RunIs(run'[r], "resume", run[r].n, run[r].ids, run[r].seen, {}, run[r].other,
                 run[r].again, run[r].closing, run[r].handed)
    BY <1>0, <1>6, NoFollowUpsWritten DEF TypeOK
  <2>2. QED BY <1>0, <1>1, <1>2, <2>1, RunTyped DEF TypeOK
<1>7. QED BY <1>4, <1>5, <1>6 DEF StillRunning, Goes, WroteNoFollowUps

LEMMA RecordFollowUpsStep ==
  ASSUME IInv, NEW r \in Readings, RecordFollowUps(r)
  PROVE  /\ TypeOK' /\ run[r].pc = "record" /\ ask' = ask /\ tail' = tail
         /\ redacted' = redacted /\ answered' = answered /\ tasked' = tasked /\ told' = told
         /\ judged' = judged \cup run[r].amend
         /\ RunsKept /\ Others(r) /\ (ReadsOnce(r, run[r].seen) \/ FollowsThrough(r))
         /\ \/ RecIs(rec', rec.holder, rec.queued, rec.amendments \cup (run[r].amend \cap rec.queued),
                     rec.triagedBy, rec.parked, rec.resumedBy)
            \/ rec' = rec
<1>0. TypeOK /\ Bounded /\ r \in Procs
  BY DEF IInv, Procs
<1>1. /\ run[r].pc = "record" /\ UNCHANGED router /\ judged' = judged \cup run[r].amend
      /\ redacted' = redacted /\ answered' = answered /\ tasked' = tasked /\ told' = told
      /\ faults' \in 0..MaxFaults
  BY <1>0, Failing DEF RecordFollowUps
<1>2. ask' = ask /\ tail' = tail /\ events' = events
  BY <1>1 DEF router
<1>3. /\ run[r].seen \in SUBSET Messages /\ run[r].amend \in SUBSET Messages
      /\ run[r].again \in BOOLEAN /\ (run[r].again => run[r].n < PassLimit)
  BY <1>0, <1>1, RunFields DEF TypeOK, Bounded, RunBounded
<1>4. RunsKept /\ Others(r) /\ (ReadsOnce(r, run[r].seen) \/ FollowsThrough(r))
  <2>1. run' = NextPass(r, run[r].again, run[r].seen)
    BY DEF RecordFollowUps
  <2>2. QED BY <1>0, <1>3, <2>1, NextPassWrites
<1>5. rec' \in TurnRecords
      /\ \/ RecIs(rec', rec.holder, rec.queued, rec.amendments \cup (run[r].amend \cap rec.queued),
                  rec.triagedBy, rec.parked, rec.resumedBy)
         \/ rec' = rec
  <2> DEFINE left == RecordAmendments(rec, run[r].amend)
  <2>1. left \in TurnRecords
        /\ RecIs(left, rec.holder, rec.queued, rec.amendments \cup (run[r].amend \cap rec.queued),
                 rec.triagedBy, rec.parked, rec.resumedBy)
    BY <1>0, <1>3, FollowUpWrites DEF TypeOK
  <2>2. rec' = left \/ rec' = rec
    BY DEF RecordFollowUps
  <2> HIDE DEF left
  <2>3. QED BY <1>0, <2>1, <2>2 DEF TypeOK
<1>6. TypeOK'
  BY <1>0, <1>1, <1>2, <1>3, <1>4, <1>5 DEF TypeOK, RunsKept
<1>7. QED BY <1>1, <1>2, <1>4, <1>5, <1>6

LEMMA AfterResumes == \A r \in Readings : AfterResume(r) \in RunPcs /\ AfterResume(r) \in {"exit", "clear"}
BY DEF AfterResume, RunPcs

LEMMA ResumeParkedStep ==
  ASSUME IInv, NEW r \in Readings, ResumeParked(r)
  PROVE  /\ TypeOK' /\ run[r].pc = "resume" /\ ask' = ask /\ tail' = tail /\ LedgerSame
         /\ RunsKept /\ Others(r)
         /\ \/ /\ rec.parked \in Messages /\ BeginResumeOk(rec, r) /\ rec' = BeginResume(rec, r)
               /\ RecIs(rec', rec.parked, rec.queued, rec.amendments, rec.triagedBy, rec.parked, r)
               /\ Moved(r, "invoke")
            \/ ~BeginResumeOk(rec, r) /\ rec' = rec /\ Moved(r, AfterResume(r))
<1>0. TypeOK /\ r \in Procs
  BY DEF IInv, Procs
<1>1. run[r].pc = "resume" /\ UNCHANGED router /\ UNCHANGED ledger /\ faults' = faults
  BY DEF ResumeParked
<1>2. LedgerSame /\ ask' = ask /\ tail' = tail
  BY <1>1 DEF ledger, LedgerSame, router
<1>3. CASE BeginResumeOk(rec, r) /\ rec' = BeginResume(rec, r) /\ Goes(r, "invoke")
  <2>1. rec.parked \in Messages
    BY <1>0, <1>3, NoPickups DEF TypeOK, TurnRecords, BeginResumeOk
  <2>2. rec' \in TurnRecords
        /\ RecIs(rec', rec.parked, rec.queued, rec.amendments, rec.triagedBy, rec.parked, r)
    BY <1>0, <1>3, <2>1, ParkedWrites DEF TypeOK
  <2>3. RunsKept /\ Others(r) /\ Moved(r, "invoke")
    BY <1>0, <1>3, GoesTo DEF TypeOK, RunPcs
  <2>4. TypeOK'
    BY <1>0, <1>1, <1>2, <2>2, <2>3, RunTyped DEF TypeOK
  <2>5. QED BY <1>1, <1>2, <1>3, <2>1, <2>2, <2>3, <2>4
<1>4. CASE ~BeginResumeOk(rec, r) /\ Goes(r, AfterResume(r)) /\ rec' = rec
  <2>1. RunsKept /\ Others(r) /\ Moved(r, AfterResume(r))
    BY <1>0, <1>4, GoesTo, AfterResumes DEF TypeOK
  <2>2. TypeOK'
    BY <1>0, <1>1, <1>2, <1>4, <2>1, RunTyped DEF TypeOK
  <2>3. QED BY <1>1, <1>2, <1>4, <2>1, <2>2
<1>5. QED BY <1>3, <1>4 DEF ResumeParked

\* The invocation that delivers the parked answer is of the run that parked it.
LEMMA InvokeResumeStep ==
  ASSUME IInv, NEW r \in Readings, InvokeResume(r)
  PROVE  /\ TypeOK' /\ run[r].pc = "invoke" /\ rec' = rec /\ ask' = ask /\ tail' = tail /\ LedgerSame
         /\ RunsKept /\ rec.resumedBy = r /\ rec.parked \in Messages /\ run[rec.parked].pc = "parked"
         /\ \/ /\ Moved(r, AfterResume(r)) /\ Moved(rec.parked, "resumed")
               /\ \A q \in Procs \ {r, rec.parked} : run'[q] = run[q]
            \/ Others(r) /\ Moved(r, "abandon")
<1>0. TypeOK /\ Parking /\ r \in Procs
  BY DEF IInv, Procs
<1>1. /\ run[r].pc = "invoke" /\ UNCHANGED router /\ UNCHANGED ledger /\ rec' = rec
      /\ faults' \in 0..MaxFaults
  BY <1>0, Failing DEF InvokeResume
<1>2. LedgerSame /\ ask' = ask /\ tail' = tail
  BY <1>1 DEF ledger, LedgerSame, router
<1>3. PICK t \in Messages : t = rec.parked /\ run[t].pc = "parked" /\ rec.resumedBy = r
  BY <1>0, <1>1 DEF Parking
<1>4. t \in Procs /\ t # r
  BY <1>3, Apart DEF Procs
<1>5. CASE run' = [run EXCEPT ![r].pc = AfterResume(r), ![rec.parked].pc = "resumed"]
  <2> DEFINE pc == AfterResume(r)
             s  == [run[r] EXCEPT !.pc = pc]
             u  == [run[t] EXCEPT !.pc = "resumed"]
  <2>1. run[r] \in Runs /\ run[t] \in Runs /\ pc \in RunPcs
    BY <1>0, <1>4, AfterResumes DEF TypeOK
  <2> HIDE DEF pc
  <2>2. s \in Runs
    BY <2>1, RunsAre
  <2>3. u \in Runs
    BY <2>1, RunsAre DEF RunPcs
  <2>4. RunIs(s, pc, run[r].n, run[r].ids, run[r].seen, run[r].amend, run[r].other, run[r].again,
              run[r].closing, run[r].handed)
    BY <2>1, RunsAre DEF RunIs
  <2>5. RunIs(u, "resumed", run[t].n, run[t].ids, run[t].seen, run[t].amend, run[t].other,
              run[t].again, run[t].closing, run[t].handed)
    BY <2>1, RunsAre DEF RunIs
  <2>6. run' = [run EXCEPT ![r] = s, ![t] = u]
    BY <1>0, <1>3, <1>4, <1>5 DEF TypeOK, pc
  <2> HIDE DEF s, u
  <2>7. RunsKept /\ run'[r] = s /\ run'[t] = u /\ \A q \in Procs \ {r, t} : run'[q] = run[q]
    BY <1>0, <1>4, <2>2, <2>3, <2>6 DEF RunsKept, TypeOK
  <2>8. Moved(r, pc) /\ Moved(t, "resumed")
    BY <2>4, <2>5, <2>7 DEF Moved
  <2>9. TypeOK'
    BY <1>0, <1>1, <1>2, <2>7, RunTyped DEF TypeOK
  <2>10. QED BY <1>1, <1>2, <1>3, <2>7, <2>8, <2>9 DEF pc
<1>6. CASE Goes(r, "abandon")
  <2>1. RunsKept /\ Others(r) /\ Moved(r, "abandon")
    BY <1>0, <1>6, GoesTo DEF TypeOK, RunPcs
  <2>2. TypeOK'
    BY <1>0, <1>1, <1>2, <2>1, RunTyped DEF TypeOK
  <2>3. QED BY <1>1, <1>2, <1>3, <2>1, <2>2
<1>7. QED BY <1>5, <1>6 DEF InvokeResume

LEMMA AbandonResumedStep ==
  ASSUME IInv, NEW r \in Readings, AbandonResumed(r)
  PROVE  /\ TypeOK' /\ run[r].pc = "abandon" /\ ask' = ask /\ tail' = tail /\ LedgerSame
         /\ RunsKept /\ Moved(r, AfterResume(r))
         /\ rec.resumedBy = r /\ rec.parked \in Messages /\ run[rec.parked].pc = "parked"
         /\ \/ /\ AbandonResumeOk(rec, r, rec.parked) /\ rec' = AbandonResume(rec, r) /\ Others(r)
               /\ RecIs(rec', r, rec.queued, rec.amendments, rec.triagedBy, rec.parked, NoOne)
            \/ rec' = rec /\ Others(r)
            \/ /\ rec' = rec /\ Moved(rec.parked, "dead")
               /\ \A q \in Procs \ {r, rec.parked} : run'[q] = run[q]
<1>0. TypeOK /\ Parking /\ r \in Procs
  BY DEF IInv, Procs
<1>1. run[r].pc = "abandon" /\ UNCHANGED router /\ UNCHANGED ledger /\ faults' \in 0..MaxFaults
  BY <1>0, Failing DEF AbandonResumed
<1>2. LedgerSame /\ ask' = ask /\ tail' = tail
  BY <1>1 DEF ledger, LedgerSame, router
<1>3. rec.resumedBy = r /\ rec.parked \in Messages /\ run[rec.parked].pc = "parked"
  BY <1>0, <1>1 DEF Parking
<1>4. CASE /\ rec' = (IF AbandonResumeOk(rec, r, rec.parked) THEN AbandonResume(rec, r) ELSE rec)
           /\ Goes(r, AfterResume(r))
  <2>1. RunsKept /\ Others(r) /\ Moved(r, AfterResume(r))
    BY <1>0, <1>4, GoesTo, AfterResumes DEF TypeOK
  <2>2. rec' \in TurnRecords
        /\ \/ /\ AbandonResumeOk(rec, r, rec.parked) /\ rec' = AbandonResume(rec, r)
              /\ RecIs(rec', r, rec.queued, rec.amendments, rec.triagedBy, rec.parked, NoOne)
           \/ rec' = rec
    BY <1>0, <1>3, <1>4, ParkedWrites DEF TypeOK
  <2>3. TypeOK'
    BY <1>0, <1>1, <1>2, <2>1, <2>2, RunTyped DEF TypeOK
  <2>4. QED BY <1>1, <1>2, <1>3, <2>1, <2>2, <2>3
<1>5. CASE rec' = rec /\ WroteDead(r, AfterResume(r), rec.parked)
  <2>1. PICK t \in Messages : t = rec.parked
    BY <1>3
  <2>2. t \in Procs /\ t # r /\ AfterResume(r) \in RunPcs
    BY <2>1, Apart, AfterResumes DEF Procs
  <2>3. PICK pc \in RunPcs : pc = AfterResume(r)
    BY <2>2
  <2>4. WroteDead(r, pc, t)
    BY <1>5, <2>1, <2>3
  <2>5. /\ RunsKept /\ Moved(r, pc) /\ Moved(t, "dead")
        /\ \A q \in Procs \ {r, t} : run'[q] = run[q]
    BY <1>0, <2>2, <2>4, DeadWritten DEF TypeOK
  <2>6. TypeOK'
    BY <1>0, <1>1, <1>2, <1>5, <2>5, RunTyped DEF TypeOK
  <2>7. QED BY <1>1, <1>2, <1>3, <1>5, <2>1, <2>3, <2>5, <2>6
<1>6. QED BY <1>4, <1>5 DEF AbandonResumed, WroteDead

LEMMA ClearQueueReadStep ==
  ASSUME TypeOK, NEW r \in Readings, ClearQueueRead(r)
  PROVE  /\ TypeOK' /\ run[r].pc = "clear" /\ ask' = ask /\ tail' = tail
         /\ redacted' = redacted /\ answered' = answered /\ judged' = judged /\ told' = told
         /\ tasked' = Count(tasked, run[r].ids \ (run[r].amend \cup redacted))
         /\ RunsKept /\ Others(r)
         /\ RunIs(run'[r], "resume", run[r].n, run[r].ids, run[r].seen, run[r].amend, run[r].other,
                  run[r].again, TRUE, run[r].handed)
         /\ \/ /\ rec.triagedBy = r
               /\ RecIs(rec', rec.holder, rec.queued \ run[r].ids, rec.amendments, NoOne, rec.parked,
                        rec.resumedBy)
            \/ rec' = rec /\ (rec.triagedBy # r \/ "clear" \in Faults)
<1>1. /\ run[r].pc = "clear" /\ UNCHANGED router /\ r \in Procs
      /\ redacted' = redacted /\ answered' = answered /\ judged' = judged /\ told' = told
      /\ tasked' = Count(tasked, run[r].ids \ (run[r].amend \cup redacted)) 
      /\ faults' \in 0..MaxFaults
  BY Failing DEF ClearQueueRead, Procs
<1>2. ask' = ask /\ tail' = tail /\ events' = events
  BY <1>1 DEF router
<1>3. tasked' \in [Messages -> 0..2]
  BY <1>1, Counting DEF TypeOK
<1>4. RunsKept /\ Others(r)
      /\ RunIs(run'[r], "resume", run[r].n, run[r].ids, run[r].seen, run[r].amend, run[r].other,
               run[r].again, TRUE, run[r].handed)
  <2>1. WroteClosing(r)
    BY DEF ClearQueueRead, WroteClosing
  <2>2. QED BY <1>1, <2>1, ClosingWritten DEF TypeOK
<1>5. rec' \in TurnRecords
      /\ \/ /\ rec.triagedBy = r
            /\ RecIs(rec', rec.holder, rec.queued \ run[r].ids, rec.amendments, NoOne, rec.parked,
                     rec.resumedBy)
         \/ rec' = rec /\ (rec.triagedBy # r \/ "clear" \in Faults)
  <2>1. run[r].ids \in SUBSET Messages
    BY <1>1, RunFields DEF TypeOK
  <2>2. CASE rec.triagedBy = r /\ rec' = ClearQueue(rec, run[r].ids)
    <3>1. /\ ClearQueue(rec, run[r].ids) \in TurnRecords
          /\ RecIs(ClearQueue(rec, run[r].ids), rec.holder, rec.queued \ run[r].ids,
                   rec.amendments, NoOne, rec.parked, rec.resumedBy)
      BY <2>1, QueueWrites DEF TypeOK
    <3>2. QED BY <2>2, <3>1
  <2>3. CASE rec' = rec /\ (rec.triagedBy # r \/ "clear" \in Faults)
    BY <2>3 DEF TypeOK
  <2>4. QED BY <2>2, <2>3 DEF ClearQueueRead, ClearQueueOk, Fails
<1>6. TypeOK'
  BY <1>1, <1>2, <1>3, <1>4, <1>5 DEF TypeOK, RunsKept
<1>7. QED BY <1>1, <1>2, <1>4, <1>5, <1>6

-----------------------------------------------------------------------------
(* The steps that end a run.                                                *)

LEMMA Settling ==
  \A p \in Procs : \A queue, reader :
     /\ Settles(p, queue, reader) \in {"release", "follow"} /\ Settles(p, queue, reader) \in RunPcs
     /\ Settles(p, queue, reader) = "follow" =>
          reader # p /\ (p \in Readings => ~(run[p].n >= PassLimit))
BY DEF Settles, Reads, RunPcs

(* A run that settles asks for a follow-up only if it may have one.         *)
MayFollow(p, other, pc) ==
    pc = "follow" => other # p /\ (p \in Readings => run[p].n < PassLimit)

LEMMA ReadAtExitStep ==
  ASSUME TypeOK, NEW p \in Procs, ReadAtExit(p)
  PROVE  /\ TypeOK' /\ run[p].pc = "exit" /\ rec' = rec /\ ask' = ask /\ tail' = tail /\ LedgerSame
         /\ RunsKept /\ Others(p)
         /\ \/ \E pc \in {"release", "follow", "return"} :
                 /\ MayFollow(p, rec.triagedBy, pc)
                 /\ RunIs(run'[p], pc, run[p].n, run[p].ids, rec.queued, run[p].amend, rec.triagedBy,
                          run[p].again, run[p].closing, run[p].handed)
            \/ RunIs(run'[p], "return", run[p].n, run[p].ids, {}, run[p].amend, NoOne, run[p].again,
                     run[p].closing, run[p].handed)
<1>1. /\ run[p].pc = "exit" /\ UNCHANGED router /\ UNCHANGED ledger /\ rec' = rec
      /\ faults' \in 0..MaxFaults
  BY Failing DEF ReadAtExit
<1>2. LedgerSame /\ ask' = ask /\ tail' = tail
  BY <1>1 DEF ledger, LedgerSame, router
<1>3. CASE \E pc \in {"return", Settles(p, rec.queued, rec.triagedBy)} :
             WroteExit(p, rec.queued, rec.triagedBy, pc)
  <2>1. PICK pc \in {"return", Settles(p, rec.queued, rec.triagedBy)} :
          WroteExit(p, rec.queued, rec.triagedBy, pc)
    BY <1>3
  <2>2. pc \in RunPcs /\ pc \in {"release", "follow", "return"} /\ MayFollow(p, rec.triagedBy, pc)
    <3>1. run[p].n \in Nat /\ PassLimit \in Nat
      BY RunFields, LimitsAssumption DEF TypeOK
    <3>2. CASE pc = "return"
      BY <3>2 DEF RunPcs, MayFollow
    <3>3. CASE pc = Settles(p, rec.queued, rec.triagedBy)
      BY <3>1, <3>3, Settling DEF MayFollow
    <3>4. QED BY <2>1, <3>2, <3>3
  <2>3. rec.queued \in SUBSET Messages /\ rec.triagedBy \in Readings \cup {NoOne}
    BY DEF TypeOK, TurnRecords
  <2>4. RunsKept /\ Others(p)
        /\ RunIs(run'[p], pc, run[p].n, run[p].ids, rec.queued, run[p].amend, rec.triagedBy,
                 run[p].again, run[p].closing, run[p].handed)
    BY <2>1, <2>2, <2>3, ExitWritten DEF TypeOK
  <2>5. TypeOK'
    BY <1>1, <1>2, <2>4, RunTyped DEF TypeOK
  <2>6. QED BY <1>1, <1>2, <2>2, <2>4, <2>5
<1>4. CASE WroteExit(p, {}, NoOne, "return")
  <2>1. RunsKept /\ Others(p)
        /\ RunIs(run'[p], "return", run[p].n, run[p].ids, {}, run[p].amend, NoOne, run[p].again,
                 run[p].closing, run[p].handed)
    <3>1. "return" \in RunPcs /\ {} \in SUBSET Messages /\ NoOne \in Readings \cup {NoOne}
      BY DEF RunPcs
    <3>2. QED BY <1>4, <3>1, ExitWritten DEF TypeOK
  <2>2. TypeOK'
    BY <1>1, <1>2, <2>1, RunTyped DEF TypeOK
  <2>3. QED BY <1>1, <1>2, <2>1, <2>2
<1>5. QED
  <2>1. CASE run' = [run EXCEPT ![p].seen = rec.queued, ![p].other = rec.triagedBy,
                       ![p].pc = IF Reads(p) /\ rec.holder \notin {NoOne, p}
                                 THEN Settles(p, rec.queued, rec.triagedBy) ELSE "return"]
    <3>1. PICK pc \in {"return", Settles(p, rec.queued, rec.triagedBy)} :
            pc = IF Reads(p) /\ rec.holder \notin {NoOne, p}
                 THEN Settles(p, rec.queued, rec.triagedBy) ELSE "return"
      OBVIOUS
    <3>2. WroteExit(p, rec.queued, rec.triagedBy, pc)
      BY <2>1, <3>1 DEF WroteExit
    <3>3. QED BY <1>3, <3>2
  <2>2. QED BY <1>4, <2>1 DEF ReadAtExit, WroteExit

LEMMA ReturnFollowUpsStep ==
  ASSUME TypeOK, NEW p \in Procs, ReturnFollowUps(p)
  PROVE  /\ TypeOK' /\ run[p].pc = "return" /\ ask' = ask /\ tail' = tail /\ LedgerSame
         /\ RunsKept /\ Others(p)
         /\ RecIs(rec', rec.holder, rec.queued \cup rec.amendments, {}, rec.triagedBy, rec.parked,
                  rec.resumedBy)
         /\ \E pc \in {"release", "follow"} :
               /\ MayFollow(p, run[p].other, pc)
               /\ RunIs(run'[p], pc, run[p].n, run[p].ids, run[p].seen \cup rec.amendments,
                        run[p].amend, run[p].other, run[p].again, run[p].closing, run[p].handed)
<1>1. run[p].pc = "return" /\ UNCHANGED router /\ UNCHANGED ledger /\ faults' = faults
  BY DEF ReturnFollowUps
<1>2. LedgerSame /\ ask' = ask /\ tail' = tail
  BY <1>1 DEF ledger, LedgerSame, router
<1> DEFINE queue == run[p].seen \cup rec.amendments
           pc    == Settles(p, queue, run[p].other)
<1>3. WroteReturned(p, queue, pc)
  BY DEF ReturnFollowUps, WroteReturned
<1>4. queue \in SUBSET Messages
  BY RunFields DEF TypeOK, TurnRecords
<1>5. pc \in RunPcs /\ pc \in {"release", "follow"} /\ MayFollow(p, run[p].other, pc)
  <2>1. run[p].n \in Nat /\ PassLimit \in Nat
    BY RunFields, LimitsAssumption DEF TypeOK
  <2>2. QED BY <2>1, Settling DEF MayFollow
<1> HIDE DEF pc
<1>6. RunsKept /\ Others(p)
      /\ RunIs(run'[p], pc, run[p].n, run[p].ids, queue, run[p].amend, run[p].other,
               run[p].again, run[p].closing, run[p].handed)
  BY <1>3, <1>4, <1>5, ReturnedWritten DEF TypeOK
<1>7. rec' \in TurnRecords
      /\ RecIs(rec', rec.holder, rec.queued \cup rec.amendments, {}, rec.triagedBy, rec.parked,
               rec.resumedBy)
  BY FollowUpWrites DEF ReturnFollowUps, TypeOK
<1>8. TypeOK'
  BY <1>1, <1>2, <1>6, <1>7, RunTyped DEF TypeOK
<1>9. QED BY <1>1, <1>2, <1>5, <1>6, <1>7, <1>8

LEMMA ClaimFollowUpStep ==
  ASSUME TypeOK, NEW p \in Procs, ClaimFollowUp(p)
  PROVE  /\ TypeOK' /\ run[p].pc = "follow" /\ ask' = ask /\ tail' = tail /\ LedgerSame
         /\ RunsKept /\ Others(p)
         /\ \/ \E c \in Readings :
                 /\ Unused(c) /\ (rec.triagedBy \in {NoOne, c} \/ ~Live(rec.triagedBy))
                 /\ \E expired \in BOOLEAN : ClaimTriageOk(rec, c, expired)
                 /\ rec' = ClaimTriage(rec, c) /\ ClaimIs(c)
                 /\ RunIs(run'[p], "messages", run[p].n, run[p].ids, run[p].seen, run[p].amend, c,
                          run[p].again, run[p].closing, run[p].handed)
            \/ \E pc \in {"release", "yield"} :
                 rec' = rec /\ Moved(p, pc) /\ (pc = "yield" => run[p].other # NoOne)
<1>1. run[p].pc = "follow" /\ UNCHANGED router /\ UNCHANGED ledger /\ faults' \in 0..MaxFaults
  BY Failing DEF ClaimFollowUp
<1>2. LedgerSame /\ ask' = ask /\ tail' = tail
  BY <1>1 DEF ledger, LedgerSame, router
<1>3. CASE \E c \in Readings, expired \in {FALSE, Gone(rec.triagedBy)} :
             /\ Unused(c) /\ ClaimTriageOk(rec, c, expired)
             /\ rec' = ClaimTriage(rec, c) /\ WroteClaim(p, "messages", c)
  <2>1. PICK c \in Readings, expired \in {FALSE, Gone(rec.triagedBy)} :
             /\ Unused(c) /\ ClaimTriageOk(rec, c, expired)
             /\ rec' = ClaimTriage(rec, c) /\ WroteClaim(p, "messages", c)
    BY <1>3
  <2>2. rec.triagedBy \in {NoOne, c} \/ ~Live(rec.triagedBy)
    BY <2>1, ClaimTaken
  <2>3. rec' \in TurnRecords /\ ClaimIs(c)
    BY <2>1, ClaimWrites DEF TypeOK, ClaimIs
  <2>4. RunsKept /\ Others(p)
        /\ RunIs(run'[p], "messages", run[p].n, run[p].ids, run[p].seen, run[p].amend, c,
                 run[p].again, run[p].closing, run[p].handed)
    <3>1. "messages" \in RunPcs /\ c \in Readings \cup {NoOne}
      BY DEF RunPcs
    <3>2. QED BY <2>1, <3>1, ClaimWritten DEF TypeOK
  <2>5. TypeOK'
    BY <1>1, <1>2, <2>3, <2>4, RunTyped DEF TypeOK
  <2>6. \E e \in BOOLEAN : ClaimTriageOk(rec, c, e)
    <3>1. expired \in BOOLEAN
      BY <2>1 DEF Gone
    <3>2. QED BY <2>1, <3>1
  <2>7. QED BY <1>1, <1>2, <2>1, <2>2, <2>3, <2>4, <2>5, <2>6
<1>4. CASE rec' = rec /\ Goes(p, IF run[p].other = NoOne THEN "release" ELSE "yield")
  <2>1. PICK pc \in {"release", "yield"} : pc = IF run[p].other = NoOne THEN "release" ELSE "yield"
    OBVIOUS
  <2>2. Goes(p, pc) /\ pc \in RunPcs
    BY <1>4, <2>1 DEF RunPcs
  <2>3. RunsKept /\ Others(p) /\ Moved(p, pc)
    BY <2>2, GoesTo DEF TypeOK
  <2>4. TypeOK'
    BY <1>1, <1>2, <1>4, <2>3, RunTyped DEF TypeOK
  <2>5. QED BY <1>1, <1>2, <1>4, <2>1, <2>3, <2>4
<1>5. QED BY <1>3, <1>4 DEF ClaimFollowUp, WroteClaim

LEMMA YieldToReadingStep ==
  ASSUME IInv, NEW p \in Procs, YieldToReading(p)
  PROVE  /\ TypeOK' /\ run[p].pc = "yield" /\ ask' = ask /\ tail' = tail /\ LedgerSame
         /\ RunsKept /\ Others(p) /\ run[p].other \in Readings
         /\ \/ /\ HandOverOk(rec, p, run[p].other, TRUE) /\ rec' = HandOver(rec, run[p].other)
               /\ HolderIs(run[p].other) /\ IsOver(p)
            \/ rec' = rec /\ Moved(p, "release")
<1>0. TypeOK /\ Shaped
  BY DEF IInv
<1>1. run[p].pc = "yield" /\ UNCHANGED router /\ UNCHANGED ledger /\ faults' = faults
  BY DEF YieldToReading
<1>2. LedgerSame /\ ask' = ask /\ tail' = tail
  BY <1>1 DEF ledger, LedgerSame, router
<1>3. run[p].other \in Readings
  BY <1>0, <1>1, RunFields DEF TypeOK, Shaped, RunShaped
<1>4. CASE HandOverOk(rec, p, run[p].other, TRUE)
  <2>1. rec' = HandOver(rec, run[p].other) /\ Ends(p)
    BY <1>4 DEF YieldToReading
  <2>2. rec' \in TurnRecords /\ HolderIs(run[p].other)
    BY <1>0, <1>3, <2>1, HolderWrites DEF TypeOK, HolderIs, Turns
  <2>3. RunsKept /\ Others(p) /\ IsOver(p)
    BY <1>0, <2>1, EndsRun DEF TypeOK
  <2>4. TypeOK'
    BY <1>0, <1>1, <1>2, <2>2, <2>3, RunTyped DEF TypeOK
  <2>5. QED BY <1>1, <1>2, <1>3, <1>4, <2>1, <2>2, <2>3, <2>4
<1>5. CASE ~HandOverOk(rec, p, run[p].other, TRUE)
  <2>1. rec' = rec /\ Goes(p, "release")
    BY <1>5 DEF YieldToReading
  <2>2. RunsKept /\ Others(p) /\ Moved(p, "release")
    BY <1>0, <2>1, GoesTo DEF TypeOK, RunPcs
  <2>3. TypeOK'
    BY <1>0, <1>1, <1>2, <2>1, <2>2, RunTyped DEF TypeOK
  <2>4. QED BY <1>1, <1>2, <1>3, <2>1, <2>2, <2>3
<1>6. QED BY <1>4, <1>5

LEMMA FetchFollowUpStep ==
  ASSUME TypeOK, NEW p \in Procs, FetchFollowUp(p)
  PROVE  /\ TypeOK' /\ run[p].pc = "messages" /\ rec' = rec /\ ask' = ask /\ tail' = tail /\ LedgerSame
         /\ RunsKept /\ Others(p)
         /\ \E pc \in {"empty", "hand", "giveup"} :
               Moved(p, pc) /\ (pc = "empty" => run[p].seen \subseteq redacted)
<1>1. /\ run[p].pc = "messages" /\ UNCHANGED router /\ UNCHANGED ledger /\ rec' = rec
      /\ faults' \in 0..MaxFaults
  BY Failing DEF FetchFollowUp
<1>2. LedgerSame /\ ask' = ask /\ tail' = tail
  BY <1>1 DEF ledger, LedgerSame, router
<1>3. PICK pc \in {"empty", "hand", "giveup"} :
        Goes(p, pc) /\ (pc = "empty" => run[p].seen \subseteq redacted)
  BY DEF FetchFollowUp
<1>4. RunsKept /\ Others(p) /\ Moved(p, pc)
  BY <1>3, GoesTo DEF TypeOK, RunPcs
<1>5. TypeOK'
  BY <1>1, <1>2, <1>4, RunTyped DEF TypeOK
<1>6. QED BY <1>1, <1>2, <1>3, <1>4, <1>5

LEMMA ClearEmptiedStep ==
  ASSUME TypeOK, NEW p \in Procs, ClearEmptied(p)
  PROVE  /\ TypeOK' /\ run[p].pc = "empty" /\ ask' = ask /\ tail' = tail /\ LedgerSame
         /\ RunsKept /\ Others(p) /\ Moved(p, "giveup")
         /\ \/ /\ rec.triagedBy = Claimed(p)
               /\ RecIs(rec', rec.holder, rec.queued \ run[p].seen, rec.amendments, NoOne, rec.parked,
                        rec.resumedBy)
            \/ rec' = rec /\ (rec.triagedBy # Claimed(p) \/ "clear" \in Faults)
<1>1. run[p].pc = "empty" /\ UNCHANGED router /\ UNCHANGED ledger /\ faults' \in 0..MaxFaults
  BY Failing DEF ClearEmptied
<1>2. LedgerSame /\ ask' = ask /\ tail' = tail
  BY <1>1 DEF ledger, LedgerSame, router
<1>3. RunsKept /\ Others(p) /\ Moved(p, "giveup")
  BY GoesTo DEF ClearEmptied, TypeOK, RunPcs
<1>4. CASE rec.triagedBy = Claimed(p) /\ rec' = ClearQueue(rec, run[p].seen)
  <2>1. rec' = ClearQueue(rec, run[p].seen)
    BY <1>4
  <2>2. run[p].seen \in SUBSET Messages
    BY RunFields DEF TypeOK
  <2>3. rec' \in TurnRecords
        /\ RecIs(rec', rec.holder, rec.queued \ run[p].seen, rec.amendments, NoOne, rec.parked,
                 rec.resumedBy)
    BY <2>1, <2>2, QueueWrites DEF TypeOK
  <2>4. TypeOK'
    BY <1>1, <1>2, <1>3, <2>3, RunTyped DEF TypeOK
  <2>5. QED BY <1>1, <1>2, <1>3, <1>4, <2>3, <2>4
<1>5. CASE rec' = rec /\ (rec.triagedBy # Claimed(p) \/ "clear" \in Faults)
  <2>1. rec' = rec
    BY <1>5
  <2>2. TypeOK'
    BY <1>1, <1>2, <1>3, <2>1, RunTyped DEF TypeOK
  <2>3. QED BY <1>1, <1>2, <1>3, <1>5, <2>1, <2>2
<1>6. QED BY <1>4, <1>5 DEF ClearEmptied, ClearQueueOk, Fails

LEMMA HandOverToFollowUpStep ==
  ASSUME IInv, NEW p \in Procs, HandOverToFollowUp(p)
  PROVE  /\ TypeOK' /\ run[p].pc = "hand" /\ ask' = ask /\ tail' = tail /\ LedgerSame
         /\ RunsKept /\ Others(p) /\ run[p].other \in Readings
         /\ \/ /\ HandOverOk(rec, p, run[p].other, FALSE) /\ rec' = HandOver(rec, run[p].other)
               /\ HolderIs(run[p].other)
               /\ RunIs(run'[p], "send", run[p].n, run[p].ids, run[p].seen, run[p].amend,
                        run[p].other, run[p].again, run[p].closing, TRUE)
            \/ /\ rec' = rec
               /\ RunIs(run'[p], "giveup", run[p].n, run[p].ids, run[p].seen, run[p].amend,
                        run[p].other, run[p].again, run[p].closing, FALSE)
<1>0. TypeOK /\ Shaped
  BY DEF IInv
<1>1. run[p].pc = "hand" /\ UNCHANGED router /\ UNCHANGED ledger /\ faults' = faults
  BY DEF HandOverToFollowUp
<1>2. LedgerSame /\ ask' = ask /\ tail' = tail
  BY <1>1 DEF ledger, LedgerSame, router
<1>3. run[p].other \in Readings
  BY <1>0, <1>1, RunFields DEF TypeOK, Shaped, RunShaped
<1>4. CASE HandOverOk(rec, p, run[p].other, FALSE)
  <2>1. rec' = HandOver(rec, run[p].other) /\ WroteHand(p, "send", TRUE)
    BY <1>4 DEF HandOverToFollowUp, WroteHand
  <2>2. rec' \in TurnRecords /\ HolderIs(run[p].other)
    BY <1>0, <1>3, <2>1, HolderWrites DEF TypeOK, HolderIs, Turns
  <2>3. RunsKept /\ Others(p)
        /\ RunIs(run'[p], "send", run[p].n, run[p].ids, run[p].seen, run[p].amend,
                 run[p].other, run[p].again, run[p].closing, TRUE)
    <3>1. "send" \in RunPcs
      BY DEF RunPcs
    <3>2. QED BY <1>0, <2>1, <3>1, HandWritten DEF TypeOK
  <2>4. TypeOK'
    BY <1>0, <1>1, <1>2, <2>2, <2>3, RunTyped DEF TypeOK
  <2>5. QED BY <1>1, <1>2, <1>3, <1>4, <2>1, <2>2, <2>3, <2>4
<1>5. CASE ~HandOverOk(rec, p, run[p].other, FALSE)
  <2>1. rec' = rec /\ WroteHand(p, "giveup", FALSE)
    BY <1>5 DEF HandOverToFollowUp, WroteHand, HandOverOk
  <2>2. RunsKept /\ Others(p)
        /\ RunIs(run'[p], "giveup", run[p].n, run[p].ids, run[p].seen, run[p].amend,
                 run[p].other, run[p].again, run[p].closing, FALSE)
    <3>1. "giveup" \in RunPcs
      BY DEF RunPcs
    <3>2. QED BY <1>0, <2>1, <3>1, HandWritten DEF TypeOK
  <2>3. TypeOK'
    BY <1>0, <1>1, <1>2, <2>1, <2>2, RunTyped DEF TypeOK
  <2>4. QED BY <1>1, <1>2, <1>3, <2>1, <2>2, <2>3
<1>6. QED BY <1>4, <1>5

LEMMA DispatchFollowUpStep ==
  ASSUME IInv, NEW p \in Procs, DispatchFollowUp(p)
  PROVE  /\ TypeOK' /\ run[p].pc = "send" /\ rec' = rec /\ ask' = ask /\ tail' = tail /\ LedgerSame
         /\ RunsKept /\ run[p].other \in Readings \ {p}
         /\ \/ /\ IsOver(p) /\ \A q \in Procs \ {p, run[p].other} : run'[q] = run[q]
               /\ \E n \in 0..PassLimit :
                     RunIs(run'[run[p].other], "go", n, run[p].seen, {}, {}, NoOne, FALSE, FALSE,
                           FALSE)
            \/ Others(p) /\ Moved(p, "free")
<1>0. TypeOK /\ Shaped /\ Bounded /\ Following
  BY DEF IInv
<1>1. /\ run[p].pc = "send" /\ UNCHANGED router /\ UNCHANGED ledger /\ rec' = rec
      /\ faults' \in 0..MaxFaults
  BY <1>0, Failing DEF DispatchFollowUp
<1>2. LedgerSame /\ ask' = ask /\ tail' = tail
  BY <1>1 DEF ledger, LedgerSame, router
<1>3. PICK c \in Readings : c = run[p].other /\ c # p /\ c \in Procs /\ c \notin Messages
  <2>1. Follows(p)
    BY <1>1 DEF Follows
  <2>2. run[p].other \in Readings /\ run[run[p].other].pc \in {"none", "over"}
    BY <1>0, <1>1, <2>1 DEF Following
  <2>3. run[p].other # p
    BY <1>1, <2>2
  <2>4. QED BY <2>2, <2>3, Apart DEF Procs
<1>4. PICK n \in 0..PassLimit : n = IF Reads(p) THEN run[p].n + 1 ELSE 1
  <2>1. run[p].n \in Nat
    BY <1>0, RunFields DEF TypeOK
  <2>2. p \in Readings => run[p].n < PassLimit
    BY <1>0, <1>1 DEF Bounded, RunBounded
  <2>3. QED BY <2>1, <2>2, LimitsAssumption DEF Reads
<1>5. CASE run' = [run EXCEPT ![p] = Ended(p),
                     ![c] = [Fresh(c) EXCEPT !.pc = "go", !.n = n, !.ids = run[p].seen]]
  <2> DEFINE f == Fresh(c)
             g == Fresh(p)
             s == Ended(p)
             u == [f EXCEPT !.pc = "go", !.n = n, !.ids = run[p].seen]
  <2>1. f \in Runs /\ g \in Runs /\ n \in 0..Most /\ run[p].seen \in SUBSET Messages
    <3>1. n \in 0..Most
      BY <1>4, Within, LimitsAssumption
    <3>2. run[p].seen \in SUBSET Messages
      BY <1>0, RunFields DEF TypeOK
    <3>3. QED BY <1>3, <3>1, <3>2, FreshRun
  <2>2. PICK own : own = IF p \in Messages THEN {p} ELSE {}
    OBVIOUS
  <2>3. RunIs(g, "none", 0, own, {}, {}, NoOne, FALSE, FALSE, FALSE)
    BY <2>2, FreshRun
  <2>4. RunIs(f, "none", 0, {}, {}, {}, NoOne, FALSE, FALSE, FALSE)
    BY <1>3, FreshRun
  <2>5. s = [g EXCEPT !.pc = "over"]
    BY DEF Ended
  <2> HIDE DEF f, g
  <2>6. s \in Runs
    BY <2>1, <2>5, RunsAre DEF RunPcs
  <2>7. RunIs(s, "over", 0, own, {}, {}, NoOne, FALSE, FALSE, FALSE)
    BY <2>1, <2>3, <2>5, RunsAre DEF RunIs
  <2>8. u \in Runs
    BY <2>1, RunsAre DEF RunPcs
  <2>9. RunIs(u, "go", n, run[p].seen, {}, {}, NoOne, FALSE, FALSE, FALSE)
    BY <2>1, <2>4, RunsAre DEF RunIs
  <2>10. run' = [run EXCEPT ![p] = s, ![c] = u]
    BY <1>5 DEF f
  <2> HIDE DEF s, u
  <2>11. RunsKept /\ run'[p] = s /\ run'[c] = u /\ \A q \in Procs \ {p, c} : run'[q] = run[q]
    BY <1>0, <1>3, <2>6, <2>8, <2>10 DEF RunsKept, TypeOK
  <2>12. IsOver(p)
    BY <2>2, <2>7, <2>11 DEF IsOver
  <2>13. TypeOK'
    BY <1>0, <1>1, <1>2, <2>11, RunTyped DEF TypeOK
  <2>14. \E k \in 0..PassLimit :
           RunIs(run'[c], "go", k, run[p].seen, {}, {}, NoOne, FALSE, FALSE, FALSE)
    BY <1>4, <2>9, <2>11
  <2>15. QED BY <1>1, <1>2, <1>3, <2>11, <2>12, <2>13, <2>14
<1>6. CASE Goes(p, "free")
  <2>1. RunsKept /\ Others(p) /\ Moved(p, "free")
    BY <1>0, <1>6, GoesTo DEF TypeOK, RunPcs
  <2>2. TypeOK'
    BY <1>0, <1>1, <1>2, <2>1, RunTyped DEF TypeOK
  <2>3. QED BY <1>1, <1>2, <1>3, <2>1, <2>2
<1>7. QED BY <1>3, <1>4, <1>5, <1>6 DEF DispatchFollowUp

LEMMA FreeFollowUpStep ==
  ASSUME TypeOK, Shaped, Following, NEW p \in Procs, FreeFollowUp(p)
  PROVE  /\ TypeOK' /\ run[p].pc = "free" /\ ask' = ask /\ tail' = tail /\ LedgerSame
         /\ RunsKept /\ Moved(p, "giveup") /\ run[p].other \in Readings /\ run[p].other # p
         /\ run[run[p].other].pc \in {"none", "over"}
         /\ \/ rec.holder = run[p].other /\ rec' = Release(rec) /\ HolderIs(NoOne) /\ Others(p)
            \/ rec.holder # run[p].other /\ rec' = rec /\ Others(p)
            \/ /\ rec' = rec /\ Moved(run[p].other, "dead")
               /\ \A q \in Procs \ {p, run[p].other} : run'[q] = run[q]
<1>1. run[p].pc = "free" /\ UNCHANGED router /\ UNCHANGED ledger /\ faults' \in 0..MaxFaults
  BY Failing DEF FreeFollowUp
<1>2. LedgerSame /\ ask' = ask /\ tail' = tail
  BY <1>1 DEF ledger, LedgerSame, router
<1> DEFINE written == rec' = (IF ReleaseOk(rec, run[p].other) THEN Release(rec) ELSE rec)
<1>0. /\ run[p].other \in Readings /\ run[p].other # p
      /\ run[run[p].other].pc \in {"none", "over"}
  BY <1>1 DEF Following, Follows
<1>3. ASSUME Goes(p, "giveup")
      PROVE  RunsKept /\ Others(p) /\ Moved(p, "giveup")
  BY <1>3, GoesTo DEF TypeOK, RunPcs
<1>4. CASE rec.holder = run[p].other /\ written /\ Goes(p, "giveup")
  <2>1. rec' = Release(rec)
    BY <1>4 DEF ReleaseOk
  <2>2. rec' \in TurnRecords /\ HolderIs(NoOne)
    BY <2>1, ReleaseWrites DEF TypeOK, HolderIs
  <2>3. TypeOK'
    BY <1>1, <1>2, <1>3, <1>4, <2>2, RunTyped DEF TypeOK
  <2>4. QED BY <1>0, <1>1, <1>2, <1>3, <1>4, <2>1, <2>2, <2>3
<1>5. CASE rec.holder # run[p].other /\ written /\ Goes(p, "giveup")
  <2>1. rec' = rec
    BY <1>5 DEF ReleaseOk
  <2>2. TypeOK'
    BY <1>1, <1>2, <1>3, <1>5, <2>1, RunTyped DEF TypeOK
  <2>3. QED BY <1>0, <1>1, <1>2, <1>3, <1>5, <2>1, <2>2
<1>6. CASE rec' = rec /\ WroteDead(p, "giveup", run[p].other)
  <2>1. PICK c \in Procs : c = run[p].other /\ c # p
    BY <1>0 DEF Procs
  <2>2. WroteDead(p, "giveup", c) /\ "giveup" \in RunPcs
    BY <1>6, <2>1 DEF RunPcs
  <2>3. /\ RunsKept /\ Moved(p, "giveup") /\ Moved(c, "dead")
        /\ \A q \in Procs \ {p, c} : run'[q] = run[q]
    BY <2>1, <2>2, DeadWritten DEF TypeOK
  <2>4. TypeOK'
    BY <1>1, <1>2, <1>6, <2>3, RunTyped DEF TypeOK
  <2>5. QED BY <1>0, <1>1, <1>2, <1>6, <2>1, <2>3, <2>4
<1>7. QED BY <1>4, <1>5, <1>6 DEF FreeFollowUp, WroteDead

\* The run goes on to release the lock, its claim given up.
GoesOn(p) == RunIs(run'[p], "release", run[p].n, run[p].ids, run[p].seen, run[p].amend, NoOne,
                   run[p].again, run[p].closing, run[p].handed)

LEMMA GiveUpClaimStep ==
  ASSUME TypeOK, Following, NEW p \in Procs, GiveUpClaim(p)
  PROVE  /\ TypeOK' /\ run[p].pc = "giveup" /\ ask' = ask /\ tail' = tail /\ LedgerSame
         /\ RunsKept
         /\ \/ /\ Others(p) /\ rec' = ReleaseTriage(rec, Claimed(p))
               /\ \/ rec.triagedBy = Claimed(p) /\ ClaimIs(NoOne)
                  \/ rec.triagedBy # Claimed(p) /\ ClaimIs(rec.triagedBy)
               /\ \/ run[p].other = NoOne /\ IsOver(p)
                  \/ run[p].other # NoOne /\ GoesOn(p)
            \/ /\ "giveup" \in Faults /\ rec.triagedBy = Claimed(p) /\ rec' = rec
               /\ \/ run[p].other = NoOne /\ Moved(p, "dead") /\ Others(p)
                  \/ run[p].other \in Readings /\ run[p].handed /\ GoesOn(p) /\ Others(p)
                  \/ /\ run[p].other \in Readings /\ ~run[p].handed /\ GoesOn(p)
                     /\ run[p].other # p /\ Moved(run[p].other, "dead")
                     /\ run[run[p].other].pc \in {"none", "over"}
                     /\ \A q \in Procs \ {p, run[p].other} : run'[q] = run[q]
<1>1. run[p].pc = "giveup" /\ UNCHANGED router /\ UNCHANGED ledger /\ faults' \in 0..MaxFaults
  BY Failing DEF GiveUpClaim
<1>2. LedgerSame /\ ask' = ask /\ tail' = tail
  BY <1>1 DEF ledger, LedgerSame, router
<1>3. run[p].other \in Readings \cup {NoOne} /\ NoOne \notin Readings
  BY RunFields, Apart DEF TypeOK
<1>4. ASSUME WroteClaim(p, "release", NoOne)
      PROVE  RunsKept /\ Others(p) /\ GoesOn(p)
  <2>1. "release" \in RunPcs /\ NoOne \in Readings \cup {NoOne}
    BY DEF RunPcs
  <2>2. QED BY <1>4, <2>1, ClaimWritten DEF TypeOK, GoesOn
<1>5. CASE /\ rec' = ReleaseTriage(rec, Claimed(p))
           /\ IF run[p].other = NoOne THEN Ends(p) ELSE WroteClaim(p, "release", NoOne)
  <2>1. PICK left : left = IF rec.triagedBy = Claimed(p) THEN NoOne ELSE rec.triagedBy
    OBVIOUS
  <2>2. rec' \in TurnRecords /\ ClaimIs(left)
    BY <1>5, <2>1, ReleaseTriageWrites DEF TypeOK, ClaimIs
  <2>3. CASE run[p].other = NoOne
    <3>1. RunsKept /\ Others(p) /\ IsOver(p)
      BY <1>5, <2>3, EndsRun DEF TypeOK
    <3>2. TypeOK'
      BY <1>1, <1>2, <2>2, <3>1, RunTyped DEF TypeOK
    <3>3. QED BY <1>1, <1>2, <1>5, <2>1, <2>2, <2>3, <3>1, <3>2
  <2>4. CASE run[p].other # NoOne
    <3>1. RunsKept /\ Others(p) /\ GoesOn(p)
      BY <1>4, <1>5, <2>4
    <3>2. TypeOK'
      BY <1>1, <1>2, <2>2, <3>1, RunTyped DEF TypeOK
    <3>3. QED BY <1>1, <1>2, <1>5, <2>1, <2>2, <2>4, <3>1, <3>2
  <2>5. QED BY <2>3, <2>4
<1>6. CASE /\ "giveup" \in Faults /\ rec.triagedBy = Claimed(p) /\ rec' = rec
           /\ IF run[p].other = NoOne THEN Goes(p, "dead")
              ELSE IF run[p].handed THEN WroteClaim(p, "release", NoOne)
              ELSE WroteGivenUp(p, "release", run[p].other)
  <2>1. CASE run[p].other = NoOne
    <3>1. RunsKept /\ Others(p) /\ Moved(p, "dead")
      BY <1>6, <2>1, GoesTo DEF TypeOK, RunPcs
    <3>2. TypeOK'
      BY <1>1, <1>2, <1>6, <3>1, RunTyped DEF TypeOK
    <3>3. QED BY <1>1, <1>2, <1>6, <2>1, <3>1, <3>2
  <2>2. CASE run[p].other \in Readings /\ run[p].handed
    <3>1. RunsKept /\ Others(p) /\ GoesOn(p)
      BY <1>3, <1>4, <1>6, <2>2
    <3>2. TypeOK'
      BY <1>1, <1>2, <1>6, <3>1, RunTyped DEF TypeOK
    <3>3. QED BY <1>1, <1>2, <1>6, <2>2, <3>1, <3>2
  <2>3. CASE run[p].other \in Readings /\ ~run[p].handed
    <3>1. run[run[p].other].pc \in {"none", "over"} /\ run[p].other # p
      BY <1>1, <1>3, <2>3 DEF Following, Follows
    <3>2. PICK c \in Procs : c = run[p].other
      BY <2>3 DEF Procs
    <3>3. WroteGivenUp(p, "release", c) /\ "release" \in RunPcs
      BY <1>3, <1>6, <2>3, <3>2 DEF RunPcs
    <3>4. /\ RunsKept /\ GoesOn(p) /\ Moved(c, "dead")
          /\ \A q \in Procs \ {p, c} : run'[q] = run[q]
      BY <3>1, <3>2, <3>3, DeadWritten DEF TypeOK, GoesOn
    <3>5. TypeOK'
      BY <1>1, <1>2, <1>6, <3>4, RunTyped DEF TypeOK
    <3>6. QED BY <1>1, <1>2, <1>6, <2>3, <3>1, <3>2, <3>4, <3>5
  <2>4. QED BY <1>3, <2>1, <2>2, <2>3
<1>7. QED BY <1>5, <1>6 DEF GiveUpClaim, Fails, Goes, WroteClaim, WroteGivenUp

LEMMA ReleaseAtExitStep ==
  ASSUME TypeOK, NEW p \in Procs, ReleaseAtExit(p)
  PROVE  /\ TypeOK' /\ run[p].pc = "release" /\ ask' = ask /\ tail' = tail /\ LedgerSame
         /\ RunsKept /\ Others(p)
         /\ \/ rec.holder = p /\ rec' = Release(rec) /\ HolderIs(NoOne) /\ IsOver(p)
            \/ rec.holder # p /\ rec' = rec /\ IsOver(p)
            \/ rec' = rec /\ Moved(p, "dead")
<1>1. /\ run[p].pc = "release" /\ UNCHANGED router /\ UNCHANGED ledger
      /\ faults' \in 0..MaxFaults
  BY Failing DEF ReleaseAtExit
<1>2. LedgerSame /\ ask' = ask /\ tail' = tail
  BY <1>1 DEF ledger, LedgerSame, router
<1>3. CASE rec.holder = p /\ rec' = Release(rec) /\ Ends(p)
  <2>1. rec' \in TurnRecords /\ HolderIs(NoOne)
    BY <1>3, ReleaseWrites DEF TypeOK, HolderIs
  <2>2. RunsKept /\ Others(p) /\ IsOver(p)
    BY <1>3, EndsRun DEF TypeOK
  <2>3. TypeOK'
    BY <1>1, <1>2, <2>1, <2>2, RunTyped DEF TypeOK
  <2>4. QED BY <1>1, <1>2, <1>3, <2>1, <2>2, <2>3
<1>4. CASE rec.holder # p /\ rec' = rec /\ Ends(p)
  <2>1. RunsKept /\ Others(p) /\ IsOver(p)
    BY <1>4, EndsRun DEF TypeOK
  <2>2. TypeOK'
    BY <1>1, <1>2, <1>4, <2>1, RunTyped DEF TypeOK
  <2>3. QED BY <1>1, <1>2, <1>4, <2>1, <2>2
<1>5. CASE rec' = rec /\ Goes(p, "dead")
  <2>1. RunsKept /\ Others(p) /\ Moved(p, "dead")
    BY <1>5, GoesTo DEF TypeOK, RunPcs
  <2>2. TypeOK'
    BY <1>1, <1>2, <1>5, <2>1, RunTyped DEF TypeOK
  <2>3. QED BY <1>1, <1>2, <1>5, <2>1, <2>2
<1>6. QED BY <1>3, <1>4, <1>5 DEF ReleaseAtExit, ReleaseOk

LEMMA DieStep ==
  ASSUME TypeOK, NEW p \in Procs, Die(p)
  PROVE  /\ TypeOK' /\ rec' = rec /\ ask' = ask /\ tail' = tail /\ LedgerSame
         /\ "kill" \in Faults /\ Active(p) /\ run[p].pc # "claim" /\ RunsKept
         /\ \A q \in Procs : IF q = p \/ q \in ClaimedFor(p) THEN Moved(q, "dead")
                             ELSE run'[q] = run[q]
<1>1. /\ UNCHANGED router /\ UNCHANGED ledger /\ rec' = rec /\ faults' \in 0..MaxFaults
      /\ "kill" \in Faults /\ Active(p) /\ run[p].pc # "claim"
  BY Failing DEF Die, Fails
<1>2. LedgerSame /\ ask' = ask /\ tail' = tail
  BY <1>1 DEF ledger, LedgerSame, router
<1>3. run' = [q \in Procs |-> IF q = p \/ q \in ClaimedFor(p) THEN [run[q] EXCEPT !.pc = "dead"]
                              ELSE run[q]]
  BY DEF Die
<1>4. ASSUME NEW q \in Procs
      PROVE  /\ run'[q] \in Runs
             /\ IF q = p \/ q \in ClaimedFor(p) THEN Moved(q, "dead") ELSE run'[q] = run[q]
  <2>1. run[q] \in Runs
    BY DEF TypeOK
  <2>2. CASE q = p \/ q \in ClaimedFor(p)
    <3> DEFINE s == [run[q] EXCEPT !.pc = "dead"]
    <3>1. s \in Runs
      BY <2>1, RunsAre DEF RunPcs
    <3>2. RunIs(s, "dead", run[q].n, run[q].ids, run[q].seen, run[q].amend, run[q].other,
                run[q].again, run[q].closing, run[q].handed)
      BY <2>1, RunsAre DEF RunIs
    <3>3. run'[q] = s
      BY <1>3, <2>2
    <3> HIDE DEF s
    <3>4. QED BY <2>2, <3>1, <3>2, <3>3 DEF Moved
  <2>3. CASE ~(q = p \/ q \in ClaimedFor(p))
    BY <1>3, <2>1, <2>3
  <2>4. QED BY <2>2, <2>3
<1>5. RunsKept
  BY <1>3, <1>4 DEF RunsKept
<1>6. TypeOK'
  BY <1>1, <1>2, <1>5, RunTyped DEF TypeOK
<1>7. QED BY <1>1, <1>2, <1>4, <1>5, <1>6

-----------------------------------------------------------------------------
(* The parts of the invariant, one after the other.                         *)

(* What the router does while no run of its own begins or ends.             *)
RouterQuietly(m) ==
    \/ ClaimTurnFor(m) \/ ReadHolder(m) \/ EnqueueMessage(m) \/ TrimQueue(m) \/ PostNotice(m)
    \/ ClearFolded(m) \/ TakeFolded(m) \/ Redact(m)

(* A run stands where it was: only the queue it last saw may be another.    *)
Stands(p) ==
    /\ run'[p].pc = run[p].pc /\ run'[p].n = run[p].n /\ run'[p].ids = run[p].ids
    /\ run'[p].amend = run[p].amend /\ run'[p].other = run[p].other /\ run'[p].again = run[p].again
    /\ run'[p].closing = run[p].closing /\ run'[p].handed = run[p].handed

\* Then every run stands, and of the record only the queue, the follow-ups and the holder
\* change, the holder to the claimed message.
LEMMA RouterQuiet ==
  ASSUME TypeOK, NEW m \in Messages, RouterQuietly(m)
  PROVE  /\ TypeOK' /\ RunsKept /\ \A p \in Procs : Stands(p)
         /\ \A p \in Procs \ {m} : run'[p] = run[p]
         /\ rec'.triagedBy = rec.triagedBy /\ rec'.parked = rec.parked
         /\ rec'.resumedBy = rec.resumedBy /\ judged' = judged
         /\ \/ rec'.holder = rec.holder
            \/ rec'.holder = m /\ ask[m] # "done" /\ run' = run
<1>1. m \in Procs
  BY DEF Procs
<1>2. CASE ClaimTurnFor(m)
  BY <1>2, ClaimTurnForStep DEF TypeOK, RunsKept, Stands, HolderIs, RecIs, LedgerSame
<1>3. CASE ReadHolder(m) \/ Redact(m)
  BY <1>3, ReadHolderStep, RedactStep DEF TypeOK, RunsKept, Stands, LedgerSame
<1>4. CASE EnqueueMessage(m)
  BY <1>1, <1>4, EnqueueMessageStep DEF TypeOK, RunsKept, Stands, QueueIs, RecIs, Others, RunIs
<1>5. CASE TrimQueue(m)
  BY <1>5, TrimQueueStep DEF TypeOK, RunsKept, Stands, QueueIs, RecIs
<1>6. CASE PostNotice(m)
  BY <1>1, <1>6, PostNoticeStep DEF TypeOK, RunsKept, Stands, Others, RunIs, LedgerSame
<1>7. CASE ClearFolded(m)
  BY <1>7, ClearFoldedStep DEF TypeOK, RunsKept, Stands, RecIs, LedgerSame
<1>8. CASE TakeFolded(m)
  BY <1>8, TakeFoldedStep DEF TypeOK, RunsKept, Stands, QueueIs, RecIs, LedgerSame
<1>9. QED BY <1>2, <1>3, <1>4, <1>5, <1>6, <1>7, <1>8 DEF RouterQuietly

\* Every step leaves the variables their types.
LEMMA TypesKept ==
  ASSUME IInv, [Next]_vars
  PROVE  TypeOK'
<1>0. TypeOK /\ Shaped /\ Following
  BY DEF IInv
<1>1. CASE UNCHANGED vars
  BY <1>0, <1>1 DEF TypeOK, vars, ledger
<1>2. ASSUME NEW m \in Messages, RouterQuietly(m) PROVE TypeOK'
  BY <1>0, <1>2, RouterQuiet
     DEF Stands
<1>3. ASSUME NEW m \in Messages, Dispatch(m) PROVE TypeOK'
  BY <1>0, <1>3, DispatchStep
<1>4. ASSUME NEW m \in Messages, UndoClaim(m) PROVE TypeOK'
  BY <1>0, <1>4, UndoClaimStep
<1>5. ASSUME TakeUpNotice PROVE TypeOK'
  BY <1>0, <1>5, TakeUpNoticeStep
<1>6. ASSUME NEW p \in Procs, Checkpoint(p) PROVE TypeOK'
  BY <1>0, <1>6, CheckpointStep
<1>7. ASSUME NEW p \in Procs, ParkForReading(p) PROVE TypeOK'
  BY <1>0, <1>7, ParkForReadingStep
<1>8. ASSUME NEW p \in Procs, Fold(p) PROVE TypeOK'
  BY <1>0, <1>8, FoldStep
<1>9. ASSUME NEW p \in Procs, DeliverParked(p) PROVE TypeOK'
  BY <1>0, <1>9, DeliverParkedStep
<1>10. ASSUME NEW r \in Readings, ClaimQueueOnArrival(r) PROVE TypeOK'
  BY <1>0, <1>10, ClaimQueueOnArrivalStep
<1>11. ASSUME NEW r \in Readings, StartReading(r) PROVE TypeOK'
  BY <1>0, <1>11, StartReadingStep
<1>12. ASSUME NEW r \in Readings, Look(r) PROVE TypeOK'
  BY <1>0, <1>12, LookStep
<1>13. ASSUME NEW r \in Readings, StillRunning(r) PROVE TypeOK'
  BY <1>0, <1>13, StillRunningStep
<1>14. ASSUME NEW r \in Readings, RecordFollowUps(r) PROVE TypeOK'
  BY <1>0, <1>14, RecordFollowUpsStep
<1>15. ASSUME NEW r \in Readings, ResumeParked(r) PROVE TypeOK'
  BY <1>0, <1>15, ResumeParkedStep
<1>16. ASSUME NEW r \in Readings, InvokeResume(r) PROVE TypeOK'
  BY <1>0, <1>16, InvokeResumeStep
<1>17. ASSUME NEW r \in Readings, AbandonResumed(r) PROVE TypeOK'
  BY <1>0, <1>17, AbandonResumedStep
<1>18. ASSUME NEW r \in Readings, ClearQueueRead(r) PROVE TypeOK'
  BY <1>0, <1>18, ClearQueueReadStep
<1>19. ASSUME NEW p \in Procs, ReadAtExit(p) PROVE TypeOK'
  BY <1>0, <1>19, ReadAtExitStep
<1>20. ASSUME NEW p \in Procs, ReturnFollowUps(p) PROVE TypeOK'
  BY <1>0, <1>20, ReturnFollowUpsStep
<1>21. ASSUME NEW p \in Procs, ClaimFollowUp(p) PROVE TypeOK'
  BY <1>0, <1>21, ClaimFollowUpStep
<1>22. ASSUME NEW p \in Procs, YieldToReading(p) PROVE TypeOK'
  BY <1>0, <1>22, YieldToReadingStep
<1>23. ASSUME NEW p \in Procs, FetchFollowUp(p) PROVE TypeOK'
  BY <1>0, <1>23, FetchFollowUpStep
<1>24. ASSUME NEW p \in Procs, ClearEmptied(p) PROVE TypeOK'
  BY <1>0, <1>24, ClearEmptiedStep
<1>25. ASSUME NEW p \in Procs, HandOverToFollowUp(p) PROVE TypeOK'
  BY <1>0, <1>25, HandOverToFollowUpStep
<1>26. ASSUME NEW p \in Procs, DispatchFollowUp(p) PROVE TypeOK'
  BY <1>0, <1>26, DispatchFollowUpStep
<1>27. ASSUME NEW p \in Procs, FreeFollowUp(p) PROVE TypeOK'
  BY <1>0, <1>27, FreeFollowUpStep
<1>28. ASSUME NEW p \in Procs, GiveUpClaim(p) PROVE TypeOK'
  BY <1>0, <1>28, GiveUpClaimStep
<1>29. ASSUME NEW p \in Procs, ReleaseAtExit(p) PROVE TypeOK'
  BY <1>0, <1>29, ReleaseAtExitStep
<1>30. ASSUME NEW p \in Procs, Die(p) PROVE TypeOK'
  BY <1>0, <1>30, DieStep
<1>31. ASSUME NEW m \in Messages, ClaimTurnFor(m) \/ RouterStep(m) \/ Redact(m) PROVE TypeOK'
  BY <1>31, <1>3, <1>4, <1>2
     DEF RouterStep, RouterQuietly
<1>32. ASSUME NEW r \in Readings, ReadingStep(r) PROVE TypeOK'
  BY <1>32, <1>10, <1>11, <1>12, <1>13, <1>14, <1>15, <1>16, <1>17, <1>18
     DEF ReadingStep
<1>33. ASSUME NEW p \in Procs, AnswerStep(p) \/ ExitStep(p) PROVE TypeOK'
  BY <1>33, <1>6, <1>7, <1>8, <1>9, <1>19, <1>20, <1>21, <1>22, <1>23, <1>24, <1>25, <1>26, <1>27,
     <1>28, <1>29
     DEF AnswerStep, ExitStep
<1>34. QED BY <1>1, <1>5, <1>30, <1>31, <1>32, <1>33 DEF Next

\* A step of one run leaves the others as they are, or ends them.
LEMMA OthersLeft == ASSUME NEW p, Others(p) PROVE LeftOrDead(p)
BY DEF Others, LeftOrDead

\* A reading that could not hand back the answer, or free or give up what its follow-up has,
\* leaves no other run but that one changed.
LEMMA DeadBeside ==
  ASSUME NEW p \in Procs, NEW c \in Procs, Moved(c, "dead"),
         \A q \in Procs \ {p, c} : run'[q] = run[q]
  PROVE  LeftOrDead(p)
BY DEF LeftOrDead

\* Where no run goes on but one and others end at most, only that one has to be looked at.
LEMMA ShapedElsewhere ==
  ASSUME Shaped, NEW p \in Procs, LeftOrDead(p), RunShaped(p)'
  PROVE  Shaped'
<1>1. ASSUME NEW q \in Procs \ {p} PROVE RunShaped(q)'
  <2>1. RunShaped(q)
    BY DEF Shaped
  <2>2. Moved(q, "dead") \/ run'[q] = run[q]
    BY DEF LeftOrDead
  <2>3. QED BY <2>1, <2>2, Apart DEF RunShaped, ReadingPcs, AnswerPcs, ExitPcs, Moved, RunIs
<1>2. QED BY <1>1 DEF Shaped

\* A run is at a point of its kind, having read what it needs there.
LEMMA ShapedKept ==
  ASSUME IInv, [Next]_vars
  PROVE  Shaped'
<1>0. TypeOK /\ Shaped /\ Asking /\ Following
  BY DEF IInv
<1>1. CASE UNCHANGED vars
  BY <1>0, <1>1 DEF Shaped, RunShaped, vars
<1>2. ASSUME NEW m \in Messages, RouterQuietly(m) PROVE Shaped'
  BY <1>0, <1>2, RouterQuiet
     DEF Shaped, RunShaped, ReadingPcs, AnswerPcs, ExitPcs, Procs, Stands
<1>3. ASSUME NEW m \in Messages, Dispatch(m) PROVE Others(m) /\ RunShaped(m)'
  BY <1>0, <1>3, DispatchStep, Apart
     DEF Shaped, RunShaped, ReadingPcs, AnswerPcs, ExitPcs, Procs, Asking, Others, Moved, RunIs
<1>4. ASSUME NEW m \in Messages, UndoClaim(m) PROVE Others(m) /\ RunShaped(m)'
  BY <1>0, <1>4, UndoClaimStep, Apart
     DEF Shaped, RunShaped, ReadingPcs, AnswerPcs, ExitPcs, Procs, Others, IsOver, Moved, RunIs, Asking
<1>5. ASSUME TakeUpNotice PROVE Shaped'
  <2>1. CASE run' = run
    BY <1>0, <2>1 DEF Shaped, RunShaped
  <2>2. CASE run' # run
    <3>1. PICK r \in Readings :
            /\ Others(r)
            /\ RunIs(run'[r], "claim", 0, {}, rec.queued, {}, NoOne, FALSE, FALSE, FALSE)
      BY <1>0, <1>5, <2>2, TakeUpNoticeStep
    <3>2. RunShaped(r)' /\ r \in Procs
      BY <3>1, Apart, LimitsAssumption DEF RunShaped, ReadingPcs, AnswerPcs, ExitPcs, RunIs, Procs
    <3>3. QED BY <1>0, <3>1, <3>2, ShapedElsewhere, OthersLeft
  <2>3. QED BY <2>1, <2>2
<1>6. ASSUME NEW p \in Procs, Checkpoint(p) PROVE Others(p) /\ RunShaped(p)'
  BY <1>0, <1>6, CheckpointStep, Apart
     DEF Shaped, RunShaped, ReadingPcs, AnswerPcs, ExitPcs, Procs, Others, RunIs, Delivered
<1>7. ASSUME NEW p \in Procs, ParkForReading(p) PROVE Others(p) /\ RunShaped(p)'
  BY <1>0, <1>7, ParkForReadingStep, Apart
     DEF Shaped, RunShaped, ReadingPcs, AnswerPcs, ExitPcs, Procs, Others, Moved, RunIs, Delivered
<1>8. ASSUME NEW p \in Procs, Fold(p) PROVE Others(p) /\ RunShaped(p)'
  BY <1>0, <1>8, FoldStep, Apart
     DEF Shaped, RunShaped, ReadingPcs, AnswerPcs, ExitPcs, Procs, Others, RunIs, Delivered
<1>9. ASSUME NEW p \in Procs, DeliverParked(p) PROVE Others(p) /\ RunShaped(p)'
  BY <1>0, <1>9, DeliverParkedStep, Apart
     DEF Shaped, RunShaped, ReadingPcs, AnswerPcs, ExitPcs, Procs, Others, Moved, RunIs
<1>10. ASSUME NEW r \in Readings, ClaimQueueOnArrival(r) PROVE Others(r) /\ RunShaped(r)'
  <2>1. r \in Procs /\ r \notin Messages /\ RunShaped(r)
    BY <1>0, Apart DEF Shaped, Procs
  <2>2. Others(r) /\ (Moved(r, "fetch") \/ IsOver(r)) /\ run[r].pc = "claim"
    BY <1>0, <1>10, ClaimQueueOnArrivalStep
  <2>3. RunShaped(r)'
    BY <2>1, <2>2 DEF RunShaped, ReadingPcs, AnswerPcs, ExitPcs, Moved, IsOver, RunIs
  <2>4. QED BY <2>2, <2>3
<1>11. ASSUME NEW r \in Readings, StartReading(r) PROVE Others(r) /\ RunShaped(r)'
  BY <1>0, <1>11, StartReadingStep, Apart
     DEF Shaped, RunShaped, ReadingPcs, AnswerPcs, ExitPcs, Procs, Others, Moved, RunIs
<1>12. ASSUME NEW r \in Readings, Look(r) PROVE Others(r) /\ RunShaped(r)'
  <2>1. r \in Procs /\ r \notin Messages /\ RunShaped(r) /\ run[r].n \in Nat
    BY <1>0, Apart, RunFields DEF Shaped, Procs, TypeOK
  <2>2. Others(r) /\ run[r].pc = "go"
    BY <1>0, <1>12, LookStep
  <2>3. /\ run'[r].pc \in {"go", "still", "resume"} /\ ~run'[r].handed
        /\ run'[r].pc \in {"go", "still"} => ~run'[r].closing
    <3>1. ~run[r].closing /\ ~run[r].handed
      BY <2>1, <2>2 DEF RunShaped
    <3>2. QED BY <1>0, <1>12, <3>1, LookStep DEF ReadsOnce, FollowsThrough, RunIs
  <2>4. RunShaped(r)'
    BY <2>1, <2>3 DEF RunShaped, ReadingPcs, AnswerPcs, ExitPcs, Moved
  <2>5. QED BY <2>2, <2>4
<1>13. ASSUME NEW r \in Readings, StillRunning(r) PROVE Others(r) /\ RunShaped(r)'
  BY <1>0, <1>13, StillRunningStep, Apart, RunFields
     DEF Shaped, RunShaped, ReadingPcs, AnswerPcs, ExitPcs, Procs, Others, Moved, RunIs, ReadsOnce
<1>14. ASSUME NEW r \in Readings, RecordFollowUps(r) PROVE Others(r) /\ RunShaped(r)'
  BY <1>0, <1>14, RecordFollowUpsStep, Apart
     DEF Shaped, RunShaped, ReadingPcs, AnswerPcs, ExitPcs, Procs, Others, ReadsOnce,
         FollowsThrough, RunIs
<1>15. ASSUME NEW r \in Readings, ResumeParked(r) PROVE Others(r) /\ RunShaped(r)'
  BY <1>0, <1>15, ResumeParkedStep, Apart, AfterResumes
     DEF Shaped, RunShaped, ReadingPcs, AnswerPcs, ExitPcs, Procs, Others, Moved, RunIs
<1>16. ASSUME NEW r \in Readings, InvokeResume(r) PROVE Shaped'
  <2>1. PICK t \in Messages : t = rec.parked /\ run[t].pc = "parked"
    BY <1>16, InvokeResumeStep
  <2>2. t \in Procs /\ t # r /\ r \in Procs
    BY <1>16, <2>1, Apart DEF Procs
  <2>3. RunShaped(t) /\ RunShaped(r)
    BY <1>0, <2>2 DEF Shaped
  <2>4. CASE Others(r) /\ Moved(r, "abandon")
    <3>1. RunShaped(r)'
      BY <1>16, <2>2, <2>3, <2>4, InvokeResumeStep, Apart DEF RunShaped, ReadingPcs, AnswerPcs, ExitPcs, Moved, RunIs
    <3>2. QED BY <1>0, <2>2, <2>4, <3>1, ShapedElsewhere, OthersLeft
  <2>5. CASE /\ Moved(r, AfterResume(r)) /\ Moved(t, "resumed")
             /\ \A q \in Procs \ {r, t} : run'[q] = run[q]
    <3>1. RunShaped(r)'
      BY <1>16, <2>2, <2>3, <2>5, InvokeResumeStep, Apart, AfterResumes DEF RunShaped, ReadingPcs, AnswerPcs, ExitPcs, Moved, RunIs
    <3>2. RunShaped(t)'
      BY <2>1, <2>2, <2>3, <2>5, Apart DEF RunShaped, ReadingPcs, AnswerPcs, ExitPcs, Moved, RunIs
    <3>3. QED BY <1>0, <2>5, <3>1, <3>2 DEF Shaped, RunShaped
  <2>6. QED BY <1>16, <2>1, <2>4, <2>5, InvokeResumeStep
<1>17. ASSUME NEW r \in Readings, AbandonResumed(r) PROVE LeftOrDead(r) /\ RunShaped(r)'
  <2>1. rec.parked \in Procs /\ r \in Procs
    BY <1>17, AbandonResumedStep DEF Procs
  <2>2. LeftOrDead(r)
    BY <1>17, <2>1, AbandonResumedStep, OthersLeft, DeadBeside
  <2>3. Moved(r, AfterResume(r)) /\ run[r].pc = "abandon"
    BY <1>17, AbandonResumedStep
  <2>4. RunShaped(r)'
    BY <1>0, <2>1, <2>3, Apart, AfterResumes DEF Shaped, RunShaped, ReadingPcs, AnswerPcs, ExitPcs, Moved, RunIs
  <2>5. QED BY <2>2, <2>4
<1>18. ASSUME NEW r \in Readings, ClearQueueRead(r) PROVE Others(r) /\ RunShaped(r)'
  BY <1>0, <1>18, ClearQueueReadStep, Apart
     DEF Shaped, RunShaped, ReadingPcs, AnswerPcs, ExitPcs, Procs, Others, RunIs
<1>19. ASSUME NEW p \in Procs, ReadAtExit(p) PROVE Others(p) /\ RunShaped(p)'
  BY <1>0, <1>19, ReadAtExitStep, Apart
     DEF Shaped, RunShaped, ReadingPcs, AnswerPcs, ExitPcs, Procs, Others, Moved, RunIs, MayFollow
<1>20. ASSUME NEW p \in Procs, ReturnFollowUps(p) PROVE Others(p) /\ RunShaped(p)'
  BY <1>0, <1>20, ReturnFollowUpsStep, Apart
     DEF Shaped, RunShaped, ReadingPcs, AnswerPcs, ExitPcs, Procs, Others, RunIs, MayFollow
<1>21. ASSUME NEW p \in Procs, ClaimFollowUp(p) PROVE Others(p) /\ RunShaped(p)'
  BY <1>0, <1>21, ClaimFollowUpStep, Apart
     DEF Shaped, RunShaped, ReadingPcs, AnswerPcs, ExitPcs, Procs, Others, Moved, RunIs
<1>22. ASSUME NEW p \in Procs, YieldToReading(p) PROVE Others(p) /\ RunShaped(p)'
  BY <1>0, <1>22, YieldToReadingStep, Apart
     DEF Shaped, RunShaped, ReadingPcs, AnswerPcs, ExitPcs, Procs, Others, Moved, IsOver, RunIs
<1>23. ASSUME NEW p \in Procs, FetchFollowUp(p) PROVE Others(p) /\ RunShaped(p)'
  BY <1>0, <1>23, FetchFollowUpStep, Apart
     DEF Shaped, RunShaped, ReadingPcs, AnswerPcs, ExitPcs, Procs, Others, Moved, RunIs
<1>24. ASSUME NEW p \in Procs, ClearEmptied(p) PROVE Others(p) /\ RunShaped(p)'
  <2>1. RunShaped(p)
    BY <1>0 DEF Shaped
  <2>2. Others(p) /\ Moved(p, "giveup") /\ run[p].pc = "empty"
    BY <1>0, <1>24, ClearEmptiedStep
  <2>3. RunShaped(p)'
    BY <2>1, <2>2, Apart DEF RunShaped, ReadingPcs, AnswerPcs, ExitPcs, Moved, RunIs
  <2>4. QED BY <2>2, <2>3
<1>25. ASSUME NEW p \in Procs, HandOverToFollowUp(p) PROVE Others(p) /\ RunShaped(p)'
  BY <1>0, <1>25, HandOverToFollowUpStep, Apart
     DEF Shaped, RunShaped, ReadingPcs, AnswerPcs, ExitPcs, Procs, Others, RunIs
<1>26. ASSUME NEW p \in Procs, DispatchFollowUp(p) PROVE Shaped'
  <2>1. PICK c \in Readings : c = run[p].other /\ c # p
    BY <1>26, DispatchFollowUpStep
  <2>2. c \in Procs /\ c \notin Messages
    BY Apart DEF Procs
  <2>3. RunShaped(p)
    BY <1>0, <1>26 DEF Shaped
  <2>4. CASE Others(p) /\ Moved(p, "free")
    <3>1. RunShaped(p)'
      BY <1>26, <2>3, <2>4, DispatchFollowUpStep, Apart DEF RunShaped, ReadingPcs, AnswerPcs, ExitPcs, Moved, RunIs
    <3>2. QED BY <1>0, <1>26, <2>4, <3>1, ShapedElsewhere, OthersLeft
  <2>5. CASE /\ IsOver(p) /\ \A q \in Procs \ {p, c} : run'[q] = run[q]
             /\ \E n \in 0..PassLimit :
                  RunIs(run'[c], "go", n, run[p].seen, {}, {}, NoOne, FALSE, FALSE, FALSE)
    <3>1. RunShaped(p)'
      BY <1>26, <2>5, Apart, LimitsAssumption DEF RunShaped, ReadingPcs, AnswerPcs, ExitPcs, IsOver, RunIs
    <3>2. RunShaped(c)'
      BY <2>2, <2>5, Apart, LimitsAssumption DEF RunShaped, ReadingPcs, AnswerPcs, ExitPcs, RunIs
    <3>3. QED BY <1>0, <2>5, <3>1, <3>2 DEF Shaped, RunShaped
  <2>6. QED BY <1>26, <2>1, <2>4, <2>5, DispatchFollowUpStep
<1>27. ASSUME NEW p \in Procs, FreeFollowUp(p) PROVE LeftOrDead(p) /\ RunShaped(p)'
  <2>1. run[p].pc = "free" /\ Moved(p, "giveup") /\ run[p].other \in Procs
    BY <1>0, <1>27, FreeFollowUpStep DEF Procs
  <2>2. LeftOrDead(p)
    BY <1>0, <1>27, <2>1, FreeFollowUpStep, OthersLeft, DeadBeside
  <2>3. RunShaped(p)'
    BY <1>0, <2>1, Apart DEF Shaped, RunShaped, ReadingPcs, AnswerPcs, ExitPcs, Moved, RunIs
  <2>4. QED BY <2>2, <2>3
<1>28. ASSUME NEW p \in Procs, GiveUpClaim(p) PROVE LeftOrDead(p) /\ RunShaped(p)'
  <2>1. LeftOrDead(p) /\ run[p].pc = "giveup"
    BY <1>0, <1>28, GiveUpClaimStep, OthersLeft, DeadBeside DEF Procs
  <2>2. IsOver(p) \/ GoesOn(p) \/ Moved(p, "dead")
    BY <1>0, <1>28, GiveUpClaimStep
  <2>3. RunShaped(p)'
    BY <1>0, <2>1, <2>2, Apart DEF Shaped, RunShaped, ReadingPcs, AnswerPcs, ExitPcs, IsOver, GoesOn, Moved, RunIs
  <2>4. QED BY <2>1, <2>3
<1>29. ASSUME NEW p \in Procs, ReleaseAtExit(p) PROVE Others(p) /\ RunShaped(p)'
  BY <1>0, <1>29, ReleaseAtExitStep, Apart
     DEF Shaped, RunShaped, ReadingPcs, AnswerPcs, ExitPcs, Procs, Others, Moved, IsOver, RunIs
<1>30. ASSUME NEW p \in Procs, Die(p) PROVE Shaped'
  <2>1. ASSUME NEW q \in Procs PROVE RunShaped(q)'
    <3>1. RunShaped(q)
      BY <1>0 DEF Shaped
    <3>2. Moved(q, "dead") \/ run'[q] = run[q]
      BY <1>0, <1>30, DieStep
    <3>3. QED BY <3>1, <3>2, Apart DEF RunShaped, ReadingPcs, AnswerPcs, ExitPcs, Moved, RunIs
  <2>2. QED BY <2>1 DEF Shaped
<1>31. ASSUME NEW m \in Messages, ClaimTurnFor(m) \/ RouterStep(m) \/ Redact(m) PROVE Shaped'
  BY <1>0, <1>31, <1>3, <1>4, <1>2, ShapedElsewhere, OthersLeft
     DEF RouterStep, RouterQuietly, Procs
<1>32. ASSUME NEW r \in Readings, ReadingStep(r) PROVE Shaped'
  BY <1>0, <1>32, <1>10, <1>11, <1>12, <1>13, <1>14, <1>15, <1>16, <1>17, <1>18, ShapedElsewhere, OthersLeft
     DEF ReadingStep, Procs
<1>33. ASSUME NEW p \in Procs, AnswerStep(p) \/ ExitStep(p) PROVE Shaped'
  BY <1>0, <1>33, <1>6, <1>7, <1>8, <1>9, <1>19, <1>20, <1>21, <1>22, <1>23, <1>24, <1>25, <1>26,
     <1>27, <1>28, <1>29, ShapedElsewhere, OthersLeft
     DEF AnswerStep, ExitStep
<1>34. QED BY <1>1, <1>5, <1>30, <1>31, <1>32, <1>33 DEF Next

LEMMA OverBounded ==
  ASSUME NEW p \in Procs, IsOver(p) PROVE RunBounded(p)'
BY Apart, LimitsAssumption DEF RunBounded, IsOver, RunIs

LEMMA PassBounded ==
  ASSUME TypeOK, NEW r \in Readings, NEW ids, ReadsOnce(r, ids) PROVE RunBounded(r)'
<1>1. run[r].n \in Nat /\ PassLimit \in Nat /\ r \notin Messages
  BY Apart, RunFields, LimitsAssumption DEF TypeOK, Procs
<1>2. run'[r].n <= PassLimit /\ run'[r].pc = "go"
  BY <1>1 DEF ReadsOnce, RunIs
<1>3. QED BY <1>1, <1>2 DEF RunBounded

\* Where no run goes on but one and others end at most, only that one has to be looked at.
LEMMA BoundedElsewhere ==
  ASSUME Bounded, NEW p \in Procs, LeftOrDead(p), RunBounded(p)'
  PROVE  Bounded'
<1>1. ASSUME NEW q \in Procs \ {p} PROVE RunBounded(q)'
  <2>1. RunBounded(q)
    BY DEF Bounded
  <2>2. Moved(q, "dead") \/ run'[q] = run[q]
    BY DEF LeftOrDead
  <2>3. QED BY <2>1, <2>2, Apart DEF RunBounded, Moved, RunIs
<1>2. QED BY <1>1 DEF Bounded

\* No reading reads, and no answer folds, more often than its limit.
LEMMA BoundedKept ==
  ASSUME IInv, [Next]_vars
  PROVE  Bounded'
<1>0. TypeOK /\ Shaped /\ Bounded /\ Following
  BY DEF IInv
<1>1. CASE UNCHANGED vars
  BY <1>0, <1>1 DEF Bounded, RunBounded, vars
<1>2. ASSUME NEW m \in Messages, RouterQuietly(m) PROVE Bounded'
  BY <1>0, <1>2, RouterQuiet
     DEF Bounded, RunBounded, Procs, Stands
<1>3. ASSUME NEW m \in Messages, Dispatch(m) PROVE Others(m) /\ RunBounded(m)'
  BY <1>0, <1>3, DispatchStep, Apart, LimitsAssumption, RunFields
     DEF Bounded, RunBounded, Procs, Others, Moved, RunIs
<1>4. ASSUME NEW m \in Messages, UndoClaim(m) PROVE Others(m) /\ RunBounded(m)'
  BY <1>0, <1>4, UndoClaimStep, OverBounded, Apart
     DEF Bounded, RunBounded, Procs, Others, IsOver, Moved, RunIs
<1>5. ASSUME TakeUpNotice PROVE Bounded'
  <2>1. CASE run' = run
    BY <1>0, <2>1 DEF Bounded, RunBounded
  <2>2. CASE run' # run
    <3>1. PICK r \in Readings :
            /\ Others(r)
            /\ RunIs(run'[r], "claim", 0, {}, rec.queued, {}, NoOne, FALSE, FALSE, FALSE)
      BY <1>0, <1>5, <2>2, TakeUpNoticeStep
    <3>2. RunBounded(r)' /\ r \in Procs
      BY <3>1, Apart, LimitsAssumption DEF RunBounded, RunIs, Procs
    <3>3. QED BY <1>0, <3>1, <3>2, BoundedElsewhere, OthersLeft
  <2>3. QED BY <2>1, <2>2
<1>6. ASSUME NEW p \in Procs, Checkpoint(p) PROVE Others(p) /\ RunBounded(p)'
  BY <1>0, <1>6, CheckpointStep, Apart, LimitsAssumption, RunFields
     DEF Bounded, RunBounded, Procs, Others, RunIs, Delivered
<1>7. ASSUME NEW p \in Procs, ParkForReading(p) PROVE Others(p) /\ RunBounded(p)'
  BY <1>0, <1>7, ParkForReadingStep, Apart, LimitsAssumption, RunFields
     DEF Bounded, RunBounded, Procs, Others, Moved, RunIs, Delivered
<1>8. ASSUME NEW p \in Procs, Fold(p) PROVE Others(p) /\ RunBounded(p)'
  <2>1. run[p].n \in Nat /\ FoldLimit \in Nat /\ p \in Messages /\ p \notin Readings
    BY <1>0, <1>8, FoldStep, Apart, RunFields, LimitsAssumption DEF TypeOK
  <2>2. run[p].n < FoldLimit
    BY <1>0, <1>8, <2>1, FoldStep DEF Bounded, RunBounded
  <2>3. Others(p) /\ run'[p].n \in {run[p].n, run[p].n + 1} /\ run'[p].pc \in {"none", "exit"}
    BY <1>0, <1>8, FoldStep DEF Delivered, RunIs
  <2>4. QED BY <2>1, <2>2, <2>3 DEF RunBounded
<1>9. ASSUME NEW p \in Procs, DeliverParked(p) PROVE Others(p) /\ RunBounded(p)'
  BY <1>0, <1>9, DeliverParkedStep, Apart, LimitsAssumption, RunFields
     DEF Bounded, RunBounded, Procs, Others, Moved, RunIs
<1>10. ASSUME NEW r \in Readings, ClaimQueueOnArrival(r) PROVE Others(r) /\ RunBounded(r)'
  BY <1>0, <1>10, ClaimQueueOnArrivalStep, OverBounded DEF Bounded, RunBounded, Procs, Others, Moved, RunIs
<1>11. ASSUME NEW r \in Readings, StartReading(r) PROVE Others(r) /\ RunBounded(r)'
  BY <1>0, <1>11, StartReadingStep, Apart, LimitsAssumption, RunFields
     DEF Bounded, RunBounded, Procs, Others, Moved, RunIs
<1>12. ASSUME NEW r \in Readings, Look(r) PROVE Others(r) /\ RunBounded(r)'
  BY <1>0, <1>12, LookStep, PassBounded, Apart
     DEF Bounded, RunBounded, Procs, Others, Moved, RunIs, FollowsThrough
<1>13. ASSUME NEW r \in Readings, StillRunning(r) PROVE Others(r) /\ RunBounded(r)'
  BY <1>0, <1>13, StillRunningStep, PassBounded, Apart
     DEF Bounded, RunBounded, Procs, Others, Moved, RunIs, FollowsThrough
<1>14. ASSUME NEW r \in Readings, RecordFollowUps(r) PROVE Others(r) /\ RunBounded(r)'
  BY <1>0, <1>14, RecordFollowUpsStep, PassBounded, Apart
     DEF Bounded, RunBounded, Procs, Others, Moved, RunIs, FollowsThrough
<1>15. ASSUME NEW r \in Readings, ResumeParked(r) PROVE Others(r) /\ RunBounded(r)'
  BY <1>0, <1>15, ResumeParkedStep, Apart, LimitsAssumption, RunFields, AfterResumes
     DEF Bounded, RunBounded, Procs, Others, Moved, RunIs
<1>16. ASSUME NEW r \in Readings, InvokeResume(r) PROVE Bounded'
  <2>1. PICK t \in Messages : t = rec.parked /\ run[t].pc = "parked"
    BY <1>16, InvokeResumeStep
  <2>2. t \in Procs /\ t # r /\ r \in Procs
    BY <1>16, <2>1, Apart DEF Procs
  <2>3. RunBounded(t) /\ RunBounded(r)
    BY <1>0, <2>2 DEF Bounded
  <2>4. CASE Others(r) /\ Moved(r, "abandon")
    <3>1. RunBounded(r)'
      BY <1>16, <2>2, <2>3, <2>4, InvokeResumeStep, Apart DEF RunBounded, Moved, RunIs
    <3>2. QED BY <1>0, <2>2, <2>4, <3>1, BoundedElsewhere, OthersLeft
  <2>5. CASE /\ Moved(r, AfterResume(r)) /\ Moved(t, "resumed")
             /\ \A q \in Procs \ {r, t} : run'[q] = run[q]
    <3>1. RunBounded(r)'
      BY <1>16, <2>2, <2>3, <2>5, InvokeResumeStep, Apart, AfterResumes DEF RunBounded, Moved, RunIs
    <3>2. RunBounded(t)'
      BY <2>1, <2>2, <2>3, <2>5, Apart DEF RunBounded, Moved, RunIs
    <3>3. QED BY <1>0, <2>5, <3>1, <3>2 DEF Bounded, RunBounded
  <2>6. QED BY <1>16, <2>1, <2>4, <2>5, InvokeResumeStep
<1>17. ASSUME NEW r \in Readings, AbandonResumed(r) PROVE LeftOrDead(r) /\ RunBounded(r)'
  <2>1. rec.parked \in Procs /\ r \in Procs
    BY <1>17, AbandonResumedStep DEF Procs
  <2>2. LeftOrDead(r)
    BY <1>17, <2>1, AbandonResumedStep, OthersLeft, DeadBeside
  <2>3. Moved(r, AfterResume(r)) /\ run[r].pc = "abandon"
    BY <1>17, AbandonResumedStep
  <2>4. RunBounded(r)'
    BY <1>0, <2>1, <2>3, Apart, LimitsAssumption, RunFields, AfterResumes DEF Bounded, RunBounded, Moved, RunIs
  <2>5. QED BY <2>2, <2>4
<1>18. ASSUME NEW r \in Readings, ClearQueueRead(r) PROVE Others(r) /\ RunBounded(r)'
  BY <1>0, <1>18, ClearQueueReadStep, Apart, LimitsAssumption, RunFields
     DEF Bounded, RunBounded, Procs, Others, RunIs
<1>19. ASSUME NEW p \in Procs, ReadAtExit(p) PROVE Others(p) /\ RunBounded(p)'
  BY <1>0, <1>19, ReadAtExitStep, Apart, LimitsAssumption, RunFields
     DEF Bounded, RunBounded, Procs, Others, Moved, RunIs, MayFollow
<1>20. ASSUME NEW p \in Procs, ReturnFollowUps(p) PROVE Others(p) /\ RunBounded(p)'
  BY <1>0, <1>20, ReturnFollowUpsStep, Apart, LimitsAssumption, RunFields
     DEF Bounded, RunBounded, Procs, Others, RunIs, MayFollow
<1>21. ASSUME NEW p \in Procs, ClaimFollowUp(p) PROVE Others(p) /\ RunBounded(p)'
  BY <1>0, <1>21, ClaimFollowUpStep, Apart, LimitsAssumption, RunFields
     DEF Bounded, RunBounded, Procs, Others, Moved, RunIs
<1>22. ASSUME NEW p \in Procs, YieldToReading(p) PROVE Others(p) /\ RunBounded(p)'
  BY <1>0, <1>22, YieldToReadingStep, OverBounded DEF Bounded, RunBounded, Procs, Others, Moved, RunIs
<1>23. ASSUME NEW p \in Procs, FetchFollowUp(p) PROVE Others(p) /\ RunBounded(p)'
  BY <1>0, <1>23, FetchFollowUpStep, Apart, LimitsAssumption, RunFields
     DEF Bounded, RunBounded, Procs, Others, Moved, RunIs
<1>24. ASSUME NEW p \in Procs, ClearEmptied(p) PROVE Others(p) /\ RunBounded(p)'
  BY <1>0, <1>24, ClearEmptiedStep, Apart, LimitsAssumption, RunFields
     DEF Bounded, RunBounded, Procs, Others, Moved, RunIs
<1>25. ASSUME NEW p \in Procs, HandOverToFollowUp(p) PROVE Others(p) /\ RunBounded(p)'
  BY <1>0, <1>25, HandOverToFollowUpStep, Apart, LimitsAssumption, RunFields
     DEF Bounded, RunBounded, Procs, Others, RunIs
<1>26. ASSUME NEW p \in Procs, DispatchFollowUp(p) PROVE Bounded'
  <2>1. PICK c \in Readings : c = run[p].other /\ c # p
    BY <1>26, DispatchFollowUpStep
  <2>2. c \in Procs /\ c \notin Messages
    BY Apart DEF Procs
  <2>3. RunBounded(p)
    BY <1>0, <1>26 DEF Bounded
  <2>4. CASE Others(p) /\ Moved(p, "free")
    <3>1. RunBounded(p)'
      BY <1>26, <2>3, <2>4, DispatchFollowUpStep, Apart DEF RunBounded, Moved, RunIs
    <3>2. QED BY <1>0, <1>26, <2>4, <3>1, BoundedElsewhere, OthersLeft
  <2>5. CASE /\ IsOver(p) /\ \A q \in Procs \ {p, c} : run'[q] = run[q]
             /\ \E n \in 0..PassLimit :
                  RunIs(run'[c], "go", n, run[p].seen, {}, {}, NoOne, FALSE, FALSE, FALSE)
    <3>1. RunBounded(p)'
      BY <1>26, <2>5, Apart, LimitsAssumption DEF RunBounded, IsOver, RunIs
    <3>2. RunBounded(c)'
      BY <2>2, <2>5, Apart, LimitsAssumption DEF RunBounded, RunIs
    <3>3. QED BY <1>0, <2>5, <3>1, <3>2 DEF Bounded, RunBounded
  <2>6. QED BY <1>26, <2>1, <2>4, <2>5, DispatchFollowUpStep
<1>27. ASSUME NEW p \in Procs, FreeFollowUp(p) PROVE LeftOrDead(p) /\ RunBounded(p)'
  <2>1. run[p].pc = "free" /\ Moved(p, "giveup") /\ run[p].other \in Procs
    BY <1>0, <1>27, FreeFollowUpStep DEF Procs
  <2>2. LeftOrDead(p)
    BY <1>0, <1>27, <2>1, FreeFollowUpStep, OthersLeft, DeadBeside
  <2>3. RunBounded(p)'
    BY <1>0, <2>1, Apart, LimitsAssumption, RunFields DEF Bounded, RunBounded, Moved, RunIs
  <2>4. QED BY <2>2, <2>3
<1>28. ASSUME NEW p \in Procs, GiveUpClaim(p) PROVE LeftOrDead(p) /\ RunBounded(p)'
  <2>1. LeftOrDead(p) /\ run[p].pc = "giveup"
    BY <1>0, <1>28, GiveUpClaimStep, OthersLeft, DeadBeside DEF Procs
  <2>2. IsOver(p) \/ GoesOn(p) \/ Moved(p, "dead")
    BY <1>0, <1>28, GiveUpClaimStep
  <2>3. RunBounded(p)'
    BY <1>0, <2>1, <2>2, Apart, LimitsAssumption, RunFields, OverBounded DEF Bounded, RunBounded, IsOver, GoesOn, Moved, RunIs
  <2>4. QED BY <2>1, <2>3
<1>29. ASSUME NEW p \in Procs, ReleaseAtExit(p) PROVE Others(p) /\ RunBounded(p)'
  BY <1>0, <1>29, ReleaseAtExitStep, OverBounded DEF Bounded, RunBounded, Procs, Others, Moved, RunIs
<1>30. ASSUME NEW p \in Procs, Die(p) PROVE Bounded'
  <2>1. ASSUME NEW q \in Procs PROVE RunBounded(q)'
    <3>1. RunBounded(q)
      BY <1>0 DEF Bounded
    <3>2. Moved(q, "dead") \/ run'[q] = run[q]
      BY <1>0, <1>30, DieStep
    <3>3. QED BY <3>1, <3>2, Apart DEF RunBounded, Moved, RunIs
  <2>2. QED BY <2>1 DEF Bounded
<1>31. ASSUME NEW m \in Messages, ClaimTurnFor(m) \/ RouterStep(m) \/ Redact(m) PROVE Bounded'
  BY <1>0, <1>31, <1>3, <1>4, <1>2, BoundedElsewhere, OthersLeft
     DEF RouterStep, RouterQuietly, Procs
<1>32. ASSUME NEW r \in Readings, ReadingStep(r) PROVE Bounded'
  BY <1>0, <1>32, <1>10, <1>11, <1>12, <1>13, <1>14, <1>15, <1>16, <1>17, <1>18, BoundedElsewhere, OthersLeft
     DEF ReadingStep, Procs
<1>33. ASSUME NEW p \in Procs, AnswerStep(p) \/ ExitStep(p) PROVE Bounded'
  BY <1>0, <1>33, <1>6, <1>7, <1>8, <1>9, <1>19, <1>20, <1>21, <1>22, <1>23, <1>24, <1>25, <1>26,
     <1>27, <1>28, <1>29, BoundedElsewhere, OthersLeft
     DEF AnswerStep, ExitStep
<1>34. QED BY <1>1, <1>5, <1>30, <1>31, <1>32, <1>33 DEF Next

\* Where the run of one turn goes on, no invocation of the router is concerned.
LEMMA AskingElsewhere ==
  ASSUME Asking, NEW p \in Procs, p \in Readings \/ run[p].pc # "none", ask' = ask,
         \A m \in Messages \ {p} : run'[m] = run[m] \/ run[m].pc # "none"
  PROVE  Asking'
<1>1. ASSUME NEW m \in Messages, ask'[m] # "done" PROVE run'[m].pc = "none"
  <2>1. m \in Procs /\ m # p /\ run[m].pc = "none"
    BY <1>1, Apart DEF Asking, Procs
  <2>2. QED BY <2>1
<1>2. QED BY <1>1 DEF Asking

LEMMA AskingBeside ==
  ASSUME Asking, NEW p \in Procs, p \in Readings \/ run[p].pc # "none", Others(p), ask' = ask
  PROVE  Asking'
BY AskingElsewhere DEF Others, Procs

\* The run of a message is not begun while the router has the message.
LEMMA AskingKept ==
  ASSUME IInv, [Next]_vars
  PROVE  Asking'
<1>0. TypeOK /\ Shaped /\ Asking /\ Following
  BY DEF IInv
<1>1. CASE UNCHANGED vars
  BY <1>0, <1>1 DEF Asking, vars
<1>2. ASSUME NEW m \in Messages, ClaimTurnFor(m) PROVE Asking'
  BY <1>0, <1>2, ClaimTurnForStep, Apart DEF Asking, Procs, AskGoes
<1>3. ASSUME NEW m \in Messages, ReadHolder(m) PROVE Asking'
  BY <1>0, <1>3, ReadHolderStep, Apart DEF Asking, Procs, AskGoes
<1>4. ASSUME NEW m \in Messages, Dispatch(m) PROVE Asking'
  BY <1>0, <1>4, DispatchStep, Apart DEF Asking, Procs, AskGoes, Others, Moved, RunIs
<1>5. ASSUME NEW m \in Messages, UndoClaim(m) PROVE Asking'
  <2>1. AskGoes(m, {"done"}) /\ Others(m)
    BY <1>0, <1>5, UndoClaimStep
  <2>2. QED BY <1>0, <2>1 DEF Asking, AskGoes, Others, Procs
<1>6. ASSUME NEW m \in Messages, EnqueueMessage(m) PROVE Asking'
  <2>1. RouterQuietly(m)
    BY <1>6 DEF RouterQuietly
  <2>2. (\E pcs : AskGoes(m, pcs)) /\ ask[m] # "done" /\ \A p \in Procs : Stands(p)
    BY <1>0, <1>6, <2>1, EnqueueMessageStep, RouterQuiet
  <2>3. QED BY <1>0, <2>2 DEF Asking, AskGoes, Stands, Procs
<1>7. ASSUME NEW m \in Messages, TrimQueue(m) PROVE Asking'
  BY <1>0, <1>7, TrimQueueStep, Apart DEF Asking, Procs, AskGoes
<1>8. ASSUME NEW m \in Messages, PostNotice(m) PROVE Asking'
  BY <1>0, <1>8, PostNoticeStep, Apart DEF Asking, Procs, AskGoes, Others, RunIs
<1>9. ASSUME NEW m \in Messages, ClearFolded(m) PROVE Asking'
  BY <1>0, <1>9, ClearFoldedStep, Apart DEF Asking, Procs
<1>10. ASSUME NEW m \in Messages, TakeFolded(m) PROVE Asking'
  BY <1>0, <1>10, TakeFoldedStep, Apart DEF Asking, Procs
<1>11. ASSUME NEW m \in Messages, Redact(m) PROVE Asking'
  BY <1>0, <1>11, RedactStep, Apart DEF Asking, Procs
<1>12. ASSUME TakeUpNotice PROVE Asking'
  BY <1>0, <1>12, TakeUpNoticeStep, Apart DEF Asking, Procs, Unused, Others, RunIs
<1>13. ASSUME NEW p \in Procs, Checkpoint(p) PROVE Asking'
  BY <1>0, <1>13, CheckpointStep, AskingBeside
<1>14. ASSUME NEW p \in Procs, ParkForReading(p) PROVE Asking'
  BY <1>0, <1>14, ParkForReadingStep, AskingBeside DEF Procs
<1>15. ASSUME NEW p \in Procs, Fold(p) PROVE Asking'
  <2>1. CASE ask' = ask
    BY <1>0, <1>15, <2>1, FoldStep, AskingBeside
  <2>2. CASE ask' # ask
    <3>1. /\ AskGoes(p, {"claim"}) /\ Others(p) /\ p \in Messages
          /\ run'[p].pc = "none"
      BY <1>0, <1>15, <2>2, FoldStep DEF RunIs
    <3>2. QED BY <1>0, <3>1 DEF Asking, AskGoes, Others, Procs
  <2>3. QED BY <2>1, <2>2
<1>16. ASSUME NEW p \in Procs, DeliverParked(p) PROVE Asking'
  BY <1>0, <1>16, DeliverParkedStep, AskingBeside DEF Procs
<1>17. ASSUME NEW r \in Readings, ClaimQueueOnArrival(r) PROVE Asking'
  BY <1>0, <1>17, ClaimQueueOnArrivalStep, AskingBeside DEF Procs
<1>18. ASSUME NEW r \in Readings, StartReading(r) PROVE Asking'
  BY <1>0, <1>18, StartReadingStep, AskingBeside DEF Procs
<1>19. ASSUME NEW r \in Readings, Look(r) PROVE Asking'
  BY <1>0, <1>19, LookStep, AskingBeside DEF Procs
<1>20. ASSUME NEW r \in Readings, StillRunning(r) PROVE Asking'
  BY <1>0, <1>20, StillRunningStep, AskingBeside DEF Procs
<1>21. ASSUME NEW r \in Readings, RecordFollowUps(r) PROVE Asking'
  BY <1>0, <1>21, RecordFollowUpsStep, AskingBeside DEF Procs
<1>22. ASSUME NEW r \in Readings, ResumeParked(r) PROVE Asking'
  BY <1>0, <1>22, ResumeParkedStep, AskingBeside DEF Procs
<1>23. ASSUME NEW r \in Readings, InvokeResume(r) PROVE Asking'
  <2>1. ASSUME NEW m \in Messages, ask'[m] # "done" PROVE run'[m].pc = "none"
    <3>1. m \in Procs /\ m # r /\ run[m].pc = "none" /\ m # rec.parked
      BY <1>0, <1>23, <2>1, InvokeResumeStep, Apart DEF Asking, Procs
    <3>2. QED BY <1>0, <1>23, <3>1, InvokeResumeStep DEF Others
  <2>2. QED BY <2>1 DEF Asking
<1>24. ASSUME NEW r \in Readings, AbandonResumed(r) PROVE Asking'
  <2>1. ask' = ask /\ \A m \in Messages \ {r} : run'[m] = run[m] \/ run[m].pc # "none"
    BY <1>24, AbandonResumedStep DEF Others, Procs
  <2>2. QED BY <1>0, <2>1, AskingElsewhere DEF Procs
<1>25. ASSUME NEW r \in Readings, ClearQueueRead(r) PROVE Asking'
  BY <1>0, <1>25, ClearQueueReadStep, AskingBeside DEF Procs
<1>26. ASSUME NEW p \in Procs, ReadAtExit(p) PROVE Asking'
  BY <1>0, <1>26, ReadAtExitStep, AskingBeside DEF Procs
<1>27. ASSUME NEW p \in Procs, ReturnFollowUps(p) PROVE Asking'
  BY <1>0, <1>27, ReturnFollowUpsStep, AskingBeside DEF Procs
<1>28. ASSUME NEW p \in Procs, ClaimFollowUp(p) PROVE Asking'
  BY <1>0, <1>28, ClaimFollowUpStep, AskingBeside DEF Procs
<1>29. ASSUME NEW p \in Procs, YieldToReading(p) PROVE Asking'
  BY <1>0, <1>29, YieldToReadingStep, AskingBeside DEF Procs
<1>30. ASSUME NEW p \in Procs, FetchFollowUp(p) PROVE Asking'
  BY <1>0, <1>30, FetchFollowUpStep, AskingBeside DEF Procs
<1>31. ASSUME NEW p \in Procs, ClearEmptied(p) PROVE Asking'
  BY <1>0, <1>31, ClearEmptiedStep, AskingBeside DEF Procs
<1>32. ASSUME NEW p \in Procs, HandOverToFollowUp(p) PROVE Asking'
  BY <1>0, <1>32, HandOverToFollowUpStep, AskingBeside DEF Procs
<1>33. ASSUME NEW p \in Procs, DispatchFollowUp(p) PROVE Asking'
  <2>1. ASSUME NEW m \in Messages, ask'[m] # "done" PROVE run'[m].pc = "none"
    <3>1. m \in Procs /\ m # p /\ run[m].pc = "none" /\ m # run[p].other
      BY <1>0, <1>33, <2>1, DispatchFollowUpStep, Apart DEF Asking, Procs
    <3>2. QED BY <1>0, <1>33, <3>1, DispatchFollowUpStep DEF Others
  <2>2. QED BY <2>1 DEF Asking
<1>34. ASSUME NEW p \in Procs, FreeFollowUp(p) PROVE Asking'
  <2>1. ask' = ask /\ run[p].pc = "free" /\ run[p].other \notin Messages
    BY <1>0, <1>34, FreeFollowUpStep, Apart DEF Procs
  <2>2. \A m \in Messages \ {p} : run'[m] = run[m]
    BY <1>0, <1>34, <2>1, FreeFollowUpStep DEF Others, Procs
  <2>3. QED BY <1>0, <2>1, <2>2, AskingElsewhere
<1>35. ASSUME NEW p \in Procs, GiveUpClaim(p) PROVE Asking'
  <2>1. ask' = ask /\ run[p].pc = "giveup"
    BY <1>0, <1>35, GiveUpClaimStep
  <2>2. \A m \in Messages \ {p} : run'[m] = run[m]
    BY <1>0, <1>35, GiveUpClaimStep, Apart DEF Others, Procs
  <2>3. QED BY <1>0, <2>1, <2>2, AskingElsewhere
<1>36. ASSUME NEW p \in Procs, ReleaseAtExit(p) PROVE Asking'
  BY <1>0, <1>36, ReleaseAtExitStep, AskingBeside DEF Procs
<1>37. ASSUME NEW p \in Procs, Die(p) PROVE Asking'
  <2>1. ASSUME NEW m \in Messages, ask'[m] # "done" PROVE run'[m].pc = "none"
    <3>1. m \in Procs /\ m \notin ClaimedFor(p) /\ ask[m] # "done"
      BY <1>0, <1>37, <2>1, DieStep, Apart DEF Procs, ClaimedFor
    <3>2. m # p
      BY <1>0, <1>37, <3>1, DieStep DEF Asking, Active
    <3>3. QED BY <1>0, <1>37, <3>1, <3>2, DieStep DEF Asking
  <2>2. QED BY <2>1 DEF Asking
<1>38. ASSUME NEW m \in Messages, ClaimTurnFor(m) \/ RouterStep(m) \/ Redact(m) PROVE Asking'
  BY <1>38, <1>2, <1>3, <1>4, <1>5, <1>6, <1>7, <1>8, <1>9, <1>10, <1>11
     DEF RouterStep
<1>39. ASSUME NEW r \in Readings, ReadingStep(r) PROVE Asking'
  BY <1>39, <1>17, <1>18, <1>19, <1>20, <1>21, <1>22, <1>23, <1>24, <1>25
     DEF ReadingStep
<1>40. ASSUME NEW p \in Procs, AnswerStep(p) \/ ExitStep(p) PROVE Asking'
  BY <1>40, <1>13, <1>14, <1>15, <1>16, <1>26, <1>27, <1>28, <1>29, <1>30, <1>31, <1>32, <1>33,
     <1>34, <1>35, <1>36
     DEF AnswerStep, ExitStep
<1>41. QED BY <1>1, <1>12, <1>37, <1>38, <1>39, <1>40 DEF Next

(* The points of a run that concern the parked answer.                      *)
ParkingPcs == {"parked", "resumed", "invoke", "abandon"}

\* A run that is at none of them changes nothing about the parked answer.
LEMMA ParkingElsewhere ==
  ASSUME Parking, rec'.parked = rec.parked, rec'.resumedBy = rec.resumedBy,
         \A q \in Procs : \/ run'[q] = run[q]
                          \/ /\ run[q].pc \notin ParkingPcs \cup {"dead"}
                             /\ run'[q].pc \notin ParkingPcs
  PROVE  Parking'
<1>1. ASSUME NEW m \in Messages
      PROVE  /\ run'[m].pc \in {"parked", "resumed"} => rec'.parked = m
             /\ run'[m].pc = "resumed" => rec'.resumedBy # NoOne
             /\ rec'.parked = m => \/ run'[m].pc = "parked"
                                   \/ rec'.resumedBy # NoOne /\ run'[m].pc \in {"resumed", "dead"}
  BY DEF Parking, Procs, ParkingPcs
<1>2. ASSUME NEW r \in Readings, run'[r].pc \in {"invoke", "abandon"}
      PROVE  rec'.resumedBy = r /\ rec'.parked \in Messages /\ run'[rec'.parked].pc = "parked"
  BY <1>2 DEF Parking, Procs, ParkingPcs
<1>3. QED BY <1>1, <1>2 DEF Parking

\* The answer in the record is parked, or being delivered by the one run invoked for it.
LEMMA ParkingKept ==
  ASSUME IInv, [Next]_vars
  PROVE  Parking'
<1>0. TypeOK /\ Parking /\ Shaped /\ Asking /\ Following
  BY DEF IInv
<1>1. CASE UNCHANGED vars
  BY <1>0, <1>1 DEF Parking, vars
<1>2. ASSUME NEW m \in Messages, RouterQuietly(m) PROVE Parking'
  BY <1>0, <1>2, RouterQuiet, Apart DEF Parking, Procs, Stands
<1>3. ASSUME NEW m \in Messages, Dispatch(m) PROVE Parking'
  BY <1>0, <1>3, DispatchStep, ParkingElsewhere
     DEF ParkingPcs, Procs, Asking, Others, Moved, RunIs
<1>4. ASSUME NEW m \in Messages, UndoClaim(m) PROVE Parking'
  <2>1. /\ m \in Procs /\ run[m].pc = "none" /\ Others(m) /\ run'[m].pc \in {"over", "dead"}
        /\ rec'.parked = rec.parked /\ rec'.resumedBy = rec.resumedBy
    BY <1>0, <1>4, UndoClaimStep DEF Procs, Asking, IsOver, Moved, HolderIs, RunIs, RecIs
  <2>2. QED BY <1>0, <2>1, ParkingElsewhere DEF ParkingPcs, Others
<1>5. ASSUME TakeUpNotice PROVE Parking'
  <2>1. CASE run' = run
    BY <1>0, <1>5, <2>1, TakeUpNoticeStep DEF Parking
  <2>2. CASE run' # run
    <3>1. PICK r \in Readings : /\ run[r].pc \in {"none", "over"} /\ Others(r)
                                /\ run'[r].pc = "claim"
      BY <1>0, <1>5, <2>2, TakeUpNoticeStep DEF Unused, RunIs
    <3>2. QED BY <1>0, <1>5, <3>1, TakeUpNoticeStep, ParkingElsewhere DEF ParkingPcs, Procs, Others
  <2>3. QED BY <2>1, <2>2
<1>6. ASSUME NEW p \in Procs, Checkpoint(p) PROVE Parking'
  BY <1>0, <1>6, CheckpointStep, ParkingElsewhere DEF ParkingPcs, Procs, Others, RunIs, Delivered
<1>7. ASSUME NEW p \in Procs, ParkForReading(p) PROVE Parking'
  <2>1. CASE rec' = rec
    <3>1. /\ p \in Procs /\ p # NoOne /\ run[p].pc = "park" /\ Others(p)
          /\ rec'.parked = rec.parked /\ rec'.resumedBy = rec.resumedBy
      BY <1>0, <1>7, <2>1, ParkForReadingStep, Apart DEF Procs
    <3>2. run'[p].pc \in {"exit", "fold"}
      BY <1>0, <1>7, <2>1, <3>1, ParkForReadingStep DEF Moved, RunIs, Delivered, ParkOk, RecIs
    <3>3. QED BY <1>0, <3>1, <3>2, ParkingElsewhere DEF ParkingPcs, Others
  <2>2. CASE rec' # rec
    <3>1. /\ p \in Messages /\ rec.parked = NoOne /\ rec'.parked = p
          /\ rec'.resumedBy = rec.resumedBy /\ run'[p].pc = "parked" /\ Others(p)
      BY <1>0, <1>7, <2>2, ParkForReadingStep DEF ParkOk, RecIs, RunIs
    <3>2. rec'.resumedBy = NoOne
      BY <1>0, <3>1 DEF Parking
    <3>3. \A m \in Messages : m # p => run'[m].pc \notin {"parked", "resumed"}
      BY <1>0, <3>1, Apart DEF Parking, Procs, Others
    <3>4. \A r \in Readings : run'[r].pc \notin {"invoke", "abandon"}
      BY <1>0, <3>1, Apart DEF Parking, Procs, Others
    <3>5. QED BY <3>1, <3>2, <3>3, <3>4, Apart DEF Parking
  <2>3. QED BY <2>1, <2>2
<1>8. ASSUME NEW p \in Procs, Fold(p) PROVE Parking'
  BY <1>0, <1>8, FoldStep, ParkingElsewhere DEF ParkingPcs, Procs, Others, RunIs, Delivered
<1>9. ASSUME NEW p \in Procs, DeliverParked(p) PROVE Parking'
  <2>1. /\ p \in Messages /\ run[p].pc = "resumed" /\ rec.parked = p /\ Others(p)
        /\ rec.resumedBy # NoOne
        /\ \/ rec'.parked = NoOne /\ rec'.resumedBy = NoOne /\ run'[p].pc = "go"
           \/ rec' = rec /\ run'[p].pc = "dead"
    BY <1>0, <1>9, DeliverParkedStep DEF Parking, RecIs, Moved, RunIs
  <2>2. \A m \in Messages : run'[m].pc \notin {"parked", "resumed"}
    BY <1>0, <2>1 DEF Parking, Procs, Others
  <2>3. \A r \in Readings : run'[r].pc \notin {"invoke", "abandon"}
    BY <1>0, <2>1, Apart DEF Parking, Procs, Others
  <2>4. QED BY <2>1, <2>2, <2>3, Apart DEF Parking
<1>10. ASSUME NEW r \in Readings, ClaimQueueOnArrival(r) PROVE Parking'
  BY <1>0, <1>10, ClaimQueueOnArrivalStep, ParkingElsewhere
     DEF ParkingPcs, Procs, Others, Moved, IsOver, ClaimIs, RunIs, RecIs
<1>11. ASSUME NEW r \in Readings, StartReading(r) PROVE Parking'
  BY <1>0, <1>11, StartReadingStep, ParkingElsewhere DEF ParkingPcs, Procs, Others, Moved, RunIs
<1>12. ASSUME NEW r \in Readings, Look(r) PROVE Parking'
  BY <1>0, <1>12, LookStep, ParkingElsewhere
     DEF ParkingPcs, Procs, Others, RunIs, ReadsOnce, FollowsThrough
<1>13. ASSUME NEW r \in Readings, StillRunning(r) PROVE Parking'
  BY <1>0, <1>13, StillRunningStep, ParkingElsewhere
     DEF ParkingPcs, Procs, Others, Moved, RunIs, ReadsOnce
<1>14. ASSUME NEW r \in Readings, RecordFollowUps(r) PROVE Parking'
  BY <1>0, <1>14, RecordFollowUpsStep, ParkingElsewhere
     DEF ParkingPcs, Procs, Others, ReadsOnce, FollowsThrough, RecIs, RunIs
<1>15. ASSUME NEW r \in Readings, ResumeParked(r) PROVE Parking'
  <2>1. CASE rec' = rec
    BY <1>0, <1>15, <2>1, ResumeParkedStep, ParkingElsewhere, AfterResumes, Apart
       DEF ParkingPcs, Procs, Others, Moved, RunIs, BeginResumeOk, RecIs
  <2>2. CASE rec' # rec
    <3>1. PICK t \in Messages :
            /\ rec.parked = t /\ rec'.parked = t /\ rec.resumedBy = NoOne /\ rec'.resumedBy = r
            /\ run'[r].pc = "invoke" /\ Others(r)
      BY <1>0, <1>15, <2>2, ResumeParkedStep DEF BeginResumeOk, RecIs, Moved, RunIs
    <3>2. run[t].pc = "parked" /\ t \in Procs /\ t # r /\ r # NoOne
      BY <1>0, <3>1, Apart DEF Parking, Procs
    <3>3. run'[t].pc = "parked"
      BY <3>1, <3>2 DEF Others
    <3>4. \A m \in Messages : m # t => run'[m].pc \notin {"parked", "resumed"}
      BY <1>0, <3>1, Apart DEF Parking, Procs, Others
    <3>5. \A q \in Readings : q # r => run'[q].pc \notin {"invoke", "abandon"}
      BY <1>0, <3>1, Apart DEF Parking, Procs, Others
    <3>6. QED BY <3>1, <3>2, <3>3, <3>4, <3>5, Apart DEF Parking
  <2>3. QED BY <2>1, <2>2
<1>16. ASSUME NEW r \in Readings, InvokeResume(r) PROVE Parking'
  <2>1. PICK t \in Messages : /\ rec.parked = t /\ run[t].pc = "parked" /\ rec.resumedBy = r
                             /\ t \in Procs /\ t # r /\ r # NoOne /\ t # NoOne /\ r \in Procs
    BY <1>0, <1>16, InvokeResumeStep, Apart DEF Procs
  <2>2. rec' = rec /\ run[r].pc = "invoke"
    BY <1>0, <1>16, InvokeResumeStep
  <2>3. /\ \A m \in Messages : m # t => run[m].pc \notin {"parked", "resumed"}
        /\ \A q \in Readings : q # r => run[q].pc \notin {"invoke", "abandon"}
    BY <1>0, <2>1 DEF Parking
  <2>4. CASE Others(r) /\ run'[r].pc = "abandon"
    <3>1. /\ \A m \in Messages : m # t => run'[m].pc \notin {"parked", "resumed"}
          /\ \A q \in Readings : q # r => run'[q].pc \notin {"invoke", "abandon"}
          /\ run'[t].pc = "parked"
      BY <2>1, <2>3, <2>4, Apart DEF Others, Procs
    <3>2. QED BY <2>1, <2>2, <3>1 DEF Parking
  <2>5. CASE /\ run'[r].pc \in {"exit", "clear"} /\ run'[t].pc = "resumed"
             /\ \A q \in Procs \ {r, t} : run'[q] = run[q]
    <3>1. /\ \A m \in Messages : m # t => run'[m].pc \notin {"parked", "resumed"}
          /\ \A q \in Readings : run'[q].pc \notin {"invoke", "abandon"}
      BY <2>1, <2>3, <2>5, Apart DEF Procs
    <3>2. QED BY <2>1, <2>2, <2>5, <3>1 DEF Parking
  <2>6. QED BY <1>0, <1>16, <2>1, <2>4, <2>5, InvokeResumeStep, AfterResumes DEF Moved, RunIs
<1>17. ASSUME NEW r \in Readings, AbandonResumed(r) PROVE Parking'
  <2>1. PICK t \in Messages : /\ rec.parked = t /\ run[t].pc = "parked" /\ rec.resumedBy = r
                             /\ t \in Procs /\ t # r /\ r # NoOne /\ t # NoOne /\ r \in Procs
    BY <1>0, <1>17, AbandonResumedStep, Apart DEF Procs
  <2>2. /\ rec'.parked = t /\ run'[r].pc \in {"exit", "clear"}
        /\ \A q \in Procs \ {r, t} : run'[q] = run[q]
        /\ \/ rec'.resumedBy \in {r, NoOne} /\ run'[t].pc = "parked"
           \/ rec'.resumedBy = r /\ run'[t].pc = "dead"
    <3>1. run'[r].pc \in {"exit", "clear"}
      BY <1>17, AbandonResumedStep, AfterResumes DEF Moved, RunIs
    <3>2. CASE Others(r) /\ rec'.parked = t /\ rec'.resumedBy \in {r, NoOne}
      BY <2>1, <3>1, <3>2 DEF Others
    <3>3. CASE /\ rec' = rec /\ Moved(t, "dead") /\ \A q \in Procs \ {r, t} : run'[q] = run[q]
      BY <2>1, <3>1, <3>3 DEF Moved, RunIs
    <3>4. QED BY <1>0, <1>17, <2>1, <3>2, <3>3, AbandonResumedStep DEF RecIs
  <2>3. /\ \A m \in Messages : m # t => run[m].pc \notin {"parked", "resumed"}
        /\ \A q \in Readings : q # r => run[q].pc \notin {"invoke", "abandon"}
    BY <1>0, <2>1 DEF Parking
  <2>4. /\ \A m \in Messages : m # t => run'[m].pc \notin {"parked", "resumed"}
        /\ \A q \in Readings : run'[q].pc \notin {"invoke", "abandon"}
    BY <2>1, <2>2, <2>3, Apart DEF Procs
  <2>5. QED BY <2>1, <2>2, <2>4 DEF Parking
<1>18. ASSUME NEW r \in Readings, ClearQueueRead(r) PROVE Parking'
  BY <1>0, <1>18, ClearQueueReadStep, ParkingElsewhere DEF ParkingPcs, Procs, Others, RunIs, RecIs
<1>19. ASSUME NEW p \in Procs, ReadAtExit(p) PROVE Parking'
  BY <1>0, <1>19, ReadAtExitStep, ParkingElsewhere DEF ParkingPcs, Procs, Others, Moved, RunIs
<1>20. ASSUME NEW p \in Procs, ReturnFollowUps(p) PROVE Parking'
  BY <1>0, <1>20, ReturnFollowUpsStep, ParkingElsewhere DEF ParkingPcs, Procs, Others, RunIs, RecIs
<1>21. ASSUME NEW p \in Procs, ClaimFollowUp(p) PROVE Parking'
  BY <1>0, <1>21, ClaimFollowUpStep, ParkingElsewhere
     DEF ParkingPcs, Procs, Others, Moved, RunIs, ClaimIs, RecIs
<1>22. ASSUME NEW p \in Procs, YieldToReading(p) PROVE Parking'
  BY <1>0, <1>22, YieldToReadingStep, ParkingElsewhere
     DEF ParkingPcs, Procs, Others, Moved, IsOver, HolderIs, RunIs, RecIs
<1>23. ASSUME NEW p \in Procs, FetchFollowUp(p) PROVE Parking'
  BY <1>0, <1>23, FetchFollowUpStep, ParkingElsewhere DEF ParkingPcs, Procs, Others, Moved, RunIs
<1>24. ASSUME NEW p \in Procs, ClearEmptied(p) PROVE Parking'
  BY <1>0, <1>24, ClearEmptiedStep, ParkingElsewhere
     DEF ParkingPcs, Procs, Others, Moved, RecIs, RunIs
<1>25. ASSUME NEW p \in Procs, HandOverToFollowUp(p) PROVE Parking'
  BY <1>0, <1>25, HandOverToFollowUpStep, ParkingElsewhere
     DEF ParkingPcs, Procs, Others, RunIs, HolderIs, RecIs
<1>26. ASSUME NEW p \in Procs, DispatchFollowUp(p) PROVE Parking'
  <2>1. PICK c \in Readings : /\ c = run[p].other /\ c # p /\ c \in Procs
                             /\ run[c].pc \in {"none", "over"}
    <3>1. Following /\ Follows(p)
      BY <1>0, <1>26, DispatchFollowUpStep DEF IInv, Follows
    <3>2. QED BY <1>0, <1>26, <3>1, DispatchFollowUpStep DEF Following, Procs
  <2>2. rec' = rec /\ run[p].pc = "send"
    BY <1>0, <1>26, DispatchFollowUpStep
  <2>3. /\ run'[p].pc \in {"over", "free"} /\ run'[c].pc \in {"none", "over", "go"}
        /\ \A q \in Procs \ {p, c} : run'[q] = run[q]
    <3>1. CASE Others(p) /\ Moved(p, "free")
      BY <2>1, <3>1 DEF Others, Moved, RunIs
    <3>2. CASE /\ IsOver(p) /\ \A q \in Procs \ {p, c} : run'[q] = run[q]
               /\ \E n : RunIs(run'[c], "go", n, run[p].seen, {}, {}, NoOne, FALSE, FALSE, FALSE)
      BY <2>1, <3>2 DEF IsOver, RunIs
    <3>3. QED BY <1>0, <1>26, <2>1, <3>1, <3>2, DispatchFollowUpStep
  <2>4. \A q \in Procs : \/ run'[q] = run[q]
                        \/ /\ run[q].pc \notin ParkingPcs \cup {"dead"}
                           /\ run'[q].pc \notin ParkingPcs
    BY <2>1, <2>2, <2>3 DEF ParkingPcs
  <2>5. QED BY <1>0, <2>2, <2>4, ParkingElsewhere
<1>27. ASSUME NEW p \in Procs, FreeFollowUp(p) PROVE Parking'
  <2>1. PICK c \in Procs : c = run[p].other /\ c # p /\ run[c].pc \in {"none", "over"}
    BY <1>0, <1>27, FreeFollowUpStep DEF Procs
  <2>2. /\ run[p].pc = "free" /\ Moved(p, "giveup")
        /\ rec'.parked = rec.parked /\ rec'.resumedBy = rec.resumedBy
        /\ Others(p) \/ (Moved(c, "dead") /\ \A q \in Procs \ {p, c} : run'[q] = run[q])
    BY <1>0, <1>27, <2>1, FreeFollowUpStep DEF HolderIs, RecIs
  <2>3. QED BY <1>0, <2>1, <2>2, ParkingElsewhere DEF ParkingPcs, Others, Moved, RunIs
<1>28. ASSUME NEW p \in Procs, GiveUpClaim(p) PROVE Parking'
  <2>1. run[p].pc = "giveup" /\ rec'.parked = rec.parked /\ rec'.resumedBy = rec.resumedBy
    BY <1>0, <1>28, GiveUpClaimStep DEF ClaimIs, RecIs
  <2>2. CASE Others(p) /\ (IsOver(p) \/ GoesOn(p) \/ Moved(p, "dead"))
    BY <1>0, <2>1, <2>2, ParkingElsewhere
       DEF ParkingPcs, Procs, Others, IsOver, GoesOn, Moved, RunIs
  <2>3. CASE /\ run[p].other \in Readings /\ GoesOn(p) /\ Moved(run[p].other, "dead")
             /\ run[run[p].other].pc \in {"none", "over"}
             /\ \A q \in Procs \ {p, run[p].other} : run'[q] = run[q]
    <3>1. PICK c \in Procs : c = run[p].other
      BY <2>3 DEF Procs
    <3>2. /\ run'[p].pc = "release" /\ run'[c].pc = "dead" /\ run[c].pc \in {"none", "over"}
          /\ \A q \in Procs \ {p, c} : run'[q] = run[q]
      BY <2>3, <3>1 DEF GoesOn, Moved, RunIs
    <3>3. QED BY <1>0, <2>1, <3>2, ParkingElsewhere DEF ParkingPcs
  <2>4. QED BY <1>0, <1>28, <2>2, <2>3, GiveUpClaimStep
<1>29. ASSUME NEW p \in Procs, ReleaseAtExit(p) PROVE Parking'
  BY <1>0, <1>29, ReleaseAtExitStep, ParkingElsewhere
     DEF ParkingPcs, Procs, Others, Moved, IsOver, HolderIs, RunIs, RecIs
<1>30. ASSUME NEW p \in Procs, Die(p) PROVE Parking'
  <2>1. rec' = rec /\ Active(p)
    BY <1>0, <1>30, DieStep
  <2>2. ASSUME NEW m \in Messages
        PROVE  run'[m].pc = run[m].pc \/ (m = p /\ run'[m].pc = "dead")
    <3>1. m \in Procs /\ m \notin ClaimedFor(p)
      BY Apart DEF ClaimedFor, Procs
    <3>2. IF m = p THEN Moved(m, "dead") ELSE run'[m] = run[m]
      BY <1>0, <1>30, <3>1, DieStep
    <3>3. QED BY <3>2 DEF Moved, RunIs
  <2>3. ASSUME NEW r \in Readings
        PROVE  run'[r].pc = run[r].pc \/ run'[r].pc = "dead"
    BY <1>0, <1>30, DieStep DEF Procs, Moved, RunIs
  <2>4. run[p].pc \notin {"parked", "dead"}
    BY <2>1 DEF Active
  <2>5. /\ rec.resumedBy # NoOne => rec.parked # NoOne
        /\ \A m \in Messages :
             /\ run'[m].pc \in {"parked", "resumed"} => rec.parked = m
             /\ run'[m].pc = "resumed" => rec.resumedBy # NoOne
             /\ rec.parked = m => \/ run'[m].pc = "parked"
                                  \/ rec.resumedBy # NoOne /\ run'[m].pc \in {"resumed", "dead"}
    BY <1>0, <2>2, <2>4 DEF Parking
  <2>6. \A r \in Readings : run'[r].pc \in {"invoke", "abandon"} =>
          rec.resumedBy = r /\ rec.parked \in Messages /\ run'[rec.parked].pc = "parked"
    BY <1>0, <2>2, <2>3, <2>4 DEF Parking
  <2>7. QED BY <2>1, <2>5, <2>6 DEF Parking
<1>31. ASSUME NEW m \in Messages, ClaimTurnFor(m) \/ RouterStep(m) \/ Redact(m) PROVE Parking'
  BY <1>31, <1>3, <1>4, <1>2
     DEF RouterStep, RouterQuietly
<1>32. ASSUME NEW r \in Readings, ReadingStep(r) PROVE Parking'
  BY <1>32, <1>10, <1>11, <1>12, <1>13, <1>14, <1>15, <1>16, <1>17, <1>18
     DEF ReadingStep
<1>33. ASSUME NEW p \in Procs, AnswerStep(p) \/ ExitStep(p) PROVE Parking'
  BY <1>33, <1>6, <1>7, <1>8, <1>9, <1>19, <1>20, <1>21, <1>22, <1>23, <1>24, <1>25, <1>26, <1>27,
     <1>28, <1>29
     DEF AnswerStep, ExitStep
<1>34. QED BY <1>1, <1>5, <1>30, <1>31, <1>32, <1>33 DEF Next

\* A claim that nobody has, or under which nothing runs, is not a follow-up's.
LEMMA NobodyFollows ==
  ASSUME Following, NEW c \in Readings, Unused(c) \/ run[c].pc \notin {"none", "over"},
         rec.triagedBy \in {NoOne, c} \/ ~Live(rec.triagedBy)
  PROVE  \A q \in Procs : Follows(q) => run[q].pc = "giveup"
<1> SUFFICES ASSUME NEW q \in Procs, Follows(q), run[q].pc # "giveup" PROVE FALSE
  OBVIOUS
<1>1. /\ run[q].other \in Readings /\ run[run[q].other].pc \in {"none", "over"}
      /\ rec.triagedBy = run[q].other
  BY DEF Following
<1>2. rec.triagedBy \notin {NoOne, c}
  BY <1>1, Apart DEF Unused
<1>3. Active(q) /\ rec.triagedBy \in ClaimedFor(q)
  BY <1>1 DEF Active, ClaimedFor, Follows
<1>4. Live(rec.triagedBy)
  BY <1>3 DEF Live, ActsFor
<1>5. QED BY <1>2, <1>4

\* Where one run goes on, not to begin or to follow, whoever follows does so undisturbed.
LEMMA FollowingElsewhere ==
  ASSUME Following, NEW p \in Procs, Others(p), run[p].pc # "dead",
         p \in Readings /\ run[p].pc \in {"none", "over"} =>
            Unused(p) \/ run'[p].pc \in {"none", "over"},
         Follows(p)' => Follows(p) /\ run'[p].other = run[p].other /\ run[p].pc # "giveup",
         \/ rec'.triagedBy = rec.triagedBy
         \/ /\ Follows(p)' => run'[p].pc = "giveup"
            /\ \A q \in Procs \ {p} : Follows(q) => run[q].pc = "giveup"
  PROVE  Following'
<1>1. ASSUME NEW q \in Procs, Follows(q)'
      PROVE  /\ Follows(q) /\ run'[q].other = run[q].other
             /\ run[q].pc = "giveup" => q # p /\ run'[q] = run[q]
  BY <1>1 DEF Others, Follows
<1>2. ASSUME NEW q \in Procs, Follows(q)'
      PROVE  /\ run'[q].other \in Readings
             /\ \/ run'[run'[q].other].pc \in {"none", "over"}
                \/ /\ run'[q].handed /\ run'[q].pc = "giveup"
                   /\ run'[run'[q].other].pc = "dead"
             /\ \A o \in Procs : Follows(o)' /\ run'[o].other = run'[q].other => o = q
             /\ run'[q].pc # "giveup" => rec'.triagedBy = run'[q].other
  <2>1. PICK c \in Readings :
          /\ c = run[q].other /\ c = run'[q].other /\ c \in Procs
          /\ \/ run[c].pc \in {"none", "over"}
             \/ run[q].handed /\ run[q].pc = "giveup" /\ run[c].pc = "dead"
    BY <1>1, <1>2 DEF Following, Procs
  <2>2. \/ run'[c].pc \in {"none", "over"}
        \/ run'[q].handed /\ run'[q].pc = "giveup" /\ run'[c].pc = "dead"
    <3>1. CASE run[c].pc \in {"none", "over"}
      BY <2>1, <3>1 DEF Others, Unused
    <3>2. CASE run[q].handed /\ run[q].pc = "giveup" /\ run[c].pc = "dead"
      <4>1. run'[q] = run[q] /\ run'[c] = run[c]
        BY <1>1, <1>2, <2>1, <3>2 DEF Others
      <4>2. QED BY <3>2, <4>1
    <3>3. QED BY <2>1, <3>1, <3>2
  <2>3. \A o \in Procs : Follows(o)' /\ run'[o].other = run'[q].other => o = q
    BY <1>1, <1>2 DEF Following
  <2>4. ASSUME run'[q].pc # "giveup" PROVE rec'.triagedBy = run'[q].other
    <3>1. rec.triagedBy = run[q].other /\ run[q].pc # "giveup"
      BY <1>1, <1>2, <2>4 DEF Following
    <3>2. rec'.triagedBy = rec.triagedBy
      BY <1>1, <1>2, <2>4, <3>1
    <3>3. QED BY <2>1, <3>1, <3>2
  <2>5. QED BY <2>1, <2>2, <2>3, <2>4
<1>3. QED BY <1>2 DEF Following

\* A follow-up waits, for one run to start it, which has the claim on the queue for it.
LEMMA FollowingKept ==
  ASSUME IInv, [Next]_vars
  PROVE  Following'
<1>0. TypeOK /\ Following /\ Shaped /\ Asking
  BY DEF IInv
<1>1. CASE UNCHANGED vars
  BY <1>0, <1>1 DEF Following, Follows, vars
<1>2. ASSUME NEW m \in Messages, RouterQuietly(m) PROVE Following'
  BY <1>0, <1>2, RouterQuiet DEF Following, Follows, Procs, Stands
<1>3. ASSUME NEW m \in Messages, Dispatch(m) PROVE Following'
  <2>1. /\ m \in Procs /\ m \notin Readings /\ run[m].pc = "none" /\ Others(m)
        /\ run'[m].pc \in {"none", "go"} /\ rec'.triagedBy = rec.triagedBy
    BY <1>0, <1>3, DispatchStep, Apart DEF Procs, Asking, Others, Moved, RunIs
  <2>2. QED BY <1>0, <2>1, FollowingElsewhere DEF Follows
<1>4. ASSUME NEW m \in Messages, UndoClaim(m) PROVE Following'
  <2>1. /\ m \in Procs /\ m \notin Readings /\ run[m].pc = "none" /\ Others(m)
        /\ run'[m].pc \in {"over", "dead"} /\ rec'.triagedBy = rec.triagedBy
    BY <1>0, <1>4, UndoClaimStep, Apart DEF Procs, Asking, IsOver, Moved, HolderIs, RunIs, RecIs
  <2>2. QED BY <1>0, <2>1, FollowingElsewhere DEF Follows
<1>5. ASSUME TakeUpNotice PROVE Following'
  <2>1. CASE run' = run
    BY <1>0, <1>5, <2>1, TakeUpNoticeStep DEF Following, Follows
  <2>2. CASE run' # run
    <3>1. PICK r \in Readings : Unused(r) /\ Others(r) /\ run'[r].pc = "claim"
      BY <1>0, <1>5, <2>2, TakeUpNoticeStep DEF RunIs
    <3>2. run[r].pc \in {"none", "over"} /\ r \in Procs /\ rec' = rec
      BY <1>0, <1>5, <3>1, TakeUpNoticeStep DEF Unused, Procs
    <3>3. QED BY <1>0, <3>1, <3>2, FollowingElsewhere DEF Follows
  <2>3. QED BY <2>1, <2>2
<1>6. ASSUME NEW p \in Procs, Checkpoint(p) PROVE Following'
  BY <1>0, <1>6, CheckpointStep, FollowingElsewhere DEF Follows, Procs, Others, RunIs, Delivered
<1>7. ASSUME NEW p \in Procs, ParkForReading(p) PROVE Following'
  BY <1>0, <1>7, ParkForReadingStep, FollowingElsewhere
     DEF Follows, Procs, Others, Moved, RunIs, Delivered, RecIs
<1>8. ASSUME NEW p \in Procs, Fold(p) PROVE Following'
  BY <1>0, <1>8, FoldStep, FollowingElsewhere DEF Follows, Procs, Others, RunIs, Delivered
<1>9. ASSUME NEW p \in Procs, DeliverParked(p) PROVE Following'
  BY <1>0, <1>9, DeliverParkedStep, FollowingElsewhere
     DEF Follows, Procs, Others, Moved, RecIs, RunIs
<1>10. ASSUME NEW r \in Readings, ClaimQueueOnArrival(r) PROVE Following'
  <2>1. r \in Procs /\ run[r].pc = "claim" /\ Others(r) /\ run'[r].pc \in {"fetch", "over"}
    BY <1>0, <1>10, ClaimQueueOnArrivalStep DEF Moved, IsOver, RunIs, Procs
  <2>2. \/ rec'.triagedBy = rec.triagedBy
        \/ rec.triagedBy \in {NoOne, r} \/ ~Live(rec.triagedBy)
    BY <1>0, <1>10, ClaimQueueOnArrivalStep
  <2>3. \/ rec'.triagedBy = rec.triagedBy
        \/ \A q \in Procs : Follows(q) => run[q].pc = "giveup"
    BY <1>0, <2>1, <2>2, NobodyFollows
  <2>4. QED BY <1>0, <2>1, <2>3, FollowingElsewhere DEF Follows
<1>11. ASSUME NEW r \in Readings, StartReading(r) PROVE Following'
  <2>1. run[r].other = NoOne
    BY <1>0, <1>11, StartReadingStep DEF Shaped, RunShaped, Procs
  <2>2. QED
    BY <1>0, <1>11, <2>1, StartReadingStep, FollowingElsewhere DEF Follows, Procs, Moved, RunIs
<1>12. ASSUME NEW r \in Readings, Look(r) PROVE Following'
  BY <1>0, <1>12, LookStep, FollowingElsewhere
     DEF Follows, Procs, Others, RunIs, ReadsOnce, FollowsThrough
<1>13. ASSUME NEW r \in Readings, StillRunning(r) PROVE Following'
  BY <1>0, <1>13, StillRunningStep, FollowingElsewhere
     DEF Follows, Procs, Others, Moved, RunIs, ReadsOnce
<1>14. ASSUME NEW r \in Readings, RecordFollowUps(r) PROVE Following'
  BY <1>0, <1>14, RecordFollowUpsStep, FollowingElsewhere
     DEF Follows, Procs, Others, ReadsOnce, FollowsThrough, RecIs, RunIs
<1>15. ASSUME NEW r \in Readings, ResumeParked(r) PROVE Following'
  BY <1>0, <1>15, ResumeParkedStep, FollowingElsewhere, AfterResumes
     DEF Follows, Procs, Others, Moved, RecIs, RunIs
<1>16. ASSUME NEW r \in Readings, InvokeResume(r) PROVE Following'
  <2>1. PICK t \in Messages : /\ rec.parked = t /\ run[t].pc = "parked" /\ t \in Procs /\ t # r
                             /\ r \in Procs /\ run[r].pc = "invoke" /\ rec' = rec
    BY <1>0, <1>16, InvokeResumeStep, Apart DEF Procs
  <2>2. CASE Others(r) /\ Moved(r, "abandon")
    BY <1>0, <2>1, <2>2, FollowingElsewhere DEF Follows, Moved, RunIs
  <2>3. CASE /\ run'[r].pc \in {"exit", "clear"} /\ run'[t].pc = "resumed"
             /\ \A q \in Procs \ {r, t} : run'[q] = run[q]
    <3>1. \A q \in Procs : Follows(q)' => Follows(q) /\ run'[q] = run[q] /\ q \notin {r, t}
      BY <2>1, <2>3 DEF Follows
    <3>2. \A c \in Readings : run[c].pc \in {"none", "over", "dead"} => run'[c] = run[c]
      BY <2>1, <2>3, Apart DEF Procs
    <3>3. QED BY <1>0, <2>1, <3>1, <3>2 DEF Following
  <2>4. QED BY <1>0, <1>16, <2>1, <2>2, <2>3, InvokeResumeStep, AfterResumes DEF Moved, RunIs
<1>17. ASSUME NEW r \in Readings, AbandonResumed(r) PROVE Following'
  <2>1. PICK t \in Messages :
          /\ rec.parked = t /\ run[t].pc = "parked" /\ r \in Procs /\ t \in Procs /\ t # r
          /\ run[r].pc = "abandon" /\ rec'.triagedBy = rec.triagedBy
          /\ run'[r].pc \in {"exit", "clear"}
    BY <1>17, AbandonResumedStep, AfterResumes, Apart DEF Procs, Moved, RecIs, RunIs
  <2>2. CASE Others(r)
    BY <1>0, <2>1, <2>2, FollowingElsewhere DEF Follows
  <2>3. CASE Moved(t, "dead") /\ \A q \in Procs \ {r, t} : run'[q] = run[q]
    <3>1. \A q \in Procs : Follows(q)' => Follows(q) /\ run'[q] = run[q] /\ q \notin {r, t}
      BY <2>1, <2>3 DEF Follows, Moved, RunIs
    <3>2. \A c \in Readings : run[c].pc \in {"none", "over", "dead"} => run'[c] = run[c]
      BY <2>1, <2>3, Apart DEF Procs
    <3>3. QED BY <1>0, <2>1, <3>1, <3>2 DEF Following
  <2>4. QED BY <1>17, <2>1, <2>2, <2>3, AbandonResumedStep
<1>18. ASSUME NEW r \in Readings, ClearQueueRead(r) PROVE Following'
  <2>1. r \in Procs /\ run[r].pc = "clear" /\ Others(r) /\ run'[r].pc = "resume"
    BY <1>0, <1>18, ClearQueueReadStep DEF RunIs, Procs
  <2>2. rec'.triagedBy = rec.triagedBy \/ rec.triagedBy = r
    BY <1>0, <1>18, ClearQueueReadStep
  <2>3. \/ rec'.triagedBy = rec.triagedBy
        \/ \A q \in Procs : Follows(q) => run[q].pc = "giveup"
    BY <1>0, <2>1, <2>2, NobodyFollows
  <2>4. QED BY <1>0, <2>1, <2>3, FollowingElsewhere DEF Follows
<1>19. ASSUME NEW p \in Procs, ReadAtExit(p) PROVE Following'
  BY <1>0, <1>19, ReadAtExitStep, FollowingElsewhere DEF Follows, Procs, Others, Moved, RunIs
<1>20. ASSUME NEW p \in Procs, ReturnFollowUps(p) PROVE Following'
  BY <1>0, <1>20, ReturnFollowUpsStep, FollowingElsewhere DEF Follows, Procs, Others, RunIs, RecIs
<1>21. ASSUME NEW p \in Procs, ClaimFollowUp(p) PROVE Following'
  <2>1. CASE \E pc \in {"release", "yield"} : rec' = rec /\ Moved(p, pc)
    BY <1>0, <1>21, <2>1, ClaimFollowUpStep, FollowingElsewhere DEF Follows, Moved, RunIs
  <2>2. ASSUME NEW c \in Readings, Unused(c),
               rec.triagedBy \in {NoOne, c} \/ ~Live(rec.triagedBy), ClaimIs(c),
               run'[p].pc = "messages", run'[p].other = c, Others(p), run[p].pc = "follow"
        PROVE  Following'
    <3>1. \A q \in Procs : Follows(q) => run[q].pc = "giveup"
      BY <1>0, <2>2, NobodyFollows
    <3>2. c \in Procs /\ c # p /\ run'[c] = run[c] /\ run[c].pc \in {"none", "over"}
      BY <2>2 DEF Unused, Others, Procs
    <3>3. \A q \in Procs \ {p} : run'[q] = run[q] /\ run[q].other # c
      BY <2>2 DEF Others, Unused
    <3>4. Follows(p)'
      BY <2>2 DEF Follows
    <3>5. \A q \in Procs \ {p} : Follows(q)' => /\ Follows(q) /\ run'[q].other = run[q].other
                                              /\ run'[q].pc = "giveup"
      BY <3>1, <3>3 DEF Follows
    <3>6. ASSUME NEW q \in Procs \ {p}, Follows(q)'
          PROVE  /\ run'[q].other \in Readings /\ run'[q].pc = "giveup"
                 /\ \/ run'[run'[q].other].pc \in {"none", "over"}
                    \/ run'[q].handed /\ run'[run'[q].other].pc = "dead"
                 /\ \A o \in Procs : Follows(o)' /\ run'[o].other = run'[q].other => o = q
      <4>1. /\ run[q].other \in Readings /\ run[q].other \in Procs
            /\ \/ run[run[q].other].pc \in {"none", "over"}
               \/ run[q].handed /\ run[run[q].other].pc = "dead"
            /\ \A o \in Procs : Follows(o) /\ run[o].other = run[q].other => o = q
        BY <1>0, <3>5, <3>6 DEF Following, Procs
      <4>2. run'[run[q].other] = run[run[q].other]
        BY <2>2, <4>1 DEF Others
      <4>3. QED BY <2>2, <3>3, <3>5, <3>6, <4>1, <4>2
    <3>7. \A o \in Procs : Follows(o)' /\ run'[o].other = c => o = p
      BY <3>3
    <3>8. rec'.triagedBy = c
      BY <2>2 DEF ClaimIs, RecIs
    <3>9. QED BY <2>2, <3>2, <3>6, <3>7, <3>8 DEF Following
  <2>3. QED BY <1>0, <1>21, <2>1, <2>2, ClaimFollowUpStep DEF RunIs
<1>22. ASSUME NEW p \in Procs, YieldToReading(p) PROVE Following'
  BY <1>0, <1>22, YieldToReadingStep, FollowingElsewhere
     DEF Follows, Procs, Others, Moved, IsOver, HolderIs, RunIs, RecIs
<1>23. ASSUME NEW p \in Procs, FetchFollowUp(p) PROVE Following'
  BY <1>0, <1>23, FetchFollowUpStep, FollowingElsewhere DEF Follows, Procs, Others, Moved, RunIs
<1>24. ASSUME NEW p \in Procs, ClearEmptied(p) PROVE Following'
  <2>1. run[p].pc = "empty" /\ Others(p) /\ Moved(p, "giveup")
    BY <1>0, <1>24, ClearEmptiedStep
  <2>2. rec'.triagedBy = rec.triagedBy \/ rec.triagedBy = Claimed(p)
    BY <1>0, <1>24, ClearEmptiedStep
  <2>3. \/ rec'.triagedBy = rec.triagedBy
        \/ \A q \in Procs \ {p} : Follows(q) => run[q].pc = "giveup"
    BY <1>0, <2>1, <2>2 DEF Following, Follows, Claimed
  <2>4. QED BY <1>0, <2>1, <2>3, FollowingElsewhere DEF Follows, Moved, RunIs
<1>25. ASSUME NEW p \in Procs, HandOverToFollowUp(p) PROVE Following'
  BY <1>0, <1>25, HandOverToFollowUpStep, FollowingElsewhere
     DEF Follows, Procs, Others, RunIs, HolderIs, RecIs
<1>26. ASSUME NEW p \in Procs, DispatchFollowUp(p) PROVE Following'
  <2>1. /\ run[p].pc = "send" /\ rec' = rec /\ Follows(p)
        /\ run[p].other \in Readings \ {p} /\ run[p].other \in Procs
    BY <1>0, <1>26, DispatchFollowUpStep DEF Follows, Procs
  <2>2. CASE Others(p) /\ Moved(p, "free")
    BY <1>0, <2>1, <2>2, FollowingElsewhere DEF Follows, Moved, RunIs
  <2>3. CASE /\ run'[p].pc = "over" /\ run'[run[p].other].pc = "go"
             /\ \A q \in Procs \ {p, run[p].other} : run'[q] = run[q]
    <3>1. \A q \in Procs : Follows(q)' => Follows(q) /\ run'[q] = run[q] /\ q # p
      BY <2>1, <2>3 DEF Follows
    <3>2. \A q \in Procs : Follows(q)' => run[q].other # run[p].other
      BY <1>0, <2>1, <3>1 DEF Following
    <3>3. \A c \in Readings : c # run[p].other /\ run[c].pc \in {"none", "over", "dead"}
                               => run'[c] = run[c]
      BY <2>1, <2>3 DEF Procs
    <3>4. QED BY <1>0, <2>1, <3>1, <3>2, <3>3 DEF Following
  <2>4. QED BY <1>0, <1>26, <2>2, <2>3, DispatchFollowUpStep DEF IsOver, RunIs
<1>27. ASSUME NEW p \in Procs, FreeFollowUp(p) PROVE Following'
  <2>1. /\ run[p].pc = "free" /\ Moved(p, "giveup") /\ run[p].other \in Readings
        /\ run[p].other \in Procs \ {p} /\ rec'.triagedBy = rec.triagedBy
    BY <1>0, <1>27, FreeFollowUpStep DEF Procs, HolderIs, RecIs
  <2>2. CASE Others(p)
    BY <1>0, <2>1, <2>2, FollowingElsewhere DEF Follows, Moved, RunIs
  <2>3. CASE Moved(run[p].other, "dead") /\ \A q \in Procs \ {p, run[p].other} : run'[q] = run[q]
    <3>1. PICK c \in Readings : c = run[p].other
      BY <2>1
    <3>2. run'[c].pc = "dead" /\ \A q \in Procs \ {p, c} : run'[q] = run[q]
      BY <2>3, <3>1 DEF Moved, RunIs
    <3>3. /\ Follows(p) /\ run'[p].pc = "giveup" /\ run'[p].other = c /\ run'[p].handed
          /\ c \in Procs /\ c # p
      BY <1>0, <2>1, <3>1 DEF Follows, Moved, RunIs, Shaped, RunShaped
    <3>4. \A q \in Procs \ {p} : Follows(q)' => Follows(q) /\ run'[q] = run[q]
      BY <3>2 DEF Follows
    <3>5. \A q \in Procs \ {p} : Follows(q) => run[q].other # c
      BY <1>0, <3>1, <3>3 DEF Following
    <3>6. \A o \in Readings \ {c} : run[o].pc \in {"none", "over", "dead"} => run'[o] = run[o]
      BY <2>1, <3>2 DEF Procs
    <3>7. ASSUME NEW q \in Procs \ {p}, Follows(q)'
          PROVE  /\ run'[q].other \in Readings
                 /\ \/ run'[run'[q].other].pc \in {"none", "over"}
                    \/ /\ run'[q].handed /\ run'[q].pc = "giveup"
                       /\ run'[run'[q].other].pc = "dead"
                 /\ \A o \in Procs : Follows(o)' /\ run'[o].other = run'[q].other => o = q
                 /\ run'[q].pc # "giveup" => rec'.triagedBy = run'[q].other
      BY <1>0, <2>1, <3>3, <3>4, <3>5, <3>6, <3>7 DEF Following
    <3>8. QED BY <3>2, <3>3, <3>4, <3>5, <3>7 DEF Following
  <2>4. QED BY <1>0, <1>27, <2>2, <2>3, FreeFollowUpStep
<1>28. ASSUME NEW p \in Procs, GiveUpClaim(p) PROVE Following'
  <2>1. run[p].pc = "giveup" /\ run'[p].pc \in {"over", "release", "dead"}
    BY <1>0, <1>28, GiveUpClaimStep DEF IsOver, GoesOn, Moved, RunIs
  <2>2. rec'.triagedBy = rec.triagedBy \/ rec.triagedBy = Claimed(p)
    BY <1>0, <1>28, GiveUpClaimStep DEF ClaimIs, RecIs
  <2>3. \/ rec'.triagedBy = rec.triagedBy
        \/ \A q \in Procs \ {p} : Follows(q) => run[q].pc = "giveup"
    BY <1>0, <2>1, <2>2 DEF Following, Follows, Claimed
  <2>4. CASE Others(p)
    BY <1>0, <2>1, <2>3, <2>4, FollowingElsewhere DEF Follows
  <2>5. CASE /\ rec' = rec /\ run[p].other \in Readings /\ Moved(run[p].other, "dead")
             /\ \A q \in Procs \ {p, run[p].other} : run'[q] = run[q]
    <3>1. PICK c \in Readings : c = run[p].other /\ c \in Procs
      BY <2>5 DEF Procs
    <3>2. run'[c].pc = "dead" /\ \A q \in Procs \ {p, c} : run'[q] = run[q]
      BY <2>5, <3>1 DEF Moved, RunIs
    <3>3. Follows(p)
      BY <2>1, <3>1, Apart DEF Follows
    <3>4. \A q \in Procs : Follows(q)' => Follows(q) /\ run'[q] = run[q] /\ q # p
      BY <2>1, <3>2 DEF Follows
    <3>5. \A q \in Procs : Follows(q)' => run[q].other # c
      BY <1>0, <3>1, <3>3, <3>4 DEF Following
    <3>6. \A o \in Readings \ {c} : run[o].pc \in {"none", "over", "dead"} => run'[o] = run[o]
      BY <2>1, <3>2 DEF Procs
    <3>7. QED BY <1>0, <2>5, <3>4, <3>5, <3>6 DEF Following
  <2>6. QED BY <1>0, <1>28, <2>4, <2>5, GiveUpClaimStep
<1>29. ASSUME NEW p \in Procs, ReleaseAtExit(p) PROVE Following'
  BY <1>0, <1>29, ReleaseAtExitStep, FollowingElsewhere
     DEF Follows, Procs, Others, Moved, IsOver, HolderIs, RunIs, RecIs
<1>30. ASSUME NEW p \in Procs, Die(p) PROVE Following'
  <2>1. rec' = rec
    BY <1>0, <1>30, DieStep
  <2>2. \A q \in Procs : \/ run'[q] = run[q] /\ q # p /\ q \notin ClaimedFor(p)
                         \/ run'[q].pc = "dead" /\ q \in {p} \cup ClaimedFor(p)
    BY <1>0, <1>30, DieStep DEF Moved, RunIs
  <2>3. \A q \in Procs : Follows(q)' => Follows(q) /\ run'[q] = run[q] /\ q # p
    BY <2>2 DEF Follows
  <2>4. ASSUME NEW q \in Procs, Follows(q)' PROVE run'[run[q].other] = run[run[q].other]
    <3>1. /\ run[q].other \in Readings /\ run[q].other \in Procs
          /\ run[run[q].other].pc \in {"none", "over", "dead"}
      BY <1>0, <2>3, <2>4 DEF Following, Procs
    <3>2. run[q].other # p
      BY <1>0, <1>30, <3>1, DieStep DEF Active
    <3>3. ASSUME run[q].other \in ClaimedFor(p) PROVE FALSE
      <4>1. Follows(p) /\ run[p].other = run[q].other
        BY <3>1, <3>3, Apart DEF ClaimedFor, Follows
      <4>2. QED BY <1>0, <2>3, <2>4, <4>1 DEF Following
    <3>4. QED BY <2>2, <3>1, <3>2, <3>3
  <2>5. QED BY <1>0, <2>1, <2>3, <2>4 DEF Following
<1>31. ASSUME NEW m \in Messages, ClaimTurnFor(m) \/ RouterStep(m) \/ Redact(m) PROVE Following'
  BY <1>31, <1>3, <1>4, <1>2
     DEF RouterStep, RouterQuietly
<1>32. ASSUME NEW r \in Readings, ReadingStep(r) PROVE Following'
  BY <1>32, <1>10, <1>11, <1>12, <1>13, <1>14, <1>15, <1>16, <1>17, <1>18
     DEF ReadingStep
<1>33. ASSUME NEW p \in Procs, AnswerStep(p) \/ ExitStep(p) PROVE Following'
  BY <1>33, <1>6, <1>7, <1>8, <1>9, <1>19, <1>20, <1>21, <1>22, <1>23, <1>24, <1>25, <1>26, <1>27,
     <1>28, <1>29
     DEF AnswerStep, ExitStep
<1>34. QED BY <1>1, <1>5, <1>30, <1>31, <1>32, <1>33 DEF Next

\* Nobody reads under a claim that nobody has, or under which nothing runs.
LEMMA NobodyReads ==
  ASSUME OneReadingAtATime, NEW c, c \in Readings => ~Unread(c),
         rec.triagedBy \in {NoOne, c} \/ ~Live(rec.triagedBy)
  PROVE  \A q \in Readings : ~Unread(q)
<1> SUFFICES ASSUME NEW q \in Readings, Unread(q) PROVE FALSE
  OBVIOUS
<1>1. rec.triagedBy = q /\ q # c /\ q # NoOne
  BY Apart DEF OneReadingAtATime
<1>2. Live(q)
  BY DEF Live, Active, ActsFor, Unread, Procs
<1>3. QED BY <1>1, <1>2

\* Where one run goes on, not to read, whoever reads keeps the claim.
LEMMA ReadingElsewhere ==
  ASSUME OneReadingAtATime, NEW p \in Procs, Others(p), p \in Readings /\ Unread(p)' => Unread(p),
         \/ rec'.triagedBy = rec.triagedBy
         \/ (p \in Readings => ~Unread(p)') /\ \A q \in Readings : ~Unread(q)
  PROVE  OneReadingAtATime'
<1>1. \A q \in Readings : Unread(q)' => Unread(q)
  BY DEF Others, Unread, Procs
<1>2. ASSUME NEW q \in Readings, Unread(q)' PROVE rec'.triagedBy = q
  BY <1>1, <1>2 DEF OneReadingAtATime
<1>3. QED BY <1>2 DEF OneReadingAtATime

\* Whoever is reading the queue has the claim on it.
LEMMA OneReadingKept ==
  ASSUME IInv, [Next]_vars
  PROVE  OneReadingAtATime'
<1>0. TypeOK /\ OneReadingAtATime /\ Following /\ Shaped /\ Asking
  BY DEF IInv
<1>1. CASE UNCHANGED vars
  BY <1>0, <1>1 DEF OneReadingAtATime, Unread, vars
<1>2. ASSUME NEW m \in Messages, RouterQuietly(m)
      PROVE  OneReadingAtATime'
  BY <1>0, <1>2, RouterQuiet DEF OneReadingAtATime, Unread, Procs, Stands
<1>3. ASSUME NEW m \in Messages, Dispatch(m) PROVE OneReadingAtATime'
  BY <1>0, <1>3, DispatchStep, ReadingElsewhere, Apart DEF Unread, Procs, Others
<1>4. ASSUME NEW m \in Messages, UndoClaim(m) PROVE OneReadingAtATime'
  <2>1. /\ m \in Procs /\ m \notin Readings /\ Others(m) /\ rec'.triagedBy = rec.triagedBy
    BY <1>0, <1>4, UndoClaimStep, Apart DEF Procs, HolderIs, RecIs
  <2>2. QED BY <1>0, <2>1, ReadingElsewhere
<1>5. ASSUME TakeUpNotice PROVE OneReadingAtATime'
  <2>1. CASE run' = run
    BY <1>0, <1>5, <2>1, TakeUpNoticeStep DEF OneReadingAtATime, Unread
  <2>2. CASE run' # run
    <3>1. PICK r \in Readings : Others(r) /\ run'[r].pc = "claim"
      BY <1>0, <1>5, <2>2, TakeUpNoticeStep DEF RunIs
    <3>2. QED BY <1>0, <1>5, <3>1, TakeUpNoticeStep, ReadingElsewhere DEF Unread, Procs
  <2>3. QED BY <2>1, <2>2
<1>6. ASSUME NEW p \in Procs, Checkpoint(p) PROVE OneReadingAtATime'
  BY <1>0, <1>6, CheckpointStep, ReadingElsewhere DEF Unread, Procs, Others, RunIs, Delivered
<1>7. ASSUME NEW p \in Procs, ParkForReading(p) PROVE OneReadingAtATime'
  BY <1>0, <1>7, ParkForReadingStep, ReadingElsewhere
     DEF Unread, Procs, Others, Moved, RunIs, Delivered, RecIs
<1>8. ASSUME NEW p \in Procs, Fold(p) PROVE OneReadingAtATime'
  BY <1>0, <1>8, FoldStep, ReadingElsewhere DEF Unread, Procs, Others, RunIs, Delivered
<1>9. ASSUME NEW p \in Procs, DeliverParked(p) PROVE OneReadingAtATime'
  BY <1>0, <1>9, DeliverParkedStep, ReadingElsewhere, Apart
     DEF Unread, Procs, Others, Moved, RecIs, RunIs
<1>10. ASSUME NEW r \in Readings, ClaimQueueOnArrival(r) PROVE OneReadingAtATime'
  <2>1. /\ r \in Procs /\ run[r].pc = "claim" /\ Others(r)
    BY <1>0, <1>10, ClaimQueueOnArrivalStep DEF Procs
  <2>2. CASE rec' = rec /\ IsOver(r)
    BY <1>0, <2>1, <2>2, ReadingElsewhere DEF Unread, IsOver, RunIs
  <2>3. CASE (rec.triagedBy \in {NoOne, r} \/ ~Live(rec.triagedBy)) /\ ClaimIs(r)
    <3>1. \A q \in Readings : ~Unread(q)
      BY <1>0, <2>1, <2>3, NobodyReads DEF Unread
    <3>2. \A q \in Readings : Unread(q)' => q = r
      BY <2>1, <3>1 DEF Others, Unread, Procs
    <3>3. QED BY <2>3, <3>2 DEF OneReadingAtATime, ClaimIs, RecIs
  <2>4. QED BY <1>0, <1>10, <2>2, <2>3, ClaimQueueOnArrivalStep
<1>11. ASSUME NEW r \in Readings, StartReading(r) PROVE OneReadingAtATime'
  BY <1>0, <1>11, StartReadingStep, ReadingElsewhere DEF Unread, Procs, Others, Moved, RunIs
<1>12. ASSUME NEW r \in Readings, Look(r) PROVE OneReadingAtATime'
  BY <1>0, <1>12, LookStep, ReadingElsewhere
     DEF Unread, Procs, Others, RunIs, ReadsOnce, FollowsThrough
<1>13. ASSUME NEW r \in Readings, StillRunning(r) PROVE OneReadingAtATime'
  BY <1>0, <1>13, StillRunningStep, ReadingElsewhere
     DEF Unread, Procs, Others, Moved, RunIs, ReadsOnce
<1>14. ASSUME NEW r \in Readings, RecordFollowUps(r) PROVE OneReadingAtATime'
  BY <1>0, <1>14, RecordFollowUpsStep, ReadingElsewhere
     DEF Unread, Procs, Others, ReadsOnce, FollowsThrough, RecIs, RunIs
<1>15. ASSUME NEW r \in Readings, ResumeParked(r) PROVE OneReadingAtATime'
  BY <1>0, <1>15, ResumeParkedStep, ReadingElsewhere, AfterResumes
     DEF Unread, Procs, AfterResume, Others, Moved, RecIs, RunIs
<1>16. ASSUME NEW r \in Readings, InvokeResume(r) PROVE OneReadingAtATime'
  <2>1. /\ rec' = rec /\ run[r].pc = "invoke" /\ r \in Procs
        /\ \A q \in Readings \ {r} : run'[q] = run[q]
    BY <1>0, <1>16, InvokeResumeStep, Apart DEF Others, Procs
  <2>2. Moved(r, AfterResume(r)) \/ Moved(r, "abandon")
    BY <1>0, <1>16, InvokeResumeStep
  <2>3. \A q \in Readings : Unread(q)' => Unread(q)
    BY <2>1, <2>2, AfterResumes DEF Unread, Moved, RunIs
  <2>4. QED BY <1>0, <2>1, <2>3 DEF OneReadingAtATime
<1>17. ASSUME NEW r \in Readings, AbandonResumed(r) PROVE OneReadingAtATime'
  <2>1. /\ rec'.triagedBy = rec.triagedBy /\ run[r].pc = "abandon"
        /\ Moved(r, AfterResume(r)) /\ \A q \in Readings \ {r} : run'[q] = run[q]
    BY <1>17, AbandonResumedStep, Apart DEF Others, Procs, RecIs
  <2>2. \A q \in Readings : Unread(q)' => Unread(q)
    BY <2>1, AfterResumes DEF Unread, Moved, RunIs
  <2>3. QED BY <1>0, <2>1, <2>2 DEF OneReadingAtATime
<1>18. ASSUME NEW r \in Readings, ClearQueueRead(r) PROVE OneReadingAtATime'
  <2>1. /\ r \in Procs /\ run[r].pc = "clear" /\ Others(r) /\ run'[r].pc = "resume"
        /\ run'[r].closing
    BY <1>0, <1>18, ClearQueueReadStep DEF RunIs, Procs
  <2>2. rec'.triagedBy = rec.triagedBy \/ (rec.triagedBy = r /\ rec'.triagedBy = NoOne)
    BY <1>0, <1>18, ClearQueueReadStep DEF RecIs
  <2>3. \A q \in Readings : Unread(q)' => rec.triagedBy = q /\ q # r
    BY <1>0, <2>1 DEF OneReadingAtATime, Unread, Others, Procs
  <2>4. QED BY <2>2, <2>3 DEF OneReadingAtATime
<1>19. ASSUME NEW p \in Procs, ReadAtExit(p) PROVE OneReadingAtATime'
  BY <1>0, <1>19, ReadAtExitStep, ReadingElsewhere DEF Unread, Procs, Others, Moved, RunIs
<1>20. ASSUME NEW p \in Procs, ReturnFollowUps(p) PROVE OneReadingAtATime'
  BY <1>0, <1>20, ReturnFollowUpsStep, ReadingElsewhere DEF Unread, Procs, Others, RunIs, RecIs
<1>21. ASSUME NEW p \in Procs, ClaimFollowUp(p) PROVE OneReadingAtATime'
  <2>1. CASE \E pc \in {"release", "yield"} : rec' = rec /\ Moved(p, pc)
    BY <1>0, <1>21, <2>1, ClaimFollowUpStep, ReadingElsewhere DEF Unread, Moved, RunIs
  <2>2. ASSUME NEW c \in Readings, Unused(c),
               rec.triagedBy \in {NoOne, c} \/ ~Live(rec.triagedBy),
               run'[p].pc = "messages", Others(p), run[p].pc = "follow"
        PROVE  OneReadingAtATime'
    <3>1. \A q \in Readings : ~Unread(q)
      BY <1>0, <2>2, NobodyReads DEF Unread, Unused
    <3>2. QED BY <1>0, <2>2, <3>1, ReadingElsewhere DEF Unread
  <2>3. QED BY <1>0, <1>21, <2>1, <2>2, ClaimFollowUpStep DEF RunIs
<1>22. ASSUME NEW p \in Procs, YieldToReading(p) PROVE OneReadingAtATime'
  BY <1>0, <1>22, YieldToReadingStep, ReadingElsewhere
     DEF Unread, Procs, Others, Moved, IsOver, HolderIs, RunIs, RecIs
<1>23. ASSUME NEW p \in Procs, FetchFollowUp(p) PROVE OneReadingAtATime'
  BY <1>0, <1>23, FetchFollowUpStep, ReadingElsewhere DEF Unread, Procs, Others, Moved, RunIs
<1>24. ASSUME NEW p \in Procs, ClearEmptied(p) PROVE OneReadingAtATime'
  <2>1. run[p].pc = "empty" /\ Others(p) /\ run'[p].pc = "giveup"
    BY <1>0, <1>24, ClearEmptiedStep DEF Moved, RunIs
  <2>2. rec'.triagedBy = rec.triagedBy \/ rec.triagedBy = Claimed(p)
    BY <1>0, <1>24, ClearEmptiedStep DEF RecIs
  <2>3. Claimed(p) \in Readings => ~Unread(Claimed(p))
    BY <1>0, <2>1 DEF Claimed, Unread, Following, Follows
  <2>4. rec'.triagedBy = rec.triagedBy \/ \A q \in Readings : ~Unread(q)
    BY <1>0, <2>2, <2>3, NobodyReads
  <2>5. QED BY <1>0, <2>1, <2>4, ReadingElsewhere DEF Unread
<1>25. ASSUME NEW p \in Procs, HandOverToFollowUp(p) PROVE OneReadingAtATime'
  BY <1>0, <1>25, HandOverToFollowUpStep, ReadingElsewhere
     DEF Unread, Procs, Others, RunIs, HolderIs, RecIs
<1>26. ASSUME NEW p \in Procs, DispatchFollowUp(p) PROVE OneReadingAtATime'
  <2>1. /\ run[p].pc = "send" /\ rec' = rec /\ Follows(p)
        /\ run[p].other \in Readings \ {p} /\ run[p].other \in Procs
    BY <1>0, <1>26, DispatchFollowUpStep DEF Follows, Procs
  <2>2. CASE Others(p) /\ Moved(p, "free")
    BY <1>0, <2>1, <2>2, ReadingElsewhere DEF Unread, Moved, RunIs
  <2>3. CASE /\ run'[p].pc = "over" /\ \A q \in Procs \ {p, run[p].other} : run'[q] = run[q]
    <3>1. rec.triagedBy = run[p].other
      BY <1>0, <2>1 DEF Following
    <3>2. \A q \in Readings : q # run[p].other => (Unread(q)' => Unread(q))
      BY <2>1, <2>3 DEF Unread, Procs
    <3>3. QED BY <1>0, <2>1, <3>1, <3>2 DEF OneReadingAtATime
  <2>4. QED BY <1>0, <1>26, <2>2, <2>3, DispatchFollowUpStep DEF IsOver, RunIs
<1>27. ASSUME NEW p \in Procs, FreeFollowUp(p) PROVE OneReadingAtATime'
  <2>1. /\ rec'.triagedBy = rec.triagedBy /\ run'[p].pc = "giveup"
        /\ \A q \in Procs \ {p} : run'[q] = run[q] \/ run'[q].pc = "dead"
    BY <1>0, <1>27, FreeFollowUpStep DEF Others, Procs, Moved, HolderIs, RunIs, RecIs
  <2>2. \A q \in Readings : Unread(q)' => Unread(q)
    BY <2>1 DEF Unread, Procs
  <2>3. QED BY <1>0, <2>1, <2>2 DEF OneReadingAtATime
<1>28. ASSUME NEW p \in Procs, GiveUpClaim(p) PROVE OneReadingAtATime'
  <2>1. run[p].pc = "giveup" /\ run'[p].pc \in {"over", "release", "dead"}
    BY <1>0, <1>28, GiveUpClaimStep DEF IsOver, GoesOn, Moved, RunIs
  <2>2. CASE Others(p)
    <3>1. rec'.triagedBy = rec.triagedBy \/ rec.triagedBy = Claimed(p)
      BY <1>0, <1>28, GiveUpClaimStep DEF ClaimIs, RecIs
    <3>2. Claimed(p) \in Readings => ~Unread(Claimed(p))
      BY <1>0, <2>1 DEF Claimed, Unread, Following, Follows
    <3>3. rec'.triagedBy = rec.triagedBy \/ \A q \in Readings : ~Unread(q)
      BY <1>0, <3>1, <3>2, NobodyReads
    <3>4. QED BY <1>0, <2>1, <2>2, <3>3, ReadingElsewhere DEF Unread
  <2>3. CASE /\ rec' = rec /\ Moved(run[p].other, "dead")
             /\ \A q \in Procs \ {p, run[p].other} : run'[q] = run[q]
    <3>1. \A q \in Readings : Unread(q)' => Unread(q)
      BY <2>1, <2>3 DEF Unread, Moved, RunIs, Procs
    <3>2. QED BY <1>0, <2>3, <3>1 DEF OneReadingAtATime
  <2>4. QED BY <1>0, <1>28, <2>2, <2>3, GiveUpClaimStep
<1>29. ASSUME NEW p \in Procs, ReleaseAtExit(p) PROVE OneReadingAtATime'
  BY <1>0, <1>29, ReleaseAtExitStep, ReadingElsewhere
     DEF Unread, Procs, Others, Moved, IsOver, HolderIs, RunIs, RecIs
<1>30. ASSUME NEW p \in Procs, Die(p) PROVE OneReadingAtATime'
  <2>1. rec' = rec /\ \A q \in Procs : run'[q] = run[q] \/ run'[q].pc = "dead"
    BY <1>0, <1>30, DieStep DEF Moved, RunIs
  <2>2. \A q \in Readings : Unread(q)' => Unread(q)
    BY <2>1 DEF Unread, Procs
  <2>3. QED BY <1>0, <2>1, <2>2 DEF OneReadingAtATime
<1>31. ASSUME NEW m \in Messages, ClaimTurnFor(m) \/ RouterStep(m) \/ Redact(m) PROVE OneReadingAtATime'
  BY <1>31, <1>3, <1>4, <1>2
     DEF RouterStep, RouterQuietly
<1>32. ASSUME NEW r \in Readings, ReadingStep(r) PROVE OneReadingAtATime'
  BY <1>32, <1>10, <1>11, <1>12, <1>13, <1>14, <1>15, <1>16, <1>17, <1>18
     DEF ReadingStep
<1>33. ASSUME NEW p \in Procs, AnswerStep(p) \/ ExitStep(p) PROVE OneReadingAtATime'
  BY <1>33, <1>6, <1>7, <1>8, <1>9, <1>19, <1>20, <1>21, <1>22, <1>23, <1>24, <1>25, <1>26, <1>27,
     <1>28, <1>29
     DEF AnswerStep, ExitStep
<1>34. QED BY <1>1, <1>5, <1>30, <1>31, <1>32, <1>33 DEF Next

\* Where no run hands the lock on and neither lock nor claim passes to anybody.
LEMMA HandedNowhere ==
  ASSUME HandedAway, \A q \in Procs : run'[q].handed => run[q].handed,
         rec'.holder \in {rec.holder, NoOne}, rec'.triagedBy \in {rec.triagedBy, NoOne}
  PROVE  HandedAway'
<1>1. \A q \in Procs : run'[q].handed => run[q].handed /\ q # NoOne
  BY Apart
<1>2. QED BY <1>1 DEF HandedAway

LEMMA HandedElsewhere ==
  ASSUME HandedAway, NEW p \in Procs, Others(p), run'[p].handed => run[p].handed,
         rec'.holder \in {rec.holder, NoOne}, rec'.triagedBy \in {rec.triagedBy, NoOne}
  PROVE  HandedAway'
BY HandedNowhere DEF Others

\* Who has handed the lock to its follow-up has neither lock nor claim.
LEMMA HandedAwayKept ==
  ASSUME IInv, [Next]_vars
  PROVE  HandedAway'
<1>0. TypeOK /\ HandedAway /\ Following /\ Shaped /\ Asking /\ Parking
  BY DEF IInv
<1>1. CASE UNCHANGED vars
  BY <1>0, <1>1 DEF HandedAway, vars
<1>2. ASSUME NEW m \in Messages, RouterQuietly(m) PROVE HandedAway'
  <2>1. ~run[m].handed \/ ask[m] = "done"
    BY <1>0 DEF Asking, Shaped, RunShaped, Procs
  <2>2. QED BY <1>0, <1>2, <2>1, RouterQuiet DEF HandedAway, Stands, Procs
<1>3. ASSUME NEW m \in Messages, Dispatch(m) PROVE HandedAway'
  BY <1>0, <1>3, DispatchStep, HandedElsewhere DEF Procs, Others, Moved, RunIs
<1>4. ASSUME NEW m \in Messages, UndoClaim(m) PROVE HandedAway'
  BY <1>0, <1>4, UndoClaimStep, HandedElsewhere
     DEF Procs, Others, IsOver, Moved, HolderIs, RunIs, RecIs
<1>5. ASSUME TakeUpNotice PROVE HandedAway'
  <2>1. CASE run' = run
    BY <1>0, <1>5, <2>1, TakeUpNoticeStep DEF HandedAway
  <2>2. CASE run' # run
    <3>1. PICK r \in Readings : Others(r) /\ ~run'[r].handed
      BY <1>0, <1>5, <2>2, TakeUpNoticeStep DEF RunIs
    <3>2. QED BY <1>0, <1>5, <3>1, TakeUpNoticeStep, HandedElsewhere DEF Procs
  <2>3. QED BY <2>1, <2>2
<1>6. ASSUME NEW p \in Procs, Checkpoint(p) PROVE HandedAway'
  BY <1>0, <1>6, CheckpointStep, HandedElsewhere DEF Procs, Others, RunIs, Delivered
<1>7. ASSUME NEW p \in Procs, ParkForReading(p) PROVE HandedAway'
  <2>1. Others(p) /\ run[p].pc = "park" /\ run'[p].handed = run[p].handed /\ ~run[p].handed
    BY <1>0, <1>7, ParkForReadingStep DEF RunIs, Moved, Delivered, Shaped, RunShaped
  <2>2. CASE rec' = rec
    BY <1>0, <2>1, <2>2, HandedElsewhere
  <2>3. CASE rec' # rec
    <3>1. rec'.holder = rec.triagedBy /\ rec'.triagedBy = rec.triagedBy
      BY <1>0, <1>7, <2>3, ParkForReadingStep DEF ParkOk, RecIs
    <3>2. QED BY <1>0, <2>1, <3>1 DEF HandedAway, Others
  <2>4. QED BY <2>2, <2>3
<1>8. ASSUME NEW p \in Procs, Fold(p) PROVE HandedAway'
  BY <1>0, <1>8, FoldStep, HandedElsewhere DEF Procs, Others, RunIs, Delivered
<1>9. ASSUME NEW p \in Procs, DeliverParked(p) PROVE HandedAway'
  BY <1>0, <1>9, DeliverParkedStep, HandedElsewhere DEF Procs, Others, Moved, RecIs, RunIs
<1>10. ASSUME NEW r \in Readings, ClaimQueueOnArrival(r) PROVE HandedAway'
  <2>1. /\ r \in Procs /\ run[r].pc = "claim" /\ Others(r) /\ ~run'[r].handed
    BY <1>0, <1>10, ClaimQueueOnArrivalStep DEF Procs, Moved, IsOver, RunIs, Shaped, RunShaped
  <2>2. rec'.holder = rec.holder /\ rec'.triagedBy \in {rec.triagedBy, r}
    BY <1>0, <1>10, ClaimQueueOnArrivalStep DEF ClaimIs, RecIs
  <2>3. QED BY <1>0, <2>1, <2>2 DEF HandedAway, Others
<1>11. ASSUME NEW r \in Readings, StartReading(r) PROVE HandedAway'
  BY <1>0, <1>11, StartReadingStep, HandedElsewhere DEF Procs, Others, Moved, RunIs
<1>12. ASSUME NEW r \in Readings, Look(r) PROVE HandedAway'
  BY <1>0, <1>12, LookStep, HandedElsewhere DEF Procs, Others, RunIs, ReadsOnce, FollowsThrough
<1>13. ASSUME NEW r \in Readings, StillRunning(r) PROVE HandedAway'
  BY <1>0, <1>13, StillRunningStep, HandedElsewhere DEF Procs, Others, Moved, RunIs, ReadsOnce
<1>14. ASSUME NEW r \in Readings, RecordFollowUps(r) PROVE HandedAway'
  BY <1>0, <1>14, RecordFollowUpsStep, HandedElsewhere
     DEF Procs, Others, ReadsOnce, FollowsThrough, RecIs, RunIs
<1>15. ASSUME NEW r \in Readings, ResumeParked(r) PROVE HandedAway'
  <2>1. /\ r \in Procs /\ run[r].pc = "resume" /\ Others(r) /\ ~run'[r].handed /\ ~run[r].handed
    BY <1>0, <1>15, ResumeParkedStep, AfterResumes DEF Procs, Moved, RunIs, Shaped, RunShaped
  <2>2. CASE rec' = rec
    BY <1>0, <2>1, <2>2, HandedElsewhere
  <2>3. CASE rec' # rec
    <3>1. /\ rec.parked \in Messages /\ rec.resumedBy = NoOne /\ rec'.holder = rec.parked
          /\ rec'.triagedBy = rec.triagedBy
      BY <1>0, <1>15, <2>3, ResumeParkedStep DEF BeginResumeOk, RecIs
    <3>2. run[rec.parked].pc = "parked" /\ ~run[rec.parked].handed
      BY <1>0, <3>1 DEF Parking, Procs, Shaped, RunShaped
    <3>3. QED BY <1>0, <2>1, <3>1, <3>2 DEF HandedAway, Others
  <2>4. QED BY <2>2, <2>3
<1>16. ASSUME NEW r \in Readings, InvokeResume(r) PROVE HandedAway'
  <2>1. rec' = rec /\ \A q \in Procs : run'[q].handed = run[q].handed
    BY <1>0, <1>16, InvokeResumeStep, AfterResumes DEF Others, Moved, RunIs, Procs
  <2>2. QED BY <1>0, <2>1 DEF HandedAway
<1>17. ASSUME NEW r \in Readings, AbandonResumed(r) PROVE HandedAway'
  <2>1. r \in Procs /\ run[r].pc = "abandon" /\ ~run'[r].handed
    BY <1>0, <1>17, AbandonResumedStep DEF Procs, Moved, RunIs, Shaped, RunShaped
  <2>2. rec'.holder \in {rec.holder, r} /\ rec'.triagedBy = rec.triagedBy
    BY <1>0, <1>17, AbandonResumedStep DEF RecIs
  <2>3. \A q \in Procs \ {r} : run'[q].handed = run[q].handed
    BY <1>0, <1>17, AbandonResumedStep DEF Others, Moved, RunIs
  <2>4. QED BY <1>0, <2>1, <2>2, <2>3 DEF HandedAway
<1>18. ASSUME NEW r \in Readings, ClearQueueRead(r) PROVE HandedAway'
  BY <1>0, <1>18, ClearQueueReadStep, HandedElsewhere DEF Procs, Others, RunIs, RecIs
<1>19. ASSUME NEW p \in Procs, ReadAtExit(p) PROVE HandedAway'
  BY <1>0, <1>19, ReadAtExitStep, HandedElsewhere DEF Procs, Others, Moved, RunIs
<1>20. ASSUME NEW p \in Procs, ReturnFollowUps(p) PROVE HandedAway'
  BY <1>0, <1>20, ReturnFollowUpsStep, HandedElsewhere DEF Procs, Others, RunIs, RecIs
<1>21. ASSUME NEW p \in Procs, ClaimFollowUp(p) PROVE HandedAway'
  <2>1. run[p].pc = "follow" /\ Others(p) /\ run'[p].handed = run[p].handed /\ ~run[p].handed
    BY <1>0, <1>21, ClaimFollowUpStep DEF Moved, RunIs, Shaped, RunShaped
  <2>2. rec'.holder = rec.holder
        /\ (rec'.triagedBy = rec.triagedBy
            \/ \E c \in Readings : rec'.triagedBy = c /\ run[c].pc \in {"none", "over"})
    BY <1>0, <1>21, ClaimFollowUpStep DEF ClaimIs, RecIs, Unused
  <2>3. \A c \in Procs : run[c].pc \in {"none", "over"} => ~run[c].handed
    BY <1>0 DEF Shaped, RunShaped
  <2>4. QED BY <1>0, <2>1, <2>2, <2>3 DEF HandedAway, Others, Procs
<1>22. ASSUME NEW p \in Procs, YieldToReading(p) PROVE HandedAway'
  <2>1. run[p].pc = "yield" /\ Others(p) /\ ~run'[p].handed
    BY <1>0, <1>22, YieldToReadingStep DEF Moved, IsOver, RunIs, Shaped, RunShaped
  <2>2. /\ rec'.holder = rec.holder \/ rec'.holder = rec.triagedBy
        /\ rec'.triagedBy = rec.triagedBy
    BY <1>0, <1>22, YieldToReadingStep DEF HandOverOk, HolderIs, RecIs
  <2>3. QED BY <1>0, <2>1, <2>2 DEF HandedAway, Others
<1>23. ASSUME NEW p \in Procs, FetchFollowUp(p) PROVE HandedAway'
  BY <1>0, <1>23, FetchFollowUpStep, HandedElsewhere DEF Procs, Others, Moved, RunIs
<1>24. ASSUME NEW p \in Procs, ClearEmptied(p) PROVE HandedAway'
  BY <1>0, <1>24, ClearEmptiedStep, HandedElsewhere DEF Procs, Others, Moved, RecIs, RunIs
<1>25. ASSUME NEW p \in Procs, HandOverToFollowUp(p) PROVE HandedAway'
  <2>1. /\ run[p].pc = "hand" /\ Others(p) /\ Follows(p) /\ run[p].other \in Procs
        /\ run[run[p].other].pc \in {"none", "over"} /\ rec.triagedBy = run[p].other
    BY <1>0, <1>25, HandOverToFollowUpStep DEF Follows, Following, Procs
  <2>2. run[p].other # p /\ ~run[run[p].other].handed
    BY <1>0, <2>1 DEF Shaped, RunShaped
  <2>3. \/ rec'.holder = run[p].other /\ rec'.triagedBy = rec.triagedBy
        \/ rec' = rec /\ ~run'[p].handed
    BY <1>0, <1>25, HandOverToFollowUpStep DEF HolderIs, RunIs, RecIs
  <2>4. QED BY <1>0, <2>1, <2>2, <2>3 DEF HandedAway, Others
<1>26. ASSUME NEW p \in Procs, DispatchFollowUp(p) PROVE HandedAway'
  <2>1. /\ run[p].pc = "send" /\ rec' = rec /\ run[p].other \in Readings \ {p}
        /\ run[p].other \in Procs
    BY <1>0, <1>26, DispatchFollowUpStep DEF Procs
  <2>2. ASSUME NEW q \in Procs, run'[q].handed PROVE run[q].handed
    <3>1. CASE Others(p) /\ Moved(p, "free")
      BY <2>2, <3>1 DEF Others, Moved, RunIs
    <3>2. CASE /\ ~run'[p].handed /\ ~run'[run[p].other].handed
               /\ \A o \in Procs \ {p, run[p].other} : run'[o] = run[o]
      BY <2>2, <3>2
    <3>3. QED BY <1>0, <1>26, <2>1, <3>1, <3>2, DispatchFollowUpStep DEF IsOver, RunIs
  <2>3. QED BY <1>0, <2>1, <2>2 DEF HandedAway
<1>27. ASSUME NEW p \in Procs, FreeFollowUp(p) PROVE HandedAway'
  <2>1. /\ rec'.holder \in {rec.holder, NoOne} /\ rec'.triagedBy = rec.triagedBy
        /\ run'[p].handed = run[p].handed
        /\ \A q \in Procs \ {p} : run'[q] = run[q] \/ Moved(q, "dead")
    BY <1>0, <1>27, FreeFollowUpStep DEF Others, Procs, Moved, HolderIs, RunIs, RecIs
  <2>2. QED BY <1>0, <2>1, HandedNowhere DEF Moved, RunIs
<1>28. ASSUME NEW p \in Procs, GiveUpClaim(p) PROVE HandedAway'
  <2>1. rec'.holder = rec.holder /\ rec'.triagedBy \in {rec.triagedBy, NoOne}
    BY <1>0, <1>28, GiveUpClaimStep DEF ClaimIs, RecIs
  <2>2. run'[p].handed => run[p].handed
    BY <1>0, <1>28, GiveUpClaimStep DEF IsOver, GoesOn, Moved, RunIs
  <2>3. \A q \in Procs \ {p} : run'[q] = run[q] \/ Moved(q, "dead")
    BY <1>0, <1>28, GiveUpClaimStep DEF Others
  <2>4. QED BY <1>0, <2>1, <2>2, <2>3, HandedNowhere DEF Moved, RunIs
<1>29. ASSUME NEW p \in Procs, ReleaseAtExit(p) PROVE HandedAway'
  BY <1>0, <1>29, ReleaseAtExitStep, HandedElsewhere
     DEF Procs, Others, Moved, IsOver, HolderIs, RunIs, RecIs
<1>30. ASSUME NEW p \in Procs, Die(p) PROVE HandedAway'
  <2>1. rec' = rec /\ \A q \in Procs : run'[q].handed = run[q].handed
    BY <1>0, <1>30, DieStep DEF Moved, RunIs
  <2>2. QED BY <1>0, <2>1 DEF HandedAway
<1>31. ASSUME NEW m \in Messages, ClaimTurnFor(m) \/ RouterStep(m) \/ Redact(m) PROVE HandedAway'
  BY <1>31, <1>3, <1>4, <1>2
     DEF RouterStep, RouterQuietly
<1>32. ASSUME NEW r \in Readings, ReadingStep(r) PROVE HandedAway'
  BY <1>32, <1>10, <1>11, <1>12, <1>13, <1>14, <1>15, <1>16, <1>17, <1>18
     DEF ReadingStep
<1>33. ASSUME NEW p \in Procs, AnswerStep(p) \/ ExitStep(p) PROVE HandedAway'
  BY <1>33, <1>6, <1>7, <1>8, <1>9, <1>19, <1>20, <1>21, <1>22, <1>23, <1>24, <1>25, <1>26, <1>27,
     <1>28, <1>29
     DEF AnswerStep, ExitStep
<1>34. QED BY <1>1, <1>5, <1>30, <1>31, <1>32, <1>33 DEF Next

\* Where one run goes on, and does not leave the claim behind if it watches it.
LEMMA WatchedElsewhere ==
  ASSUME ClaimWatched, NEW p \in Procs, Others(p),
         Unfailing /\ rec'.triagedBy # NoOne =>
            rec'.triagedBy = rec.triagedBy /\ (Watches(p) => Watches(p)')
  PROVE  ClaimWatched'
<1>1. ASSUME Unfailing, rec'.triagedBy # NoOne
      PROVE  \E q \in Procs : Watches(q)'
  <2>1. PICK q \in Procs : Watches(q)
    BY <1>1 DEF ClaimWatched
  <2>2. CASE q = p
    BY <1>1, <2>1, <2>2
  <2>3. CASE q # p
    BY <1>1, <2>1, <2>3 DEF Watches, Others, Unread, Follows
  <2>4. QED BY <2>2, <2>3
<1>2. QED BY <1>1 DEF ClaimWatched

\* Somebody is left to end the claim on the queue, or to hand it on.
LEMMA ClaimWatchedKept ==
  ASSUME IInv, [Next]_vars
  PROVE  ClaimWatched'
<1>0. TypeOK /\ ClaimWatched /\ Following /\ Shaped /\ Asking
  BY DEF IInv
<1>1. CASE UNCHANGED vars
  BY <1>0, <1>1 DEF ClaimWatched, Watches, Unread, Follows, vars
<1>2. ASSUME NEW m \in Messages, RouterQuietly(m)
      PROVE  ClaimWatched'
  BY <1>0, <1>2, RouterQuiet DEF ClaimWatched, Watches, Unread, Follows, Procs, Stands
<1>3. ASSUME NEW m \in Messages, Dispatch(m) PROVE ClaimWatched'
  <2>1. rec' = rec /\ Others(m) /\ m \in Procs /\ ~Watches(m)
    BY <1>0, <1>3, DispatchStep DEF Watches, Unread, Follows, Asking, Others, Procs
  <2>2. QED BY <1>0, <2>1, WatchedElsewhere
<1>4. ASSUME NEW m \in Messages, UndoClaim(m) PROVE ClaimWatched'
  <2>1. rec'.triagedBy = rec.triagedBy /\ Others(m) /\ m \in Procs /\ run[m].pc = "none"
    BY <1>0, <1>4, UndoClaimStep DEF Asking, Procs, HolderIs, RecIs
  <2>2. ~Watches(m)
    BY <2>1 DEF Watches, Unread, Follows
  <2>3. QED BY <1>0, <2>1, <2>2, WatchedElsewhere
<1>5. ASSUME TakeUpNotice PROVE ClaimWatched'
  <2>1. CASE run' = run
    BY <1>0, <1>5, <2>1, TakeUpNoticeStep DEF ClaimWatched, Watches, Unread, Follows
  <2>2. CASE run' # run
    <3>1. PICK r \in Readings : run[r].pc \in {"none", "over"} /\ Others(r)
      BY <1>0, <1>5, <2>2, TakeUpNoticeStep DEF Unused
    <3>2. r \in Procs /\ ~Watches(r)
      BY <3>1 DEF Watches, Unread, Follows, Procs
    <3>3. QED BY <1>0, <1>5, <3>1, <3>2, TakeUpNoticeStep, WatchedElsewhere
  <2>3. QED BY <2>1, <2>2
<1>6. ASSUME NEW p \in Procs, Checkpoint(p) PROVE ClaimWatched'
  <2>1. rec' = rec /\ Others(p) /\ ~Watches(p)
    BY <1>0, <1>6, CheckpointStep, Apart DEF Watches, Follows
  <2>2. QED BY <1>0, <2>1, WatchedElsewhere
<1>7. ASSUME NEW p \in Procs, ParkForReading(p) PROVE ClaimWatched'
  BY <1>0, <1>7, ParkForReadingStep, WatchedElsewhere
     DEF Watches, Unread, Follows, Procs, Others, Moved, RunIs, Delivered, RecIs
<1>8. ASSUME NEW p \in Procs, Fold(p) PROVE ClaimWatched'
  BY <1>0, <1>8, FoldStep, WatchedElsewhere
     DEF Watches, Unread, Follows, Procs, Others, RunIs, Delivered
<1>9. ASSUME NEW p \in Procs, DeliverParked(p) PROVE ClaimWatched'
  BY <1>0, <1>9, DeliverParkedStep, WatchedElsewhere
     DEF Watches, Unread, Follows, Procs, Others, Moved, RecIs, RunIs
<1>10. ASSUME NEW r \in Readings, ClaimQueueOnArrival(r) PROVE ClaimWatched'
  <2>1. /\ r \in Procs /\ run[r].pc = "claim" /\ Others(r) /\ ~Watches(r)
    BY <1>0, <1>10, ClaimQueueOnArrivalStep DEF Procs, Watches, Unread, Follows
  <2>2. CASE rec' = rec
    BY <1>0, <2>1, <2>2, WatchedElsewhere
  <2>3. CASE rec' # rec
    <3>1. rec'.triagedBy = r /\ run'[r].pc = "fetch"
      BY <1>0, <1>10, <2>3, ClaimQueueOnArrivalStep DEF ClaimIs, RecIs, Moved, RunIs
    <3>2. QED BY <2>1, <3>1 DEF ClaimWatched, Watches, Unread
  <2>4. QED BY <2>2, <2>3
<1>11. ASSUME NEW r \in Readings, StartReading(r) PROVE ClaimWatched'
  <2>1. r \in Procs /\ run[r].pc = "fetch" /\ run[r].other = NoOne /\ rec' = rec /\ Others(r)
    BY <1>0, <1>11, StartReadingStep DEF Shaped, RunShaped, Procs
  <2>2. run'[r].pc \in {"empty", "go", "giveup"} /\ run'[r].other = NoOne
    BY <1>0, <1>11, <2>1, StartReadingStep DEF Moved, RunIs
  <2>3. Watches(r) => Watches(r)'
    BY <2>1, <2>2 DEF Watches, Unread, Follows
  <2>4. QED BY <1>0, <2>1, <2>3, WatchedElsewhere
<1>12. ASSUME NEW r \in Readings, Look(r) PROVE ClaimWatched'
  <2>1. /\ r \in Procs /\ Others(r) /\ rec'.triagedBy = rec.triagedBy /\ ~run[r].closing
        /\ run[r].pc \in {"go", "still", "record"}
    BY <1>0, <1>12, LookStep DEF Shaped, RunShaped, Procs, RecIs
  <2>2. Unfailing => Unread(r)'
    BY <1>0, <1>12, <2>1, LookStep DEF Unfailing, Unread, ReadsOnce, FollowsThrough, Moved, RunIs
  <2>3. Unfailing => (Watches(r) => Watches(r)')
    BY <2>1, <2>2 DEF Watches, Follows
  <2>4. QED BY <1>0, <2>1, <2>3, WatchedElsewhere
<1>13. ASSUME NEW r \in Readings, StillRunning(r) PROVE ClaimWatched'
  <2>1. /\ r \in Procs /\ Others(r) /\ rec'.triagedBy = rec.triagedBy /\ ~run[r].closing
        /\ run[r].pc \in {"go", "still", "record"}
    BY <1>0, <1>13, StillRunningStep DEF Shaped, RunShaped, Procs, RecIs
  <2>2. Unread(r)'
    BY <1>0, <1>13, <2>1, StillRunningStep DEF Unread, ReadsOnce, FollowsThrough, Moved, RunIs
  <2>3. Unfailing => (Watches(r) => Watches(r)')
    BY <2>1, <2>2 DEF Watches, Follows
  <2>4. QED BY <1>0, <2>1, <2>3, WatchedElsewhere
<1>14. ASSUME NEW r \in Readings, RecordFollowUps(r) PROVE ClaimWatched'
  <2>1. /\ r \in Procs /\ Others(r) /\ rec'.triagedBy = rec.triagedBy /\ ~run[r].closing
        /\ run[r].pc \in {"go", "still", "record"}
    BY <1>0, <1>14, RecordFollowUpsStep DEF Shaped, RunShaped, Procs, RecIs
  <2>2. Unread(r)'
    BY <1>0, <1>14, <2>1, RecordFollowUpsStep DEF Unread, ReadsOnce, FollowsThrough, Moved, RunIs
  <2>3. Unfailing => (Watches(r) => Watches(r)')
    BY <2>1, <2>2 DEF Watches, Follows
  <2>4. QED BY <1>0, <2>1, <2>3, WatchedElsewhere
<1>15. ASSUME NEW r \in Readings, ResumeParked(r) PROVE ClaimWatched'
  BY <1>0, <1>15, ResumeParkedStep, WatchedElsewhere, AfterResumes
     DEF Watches, Unread, Follows, Procs, AfterResume, Others, Moved, RecIs, RunIs
<1>16. ASSUME NEW r \in Readings, InvokeResume(r) PROVE ClaimWatched'
  <2>1. /\ rec' = rec /\ run[r].pc = "invoke" /\ r \in Procs
        /\ rec.parked \in Messages /\ rec.parked \in Procs /\ run[rec.parked].pc = "parked"
        /\ \A q \in Procs \ {r, rec.parked} : run'[q] = run[q]
    BY <1>0, <1>16, InvokeResumeStep DEF Others, Procs
  <2>2. Moved(r, AfterResume(r)) \/ Moved(r, "abandon")
    BY <1>0, <1>16, InvokeResumeStep
  <2>3. Watches(r) => Watches(r)'
    BY <2>1, <2>2 DEF Watches, Unread, Follows, Moved, RunIs, AfterResume
  <2>4. ~Watches(rec.parked)
    BY <2>1, Apart DEF Watches, Follows
  <2>5. \A q \in Procs : Watches(q) => Watches(q)'
    BY <2>1, <2>3, <2>4 DEF Watches, Unread, Follows
  <2>6. QED BY <1>0, <2>1, <2>5 DEF ClaimWatched
<1>17. ASSUME NEW r \in Readings, AbandonResumed(r) PROVE ClaimWatched'
  <2>1. /\ run[r].pc = "abandon" /\ r \in Procs /\ rec'.triagedBy = rec.triagedBy
        /\ Moved(r, AfterResume(r)) /\ rec.parked \in Messages /\ rec.parked \in Procs
        /\ run[rec.parked].pc = "parked"
        /\ \A q \in Procs \ {r, rec.parked} : run'[q] = run[q]
    BY <1>17, AbandonResumedStep DEF Others, Procs, RecIs
  <2>2. Watches(r) => Watches(r)'
    BY <2>1 DEF Watches, Unread, Follows, Moved, RunIs, AfterResume
  <2>3. ~Watches(rec.parked)
    BY <2>1, Apart DEF Watches, Follows
  <2>4. \A q \in Procs : Watches(q) => Watches(q)'
    BY <2>1, <2>2, <2>3 DEF Watches, Unread, Follows
  <2>5. QED BY <1>0, <2>1, <2>4 DEF ClaimWatched
<1>18. ASSUME NEW r \in Readings, ClearQueueRead(r) PROVE ClaimWatched'
  <2>1. Others(r) /\ r \in Procs /\ run[r].pc = "clear"
    BY <1>0, <1>18, ClearQueueReadStep DEF Procs
  <2>2. \/ rec'.triagedBy = NoOne
        \/ rec' = rec /\ (rec.triagedBy # r \/ ~Unfailing)
    BY <1>0, <1>18, ClearQueueReadStep DEF RecIs, Unfailing
  <2>3. rec.triagedBy # r => ~Watches(r)
    BY <2>1 DEF Watches, Unread, Follows
  <2>4. QED BY <1>0, <2>1, <2>2, <2>3, WatchedElsewhere DEF ClaimWatched
<1>19. ASSUME NEW p \in Procs, ReadAtExit(p) PROVE ClaimWatched'
  BY <1>0, <1>19, ReadAtExitStep, WatchedElsewhere
     DEF Watches, Unread, Follows, Procs, Others, Moved, RunIs
<1>20. ASSUME NEW p \in Procs, ReturnFollowUps(p) PROVE ClaimWatched'
  BY <1>0, <1>20, ReturnFollowUpsStep, WatchedElsewhere
     DEF Watches, Unread, Follows, Procs, Others, RunIs, RecIs
<1>21. ASSUME NEW p \in Procs, ClaimFollowUp(p) PROVE ClaimWatched'
  <2>1. run[p].pc = "follow" /\ Others(p) /\ ~Watches(p)
    BY <1>0, <1>21, ClaimFollowUpStep DEF Watches, Unread, Follows
  <2>2. CASE rec' = rec
    BY <1>0, <2>1, <2>2, WatchedElsewhere
  <2>3. CASE rec' # rec
    <3>1. rec'.triagedBy = run'[p].other /\ run'[p].pc = "messages"
      BY <1>0, <1>21, <2>3, ClaimFollowUpStep DEF ClaimIs, RecIs, RunIs
    <3>2. QED BY <3>1 DEF ClaimWatched, Watches, Follows
  <2>4. QED BY <2>2, <2>3
<1>22. ASSUME NEW p \in Procs, YieldToReading(p) PROVE ClaimWatched'
  BY <1>0, <1>22, YieldToReadingStep, WatchedElsewhere
     DEF Watches, Unread, Follows, Procs, Others, Moved, IsOver, HolderIs, RunIs, RecIs
<1>23. ASSUME NEW p \in Procs, FetchFollowUp(p) PROVE ClaimWatched'
  BY <1>0, <1>23, FetchFollowUpStep, WatchedElsewhere
     DEF Watches, Unread, Follows, Procs, Others, Moved, RunIs
<1>24. ASSUME NEW p \in Procs, ClearEmptied(p) PROVE ClaimWatched'
  <2>1. run[p].pc = "empty" /\ Others(p)
    BY <1>0, <1>24, ClearEmptiedStep
  <2>2. \/ rec'.triagedBy = NoOne
        \/ rec' = rec /\ (rec.triagedBy # Claimed(p) \/ ~Unfailing)
    BY <1>0, <1>24, ClearEmptiedStep DEF RecIs, Unfailing
  <2>3. rec.triagedBy # Claimed(p) => ~Watches(p)
    BY <2>1, Apart DEF Watches, Unread, Follows, Claimed
  <2>4. QED BY <1>0, <2>1, <2>2, <2>3, WatchedElsewhere
<1>25. ASSUME NEW p \in Procs, HandOverToFollowUp(p) PROVE ClaimWatched'
  <2>1. /\ run[p].pc = "hand" /\ Others(p) /\ rec'.triagedBy = rec.triagedBy
        /\ run'[p].pc \in {"send", "giveup"} /\ run'[p].other = run[p].other
        /\ run[p].other # NoOne
    BY <1>0, <1>25, HandOverToFollowUpStep DEF HolderIs, RunIs, RecIs, Shaped, RunShaped
  <2>2. Watches(p) => Watches(p)'
    BY <2>1 DEF Watches, Unread, Follows
  <2>3. QED BY <1>0, <2>1, <2>2, WatchedElsewhere
<1>26. ASSUME NEW p \in Procs, DispatchFollowUp(p) PROVE ClaimWatched'
  <2>1. /\ run[p].pc = "send" /\ rec' = rec /\ Follows(p)
        /\ run[p].other \in Readings \ {p} /\ run[p].other \in Procs
        /\ rec.triagedBy = run[p].other
    BY <1>0, <1>26, DispatchFollowUpStep DEF Follows, Following, Procs
  <2>2. CASE Others(p) /\ Moved(p, "free")
    BY <1>0, <2>1, <2>2, WatchedElsewhere DEF Watches, Unread, Follows, Moved, RunIs
  <2>3. CASE run'[run[p].other].pc = "go"
    BY <2>1, <2>3 DEF ClaimWatched, Watches, Unread
  <2>4. QED BY <1>0, <1>26, <2>2, <2>3, DispatchFollowUpStep DEF RunIs
<1>27. ASSUME NEW p \in Procs, FreeFollowUp(p) PROVE ClaimWatched'
  <2>1. PICK c \in Readings : c = run[p].other /\ c # p /\ run[c].pc \in {"none", "over"}
    BY <1>0, <1>27, FreeFollowUpStep
  <2>2. /\ run[p].pc = "free" /\ Moved(p, "giveup") /\ rec'.triagedBy = rec.triagedBy
        /\ c \in Procs /\ c # NoOne /\ \A q \in Procs \ {p, c} : run'[q] = run[q]
    BY <1>0, <1>27, <2>1, FreeFollowUpStep, Apart DEF Others, Procs, HolderIs, RecIs
  <2>3. Watches(p) => Watches(p)'
    BY <2>1, <2>2 DEF Watches, Unread, Follows, Moved, RunIs
  <2>4. ~Watches(c)
    BY <2>1 DEF Watches, Unread, Follows
  <2>5. \A q \in Procs : Watches(q) => Watches(q)'
    BY <2>2, <2>3, <2>4 DEF Watches, Unread, Follows
  <2>6. QED BY <1>0, <2>2, <2>5 DEF ClaimWatched
<1>28. ASSUME NEW p \in Procs, GiveUpClaim(p) PROVE ClaimWatched'
  <2>1. CASE "giveup" \in Faults
    BY <2>1 DEF ClaimWatched, Unfailing
  <2>2. CASE "giveup" \notin Faults
    <3>1. run[p].pc = "giveup" /\ Others(p)
      BY <1>0, <1>28, <2>2, GiveUpClaimStep
    <3>2. \/ rec'.triagedBy = NoOne
          \/ rec'.triagedBy = rec.triagedBy /\ rec.triagedBy # Claimed(p)
      BY <1>0, <1>28, <2>2, GiveUpClaimStep DEF ClaimIs, RecIs
    <3>3. rec.triagedBy # Claimed(p) => ~Watches(p)
      BY <3>1, Apart DEF Watches, Unread, Follows, Claimed
    <3>4. QED BY <1>0, <3>1, <3>2, <3>3, WatchedElsewhere
  <2>3. QED BY <2>1, <2>2
<1>29. ASSUME NEW p \in Procs, ReleaseAtExit(p) PROVE ClaimWatched'
  BY <1>0, <1>29, ReleaseAtExitStep, WatchedElsewhere
     DEF Watches, Unread, Follows, Procs, Others, Moved, IsOver, HolderIs, RunIs, RecIs
<1>30. ASSUME NEW p \in Procs, Die(p) PROVE ClaimWatched'
  <2>1. "kill" \in Faults
    BY <1>0, <1>30, DieStep
  <2>2. QED BY <2>1 DEF ClaimWatched, Unfailing
<1>31. ASSUME NEW m \in Messages, ClaimTurnFor(m) \/ RouterStep(m) \/ Redact(m) PROVE ClaimWatched'
  BY <1>31, <1>3, <1>4, <1>2
     DEF RouterStep, RouterQuietly
<1>32. ASSUME NEW r \in Readings, ReadingStep(r) PROVE ClaimWatched'
  BY <1>32, <1>10, <1>11, <1>12, <1>13, <1>14, <1>15, <1>16, <1>17, <1>18
     DEF ReadingStep
<1>33. ASSUME NEW p \in Procs, AnswerStep(p) \/ ExitStep(p) PROVE ClaimWatched'
  BY <1>33, <1>6, <1>7, <1>8, <1>9, <1>19, <1>20, <1>21, <1>22, <1>23, <1>24, <1>25, <1>26, <1>27,
     <1>28, <1>29
     DEF AnswerStep, ExitStep
<1>34. QED BY <1>1, <1>5, <1>30, <1>31, <1>32, <1>33 DEF Next

\* Where one run goes on, as RunJudged wants it.
LEMMA JudgedBeside ==
  ASSUME FollowUpsJudged, NEW p \in Procs, LeftOrDead(p), RunJudged(p)',
         judged \subseteq judged', redacted \subseteq redacted', rec'.amendments \subseteq judged',
         tail' = tail \/ \A m \in Messages : tail'[m].take \subseteq judged'
  PROVE  FollowUpsJudged'
<1>1. ASSUME NEW q \in Procs \ {p} PROVE RunJudged(q)'
  <2>1. RunJudged(q)
    BY DEF FollowUpsJudged
  <2>2. CASE run'[q] = run[q]
    BY <2>1, <2>2 DEF RunJudged
  <2>3. CASE Moved(q, "dead")
    BY <2>1, <2>3 DEF RunJudged, Moved, RunIs
  <2>4. QED BY <2>2, <2>3 DEF LeftOrDead
<1>2. \A m \in Messages : tail'[m].take \subseteq judged'
  BY DEF FollowUpsJudged
<1>3. QED BY <1>1, <1>2 DEF FollowUpsJudged

LEMMA JudgedElsewhere ==
  ASSUME FollowUpsJudged, NEW p \in Procs, Others(p), RunJudged(p)',
         judged \subseteq judged', redacted \subseteq redacted', rec'.amendments \subseteq judged',
         tail' = tail \/ \A m \in Messages : tail'[m].take \subseteq judged'
  PROVE  FollowUpsJudged'
BY OthersLeft, JudgedBeside

\* A run that is over amends with nothing.
LEMMA OverJudged ==
  ASSUME NEW p \in Procs, IsOver(p) PROVE RunJudged(p)'
BY DEF IsOver, RunIs, RunJudged

\* What amends an answer, or is recorded to, was judged a follow-up.
LEMMA FollowUpsJudgedKept ==
  ASSUME IInv, [Next]_vars
  PROVE  FollowUpsJudged'
<1>0. TypeOK /\ FollowUpsJudged /\ Shaped /\ Asking /\ Following
  BY DEF IInv
<1>1. CASE UNCHANGED vars
  BY <1>0, <1>1 DEF FollowUpsJudged, RunJudged, vars, ledger
<1>2. ASSUME NEW m \in Messages, ClaimTurnFor(m) PROVE FollowUpsJudged'
  BY <1>0, <1>2, ClaimTurnForStep DEF FollowUpsJudged, RunJudged, HolderIs, RecIs, LedgerSame
<1>3. ASSUME NEW m \in Messages, ReadHolder(m) PROVE FollowUpsJudged'
  BY <1>0, <1>3, ReadHolderStep DEF FollowUpsJudged, RunJudged, LedgerSame
<1>4. ASSUME NEW m \in Messages, Dispatch(m) PROVE FollowUpsJudged'
  <2>1. CASE run' = run
    BY <1>0, <1>4, <2>1, DispatchStep DEF FollowUpsJudged, RunJudged, LedgerSame
  <2>2. CASE run' # run
    BY <1>0, <1>4, <2>2, DispatchStep, JudgedElsewhere, Apart
       DEF FollowUpsJudged, RunJudged, Procs, Moved, RunIs, LedgerSame
  <2>3. QED BY <2>1, <2>2
<1>5. ASSUME NEW m \in Messages, UndoClaim(m) PROVE FollowUpsJudged'
  <2>1. m \in Procs /\ judged' = judged /\ redacted' = redacted
    BY <1>0, <1>5, UndoClaimStep DEF Procs
  <2>2. RunJudged(m)'
    <3>1. CASE IsOver(m)
      BY <2>1, <3>1, OverJudged
    <3>2. CASE Moved(m, "dead")
      BY <1>0, <2>1, <3>2, Apart DEF FollowUpsJudged, RunJudged, Moved, RunIs
    <3>3. QED BY <1>0, <1>5, <3>1, <3>2, UndoClaimStep
  <2>3. QED BY <1>0, <1>5, <2>1, <2>2, UndoClaimStep, JudgedElsewhere
               DEF FollowUpsJudged, HolderIs, RecIs
<1>6. ASSUME NEW m \in Messages, EnqueueMessage(m) PROVE FollowUpsJudged'
  <2>1. CASE run' = run
    BY <1>0, <1>6, <2>1, EnqueueMessageStep DEF FollowUpsJudged, RunJudged, QueueIs, RecIs
  <2>2. CASE run' # run
    <3>1. m \in Procs /\ run[m].pc = "none" /\ m \notin Readings
      BY <1>0, <1>6, EnqueueMessageStep, Apart DEF Asking, Procs
    <3>2. QED BY <1>0, <1>6, <2>2, <3>1, EnqueueMessageStep, JudgedElsewhere
                 DEF FollowUpsJudged, RunJudged, QueueIs, RecIs, RunIs
  <2>3. QED BY <2>1, <2>2
<1>7. ASSUME NEW m \in Messages, TrimQueue(m) PROVE FollowUpsJudged'
  BY <1>0, <1>7, TrimQueueStep DEF FollowUpsJudged, RunJudged, QueueIs, RecIs
<1>8. ASSUME NEW m \in Messages, PostNotice(m) PROVE FollowUpsJudged'
  <2>1. m \in Procs /\ run[m].pc = "none" /\ m \notin Readings
    BY <1>0, <1>8, PostNoticeStep, Apart DEF Asking, Procs
  <2>2. QED BY <1>0, <1>8, <2>1, PostNoticeStep, JudgedElsewhere
               DEF FollowUpsJudged, RunJudged, RunIs, LedgerSame
<1>9. ASSUME NEW m \in Messages, ClearFolded(m) PROVE FollowUpsJudged'
  BY <1>0, <1>9, ClearFoldedStep DEF FollowUpsJudged, RunJudged, RecIs, LedgerSame
<1>10. ASSUME NEW m \in Messages, TakeFolded(m) PROVE FollowUpsJudged'
  BY <1>0, <1>10, TakeFoldedStep DEF FollowUpsJudged, RunJudged, QueueIs, RecIs, LedgerSame
<1>11. ASSUME NEW m \in Messages, Redact(m) PROVE FollowUpsJudged'
  <2>1. /\ rec' = rec /\ run' = run /\ tail' = tail /\ judged' = judged
        /\ redacted \subseteq redacted'
    BY <1>0, <1>11, RedactStep
  <2>2. QED BY <1>0, <2>1 DEF FollowUpsJudged, RunJudged
<1>12. ASSUME TakeUpNotice PROVE FollowUpsJudged'
  <2>1. CASE run' = run
    BY <1>0, <1>12, <2>1, TakeUpNoticeStep DEF FollowUpsJudged, RunJudged, LedgerSame
  <2>2. CASE run' # run
    <3>1. PICK r \in Readings : Others(r) /\ run'[r].pc = "claim" /\ run'[r].amend = {}
      BY <1>0, <1>12, <2>2, TakeUpNoticeStep DEF RunIs
    <3>2. RunJudged(r)' /\ r \in Procs
      BY <3>1, Apart DEF RunJudged, Procs
    <3>3. QED BY <1>0, <1>12, <3>1, <3>2, TakeUpNoticeStep, JudgedElsewhere
                 DEF FollowUpsJudged, LedgerSame
  <2>3. QED BY <2>1, <2>2
<1>13. ASSUME NEW p \in Procs, Checkpoint(p) PROVE FollowUpsJudged'
  BY <1>0, <1>13, CheckpointStep, JudgedElsewhere, Apart
     DEF FollowUpsJudged, RunJudged, Procs, Others, RunIs, Delivered
<1>14. ASSUME NEW p \in Procs, ParkForReading(p) PROVE FollowUpsJudged'
  BY <1>0, <1>14, ParkForReadingStep, JudgedElsewhere, Apart
     DEF FollowUpsJudged, RunJudged, Procs, Others, Moved, RunIs, Delivered, RecIs
<1>15. ASSUME NEW p \in Procs, Fold(p) PROVE FollowUpsJudged'
  <2>0. /\ p \in Messages /\ p \notin Readings /\ judged' = judged
        /\ run[p].amend \subseteq judged /\ p \in run[p].ids /\ run[p].ids \subseteq judged \cup {p}
    BY <1>0, <1>15, FoldStep, Apart DEF FollowUpsJudged, RunJudged
  <2>1. RunJudged(p)'
    <3>1. CASE Delivered(p)
      BY <2>0, <3>1 DEF RunJudged, RunIs, Delivered
    <3>2. CASE /\ run'[p].pc = "none" /\ run'[p].ids = run[p].ids \cup (run[p].amend \ redacted)
               /\ run'[p].amend = {}
      BY <2>0, <3>2 DEF RunJudged
    <3>3. QED BY <1>0, <1>15, <3>1, <3>2, FoldStep DEF RunIs
  <2>2. tail' = tail \/ \A m \in Messages : tail'[m].take \subseteq judged'
    <3>1. run[p].amend \subseteq judged
      BY <1>0, <1>15, FoldStep DEF FollowUpsJudged, RunJudged
    <3>2. QED BY <1>0, <1>15, <3>1, FoldStep DEF FollowUpsJudged
  <2>3. QED BY <1>0, <1>15, <2>1, <2>2, FoldStep, JudgedElsewhere DEF FollowUpsJudged
<1>16. ASSUME NEW p \in Procs, DeliverParked(p) PROVE FollowUpsJudged'
  BY <1>0, <1>16, DeliverParkedStep, JudgedElsewhere, Apart
     DEF FollowUpsJudged, RunJudged, Procs, Others, Moved, RecIs, LedgerSame, RunIs
<1>17. ASSUME NEW r \in Readings, ClaimQueueOnArrival(r) PROVE FollowUpsJudged'
  <2>1. RunJudged(r)'
    BY <1>0, <1>17, ClaimQueueOnArrivalStep, OverJudged, Apart
       DEF FollowUpsJudged, RunJudged, Procs, Moved, RunIs
  <2>2. QED BY <1>0, <1>17, <2>1, ClaimQueueOnArrivalStep, JudgedElsewhere
               DEF FollowUpsJudged, Procs, ClaimIs, RecIs, LedgerSame
<1>18. ASSUME NEW r \in Readings, StartReading(r) PROVE FollowUpsJudged'
  BY <1>0, <1>18, StartReadingStep, JudgedElsewhere, Apart
     DEF FollowUpsJudged, RunJudged, Procs, Others, Moved, RunIs, LedgerSame
<1>19. ASSUME NEW r \in Readings, Look(r) PROVE FollowUpsJudged'
  <2>1. r \in Procs /\ r \notin Messages /\ run[r].amend = {}
    BY <1>0, <1>19, LookStep, Apart DEF FollowUpsJudged, RunJudged, Procs
  <2>2. RunJudged(r)'
    BY <1>0, <1>19, <2>1, LookStep DEF RunJudged, ReadsOnce, FollowsThrough, RunIs
  <2>3. QED BY <1>0, <1>19, <2>1, <2>2, LookStep, JudgedElsewhere DEF FollowUpsJudged, LedgerSame
<1>20. ASSUME NEW r \in Readings, StillRunning(r) PROVE FollowUpsJudged'
  BY <1>0, <1>20, StillRunningStep, JudgedElsewhere, Apart
     DEF FollowUpsJudged, RunJudged, Procs, Others, Moved, RunIs, ReadsOnce, LedgerSame
<1>21. ASSUME NEW r \in Readings, RecordFollowUps(r) PROVE FollowUpsJudged'
  <2>1. r \in Procs /\ r \notin Messages
    BY Apart DEF Procs
  <2>2. RunJudged(r)'
    BY <1>0, <1>21, <2>1, RecordFollowUpsStep DEF RunJudged, ReadsOnce, FollowsThrough, RunIs
  <2>3. rec'.amendments \subseteq judged'
    BY <1>0, <1>21, RecordFollowUpsStep DEF FollowUpsJudged, RecIs
  <2>4. QED BY <1>0, <1>21, <2>1, <2>2, <2>3, RecordFollowUpsStep, JudgedElsewhere
<1>22. ASSUME NEW r \in Readings, ResumeParked(r) PROVE FollowUpsJudged'
  BY <1>0, <1>22, ResumeParkedStep, JudgedElsewhere, AfterResumes, Apart
     DEF FollowUpsJudged, RunJudged, Procs, Others, Moved, RecIs, LedgerSame, RunIs
<1>23. ASSUME NEW r \in Readings, InvokeResume(r) PROVE FollowUpsJudged'
  <2>1. /\ rec' = rec /\ tail' = tail /\ LedgerSame /\ r \in Procs /\ run[r].pc = "invoke"
        /\ rec.parked \in Procs /\ rec.parked \in Messages /\ r \notin Messages
        /\ \A q \in Procs \ {r, rec.parked} : run'[q] = run[q]
    BY <1>0, <1>23, InvokeResumeStep, Apart DEF Others, Procs
  <2>2. RunJudged(r)'
    BY <1>0, <1>23, <2>1, InvokeResumeStep, AfterResumes
       DEF FollowUpsJudged, RunJudged, Moved, RunIs, LedgerSame
  <2>3. RunJudged(rec.parked)'
    BY <1>0, <1>23, <2>1, InvokeResumeStep, Apart
       DEF FollowUpsJudged, RunJudged, Others, Moved, RunIs, LedgerSame
  <2>4. \A q \in Procs : RunJudged(q)'
    BY <1>0, <2>1, <2>2, <2>3 DEF FollowUpsJudged, RunJudged, LedgerSame
  <2>5. QED BY <1>0, <2>1, <2>4 DEF FollowUpsJudged, LedgerSame
<1>24. ASSUME NEW r \in Readings, AbandonResumed(r) PROVE FollowUpsJudged'
  <2>1. /\ r \in Procs /\ r \notin Messages /\ run[r].pc = "abandon" /\ tail' = tail /\ LedgerSame
        /\ Moved(r, AfterResume(r)) /\ AfterResume(r) \in {"exit", "clear"}
        /\ rec'.amendments = rec.amendments
    BY <1>0, <1>24, AbandonResumedStep, AfterResumes, Apart DEF Procs, RecIs
  <2>2. RunJudged(r)'
    BY <1>0, <2>1 DEF FollowUpsJudged, RunJudged, Moved, RunIs, LedgerSame
  <2>3. LeftOrDead(r)
    BY <1>0, <1>24, AbandonResumedStep DEF LeftOrDead, Others
  <2>4. QED BY <1>0, <2>1, <2>2, <2>3, JudgedBeside DEF FollowUpsJudged, LedgerSame
<1>25. ASSUME NEW r \in Readings, ClearQueueRead(r) PROVE FollowUpsJudged'
  BY <1>0, <1>25, ClearQueueReadStep, JudgedElsewhere, Apart
     DEF FollowUpsJudged, RunJudged, Procs, Others, RunIs, RecIs
<1>26. ASSUME NEW p \in Procs, ReadAtExit(p) PROVE FollowUpsJudged'
  BY <1>0, <1>26, ReadAtExitStep, JudgedElsewhere
     DEF FollowUpsJudged, RunJudged, Procs, Others, Moved, RunIs, LedgerSame
<1>27. ASSUME NEW p \in Procs, ReturnFollowUps(p) PROVE FollowUpsJudged'
  BY <1>0, <1>27, ReturnFollowUpsStep, JudgedElsewhere
     DEF FollowUpsJudged, RunJudged, Procs, Others, RunIs, RecIs, LedgerSame
<1>28. ASSUME NEW p \in Procs, ClaimFollowUp(p) PROVE FollowUpsJudged'
  BY <1>0, <1>28, ClaimFollowUpStep, JudgedElsewhere
     DEF FollowUpsJudged, RunJudged, Procs, Others, Moved, RunIs, ClaimIs, LedgerSame, RecIs
<1>29. ASSUME NEW p \in Procs, YieldToReading(p) PROVE FollowUpsJudged'
  <2>1. RunJudged(p)'
    BY <1>0, <1>29, YieldToReadingStep, OverJudged
       DEF FollowUpsJudged, RunJudged, Moved, RunIs, LedgerSame
  <2>2. QED BY <1>0, <1>29, <2>1, YieldToReadingStep, JudgedElsewhere
               DEF FollowUpsJudged, HolderIs, RecIs, LedgerSame
<1>30. ASSUME NEW p \in Procs, FetchFollowUp(p) PROVE FollowUpsJudged'
  BY <1>0, <1>30, FetchFollowUpStep, JudgedElsewhere
     DEF FollowUpsJudged, RunJudged, Procs, Others, Moved, LedgerSame, RunIs
<1>31. ASSUME NEW p \in Procs, ClearEmptied(p) PROVE FollowUpsJudged'
  BY <1>0, <1>31, ClearEmptiedStep, JudgedElsewhere
     DEF FollowUpsJudged, RunJudged, Procs, Others, Moved, RecIs, LedgerSame, RunIs
<1>32. ASSUME NEW p \in Procs, HandOverToFollowUp(p) PROVE FollowUpsJudged'
  BY <1>0, <1>32, HandOverToFollowUpStep, JudgedElsewhere
     DEF FollowUpsJudged, RunJudged, Procs, Others, RunIs, HolderIs, LedgerSame, RecIs
<1>33. ASSUME NEW p \in Procs, DispatchFollowUp(p) PROVE FollowUpsJudged'
  <2>1. PICK c \in Readings : c = run[p].other /\ c # p /\ c \in Procs /\ c \notin Messages
    BY <1>0, <1>33, DispatchFollowUpStep, Apart DEF Procs
  <2>2. rec' = rec /\ tail' = tail /\ LedgerSame /\ run[p].pc = "send"
    BY <1>0, <1>33, DispatchFollowUpStep
  <2>3. CASE Others(p) /\ Moved(p, "free")
    BY <1>0, <2>2, <2>3, JudgedElsewhere DEF FollowUpsJudged, RunJudged, Moved, RunIs, LedgerSame
  <2>4. CASE /\ IsOver(p) /\ \A q \in Procs \ {p, c} : run'[q] = run[q]
             /\ run'[c].pc = "go" /\ run'[c].amend = {}
    <3>1. RunJudged(p)'
      BY <2>4, OverJudged
    <3>2. RunJudged(c)'
      BY <2>1, <2>4 DEF RunJudged
    <3>3. \A q \in Procs : RunJudged(q)'
      BY <1>0, <2>2, <2>4, <3>1, <3>2 DEF FollowUpsJudged, RunJudged, LedgerSame
    <3>4. QED BY <1>0, <2>2, <3>3 DEF FollowUpsJudged, LedgerSame
  <2>5. QED BY <1>0, <1>33, <2>1, <2>3, <2>4, DispatchFollowUpStep DEF RunIs
<1>34. ASSUME NEW p \in Procs, FreeFollowUp(p) PROVE FollowUpsJudged'
  <2>1. /\ tail' = tail /\ LedgerSame /\ run[p].pc = "free" /\ Moved(p, "giveup")
        /\ rec'.amendments = rec.amendments
    BY <1>0, <1>34, FreeFollowUpStep DEF HolderIs, RecIs
  <2>2. RunJudged(p)'
    BY <1>0, <2>1 DEF FollowUpsJudged, RunJudged, Moved, RunIs, LedgerSame
  <2>3. LeftOrDead(p)
    BY <1>0, <1>34, FreeFollowUpStep DEF LeftOrDead, Others
  <2>4. QED BY <1>0, <2>1, <2>2, <2>3, JudgedBeside DEF FollowUpsJudged, LedgerSame
<1>35. ASSUME NEW p \in Procs, GiveUpClaim(p) PROVE FollowUpsJudged'
  <2>1. /\ tail' = tail /\ LedgerSame /\ run[p].pc = "giveup"
        /\ IsOver(p) \/ GoesOn(p) \/ Moved(p, "dead")
        /\ rec'.amendments = rec.amendments
    BY <1>0, <1>35, GiveUpClaimStep DEF ClaimIs, RecIs
  <2>2. RunJudged(p)'
    <3>1. CASE IsOver(p)
      BY <3>1, OverJudged
    <3>2. CASE GoesOn(p) \/ Moved(p, "dead")
      BY <1>0, <2>1, <3>2 DEF FollowUpsJudged, RunJudged, GoesOn, Moved, RunIs, LedgerSame
    <3>3. QED BY <2>1, <3>1, <3>2
  <2>3. LeftOrDead(p)
    BY <1>0, <1>35, GiveUpClaimStep DEF LeftOrDead, Others
  <2>4. QED BY <1>0, <2>1, <2>2, <2>3, JudgedBeside DEF FollowUpsJudged, LedgerSame
<1>36. ASSUME NEW p \in Procs, ReleaseAtExit(p) PROVE FollowUpsJudged'
  <2>1. RunJudged(p)'
    BY <1>0, <1>36, ReleaseAtExitStep, OverJudged
       DEF FollowUpsJudged, RunJudged, Moved, RunIs, LedgerSame
  <2>2. QED BY <1>0, <1>36, <2>1, ReleaseAtExitStep, JudgedElsewhere
               DEF FollowUpsJudged, HolderIs, RecIs, LedgerSame
<1>37. ASSUME NEW p \in Procs, Die(p) PROVE FollowUpsJudged'
  <2>1. rec' = rec /\ tail' = tail /\ LedgerSame
    BY <1>0, <1>37, DieStep
  <2>2. \A q \in Procs : \/ run'[q] = run[q]
                         \/ /\ run'[q].pc = "dead" /\ run'[q].ids = run[q].ids
                            /\ run'[q].amend = run[q].amend
    BY <1>0, <1>37, DieStep DEF Moved, RunIs
  <2>3. \A q \in Procs : RunJudged(q)'
    BY <1>0, <2>1, <2>2 DEF FollowUpsJudged, RunJudged, LedgerSame
  <2>4. QED BY <1>0, <2>1, <2>3 DEF FollowUpsJudged, LedgerSame
<1>38. ASSUME NEW m \in Messages, ClaimTurnFor(m) \/ RouterStep(m) \/ Redact(m) PROVE FollowUpsJudged'
  BY <1>38, <1>2, <1>3, <1>4, <1>5, <1>6, <1>7, <1>8, <1>9, <1>10, <1>11
     DEF RouterStep
<1>39. ASSUME NEW r \in Readings, ReadingStep(r) PROVE FollowUpsJudged'
  BY <1>39, <1>17, <1>18, <1>19, <1>20, <1>21, <1>22, <1>23, <1>24, <1>25
     DEF ReadingStep
<1>40. ASSUME NEW p \in Procs, AnswerStep(p) \/ ExitStep(p) PROVE FollowUpsJudged'
  BY <1>40, <1>13, <1>14, <1>15, <1>16, <1>26, <1>27, <1>28, <1>29, <1>30, <1>31, <1>32, <1>33,
     <1>34, <1>35, <1>36
     DEF AnswerStep, ExitStep
<1>41. QED BY <1>1, <1>12, <1>37, <1>38, <1>39, <1>40 DEF Next

(* What is counted stays counted, and what is settled stays settled.        *)
Grows ==
    /\ judged \subseteq judged' /\ told \subseteq told' /\ redacted \subseteq redacted'
    /\ \A m \in Messages : /\ answered[m] > 0 => answered'[m] > 0
                           /\ tasked[m] > 0 => tasked'[m] > 0

(* A message is off the queue only as judged, told, redacted or made a task. *)
Settled(m) == m \in judged' \cup told' \cup redacted' \/ tasked'[m] > 0

LEMMA SameGrows ==
  ASSUME LedgerSame PROVE Grows
BY DEF LedgerSame, Grows

LEMMA CountGrows ==
  ASSUME NEW f \in [Messages -> 0..2], NEW ids
  PROVE  \A m \in Messages : /\ f[m] > 0 => Count(f, ids)[m] > 0
                             /\ m \in ids => Count(f, ids)[m] > 0
<1>1. \A m \in Messages : f[m] \in 0..2 /\ Count(f, ids)[m] \in 0..2
  BY Counting
<1>2. \A m \in Messages : Count(f, ids)[m] >= f[m] /\ (m \in ids => Count(f, ids)[m] > 0)
  BY Counting
<1>3. QED BY <1>1, <1>2

\* An answer delivered counts for the messages of its run.
LEMMA DeliveredCounts ==
  ASSUME TypeOK, FollowUpsJudged, NEW p \in Procs, p \in Messages, Delivered(p), judged' = judged,
         told' = told, redacted' = redacted, tasked' = tasked
  PROVE  Grows /\ answered'[p] > 0 /\ run'[p].pc = "exit"
<1>1. p \in run[p].ids /\ answered \in [Messages -> 0..2]
  BY DEF FollowUpsJudged, RunJudged, TypeOK
<1>2. answered' = Count(answered, run[p].ids) /\ run'[p].pc = "exit"
  BY DEF Delivered, RunIs
<1>3. \A m \in Messages : /\ answered[m] > 0 => answered'[m] > 0
                          /\ m \in run[p].ids => answered'[m] > 0
  BY <1>1, <1>2, CountGrows
<1>4. QED BY <1>1, <1>2, <1>3 DEF Grows

(* No other answer is touched.                                              *)
MessagesLeft(p) == \A m \in Messages : m # p => run'[m] = run[m]

LEMMA OthersAside == ASSUME NEW p, Others(p) PROVE MessagesLeft(p)
BY DEF Others, MessagesLeft, Procs

\* Where one answer at most goes on, and ends only with its message answered.
LEMMA RequestsBeside ==
  ASSUME Requests, NEW p \in Procs, MessagesLeft(p), ask' = ask, Grows,
         \A m \in rec.queued \ rec'.queued : Settled(m),
         p \in Messages /\ run'[p].pc \in ExitPcs => answered'[p] > 0,
         p \in Messages /\ run'[p].pc \in {"none", "over"} =>
            run[p].pc \in {"none", "over"} \/ answered'[p] > 0
  PROVE  Requests'
<1>1. ASSUME NEW m \in Messages, run'[m].pc \in ExitPcs PROVE answered'[m] > 0
  <2>1. CASE m = p
    BY <1>1, <2>1
  <2>2. CASE m # p
    BY <1>1, <2>2 DEF Requests, MessagesLeft, Grows
  <2>3. QED BY <2>1, <2>2
<1>2. ASSUME NEW m \in Messages, m \notin judged', ask'[m] \in {"trim", "notice", "done"},
             m \notin rec'.queued \cup told' \cup redacted', ~(tasked'[m] > 0)
      PROVE  answered'[m] > 0 \/ run'[m].pc \notin {"none", "over"}
  <2>1. m \notin rec.queued
    BY <1>2 DEF Settled
  <2>2. m \notin judged \cup told \cup redacted /\ ~(tasked[m] > 0)
    BY <1>2 DEF Grows
  <2>3. answered[m] > 0 \/ run[m].pc \notin {"none", "over"}
    BY <1>2, <2>1, <2>2 DEF Requests
  <2>4. CASE m = p
    BY <2>3, <2>4 DEF Grows
  <2>5. CASE m # p
    BY <2>3, <2>5 DEF Grows, MessagesLeft
  <2>6. QED BY <2>4, <2>5
<1>3. QED BY <1>1, <1>2 DEF Requests

LEMMA RequestsElsewhere ==
  ASSUME Requests, NEW p \in Procs, Others(p), ask' = ask, Grows,
         \A m \in rec.queued \ rec'.queued : Settled(m),
         p \in Messages /\ run'[p].pc \in ExitPcs => answered'[p] > 0,
         p \in Messages /\ run'[p].pc \in {"none", "over"} =>
            run[p].pc \in {"none", "over"} \/ answered'[p] > 0
  PROVE  Requests'
<1>1. MessagesLeft(p)
  BY OthersAside
<1>2. QED BY <1>1, RequestsBeside

\* What the router does to one message, no run being at its end.
LEMMA RequestsAsked ==
  ASSUME Requests, NEW m \in Messages, NEW pcs, AskGoes(m, pcs), Grows,
         \A o \in rec.queued \ rec'.queued : Settled(o),
         \A o \in Messages : run'[o].pc = run[o].pc \/ (o = m /\ run'[o].pc \notin ExitPcs),
         ask'[m] \in {"trim", "notice", "done"} =>
            \/ m \in rec'.queued \cup told' \cup judged' \/ run'[m].pc \notin {"none", "over"}
            \/ run'[m].pc = run[m].pc /\ ask[m] \in {"trim", "notice", "done"}
  PROVE  Requests'
<1>1. ASSUME NEW o \in Messages, run'[o].pc \in ExitPcs PROVE answered'[o] > 0
  BY <1>1 DEF Requests, Grows
<1>2. ASSUME NEW o \in Messages, o \notin judged', ask'[o] \in {"trim", "notice", "done"},
             o \notin rec'.queued \cup told' \cup redacted', ~(tasked'[o] > 0)
      PROVE  answered'[o] > 0 \/ run'[o].pc \notin {"none", "over"}
  <2>1. o \notin rec.queued
    BY <1>2 DEF Settled
  <2>2. o \notin judged \cup told \cup redacted /\ ~(tasked[o] > 0)
    BY <1>2 DEF Grows
  <2>3. CASE ask[o] \in {"trim", "notice", "done"} /\ run'[o].pc = run[o].pc
    BY <1>2, <2>1, <2>2, <2>3 DEF Requests, Grows
  <2>4. CASE o = m
    BY <1>2, <2>3, <2>4
  <2>5. CASE o # m
    BY <1>2, <2>3, <2>5 DEF AskGoes
  <2>6. QED BY <2>4, <2>5
<1>3. QED BY <1>1, <1>2 DEF Requests

\* A run at its end has its message answered, wherever it goes on to.
LEMMA EndingRequests ==
  ASSUME Requests, NEW p \in Procs, MessagesLeft(p), ask' = ask, Grows, run[p].pc \in ExitPcs,
         \A m \in rec.queued \ rec'.queued : Settled(m)
  PROVE  Requests'
<1>1. p \in Messages => answered'[p] > 0
  BY DEF Requests, Grows
<1>2. QED BY <1>1, RequestsBeside

\* A message of its own is waiting, done with, or has a run.
LEMMA RequestsKept ==
  ASSUME IInv, [Next]_vars
  PROVE  Requests'
<1>0. TypeOK /\ Requests /\ FollowUpsJudged /\ Shaped /\ Asking /\ Following
  BY DEF IInv
<1>1. CASE UNCHANGED vars
  BY <1>0, <1>1 DEF Requests, vars, ledger
<1>2. ASSUME NEW m \in Messages, ClaimTurnFor(m) PROVE Requests'
  <2>1. /\ run' = run /\ LedgerSame /\ rec'.queued = rec.queued /\ AskGoes(m, {"claimed", "read"})
    BY <1>0, <1>2, ClaimTurnForStep DEF HolderIs, RecIs, AskGoes
  <2>2. QED BY <1>0, <2>1, SameGrows, RequestsAsked DEF AskGoes
<1>3. ASSUME NEW m \in Messages, ReadHolder(m) PROVE Requests'
  BY <1>0, <1>3, ReadHolderStep, SameGrows, RequestsAsked DEF AskGoes
<1>4. ASSUME NEW m \in Messages, Dispatch(m) PROVE Requests'
  <2>1. rec' = rec /\ LedgerSame /\ \A o \in Messages \ {m} : run'[o] = run[o]
    BY <1>0, <1>4, DispatchStep DEF Others, Procs
  <2>2. CASE AskGoes(m, {"done"}) /\ run'[m].pc = "go"
    BY <1>0, <2>1, <2>2, SameGrows, RequestsAsked DEF ExitPcs
  <2>3. CASE AskGoes(m, {"undo"}) /\ run' = run
    BY <1>0, <2>1, <2>3, SameGrows, RequestsAsked DEF AskGoes
  <2>4. QED BY <1>0, <1>4, <2>2, <2>3, DispatchStep DEF Moved, RunIs
<1>5. ASSUME NEW m \in Messages, UndoClaim(m) PROVE Requests'
  <2>1. /\ AskGoes(m, {"done"}) /\ Grows /\ rec'.queued = rec.queued
        /\ \A o \in Messages \ {m} : run'[o] = run[o]
    BY <1>0, <1>5, UndoClaimStep DEF HolderIs, RecIs, Others, Procs, Grows
  <2>2. run'[m].pc \in {"over", "dead"}
    BY <1>0, <1>5, UndoClaimStep DEF IsOver, Moved, RunIs
  <2>3. m \in told'
    BY <1>0, <1>5, UndoClaimStep DEF FollowUpsJudged, RunJudged, Procs
  <2>4. QED BY <1>0, <2>1, <2>2, <2>3, RequestsAsked DEF ExitPcs
<1>6. ASSUME NEW m \in Messages, EnqueueMessage(m) PROVE Requests'
  <2>1. \A o \in Messages : run'[o].pc = run[o].pc
    BY <1>0, <1>6, RouterQuiet DEF RouterQuietly, Stands, Procs
  <2>2. Grows
    BY <1>0, <1>6, EnqueueMessageStep DEF Grows
  <2>3. /\ \E pcs : AskGoes(m, pcs)
        /\ rec.queued \subseteq rec'.queued /\ m \in rec'.queued \cup told'
    BY <1>0, <1>6, EnqueueMessageStep DEF QueueIs, RecIs
  <2>4. QED BY <1>0, <2>1, <2>2, <2>3, RequestsAsked
<1>7. ASSUME NEW m \in Messages, TrimQueue(m) PROVE Requests'
  <2>1. PICK oldest \in SUBSET Messages : QueueIs(rec.queued \ oldest) /\ told' = told \cup oldest
    BY <1>0, <1>7, TrimQueueStep
  <2>2. \A o \in rec.queued \ rec'.queued : Settled(o)
    BY <2>1 DEF QueueIs, RecIs, Settled
  <2>3. Grows /\ run' = run /\ AskGoes(m, {"notice"}) /\ ask[m] = "trim"
    BY <1>0, <1>7, <2>1, TrimQueueStep DEF Grows
  <2>4. QED BY <1>0, <2>2, <2>3, RequestsAsked
<1>8. ASSUME NEW m \in Messages, PostNotice(m) PROVE Requests'
  <2>1. \A o \in Messages : run'[o].pc = run[o].pc
    BY <1>0, <1>8, RouterQuiet DEF RouterQuietly, Stands, Procs
  <2>2. QED BY <1>0, <1>8, <2>1, PostNoticeStep, SameGrows, RequestsAsked
<1>9. ASSUME NEW m \in Messages, ClearFolded(m) PROVE Requests'
  <2>1. ask' = ask /\ run' = run /\ LedgerSame /\ rec'.queued = rec.queued
    BY <1>0, <1>9, ClearFoldedStep DEF RecIs
  <2>2. QED BY <1>0, <2>1 DEF Requests, LedgerSame
<1>10. ASSUME NEW m \in Messages, TakeFolded(m) PROVE Requests'
  <2>1. /\ ask' = ask /\ run' = run /\ LedgerSame
        /\ rec.queued \ rec'.queued \subseteq tail[m].take /\ tail[m].take \subseteq judged
    BY <1>0, <1>10, TakeFoldedStep DEF QueueIs, RecIs, FollowUpsJudged
  <2>2. QED BY <1>0, <2>1 DEF Requests, LedgerSame
<1>11. ASSUME NEW m \in Messages, Redact(m) PROVE Requests'
  BY <1>0, <1>11, RedactStep DEF Requests
<1>12. ASSUME TakeUpNotice PROVE Requests'
  <2>1. rec' = rec /\ ask' = ask /\ LedgerSame /\ \A m \in Messages : run'[m] = run[m]
    BY <1>0, <1>12, TakeUpNoticeStep, Apart DEF Procs, Others
  <2>2. QED BY <1>0, <2>1 DEF Requests, ExitPcs, LedgerSame
<1>13. ASSUME NEW p \in Procs, Checkpoint(p) PROVE Requests'
  <2>1. p \in Messages /\ Others(p) /\ ask' = ask /\ rec' = rec /\ run[p].pc = "go"
    BY <1>0, <1>13, CheckpointStep
  <2>2. CASE Delivered(p)
    BY <1>0, <1>13, <2>1, <2>2, CheckpointStep, DeliveredCounts, RequestsElsewhere
  <2>3. CASE LedgerSame /\ run'[p].pc \in {"park", "fold"}
    BY <1>0, <2>1, <2>3, SameGrows, RequestsElsewhere DEF ExitPcs
  <2>4. QED BY <1>0, <1>13, <2>2, <2>3, CheckpointStep DEF RunIs, LedgerSame
<1>14. ASSUME NEW p \in Procs, ParkForReading(p) PROVE Requests'
  <2>1. /\ p \in Messages /\ Others(p) /\ ask' = ask /\ rec'.queued = rec.queued
        /\ run[p].pc = "park"
    BY <1>0, <1>14, ParkForReadingStep DEF RecIs
  <2>2. CASE Delivered(p)
    BY <1>0, <1>14, <2>1, <2>2, ParkForReadingStep, DeliveredCounts, RequestsElsewhere
  <2>3. CASE LedgerSame /\ run'[p].pc \in {"parked", "fold"}
    BY <1>0, <2>1, <2>3, SameGrows, RequestsElsewhere DEF ExitPcs
  <2>4. QED BY <1>0, <1>14, <2>2, <2>3, ParkForReadingStep DEF Moved, RunIs, LedgerSame
<1>15. ASSUME NEW p \in Procs, Fold(p) PROVE Requests'
  <2>1. p \in Messages /\ Others(p) /\ rec' = rec /\ run[p].pc = "fold"
    BY <1>0, <1>15, FoldStep
  <2>2. CASE ask' = ask /\ Delivered(p)
    BY <1>0, <1>15, <2>1, <2>2, FoldStep, DeliveredCounts, RequestsElsewhere
  <2>3. CASE LedgerSame /\ AskGoes(p, {"claim"}) /\ run'[p].pc = "none"
    <3>1. \A o \in Messages \ {p} : run'[o] = run[o]
      BY <2>1 DEF Others, Procs
    <3>2. QED BY <1>0, <2>1, <2>3, <3>1, SameGrows, RequestsAsked DEF ExitPcs, AskGoes
  <2>4. QED BY <1>0, <1>15, <2>2, <2>3, FoldStep DEF RunIs, LedgerSame
<1>16. ASSUME NEW p \in Procs, DeliverParked(p) PROVE Requests'
  <2>1. /\ p \in Messages /\ Others(p) /\ ask' = ask /\ LedgerSame /\ run'[p].pc \in {"go", "dead"}
        /\ rec'.queued = rec.queued
    BY <1>0, <1>16, DeliverParkedStep DEF RecIs, Moved, RunIs
  <2>2. QED BY <1>0, <2>1, SameGrows, RequestsElsewhere DEF ExitPcs
<1>17. ASSUME NEW r \in Readings, ClaimQueueOnArrival(r) PROVE Requests'
  <2>1. r \in Procs /\ r \notin Messages /\ Others(r) /\ ask' = ask /\ LedgerSame
        /\ rec'.queued = rec.queued
    BY <1>0, <1>17, ClaimQueueOnArrivalStep, Apart DEF Procs, ClaimIs, RecIs
  <2>2. QED BY <1>0, <2>1, SameGrows, RequestsElsewhere
<1>18. ASSUME NEW r \in Readings, StartReading(r) PROVE Requests'
  <2>1. r \in Procs /\ r \notin Messages /\ Others(r) /\ ask' = ask /\ LedgerSame
        /\ rec'.queued = rec.queued
    BY <1>0, <1>18, StartReadingStep, Apart DEF Procs, RecIs
  <2>2. QED BY <1>0, <2>1, SameGrows, RequestsElsewhere
<1>19. ASSUME NEW r \in Readings, Look(r) PROVE Requests'
  <2>1. r \in Procs /\ r \notin Messages /\ Others(r) /\ ask' = ask /\ LedgerSame
        /\ rec'.queued = rec.queued
    BY <1>0, <1>19, LookStep, Apart DEF Procs, RecIs
  <2>2. QED BY <1>0, <2>1, SameGrows, RequestsElsewhere
<1>20. ASSUME NEW r \in Readings, StillRunning(r) PROVE Requests'
  <2>1. r \in Procs /\ r \notin Messages /\ Others(r) /\ ask' = ask /\ LedgerSame
        /\ rec'.queued = rec.queued
    BY <1>0, <1>20, StillRunningStep, Apart DEF Procs, RecIs
  <2>2. QED BY <1>0, <2>1, SameGrows, RequestsElsewhere
<1>21. ASSUME NEW r \in Readings, RecordFollowUps(r) PROVE Requests'
  <2>1. r \in Procs /\ r \notin Messages /\ Others(r) /\ ask' = ask /\ Grows
        /\ rec'.queued = rec.queued
    BY <1>0, <1>21, RecordFollowUpsStep, Apart DEF Procs, RecIs, Grows
  <2>2. QED BY <1>0, <2>1, RequestsElsewhere
<1>22. ASSUME NEW r \in Readings, ResumeParked(r) PROVE Requests'
  <2>1. r \in Procs /\ r \notin Messages /\ Others(r) /\ ask' = ask /\ LedgerSame
        /\ rec'.queued = rec.queued
    BY <1>0, <1>22, ResumeParkedStep, Apart DEF Procs, RecIs
  <2>2. QED BY <1>0, <2>1, SameGrows, RequestsElsewhere
<1>23. ASSUME NEW r \in Readings, InvokeResume(r) PROVE Requests'
  <2>1. /\ rec' = rec /\ ask' = ask /\ LedgerSame
        /\ \A m \in Messages : \/ run'[m] = run[m]
                               \/ run[m].pc = "parked" /\ run'[m].pc = "resumed"
    BY <1>0, <1>23, InvokeResumeStep, Apart DEF Procs, Others, Moved, RunIs
  <2>2. QED BY <1>0, <2>1 DEF Requests, ExitPcs, LedgerSame
<1>24. ASSUME NEW r \in Readings, AbandonResumed(r) PROVE Requests'
  <2>1. /\ rec'.queued = rec.queued /\ ask' = ask /\ LedgerSame
        /\ \A m \in Messages : \/ run'[m] = run[m]
                               \/ run[m].pc = "parked" /\ run'[m].pc = "dead"
    BY <1>0, <1>24, AbandonResumedStep, Apart DEF Procs, Others, Moved, RunIs, RecIs
  <2>2. QED BY <1>0, <2>1 DEF Requests, ExitPcs, LedgerSame
<1>25. ASSUME NEW r \in Readings, ClearQueueRead(r) PROVE Requests'
  <2>1. r \in Procs /\ r \notin Messages /\ Others(r) /\ ask' = ask /\ run[r].amend \subseteq judged
        /\ redacted' = redacted /\ judged' = judged /\ told' = told /\ answered' = answered
        /\ tasked' = Count(tasked, run[r].ids \ (run[r].amend \cup redacted))
    BY <1>0, <1>25, ClearQueueReadStep, Apart DEF Procs, FollowUpsJudged, RunJudged
  <2>2. rec.queued \subseteq Messages /\ tasked \in [Messages -> 0..2]
    BY <1>0 DEF TypeOK, TurnRecords
  <2>3. rec.queued \ rec'.queued \subseteq run[r].ids
    <3>1. rec' = rec \/ rec'.queued = rec.queued \ run[r].ids
      BY <1>0, <1>25, ClearQueueReadStep, Zenon DEF RecIs
    <3>2. QED BY <3>1
  <2>4. Grows /\ \A m \in Messages : m \in run[r].ids => Settled(m)
    BY <2>1, <2>2, CountGrows DEF Grows, Settled
  <2>5. QED BY <1>0, <2>1, <2>2, <2>3, <2>4, RequestsElsewhere
<1>26. ASSUME NEW p \in Procs, ReadAtExit(p) PROVE Requests'
  <2>1. Others(p) /\ ask' = ask /\ LedgerSame /\ rec.queued \subseteq rec'.queued
        /\ run[p].pc \in ExitPcs
    BY <1>0, <1>26, ReadAtExitStep DEF ExitPcs, RecIs
  <2>2. QED BY <1>0, <2>1, SameGrows, OthersAside, EndingRequests
<1>27. ASSUME NEW p \in Procs, ReturnFollowUps(p) PROVE Requests'
  <2>1. Others(p) /\ ask' = ask /\ LedgerSame /\ rec.queued \subseteq rec'.queued
        /\ run[p].pc \in ExitPcs
    BY <1>0, <1>27, ReturnFollowUpsStep DEF ExitPcs, RecIs
  <2>2. QED BY <1>0, <2>1, SameGrows, OthersAside, EndingRequests
<1>28. ASSUME NEW p \in Procs, ClaimFollowUp(p) PROVE Requests'
  <2>1. Others(p) /\ ask' = ask /\ LedgerSame /\ rec.queued \subseteq rec'.queued
        /\ run[p].pc \in ExitPcs
    BY <1>0, <1>28, ClaimFollowUpStep DEF ExitPcs, RecIs, ClaimIs
  <2>2. QED BY <1>0, <2>1, SameGrows, OthersAside, EndingRequests
<1>29. ASSUME NEW p \in Procs, YieldToReading(p) PROVE Requests'
  <2>1. Others(p) /\ ask' = ask /\ LedgerSame /\ rec.queued \subseteq rec'.queued
        /\ run[p].pc \in ExitPcs
    BY <1>0, <1>29, YieldToReadingStep DEF ExitPcs, RecIs, HolderIs
  <2>2. QED BY <1>0, <2>1, SameGrows, OthersAside, EndingRequests
<1>30. ASSUME NEW p \in Procs, FetchFollowUp(p) PROVE Requests'
  <2>1. Others(p) /\ ask' = ask /\ LedgerSame /\ rec.queued \subseteq rec'.queued
        /\ run[p].pc \in ExitPcs
    BY <1>0, <1>30, FetchFollowUpStep DEF ExitPcs, RecIs
  <2>2. QED BY <1>0, <2>1, SameGrows, OthersAside, EndingRequests
<1>31. ASSUME NEW p \in Procs, ClearEmptied(p) PROVE Requests'
  <2>1. Others(p) /\ ask' = ask /\ LedgerSame /\ run[p].pc \in ExitPcs
    BY <1>0, <1>31, ClearEmptiedStep DEF ExitPcs
  <2>2. rec.queued \ rec'.queued \subseteq run[p].seen /\ run[p].seen \subseteq redacted
    BY <1>0, <1>31, ClearEmptiedStep DEF RecIs, FollowUpsJudged, RunJudged
  <2>3. QED BY <1>0, <2>1, <2>2, SameGrows, OthersAside, EndingRequests DEF Settled, LedgerSame
<1>32. ASSUME NEW p \in Procs, HandOverToFollowUp(p) PROVE Requests'
  <2>1. Others(p) /\ ask' = ask /\ LedgerSame /\ rec.queued \subseteq rec'.queued
        /\ run[p].pc \in ExitPcs
    BY <1>0, <1>32, HandOverToFollowUpStep DEF ExitPcs, RecIs, HolderIs
  <2>2. QED BY <1>0, <2>1, SameGrows, OthersAside, EndingRequests
<1>33. ASSUME NEW p \in Procs, DispatchFollowUp(p) PROVE Requests'
  <2>0. /\ run[p].other \notin Messages
        /\ Others(p) \/ \A q \in Procs \ {p, run[p].other} : run'[q] = run[q]
    BY <1>0, <1>33, DispatchFollowUpStep, Apart DEF Procs
  <2>1. rec' = rec /\ ask' = ask /\ LedgerSame /\ run[p].pc \in ExitPcs
    BY <1>0, <1>33, DispatchFollowUpStep DEF ExitPcs
  <2>2. MessagesLeft(p)
    BY <2>0 DEF Others, MessagesLeft, Procs
  <2>3. QED BY <1>0, <2>1, <2>2, SameGrows, EndingRequests
<1>34. ASSUME NEW p \in Procs, FreeFollowUp(p) PROVE Requests'
  <2>1. /\ ask' = ask /\ LedgerSame /\ rec'.queued = rec.queued /\ run[p].pc \in ExitPcs
        /\ MessagesLeft(p)
    BY <1>0, <1>34, FreeFollowUpStep, OthersAside, Apart
       DEF ExitPcs, RecIs, HolderIs, ClaimIs, MessagesLeft, Procs
  <2>2. QED BY <1>0, <2>1, SameGrows, EndingRequests
<1>35. ASSUME NEW p \in Procs, GiveUpClaim(p) PROVE Requests'
  <2>1. /\ ask' = ask /\ LedgerSame /\ rec'.queued = rec.queued /\ run[p].pc \in ExitPcs
        /\ MessagesLeft(p)
    BY <1>0, <1>35, GiveUpClaimStep, OthersAside, Apart
       DEF ExitPcs, RecIs, HolderIs, ClaimIs, MessagesLeft, Procs
  <2>2. QED BY <1>0, <2>1, SameGrows, EndingRequests
<1>36. ASSUME NEW p \in Procs, ReleaseAtExit(p) PROVE Requests'
  <2>1. Others(p) /\ ask' = ask /\ LedgerSame /\ rec.queued \subseteq rec'.queued
        /\ run[p].pc \in ExitPcs
    BY <1>0, <1>36, ReleaseAtExitStep DEF ExitPcs, RecIs, HolderIs
  <2>2. QED BY <1>0, <2>1, SameGrows, OthersAside, EndingRequests
<1>37. ASSUME NEW p \in Procs, Die(p) PROVE Requests'
  <2>1. /\ rec' = rec /\ ask' = ask /\ LedgerSame
        /\ \A m \in Messages : run'[m] = run[m] \/ run'[m].pc = "dead"
    BY <1>0, <1>37, DieStep DEF Procs, Moved, RunIs
  <2>2. QED BY <1>0, <2>1 DEF Requests, ExitPcs, LedgerSame
<1>38. ASSUME NEW m \in Messages, ClaimTurnFor(m) \/ RouterStep(m) \/ Redact(m) PROVE Requests'
  BY <1>38, <1>2, <1>3, <1>4, <1>5, <1>6, <1>7, <1>8, <1>9, <1>10, <1>11
     DEF RouterStep
<1>39. ASSUME NEW r \in Readings, ReadingStep(r) PROVE Requests'
  BY <1>39, <1>17, <1>18, <1>19, <1>20, <1>21, <1>22, <1>23, <1>24, <1>25
     DEF ReadingStep
<1>40. ASSUME NEW p \in Procs, AnswerStep(p) \/ ExitStep(p) PROVE Requests'
  BY <1>40, <1>13, <1>14, <1>15, <1>16, <1>26, <1>27, <1>28, <1>29, <1>30, <1>31, <1>32, <1>33,
     <1>34, <1>35, <1>36
     DEF AnswerStep, ExitStep
<1>41. QED BY <1>1, <1>12, <1>37, <1>38, <1>39, <1>40 DEF Next

\* Where one run goes on and nothing is counted.
LEMMA AnsweredBeside ==
  ASSUME AnsweredAtEnd, NEW p \in Procs, MessagesLeft(p), ask' = ask, answered' = answered,
         judged \subseteq judged',
         p \in Messages /\ run[p].pc \in ExitPcs \cup {"over", "dead"} =>
            run'[p].pc \in ExitPcs \cup {"over", "dead"}
  PROVE  AnsweredAtEnd'
<1>1. ASSUME NEW m \in Messages, run[m].pc \in ExitPcs \cup {"over", "dead"}
      PROVE  run'[m].pc \in ExitPcs \cup {"over", "dead"}
  BY <1>1 DEF MessagesLeft
<1>2. QED BY <1>1 DEF AnsweredAtEnd

LEMMA AnsweredElsewhere ==
  ASSUME AnsweredAtEnd, NEW p \in Procs, Others(p), ask' = ask, answered' = answered,
         judged \subseteq judged',
         p \in Messages /\ run[p].pc \in ExitPcs \cup {"over", "dead"} =>
            run'[p].pc \in ExitPcs \cup {"over", "dead"}
  PROVE  AnsweredAtEnd'
<1>1. MessagesLeft(p)
  BY OthersAside
<1>2. QED BY <1>1, AnsweredBeside

\* An answer delivered is its run's first, and that of no other message of its own.
LEMMA DeliveredOnce ==
  ASSUME IInv, NEW p \in Messages, Delivered(p), Others(p), ask' = ask, judged' = judged,
         run[p].pc \in {"go", "park", "fold"}
  PROVE  AnsweredAtEnd'
<1>1. /\ run[p].ids \subseteq judged \cup {p} /\ ask[p] = "done" /\ p \in Procs
      /\ answered \in [Messages -> 0..2]
  BY DEF IInv, FollowUpsJudged, RunJudged, Asking, Procs, TypeOK
<1>2. answered' = Count(answered, run[p].ids) /\ run'[p].pc = "exit"
  BY DEF Delivered, RunIs
<1>3. \A m \in Messages \ judged : m # p => answered'[m] = answered[m]
  BY <1>1, <1>2, Counting
<1>4. p \notin judged => answered[p] = 0
  BY <1>1 DEF IInv, AnsweredAtEnd, ExitPcs
<1>5. p \notin judged => answered'[p] \in {0, 1}
  BY <1>1, <1>2, <1>4, Counting
<1>6. ASSUME NEW m \in Messages \ judged', m # p
      PROVE  \/ answered'[m] = 0
             \/ answered'[m] = 1 /\ ask'[m] = "done" /\ run'[m].pc \in ExitPcs \cup {"over", "dead"}
  <2>1. run'[m] = run[m] /\ answered'[m] = answered[m] /\ m \in Messages \ judged
    BY <1>3, <1>6 DEF Others, Procs
  <2>2. QED BY <2>1 DEF IInv, AnsweredAtEnd
<1>7. QED BY <1>1, <1>2, <1>5, <1>6 DEF AnsweredAtEnd, ExitPcs

\* A message of its own is answered at the end of its run, which is not begun again.
LEMMA AnsweredAtEndKept ==
  ASSUME IInv, [Next]_vars
  PROVE  AnsweredAtEnd'
<1>0. IInv /\ TypeOK /\ Shaped /\ AnsweredAtEnd /\ Asking /\ Following
  BY DEF IInv
<1>1. CASE UNCHANGED vars
  BY <1>0, <1>1 DEF AnsweredAtEnd, vars, ledger
<1>2. ASSUME NEW m \in Messages, ClaimTurnFor(m) PROVE AnsweredAtEnd'
  <2>1. (\E pcs : AskGoes(m, pcs)) /\ ask[m] # "done" /\ answered' = answered /\ judged' = judged
    BY <1>0, <1>2, ClaimTurnForStep DEF LedgerSame, AskGoes
  <2>2. \A o \in Messages : run'[o].pc = run[o].pc
    BY <1>0, <1>2, RouterQuiet DEF RouterQuietly, Stands, Procs
  <2>3. QED BY <1>0, <2>1, <2>2 DEF AnsweredAtEnd, AskGoes
<1>3. ASSUME NEW m \in Messages, ReadHolder(m) PROVE AnsweredAtEnd'
  <2>1. (\E pcs : AskGoes(m, pcs)) /\ ask[m] # "done" /\ answered' = answered /\ judged' = judged
    BY <1>0, <1>3, ReadHolderStep DEF LedgerSame, AskGoes
  <2>2. \A o \in Messages : run'[o].pc = run[o].pc
    BY <1>0, <1>3, RouterQuiet DEF RouterQuietly, Stands, Procs
  <2>3. QED BY <1>0, <2>1, <2>2 DEF AnsweredAtEnd, AskGoes
<1>4. ASSUME NEW m \in Messages, Dispatch(m) PROVE AnsweredAtEnd'
  <2>1. (\E pcs : AskGoes(m, pcs)) /\ ask[m] # "done" /\ answered' = answered /\ judged' = judged
        /\ \A o \in Messages : o # m => run'[o] = run[o]
    BY <1>0, <1>4, DispatchStep DEF LedgerSame, Others, Procs
  <2>2. QED BY <1>0, <2>1 DEF AnsweredAtEnd, AskGoes
<1>5. ASSUME NEW m \in Messages, UndoClaim(m) PROVE AnsweredAtEnd'
  <2>1. (\E pcs : AskGoes(m, pcs)) /\ ask[m] # "done" /\ answered' = answered /\ judged' = judged
        /\ \A o \in Messages : o # m => run'[o] = run[o]
    BY <1>0, <1>5, UndoClaimStep DEF LedgerSame, Others, Procs
  <2>2. QED BY <1>0, <2>1 DEF AnsweredAtEnd, AskGoes
<1>6. ASSUME NEW m \in Messages, EnqueueMessage(m) PROVE AnsweredAtEnd'
  <2>1. (\E pcs : AskGoes(m, pcs)) /\ ask[m] # "done" /\ answered' = answered /\ judged' = judged
    BY <1>0, <1>6, EnqueueMessageStep DEF LedgerSame, AskGoes
  <2>2. \A o \in Messages : run'[o].pc = run[o].pc
    BY <1>0, <1>6, RouterQuiet DEF RouterQuietly, Stands, Procs
  <2>3. QED BY <1>0, <2>1, <2>2 DEF AnsweredAtEnd, AskGoes
<1>7. ASSUME NEW m \in Messages, TrimQueue(m) PROVE AnsweredAtEnd'
  <2>1. (\E pcs : AskGoes(m, pcs)) /\ ask[m] # "done" /\ answered' = answered /\ judged' = judged
    BY <1>0, <1>7, TrimQueueStep DEF LedgerSame, AskGoes
  <2>2. \A o \in Messages : run'[o].pc = run[o].pc
    BY <1>0, <1>7, RouterQuiet DEF RouterQuietly, Stands, Procs
  <2>3. QED BY <1>0, <2>1, <2>2 DEF AnsweredAtEnd, AskGoes
<1>8. ASSUME NEW m \in Messages, PostNotice(m) PROVE AnsweredAtEnd'
  <2>1. (\E pcs : AskGoes(m, pcs)) /\ ask[m] # "done" /\ answered' = answered /\ judged' = judged
    BY <1>0, <1>8, PostNoticeStep DEF LedgerSame, AskGoes
  <2>2. \A o \in Messages : run'[o].pc = run[o].pc
    BY <1>0, <1>8, RouterQuiet DEF RouterQuietly, Stands, Procs
  <2>3. QED BY <1>0, <2>1, <2>2 DEF AnsweredAtEnd, AskGoes
<1>9. ASSUME NEW m \in Messages, ClearFolded(m) PROVE AnsweredAtEnd'
  BY <1>0, <1>9, ClearFoldedStep DEF AnsweredAtEnd, LedgerSame
<1>10. ASSUME NEW m \in Messages, TakeFolded(m) PROVE AnsweredAtEnd'
  BY <1>0, <1>10, TakeFoldedStep DEF AnsweredAtEnd, LedgerSame
<1>11. ASSUME NEW m \in Messages, Redact(m) PROVE AnsweredAtEnd'
  BY <1>0, <1>11, RedactStep DEF AnsweredAtEnd, LedgerSame
<1>12. ASSUME TakeUpNotice PROVE AnsweredAtEnd'
  <2>1. ask' = ask /\ LedgerSame /\ \A m \in Messages : run'[m] = run[m]
    BY <1>0, <1>12, TakeUpNoticeStep, Apart DEF Procs, Others
  <2>2. QED BY <1>0, <2>1 DEF AnsweredAtEnd, LedgerSame
<1>13. ASSUME NEW p \in Procs, Checkpoint(p) PROVE AnsweredAtEnd'
  <2>1. p \in Messages /\ Others(p) /\ run[p].pc \in {"go", "park", "fold"} /\ judged' = judged
    BY <1>0, <1>13, CheckpointStep
  <2>2. CASE Delivered(p) /\ ask' = ask
    BY <1>0, <2>1, <2>2, DeliveredOnce
  <2>3. CASE answered' = answered /\ ask' = ask
    BY <1>0, <2>1, <2>3, AnsweredElsewhere DEF ExitPcs
  <2>4. QED BY <1>0, <1>13, <2>2, <2>3, CheckpointStep
<1>14. ASSUME NEW p \in Procs, ParkForReading(p) PROVE AnsweredAtEnd'
  <2>1. p \in Messages /\ Others(p) /\ run[p].pc \in {"go", "park", "fold"} /\ judged' = judged
    BY <1>0, <1>14, ParkForReadingStep
  <2>2. CASE Delivered(p) /\ ask' = ask
    BY <1>0, <2>1, <2>2, DeliveredOnce
  <2>3. CASE answered' = answered /\ ask' = ask
    BY <1>0, <2>1, <2>3, AnsweredElsewhere DEF ExitPcs
  <2>4. QED BY <1>0, <1>14, <2>2, <2>3, ParkForReadingStep
<1>15. ASSUME NEW p \in Procs, Fold(p) PROVE AnsweredAtEnd'
  <2>1. p \in Messages /\ Others(p) /\ run[p].pc \in {"go", "park", "fold"} /\ judged' = judged
    BY <1>0, <1>15, FoldStep
  <2>2. CASE Delivered(p) /\ ask' = ask
    BY <1>0, <2>1, <2>2, DeliveredOnce
  <2>3. CASE answered' = answered /\ ask' = ask
    BY <1>0, <2>1, <2>3, AnsweredElsewhere DEF ExitPcs
  <2>4. CASE answered' = answered /\ AskGoes(p, {"claim"})
    <3>1. \A m \in Messages : m # p => run'[m] = run[m] /\ ask'[m] = ask[m]
      BY <2>1, <2>4 DEF Others, AskGoes, Procs
    <3>2. p \in judged \/ answered[p] = 0
      BY <1>0, <2>1 DEF AnsweredAtEnd, ExitPcs
    <3>3. QED BY <1>0, <2>1, <2>4, <3>1, <3>2 DEF AnsweredAtEnd
  <2>5. QED BY <1>0, <1>15, <2>2, <2>3, <2>4, FoldStep
<1>16. ASSUME NEW p \in Procs, DeliverParked(p) PROVE AnsweredAtEnd'
  BY <1>0, <1>16, DeliverParkedStep, AnsweredElsewhere DEF ExitPcs, LedgerSame
<1>17. ASSUME NEW r \in Readings, ClaimQueueOnArrival(r) PROVE AnsweredAtEnd'
  BY <1>0, <1>17, ClaimQueueOnArrivalStep, AnsweredElsewhere, Apart DEF Procs, LedgerSame
<1>18. ASSUME NEW r \in Readings, StartReading(r) PROVE AnsweredAtEnd'
  BY <1>0, <1>18, StartReadingStep, AnsweredElsewhere, Apart DEF Procs, LedgerSame
<1>19. ASSUME NEW r \in Readings, Look(r) PROVE AnsweredAtEnd'
  BY <1>0, <1>19, LookStep, AnsweredElsewhere, Apart DEF Procs, LedgerSame
<1>20. ASSUME NEW r \in Readings, StillRunning(r) PROVE AnsweredAtEnd'
  BY <1>0, <1>20, StillRunningStep, AnsweredElsewhere, Apart DEF Procs, LedgerSame
<1>21. ASSUME NEW r \in Readings, RecordFollowUps(r) PROVE AnsweredAtEnd'
  BY <1>0, <1>21, RecordFollowUpsStep, AnsweredElsewhere, Apart DEF Procs
<1>22. ASSUME NEW r \in Readings, ResumeParked(r) PROVE AnsweredAtEnd'
  BY <1>0, <1>22, ResumeParkedStep, AnsweredElsewhere, Apart DEF Procs, LedgerSame
<1>23. ASSUME NEW r \in Readings, InvokeResume(r) PROVE AnsweredAtEnd'
  <2>1. /\ rec' = rec /\ ask' = ask /\ LedgerSame
        /\ \A m \in Messages : run'[m] = run[m] \/ run[m].pc = "parked"
    BY <1>0, <1>23, InvokeResumeStep, Apart DEF Procs, Others
  <2>2. QED BY <1>0, <2>1 DEF AnsweredAtEnd, ExitPcs, LedgerSame
<1>24. ASSUME NEW r \in Readings, AbandonResumed(r) PROVE AnsweredAtEnd'
  <2>1. /\ ask' = ask /\ LedgerSame
        /\ \A m \in Messages : run'[m] = run[m] \/ run[m].pc = "parked"
    BY <1>0, <1>24, AbandonResumedStep, Apart DEF Procs, Others
  <2>2. QED BY <1>0, <2>1 DEF AnsweredAtEnd, ExitPcs, LedgerSame
<1>25. ASSUME NEW r \in Readings, ClearQueueRead(r) PROVE AnsweredAtEnd'
  BY <1>0, <1>25, ClearQueueReadStep, AnsweredElsewhere, Apart DEF Procs
<1>26. ASSUME NEW p \in Procs, ReadAtExit(p) PROVE AnsweredAtEnd'
  <2>1. Others(p) /\ ask' = ask /\ LedgerSame
    BY <1>0, <1>26, ReadAtExitStep
  <2>2. run'[p].pc \in ExitPcs \cup {"over", "dead"}
    BY <1>0, <1>26, ReadAtExitStep DEF ExitPcs, Moved, RunIs
  <2>3. QED BY <1>0, <2>1, <2>2, AnsweredElsewhere DEF LedgerSame
<1>27. ASSUME NEW p \in Procs, ReturnFollowUps(p) PROVE AnsweredAtEnd'
  <2>1. Others(p) /\ ask' = ask /\ LedgerSame
    BY <1>0, <1>27, ReturnFollowUpsStep
  <2>2. run'[p].pc \in ExitPcs \cup {"over", "dead"}
    BY <1>0, <1>27, ReturnFollowUpsStep DEF ExitPcs, RunIs
  <2>3. QED BY <1>0, <2>1, <2>2, AnsweredElsewhere DEF LedgerSame
<1>28. ASSUME NEW p \in Procs, ClaimFollowUp(p) PROVE AnsweredAtEnd'
  <2>1. Others(p) /\ ask' = ask /\ LedgerSame
    BY <1>0, <1>28, ClaimFollowUpStep
  <2>2. run'[p].pc \in ExitPcs \cup {"over", "dead"}
    BY <1>0, <1>28, ClaimFollowUpStep DEF ExitPcs, Moved, RunIs
  <2>3. QED BY <1>0, <2>1, <2>2, AnsweredElsewhere DEF LedgerSame
<1>29. ASSUME NEW p \in Procs, YieldToReading(p) PROVE AnsweredAtEnd'
  <2>1. Others(p) /\ ask' = ask /\ LedgerSame
    BY <1>0, <1>29, YieldToReadingStep
  <2>2. run'[p].pc \in ExitPcs \cup {"over", "dead"}
    BY <1>0, <1>29, YieldToReadingStep DEF ExitPcs, Moved, IsOver, RunIs
  <2>3. QED BY <1>0, <2>1, <2>2, AnsweredElsewhere DEF LedgerSame
<1>30. ASSUME NEW p \in Procs, FetchFollowUp(p) PROVE AnsweredAtEnd'
  <2>1. Others(p) /\ ask' = ask /\ LedgerSame
    BY <1>0, <1>30, FetchFollowUpStep
  <2>2. run'[p].pc \in ExitPcs \cup {"over", "dead"}
    BY <1>0, <1>30, FetchFollowUpStep DEF ExitPcs, Moved, RunIs
  <2>3. QED BY <1>0, <2>1, <2>2, AnsweredElsewhere DEF LedgerSame
<1>31. ASSUME NEW p \in Procs, ClearEmptied(p) PROVE AnsweredAtEnd'
  <2>1. Others(p) /\ ask' = ask /\ LedgerSame
    BY <1>0, <1>31, ClearEmptiedStep
  <2>2. run'[p].pc \in ExitPcs \cup {"over", "dead"}
    BY <1>0, <1>31, ClearEmptiedStep DEF ExitPcs, Moved, RunIs
  <2>3. QED BY <1>0, <2>1, <2>2, AnsweredElsewhere DEF LedgerSame
<1>32. ASSUME NEW p \in Procs, HandOverToFollowUp(p) PROVE AnsweredAtEnd'
  <2>1. Others(p) /\ ask' = ask /\ LedgerSame
    BY <1>0, <1>32, HandOverToFollowUpStep
  <2>2. run'[p].pc \in ExitPcs \cup {"over", "dead"}
    BY <1>0, <1>32, HandOverToFollowUpStep DEF ExitPcs, RunIs
  <2>3. QED BY <1>0, <2>1, <2>2, AnsweredElsewhere DEF LedgerSame
<1>33. ASSUME NEW p \in Procs, DispatchFollowUp(p) PROVE AnsweredAtEnd'
  <2>0. /\ run[p].other \notin Messages
        /\ Others(p) \/ \A q \in Procs \ {p, run[p].other} : run'[q] = run[q]
    BY <1>0, <1>33, DispatchFollowUpStep, Apart DEF Procs
  <2>1. ask' = ask /\ LedgerSame
    BY <1>0, <1>33, DispatchFollowUpStep
  <2>2. run'[p].pc \in {"over", "free"}
    BY <1>0, <1>33, DispatchFollowUpStep DEF Moved, IsOver, RunIs
  <2>3. MessagesLeft(p)
    BY <2>0 DEF Others, MessagesLeft, Procs
  <2>4. QED BY <1>0, <2>1, <2>2, <2>3, AnsweredBeside DEF ExitPcs, LedgerSame
<1>34. ASSUME NEW p \in Procs, FreeFollowUp(p) PROVE AnsweredAtEnd'
  <2>1. ask' = ask /\ LedgerSame /\ MessagesLeft(p)
    BY <1>0, <1>34, FreeFollowUpStep, OthersAside, Apart DEF MessagesLeft, Procs
  <2>2. run'[p].pc \in ExitPcs \cup {"over", "dead"}
    BY <1>0, <1>34, FreeFollowUpStep DEF ExitPcs, Moved, IsOver, GoesOn, RunIs
  <2>3. QED BY <1>0, <2>1, <2>2, AnsweredBeside DEF LedgerSame
<1>35. ASSUME NEW p \in Procs, GiveUpClaim(p) PROVE AnsweredAtEnd'
  <2>1. ask' = ask /\ LedgerSame /\ MessagesLeft(p)
    BY <1>0, <1>35, GiveUpClaimStep, OthersAside, Apart DEF MessagesLeft, Procs
  <2>2. run'[p].pc \in ExitPcs \cup {"over", "dead"}
    BY <1>0, <1>35, GiveUpClaimStep DEF ExitPcs, Moved, IsOver, GoesOn, RunIs
  <2>3. QED BY <1>0, <2>1, <2>2, AnsweredBeside DEF LedgerSame
<1>36. ASSUME NEW p \in Procs, ReleaseAtExit(p) PROVE AnsweredAtEnd'
  <2>1. Others(p) /\ ask' = ask /\ LedgerSame
    BY <1>0, <1>36, ReleaseAtExitStep
  <2>2. run'[p].pc \in ExitPcs \cup {"over", "dead"}
    BY <1>0, <1>36, ReleaseAtExitStep DEF ExitPcs, Moved, IsOver, RunIs
  <2>3. QED BY <1>0, <2>1, <2>2, AnsweredElsewhere DEF LedgerSame
<1>37. ASSUME NEW p \in Procs, Die(p) PROVE AnsweredAtEnd'
  <2>1. /\ rec' = rec /\ ask' = ask /\ LedgerSame
        /\ \A m \in Messages : run'[m] = run[m] \/ run'[m].pc = "dead"
    BY <1>0, <1>37, DieStep DEF Procs, Moved, RunIs
  <2>2. QED BY <1>0, <2>1 DEF AnsweredAtEnd, LedgerSame
<1>38. ASSUME NEW m \in Messages, ClaimTurnFor(m) \/ RouterStep(m) \/ Redact(m) PROVE AnsweredAtEnd'
  BY <1>38, <1>2, <1>3, <1>4, <1>5, <1>6, <1>7, <1>8, <1>9, <1>10, <1>11
     DEF RouterStep
<1>39. ASSUME NEW r \in Readings, ReadingStep(r) PROVE AnsweredAtEnd'
  BY <1>39, <1>17, <1>18, <1>19, <1>20, <1>21, <1>22, <1>23, <1>24, <1>25
     DEF ReadingStep
<1>40. ASSUME NEW p \in Procs, AnswerStep(p) \/ ExitStep(p) PROVE AnsweredAtEnd'
  BY <1>40, <1>13, <1>14, <1>15, <1>16, <1>26, <1>27, <1>28, <1>29, <1>30, <1>31, <1>32, <1>33,
     <1>34, <1>35, <1>36
     DEF AnswerStep, ExitStep
<1>41. QED BY <1>1, <1>12, <1>37, <1>38, <1>39, <1>40 DEF Next

-----------------------------------------------------------------------------
(* The inductive invariant, and what follows from it.                       *)

\* Nothing has begun.
LEMMA InitInv == ASSUME Init PROVE IInv
<1>1. \A p \in Procs : Fresh(p) \in Runs
  BY FreshRun
<1>2. run \in [Procs -> Runs] /\ \A p \in Procs : run[p] = Fresh(p)
  BY <1>1 DEF Init
<1>3. rec = EmptyRecord /\ rec \in TurnRecords
  BY DEF Init, EmptyRecord, TurnRecords
<1>4. TypeOK
  BY <1>2, <1>3, LimitsAssumption DEF Init, TypeOK, AskPcs, NoTail
<1>5. \A p \in Procs :
         RunIs(run[p], "none", 0, IF p \in Messages THEN {p} ELSE {}, {}, {}, NoOne, FALSE, FALSE,
               FALSE)
  BY <1>2, FreshRun
<1>6. Shaped
  BY <1>5 DEF Shaped, RunShaped, RunIs, ReadingPcs, AnswerPcs, ExitPcs
<1>7. Bounded
  <2>1. \A p \in Procs : run[p].pc = "none" /\ run[p].n = 0
    BY <1>5 DEF RunIs
  <2>2. 0 <= PassLimit /\ 0 <= FoldLimit
    BY LimitsAssumption
  <2>3. QED BY <2>1, <2>2 DEF Bounded, RunBounded
<1>8. Asking
  BY <1>5 DEF Asking, Procs, RunIs
<1>9. Parking
  BY <1>3, <1>5, Apart DEF Parking, EmptyRecord, Procs, RunIs
<1>10. Following
  BY <1>5 DEF Following, Follows, RunIs
<1>11. OneReadingAtATime
  BY <1>5 DEF OneReadingAtATime, Unread, Procs, RunIs
<1>12. HandedAway
  BY <1>5 DEF HandedAway, RunIs
<1>13. ClaimWatched
  BY <1>3 DEF ClaimWatched, EmptyRecord
<1>14. FollowUpsJudged
  <2>1. \A p \in Procs : RunJudged(p)
    <3> SUFFICES ASSUME NEW p \in Procs PROVE RunJudged(p)
      OBVIOUS
    <3>1. run[p].pc = "none" /\ run[p].amend = {} /\ (p \in Messages => run[p].ids = {p})
      BY <1>5 DEF RunIs
    <3>2. QED BY <3>1 DEF RunJudged
  <2>2. rec.amendments = {} /\ \A m \in Messages : tail[m].take = {}
    BY <1>3 DEF Init, EmptyRecord, NoTail
  <2>3. QED BY <2>1, <2>2 DEF FollowUpsJudged
<1>15. Requests
  BY <1>5 DEF Init, Requests, ExitPcs, Procs, RunIs
<1>16. AnsweredAtEnd
  BY DEF Init, AnsweredAtEnd
<1>17. QED
  BY <1>4, <1>6, <1>7, <1>8, <1>9, <1>10, <1>11, <1>12, <1>13, <1>14, <1>15, <1>16 DEF IInv

\* No step of any run breaks it.
LEMMA IInvKept == ASSUME IInv, [Next]_vars PROVE IInv'
BY TypesKept, ShapedKept, BoundedKept, AskingKept, ParkingKept, FollowingKept, OneReadingKept,
   HandedAwayKept, ClaimWatchedKept, FollowUpsJudgedKept, RequestsKept, AnsweredAtEndKept
   DEF IInv

\* The invariant holds of every run.
THEOREM IInvHolds == Spec => []IInv
<1>1. Init => IInv
  BY InitInv
<1>2. IInv /\ [Next]_vars => IInv'
  BY IInvKept
<1>3. QED BY <1>1, <1>2, PTL DEF Spec

\* Every variable keeps its type: no fold, pass or count goes past its limit.
THEOREM TypeCorrect == Spec => []TypeOK
<1>1. IInv => TypeOK
  BY DEF IInv
<1>2. QED BY <1>1, IInvHolds, PTL

\* A reading that has not cleared what it read has the claim on the queue, whoever claims,
\* gives up, hands over or dies meanwhile: two readings never read one queue at a time.
THEOREM ReadsAlone == Spec => []OneReadingAtATime
<1>1. IInv => OneReadingAtATime
  BY DEF IInv
<1>2. QED BY <1>1, IInvHolds, PTL

\* A message no reading took for a follow-up is answered at most once, however often its
\* run is parked, resumed, folded and dispatched again.
THEOREM AnswersOnce == Spec => []AnsweredOnce
<1>1. IInv => AnsweredOnce
  BY DEF IInv, AnsweredAtEnd, AnsweredOnce
<1>2. QED BY <1>1, IInvHolds, PTL

\* Such a message is never lost: it waits, is in the hands of a run, was answered or made a
\* task, or its sender was told.
THEOREM KeepsRequests == Spec => []NoRequestLost
<1>1. IInv => NoRequestLost
  <2> SUFFICES ASSUME IInv, NEW m \in Messages \ judged, ask[m] = "done" PROVE Kept(m)
    BY DEF NoRequestLost
  <2>1. \/ m \in rec.queued \cup told \cup redacted
        \/ answered[m] > 0 \/ tasked[m] > 0
        \/ run[m].pc \notin {"none", "over"}
    BY DEF IInv, Requests
  <2>2. ASSUME answered[m] > 0 \/ tasked[m] > 0 PROVE answered[m] + tasked[m] > 0
    BY <2>2 DEF IInv, TypeOK
  <2>3. m \in run[m].ids /\ m \in Procs
    BY DEF IInv, FollowUpsJudged, RunJudged, Procs
  <2>4. ASSUME run[m].pc \notin {"none", "over"} PROVE InHand(m)
    BY <2>3, <2>4 DEF InHand
  <2>5. QED BY <2>1, <2>2, <2>4 DEF Kept
<1>2. QED BY <1>1, IInvHolds, PTL

\* Where no run is ended, no reading comes back without a usable answer, and neither the clear
\* of what was read nor the giving up of the claim fails to be written, no claim on the queue
\* outlives the runs: whatever failed of the other claims, reads, dispatches and writes, someone
\* clears it or gives it up.  (Each of those four leaves a claim: it then waits to expire.)
THEOREM ClaimsEnd ==
  ASSUME Unfailing
  PROVE  Spec => []NoClaimLeft
<1>1. IInv => NoClaimLeft
  <2> SUFFICES ASSUME IInv, Quiet, rec.triagedBy # NoOne PROVE FALSE
    BY DEF NoClaimLeft
  <2>1. PICK p \in Procs : Watches(p)
    BY DEF IInv, ClaimWatched
  <2>2. Active(p)
    BY <2>1 DEF Watches, Unread, Follows, Active
  <2>3. QED BY <2>2 DEF Quiet
<1>2. QED BY <1>1, IInvHolds, PTL

-----------------------------------------------------------------------------
(* The lock of TurnLock.tla: its steps, said of the record and the runs.    *)

PhaseOf(t) == IF t \in Readings THEN PhaseOfReading(t) ELSE PhaseOfAnswer(t)

LockBar  == [ holder |-> rec.holder, triagedBy |-> rec.triagedBy,
              parked |-> rec.parked, resumedBy |-> rec.resumedBy ]
PhaseBar == [t \in Turns |-> PhaseOf(t)]

LockIs(holder, triagedBy, parked, resumedBy) ==
    /\ rec'.holder = holder /\ rec'.triagedBy = triagedBy
    /\ rec'.parked = parked /\ rec'.resumedBy = resumedBy
LockSame == LockIs(rec.holder, rec.triagedBy, rec.parked, rec.resumedBy)

Becomes(t, phase) ==
    /\ t \in Procs /\ PhaseOf(t)' = phase
    /\ \A u \in Procs \ {t} : PhaseOf(u)' = PhaseOf(u)
PhasesSame == \A u \in Procs : PhaseOf(u)' = PhaseOf(u)

\* Where a run is admitted to, and what its turn is when the run is done.
AdmittedTo(t) == IF t \in Messages /\ rec.holder # t THEN "alone" ELSE "working"
DoneIs(t)     == IF t \in Readings THEN "idle" ELSE "over"
Engaged(t)    == PhaseOf(t) \in {"working", "alone"}
Dropped(t)    == LockIs(IF rec.holder = t THEN NoOne ELSE rec.holder, rec.triagedBy, rec.parked,
                        rec.resumedBy)

LockStep == Lock!Next \/ UNCHANGED Lock!vars

LEMMA TurnsAre == Turns = Procs /\ Lock!Turns = Procs /\ Lock!Answers = Messages
BY NoPickups DEF Turns, Procs, Lock!Turns, Lock!Answers

LEMMA LockBarIs ==
  ASSUME NEW holder, NEW triagedBy, NEW parked, NEW resumedBy,
         LockIs(holder, triagedBy, parked, resumedBy)
  PROVE  LockBar' = [ holder |-> holder, triagedBy |-> triagedBy, parked |-> parked,
                      resumedBy |-> resumedBy ]
BY DEF LockBar, LockIs

(* The locks made of given values.                                          *)
LocksOf(h, c, k, b) == [holder : h, triagedBy : c, parked : k, resumedBy : b]

LEMMA LockIsMade ==
  ASSUME NEW H, NEW C, NEW K, NEW B, NEW s \in LocksOf(H, C, K, B)
  PROVE  s = [holder |-> s.holder, triagedBy |-> s.triagedBy, parked |-> s.parked,
              resumedBy |-> s.resumedBy]
BY DEF LocksOf

LEMMA LockWrites ==
  ASSUME NEW H, NEW C, NEW K, NEW B, NEW s \in LocksOf(H, C, K, B), NEW t, NEW r,
         t \in K, r \in H, r \in B, s.parked \in H, NoOne \in K, NoOne \in B
  PROVE  /\ Park(s, t, r) = [ holder |-> r, triagedBy |-> s.triagedBy, parked |-> t,
                              resumedBy |-> s.resumedBy ]
         /\ BeginResume(s, r) = [ holder |-> s.parked, triagedBy |-> s.triagedBy,
                                  parked |-> s.parked, resumedBy |-> r ]
         /\ AbandonResume(s, r) = [ holder |-> r, triagedBy |-> s.triagedBy,
                                    parked |-> s.parked, resumedBy |-> NoOne ]
         /\ TakeParked(s) = [ holder |-> s.holder, triagedBy |-> s.triagedBy, parked |-> NoOne,
                              resumedBy |-> NoOne ]
<1>1. /\ Park(s, t, r) \in LocksOf(H, C, K, B)
      /\ Park(s, t, r).holder = r /\ Park(s, t, r).triagedBy = s.triagedBy
      /\ Park(s, t, r).parked = t /\ Park(s, t, r).resumedBy = s.resumedBy
  BY DEF Park, LocksOf
<1>2. /\ BeginResume(s, r) \in LocksOf(H, C, K, B)
      /\ BeginResume(s, r).holder = s.parked /\ BeginResume(s, r).triagedBy = s.triagedBy
      /\ BeginResume(s, r).parked = s.parked /\ BeginResume(s, r).resumedBy = r
  BY DEF BeginResume, LocksOf
<1>3. /\ AbandonResume(s, r) \in LocksOf(H, C, K, B)
      /\ AbandonResume(s, r).holder = r /\ AbandonResume(s, r).triagedBy = s.triagedBy
      /\ AbandonResume(s, r).parked = s.parked /\ AbandonResume(s, r).resumedBy = NoOne
  BY DEF AbandonResume, LocksOf
<1>4. /\ TakeParked(s) \in LocksOf(H, C, K, B)
      /\ TakeParked(s).holder = s.holder /\ TakeParked(s).triagedBy = s.triagedBy
      /\ TakeParked(s).parked = NoOne /\ TakeParked(s).resumedBy = NoOne
  BY DEF TakeParked, LocksOf
<1>5. QED BY <1>1, <1>2, <1>3, <1>4, LockIsMade

LEMMA LockBarWrites ==
  ASSUME NEW t, NEW r
  PROVE  /\ Park(LockBar, t, r) = [ holder |-> r, triagedBy |-> rec.triagedBy, parked |-> t,
                                    resumedBy |-> rec.resumedBy ]
         /\ BeginResume(LockBar, r) = [ holder |-> rec.parked, triagedBy |-> rec.triagedBy,
                                        parked |-> rec.parked, resumedBy |-> r ]
         /\ AbandonResume(LockBar, r) = [ holder |-> r, triagedBy |-> rec.triagedBy,
                                          parked |-> rec.parked, resumedBy |-> NoOne ]
         /\ TakeParked(LockBar) = [ holder |-> rec.holder, triagedBy |-> rec.triagedBy,
                                    parked |-> NoOne, resumedBy |-> NoOne ]
<1>1. /\ LockBar.holder = rec.holder /\ LockBar.triagedBy = rec.triagedBy
      /\ LockBar.parked = rec.parked /\ LockBar.resumedBy = rec.resumedBy
  BY DEF LockBar
<1>2. LockBar \in LocksOf({rec.holder, rec.parked, r}, {rec.triagedBy}, {rec.parked, t, NoOne},
                          {rec.resumedBy, r, NoOne})
  BY DEF LockBar, LocksOf
<1>3. QED BY <1>1, <1>2, LockWrites

LEMMA PhaseBarBecomes ==
  ASSUME NEW t, NEW phase, Becomes(t, phase)
  PROVE  t \in Procs /\ PhaseBar[t] = PhaseOf(t) /\ PhaseBar' = [PhaseBar EXCEPT ![t] = phase]
BY TurnsAre DEF Becomes, PhaseBar

LEMMA BarsSame ==
  ASSUME LockSame, PhasesSame PROVE LockStep
<1>1. LockBar' = LockBar
  BY DEF LockSame, LockIs, LockBar
<1>2. PhaseBar' = PhaseBar
  BY TurnsAre DEF PhasesSame, PhaseBar
<1>3. QED BY <1>1, <1>2 DEF LockStep, Lock!vars, LockBar, PhaseBar, PhaseOf

LEMMA LockClaim ==
  ASSUME NEW t \in Messages, PhaseOf(t) = "idle", Becomes(t, "named"),
         LockIs(t, rec.triagedBy, rec.parked, rec.resumedBy),
         rec.holder \in {NoOne, t} \cup Procs,
         rec.holder \in {NoOne, t} \/ PhaseOf(rec.holder) # "working"
  PROVE  LockStep
<1>1. LockBar' = ClaimTurn(LockBar, t)
  BY LockBarIs DEF LockBar, ClaimTurn
<1>2. PhaseBar[t] = "idle" /\ PhaseBar' = [PhaseBar EXCEPT ![t] = "named"]
  BY PhaseBarBecomes
<1>3. Lock!Expired \/ rec.holder \in {NoOne, t}
  BY TurnsAre DEF Lock!Expired, PhaseOf
<1>4. Lock!ClaimTurnOk(LockBar, t, Lock!Expired)
  BY <1>3 DEF Lock!ClaimTurnOk, LockBar
<1>5. Lock!Claim(t)
  BY <1>1, <1>2, <1>4 DEF Lock!Claim, Lock!Become, Lock!ClaimTurn, ClaimTurn, LockBar, PhaseBar, PhaseOf
<1>6. QED BY <1>5, TurnsAre DEF LockStep, Lock!Next, Lock!AnswerStep

LEMMA LockGoOn ==
  ASSUME NEW t \in Messages, PhaseOf(t) = "idle", Becomes(t, "named"), LockSame
  PROVE  LockStep
<1>1. LockBar' = LockBar
  BY LockBarIs DEF LockBar, LockSame
<1>2. PhaseBar[t] = "idle" /\ PhaseBar' = [PhaseBar EXCEPT ![t] = "named"]
  BY PhaseBarBecomes
<1>3. Lock!GoOnUnclaimed(t)
  BY <1>1, <1>2 DEF Lock!GoOnUnclaimed, Lock!Become, LockBar, PhaseBar, PhaseOf
<1>4. QED BY <1>3, TurnsAre DEF LockStep, Lock!Next, Lock!AnswerStep

LEMMA LockStart ==
  ASSUME NEW t \in Procs, PhaseOf(t) = "named", LockSame,
         NEW phase, phase = AdmittedTo(t), Becomes(t, phase)
  PROVE  LockStep
<1>1. LockBar' = LockBar
  BY LockBarIs DEF LockBar, LockSame
<1>2. PhaseBar[t] = "named" /\ PhaseBar' = [PhaseBar EXCEPT ![t] = phase]
  BY PhaseBarBecomes
<1>3. phase = Lock!Admitted(t)
  BY TurnsAre DEF Lock!Admitted, AdmittedTo
<1>4. Lock!Start(t)
  BY <1>1, <1>2, <1>3 DEF Lock!Start, Lock!Become, LockBar, PhaseBar, PhaseOf
<1>5. QED BY <1>4, TurnsAre DEF LockStep, Lock!Next, Lock!RunStep

LEMMA LockDrops ==
  ASSUME NEW t \in Procs, Dropped(t)
  PROVE  LockBar' = Lock!Drop(t) /\ DoneIs(t) = Lock!Done(t)
<1>1. LockBar' = IF rec.holder = t THEN Release(LockBar) ELSE LockBar
  BY LockBarIs DEF LockBar, Dropped, Release
<1>2. QED BY <1>1 DEF Lock!Drop, Lock!ReleaseOk, Lock!Release, Release, LockBar, DoneIs, Lock!Done

LEMMA LockNotStarted ==
  ASSUME NEW t \in Procs, PhaseOf(t) \in {"named", "resuming"}, Dropped(t),
         NEW phase, phase = DoneIs(t), Becomes(t, phase)
  PROVE  LockStep
<1>1. PhaseBar[t] = PhaseOf(t) /\ PhaseBar' = [PhaseBar EXCEPT ![t] = phase]
  BY PhaseBarBecomes
<1>2. Lock!NotStarted(t)
  BY <1>1, LockDrops DEF Lock!NotStarted, Lock!Become, LockBar, PhaseBar, PhaseOf
<1>3. QED BY <1>2, TurnsAre DEF LockStep, Lock!Next, Lock!RunStep

LEMMA LockRelease ==
  ASSUME NEW t \in Procs, Engaged(t), Dropped(t), NEW phase, phase = DoneIs(t), Becomes(t, phase)
  PROVE  LockStep
<1>1. PhaseBar[t] = PhaseOf(t) /\ PhaseBar' = [PhaseBar EXCEPT ![t] = phase]
  BY PhaseBarBecomes
<1>2. Lock!ReleaseAtExit(t)
  BY <1>1, LockDrops
     DEF Lock!ReleaseAtExit, Lock!Running, Engaged, Lock!Become, LockBar, PhaseBar, PhaseOf
<1>3. QED BY <1>2, TurnsAre DEF LockStep, Lock!Next, Lock!RunStep

LEMMA LockRedispatch ==
  ASSUME NEW t \in Messages, Engaged(t), LockSame, Becomes(t, "idle")
  PROVE  LockStep
<1>1. LockBar' = LockBar
  BY LockBarIs DEF LockBar, LockSame
<1>2. t \in Procs /\ t \notin Readings /\ PhaseBar[t] = PhaseOf(t) /\ PhaseBar' = [PhaseBar EXCEPT ![t] = "idle"]
  BY PhaseBarBecomes, Apart
<1>3. Lock!Redispatch(t)
  BY <1>1, <1>2 DEF Lock!Redispatch, Lock!Running, Engaged, Lock!Become, LockBar, PhaseBar, PhaseOf
<1>4. QED BY <1>2, <1>3, TurnsAre DEF LockStep, Lock!Next, Lock!RunStep

LEMMA LockDie ==
  ASSUME NEW t \in Procs, PhaseOf(t) \in {"named", "working", "alone", "resuming"}, LockSame,
         NEW lost \in SUBSET Readings, \A r \in lost : PhaseOf(r) = "named",
         \A u \in Procs : PhaseOf(u)' = IF u = t \/ u \in lost THEN "dead" ELSE PhaseOf(u)
  PROVE  LockStep
<1>1. LockBar' = LockBar
  BY LockBarIs DEF LockBar, LockSame
<1>2. \A u \in Procs : PhaseBar[u] = PhaseOf(u)
  BY TurnsAre DEF PhaseBar
<1>3. PhaseBar' = [u \in Procs |-> IF u = t \/ u \in lost THEN "dead" ELSE PhaseBar[u]]
  BY <1>2, TurnsAre DEF PhaseBar
<1>4. lost \in SUBSET {r \in Readings : PhaseBar[r] = "named"}
  BY <1>2 DEF Procs
<1>5. Lock!Die(t)
  BY <1>1, <1>2, <1>3, <1>4, TurnsAre DEF Lock!Die, LockBar, PhaseBar, PhaseOf
<1>6. QED BY <1>5, TurnsAre DEF LockStep, Lock!Next, Lock!RunStep

\* One turn alone is left without a run.
LEMMA LockLost ==
  ASSUME NEW t \in Procs, PhaseOf(t) \in {"named", "working", "alone", "resuming"}, LockSame,
         Becomes(t, "dead")
  PROVE  LockStep
<1>1. PICK none \in SUBSET Readings : none = {}
  OBVIOUS
<1>2. \A u \in Procs : PhaseOf(u)' = IF u = t \/ u \in none THEN "dead" ELSE PhaseOf(u)
  BY <1>1 DEF Becomes
<1>3. QED BY <1>1, <1>2, LockDie

LEMMA LockPark ==
  ASSUME NEW t \in Messages, NEW reader \in Readings, Engaged(t),
         rec.holder = t, rec.triagedBy = reader, rec.parked = NoOne,
         LockIs(reader, rec.triagedBy, t, rec.resumedBy), Becomes(t, "parked")
  PROVE  LockStep
<1>1. LockBar' = Park(LockBar, t, reader)
  BY LockBarIs, LockBarWrites
<1>2. PhaseBar[t] = PhaseOf(t) /\ PhaseBar' = [PhaseBar EXCEPT ![t] = "parked"]
  BY PhaseBarBecomes
<1>3. Lock!ParkAnswer(t, reader)
  BY <1>1, <1>2 DEF Lock!ParkAnswer, Lock!Running, Engaged, Lock!Become, Lock!Park, Park, LockBar,
                    PhaseBar, PhaseOf
<1>4. QED BY <1>3, TurnsAre DEF LockStep, Lock!Next, Lock!AnswerStep

LEMMA LockResume ==
  ASSUME NEW r \in Readings, NEW t \in Messages, rec.parked = t, Engaged(r),
         rec.resumedBy = NoOne, rec.holder \in {r, NoOne},
         LockIs(t, rec.triagedBy, rec.parked, r), Becomes(t, "resuming")
  PROVE  LockStep
<1>0. LockBar.parked = t
  BY DEF LockBar
<1>1. LockBar' = BeginResume(LockBar, r)
  BY LockBarIs, LockBarWrites
<1>2. PhaseBar[r] = PhaseOf(r) /\ PhaseBar' = [PhaseBar EXCEPT ![t] = "resuming"]
  BY PhaseBarBecomes, TurnsAre DEF PhaseBar, Procs
<1>3. Lock!BeginResumeOk(LockBar, r)
  BY Apart DEF Lock!BeginResumeOk, LockBar
<1>4. Lock!ResumeParked(r)
  BY <1>0, <1>1, <1>2, <1>3 DEF Lock!ResumeParked, Lock!Running, Engaged, Lock!Become, Lock!BeginResume,
                          BeginResume, LockBar, PhaseBar, PhaseOf
<1>5. QED BY <1>4, TurnsAre DEF LockStep, Lock!Next, Lock!ReadingStep

LEMMA LockAbandon ==
  ASSUME NEW r \in Readings, NEW t \in Messages, rec.parked = t, Engaged(r),
         PhaseOf(t) = "resuming", rec.holder = t, rec.resumedBy = r,
         LockIs(r, rec.triagedBy, rec.parked, NoOne), Becomes(t, "parked")
  PROVE  LockStep
<1>0. LockBar.parked = t /\ LockBar.parked # NoOne
  BY Apart DEF LockBar
<1>1. LockBar' = AbandonResume(LockBar, r)
  BY LockBarIs, LockBarWrites
<1>2. /\ PhaseBar[r] = PhaseOf(r) /\ PhaseBar[t] = PhaseOf(t)
      /\ PhaseBar' = [PhaseBar EXCEPT ![t] = "parked"]
  BY PhaseBarBecomes, TurnsAre DEF PhaseBar, Procs
<1>3. Lock!AbandonResumeOk(LockBar, r, t)
  BY DEF Lock!AbandonResumeOk, LockBar
<1>4. Lock!AbandonResumed(r)
  BY <1>0, <1>1, <1>2, <1>3 DEF Lock!AbandonResumed, Lock!Running, Engaged, Lock!Become,
                          Lock!AbandonResume, AbandonResume, LockBar, PhaseBar, PhaseOf
<1>5. QED BY <1>4, TurnsAre DEF LockStep, Lock!Next, Lock!ReadingStep

LEMMA LockDeliver ==
  ASSUME NEW t \in Messages, PhaseOf(t) = "resuming", rec.parked = t, rec.resumedBy # NoOne,
         LockIs(rec.holder, rec.triagedBy, NoOne, NoOne),
         NEW phase, phase = AdmittedTo(t), Becomes(t, phase)
  PROVE  LockStep
<1>1. LockBar' = TakeParked(LockBar)
  BY LockBarIs, LockBarWrites
<1>2. PhaseBar[t] = PhaseOf(t) /\ PhaseBar' = [PhaseBar EXCEPT ![t] = phase]
  BY PhaseBarBecomes
<1>3. phase = Lock!Admitted(t) /\ Lock!TakeParkedOk(LockBar, t)
  BY TurnsAre DEF Lock!Admitted, AdmittedTo, Lock!TakeParkedOk, LockBar
<1>4. Lock!DeliverParked(t)
  BY <1>1, <1>2, <1>3 DEF Lock!DeliverParked, Lock!Become, Lock!TakeParked, TakeParked, LockBar,
                          PhaseBar, PhaseOf
<1>5. QED BY <1>4, TurnsAre DEF LockStep, Lock!Next, Lock!AnswerStep

LEMMA LockHandToReading ==
  ASSUME NEW t \in Procs, NEW reader \in Readings \ {t}, Engaged(t), rec.holder = t,
         rec.triagedBy = reader \/ PhaseOf(reader) = "named",
         LockIs(reader, rec.triagedBy, rec.parked, rec.resumedBy),
         NEW phase, phase = DoneIs(t), Becomes(t, phase)
  PROVE  LockStep
<1>1. LockBar' = HandOver(LockBar, reader)
  BY LockBarIs DEF LockBar, HandOver
<1>2. /\ PhaseBar[t] = PhaseOf(t) /\ PhaseBar[reader] = PhaseOf(reader)
      /\ PhaseBar' = [PhaseBar EXCEPT ![t] = phase]
  BY PhaseBarBecomes, TurnsAre DEF PhaseBar, Procs
<1>3. phase = Lock!Done(t) /\ Lock!HandOverOk(LockBar, t, reader, FALSE)
  BY DEF Lock!Done, DoneIs, Lock!HandOverOk, LockBar
<1>4. Lock!HandToReading(t, reader)
  BY <1>1, <1>2, <1>3 DEF Lock!HandToReading, Lock!Running, Engaged, Lock!Become, Lock!HandOver,
                          HandOver, LockBar, PhaseBar, PhaseOf
<1>5. QED BY <1>4, TurnsAre DEF LockStep, Lock!Next, Lock!RunStep

LEMMA LockClaimQueue ==
  ASSUME NEW r \in Readings, PhaseOf(r) = "idle", Becomes(r, "named"),
         LockIs(rec.holder, r, rec.parked, rec.resumedBy)
  PROVE  LockStep
<1>1. LockBar' = ClaimTriage(LockBar, r)
  BY LockBarIs DEF LockBar, ClaimTriage
<1>2. PhaseBar[r] = PhaseOf(r) /\ PhaseBar' = [PhaseBar EXCEPT ![r] = "named"]
  BY PhaseBarBecomes
<1>3. Lock!ClaimTriageOk(LockBar, r, TRUE)
  BY DEF Lock!ClaimTriageOk
<1>4. Lock!ClaimQueue(r, TRUE)
  BY <1>1, <1>2, <1>3 DEF Lock!ClaimQueue, Lock!Become, Lock!ClaimTriage, ClaimTriage, LockBar,
                          PhaseBar, PhaseOf
<1>5. QED BY <1>4, TurnsAre DEF LockStep, Lock!Next, Lock!ReadingStep

LEMMA LockEndClaim ==
  ASSUME NEW r \in Readings,
         LockIs(rec.holder, IF rec.triagedBy = r THEN NoOne ELSE rec.triagedBy, rec.parked,
                rec.resumedBy),
         PhasesSame \/ (PhaseOf(r) = "named" /\ Becomes(r, "idle"))
  PROVE  LockStep
<1>1. LockBar' = ReleaseTriage(LockBar, r)
  BY LockBarIs DEF LockBar, ReleaseTriage
<1>2. \/ PhaseBar' = PhaseBar
      \/ PhaseBar[r] = "named" /\ PhaseBar' = [PhaseBar EXCEPT ![r] = "idle"]
  BY PhaseBarBecomes, TurnsAre DEF PhaseBar, PhasesSame
<1>3. Lock!EndQueueClaim(r)
  BY <1>1, <1>2 DEF Lock!EndQueueClaim, Lock!Become, Lock!ReleaseTriage, ReleaseTriage, LockBar,
                    PhaseBar, PhaseOf
<1>4. QED BY <1>3, TurnsAre DEF LockStep, Lock!Next, Lock!ReadingStep

-----------------------------------------------------------------------------
(* How far each turn has come, and which steps leave that as it is.         *)

Wanted(r) == \E p \in Procs : r \in ClaimedFor(p)

\* An answer at work; a reading that has not been dispatched yet.
AtWork(m) == run[m].pc \notin {"none", "over", "dead", "parked", "resumed"}
Begins(r) == run[r].pc = "fetch" \/ (run[r].pc \in {"empty", "giveup"} /\ run[r].other = NoOne)
Routed(m) == ask[m] \in {"claimed", "undo"}

AnswerPhases(m) ==
    /\ run[m].pc = "none"    => PhaseOf(m) = IF Routed(m) THEN "named" ELSE "idle"
    /\ run[m].pc = "parked"  => PhaseOf(m) = IF rec.resumedBy = NoOne THEN "parked" ELSE "resuming"
    /\ run[m].pc = "resumed" => PhaseOf(m) = "resuming"
    /\ run[m].pc = "over" \/ run[m].handed => PhaseOf(m) = "over"
    /\ run[m].pc = "dead" /\ ~run[m].handed => PhaseOf(m) = "dead"
    /\ AtWork(m) /\ ~run[m].handed => PhaseOf(m) = IF rec.holder = m THEN "working" ELSE "alone"

ReadingPhases(r) ==
    /\ run[r].pc \in {"none", "over"} => PhaseOf(r) = IF Wanted(r) THEN "named" ELSE "idle"
    /\ run[r].pc = "claim" \/ run[r].handed => PhaseOf(r) = "idle"
    /\ run[r].pc = "dead" /\ ~run[r].handed => PhaseOf(r) = "dead"
    /\ Begins(r) /\ ~run[r].handed => PhaseOf(r) = "named"
    /\ run[r].pc \notin {"none", "over", "claim", "dead"} /\ ~Begins(r) /\ ~run[r].handed =>
          PhaseOf(r) = "working"

\* A follow-up has one run that claimed the queue for it, and has not begun.
FollowUpsIdle ==
    \A p \in Procs : \A r \in ClaimedFor(p) :
        /\ r \in Readings /\ run[p].other = r /\ Follows(p) /\ run[r].pc \in {"none", "over"}
        /\ ~run[r].handed /\ r # p
        /\ \A q \in Procs : r \in ClaimedFor(q) => q = p

PhasesAre ==
    /\ FollowUpsIdle
    /\ \A m \in Messages : AnswerPhases(m)
    /\ \A r \in Readings : ReadingPhases(r)

LEMMA PhasesHold == IInv => PhasesAre
<1> SUFFICES ASSUME IInv PROVE PhasesAre
  OBVIOUS
<1>0. Shaped /\ Asking /\ Following
  BY DEF IInv
<1>1. FollowUpsIdle
  <2> SUFFICES ASSUME NEW p \in Procs, NEW r \in ClaimedFor(p)
      PROVE  /\ r \in Readings /\ run[p].other = r /\ Follows(p) /\ run[r].pc \in {"none", "over"}
             /\ ~run[r].handed /\ r # p
             /\ \A q \in Procs : r \in ClaimedFor(q) => q = p
    BY DEF FollowUpsIdle
  <2>1. \A q \in Procs : r \in ClaimedFor(q) => r \in Readings /\ run[q].other = r /\ Follows(q)
    BY Apart DEF ClaimedFor, Follows, Procs
  <2>2. run[r].pc \in {"none", "over"}
    BY <1>0, <2>1 DEF Following, ClaimedFor
  <2>3. ~run[r].handed
    BY <1>0, <2>1, <2>2 DEF Shaped, RunShaped, Procs
  <2>4. r # p
    BY <2>1, <2>2 DEF Follows
  <2>5. \A q \in Procs : r \in ClaimedFor(q) => q = p
    BY <1>0, <2>1 DEF Following
  <2>6. QED BY <2>1, <2>2, <2>3, <2>4, <2>5
<1>2. ASSUME NEW m \in Messages PROVE AnswerPhases(m)
  <2>1. m \notin Readings /\ (run[m].pc # "none" => ~Routed(m))
    BY <1>0, Apart DEF Asking, Routed, Procs
  <2>2. run[m].handed => run[m].pc \in {"send", "free", "giveup", "release", "dead"}
    BY <1>0 DEF Shaped, RunShaped, Procs
  <2>3. PhaseOf(m) = PhaseOfAnswer(m)
    BY <2>1 DEF PhaseOf
  <2>4. run[m].pc = "none" => PhaseOf(m) = IF Routed(m) THEN "named" ELSE "idle"
    BY <2>2, <2>3 DEF PhaseOfAnswer, Routed
  <2>5. run[m].pc = "parked" =>
          PhaseOf(m) = IF rec.resumedBy = NoOne THEN "parked" ELSE "resuming"
    BY <2>1, <2>2, <2>3 DEF PhaseOfAnswer, Routed
  <2>6. run[m].pc = "resumed" => PhaseOf(m) = "resuming"
    BY <2>1, <2>2, <2>3 DEF PhaseOfAnswer, Routed
  <2>7. run[m].pc = "over" \/ run[m].handed => PhaseOf(m) = "over"
    BY <2>1, <2>2, <2>3 DEF PhaseOfAnswer, Routed
  <2>8. run[m].pc = "dead" /\ ~run[m].handed => PhaseOf(m) = "dead"
    BY <2>1, <2>2, <2>3 DEF PhaseOfAnswer, Routed
  <2>9. AtWork(m) /\ ~run[m].handed => PhaseOf(m) = IF rec.holder = m THEN "working" ELSE "alone"
    BY <2>1, <2>3 DEF PhaseOfAnswer, Routed, AtWork
  <2>10. QED BY <2>4, <2>5, <2>6, <2>7, <2>8, <2>9 DEF AnswerPhases
<1>3. ASSUME NEW r \in Readings PROVE ReadingPhases(r)
  <2>1. run[r].handed => run[r].pc \in {"send", "free", "giveup", "release", "dead"}
    BY <1>0 DEF Shaped, RunShaped, Procs
  <2>2. Wanted(r) => run[r].pc \in {"none", "over"}
    BY <1>1 DEF FollowUpsIdle, Wanted
  <2>3. PhaseOf(r) = PhaseOfReading(r)
    BY DEF PhaseOf
  <2>4. run[r].pc \in {"none", "over"} => PhaseOf(r) = IF Wanted(r) THEN "named" ELSE "idle"
    BY <2>1, <2>3 DEF PhaseOfReading, Wanted
  <2>5. run[r].pc = "claim" \/ run[r].handed => PhaseOf(r) = "idle"
    BY <2>1, <2>2, <2>3 DEF PhaseOfReading, Wanted
  <2>6. run[r].pc = "dead" /\ ~run[r].handed => PhaseOf(r) = "dead"
    BY <2>3 DEF PhaseOfReading
  <2>7. Begins(r) /\ ~run[r].handed => PhaseOf(r) = "named"
    BY <2>3 DEF PhaseOfReading, Begins
  <2>8. run[r].pc \notin {"none", "over", "claim", "dead"} /\ ~Begins(r) /\ ~run[r].handed =>
          PhaseOf(r) = "working"
    BY <2>3 DEF PhaseOfReading, Begins
  <2>9. QED BY <2>4, <2>5, <2>6, <2>7, <2>8 DEF ReadingPhases
<1>4. QED BY <1>1, <1>2, <1>3 DEF PhasesAre

LEMMA AnswerPhaseKept ==
  ASSUME NEW m \in Messages, run'[m].pc = run[m].pc, run'[m].handed = run[m].handed,
         Routed(m)' <=> Routed(m),
         (rec'.resumedBy = NoOne <=> rec.resumedBy = NoOne) \/ run[m].pc # "parked",
         (rec'.holder = m <=> rec.holder = m) \/ ~AtWork(m)
  PROVE  PhaseOf(m)' = PhaseOf(m)
BY Apart DEF PhaseOf, PhaseOfAnswer, Routed, AtWork, Procs

LEMMA ReadingPhaseKept ==
  ASSUME NEW r \in Readings, run'[r].pc = run[r].pc, run'[r].handed = run[r].handed,
         run'[r].other = run[r].other, Wanted(r)' <=> Wanted(r)
  PROVE  PhaseOf(r)' = PhaseOf(r)
BY DEF PhaseOf, PhaseOfReading, Wanted

\* Where every run stands, no reading is wanted that was not.
LEMMA AllStand ==
  ASSUME \A q \in Procs : Stands(q), rec'.resumedBy = rec.resumedBy
  PROVE  /\ \A r \in Readings : PhaseOf(r)' = PhaseOf(r)
         /\ \A m \in Messages : /\ Routed(m)' <=> Routed(m)
                                /\ (rec'.holder = m <=> rec.holder = m) \/ ~AtWork(m)
                                => PhaseOf(m)' = PhaseOf(m)
<1>1. \A q \in Procs : \A r \in Readings : r \in ClaimedFor(q)' <=> r \in ClaimedFor(q)
  BY DEF Stands, ClaimedFor
<1>2. \A r \in Readings : Wanted(r)' <=> Wanted(r)
  BY <1>1 DEF Wanted
<1>3. QED BY <1>2, AnswerPhaseKept, ReadingPhaseKept DEF Stands, Procs

\* Where one run goes on, the others are where they were, but for a reading that run claims
\* the queue for, or claims it for no longer.
LEMMA PhasesElsewhere ==
  ASSUME NEW p \in Procs, Others(p), \A m \in Messages \ {p} : ask'[m] = ask[m],
         rec'.resumedBy = NoOne <=> rec.resumedBy = NoOne,
         \A m \in Messages \ {p} : rec'.holder = m <=> rec.holder = m
  PROVE  \A u \in Procs \ {p} :
            (u \in ClaimedFor(p)' <=> u \in ClaimedFor(p)) => PhaseOf(u)' = PhaseOf(u)
<1>1. ASSUME NEW u \in Readings, u # p, u \in ClaimedFor(p)' <=> u \in ClaimedFor(p)
      PROVE  PhaseOf(u)' = PhaseOf(u)
  <2>1. \A q \in Procs : q # p => (u \in ClaimedFor(q)' <=> u \in ClaimedFor(q))
    BY DEF Others, ClaimedFor
  <2>2. Wanted(u)' <=> Wanted(u)
    BY <1>1, <2>1 DEF Wanted
  <2>3. QED BY <1>1, <2>2, ReadingPhaseKept DEF Others, Procs
<1>2. ASSUME NEW u \in Messages, u # p PROVE PhaseOf(u)' = PhaseOf(u)
  BY <1>2, AnswerPhaseKept DEF Others, Procs, Routed
<1>3. QED BY <1>1, <1>2 DEF Procs

(* The points at which a run may have claimed the queue for another reading. *)
ClaimingPcs == {"messages", "empty", "hand", "send", "free", "giveup"}

LEMMA NotClaiming ==
  ASSUME NEW p \in Procs
  PROVE  /\ run[p].pc \notin ClaimingPcs => ClaimedFor(p) = {}
         /\ run'[p].pc \notin ClaimingPcs => ClaimedFor(p)' = {}
         /\ run[p].other = NoOne => ClaimedFor(p) = {}
         /\ run'[p].other = NoOne => ClaimedFor(p)' = {}
BY Apart DEF ClaimedFor, ClaimingPcs

\* Where one run goes on that claims the queue for nobody, and stays at its phase, all do.
LEMMA PhasesStay ==
  ASSUME NEW p \in Procs, Others(p), \A m \in Messages \ {p} : ask'[m] = ask[m],
         rec'.resumedBy = NoOne <=> rec.resumedBy = NoOne,
         \A m \in Messages \ {p} : rec'.holder = m <=> rec.holder = m,
         run[p].pc \notin ClaimingPcs, run'[p].pc \notin ClaimingPcs
  PROVE  /\ \A u \in Procs \ {p} : PhaseOf(u)' = PhaseOf(u)
         /\ PhaseOf(p)' = PhaseOf(p) => PhasesSame
         /\ \A phase : PhaseOf(p)' = phase => Becomes(p, phase)
<1>1. \A u \in Procs \ {p} : PhaseOf(u)' = PhaseOf(u)
  BY NotClaiming, PhasesElsewhere
<1>2. QED BY <1>1 DEF PhasesSame, Becomes

LEMMA PhasesHoldNext == IInv' => PhasesAre'
<1>1. IInv => PhasesAre
  BY PhasesHold
<1>2. QED BY <1>1, PTL

LEMMA LockIsOfRec ==
  /\ rec' = rec => LockSame
  /\ \A h, q, a, c, k, b : RecIs(rec', h, q, a, c, k, b) => LockIs(h, c, k, b)
BY DEF LockSame, LockIs, RecIs

(* A run that was admitted and goes on.                                     *)
Busy(p) ==
    \/ p \in Messages /\ AtWork(p)
    \/ p \in Readings /\ run[p].pc \notin {"none", "over", "claim", "dead"} /\ ~Begins(p)

LEMMA BusyAt ==
  ASSUME NEW p \in Procs
  PROVE  /\ run[p].pc \notin {"none", "over", "dead", "parked", "resumed", "claim", "fetch", "empty",
                              "giveup"} => Busy(p)
         /\ run[p].pc \in {"empty", "giveup"} /\ run[p].other # NoOne => Busy(p)
         /\ run'[p].pc \notin {"none", "over", "dead", "parked", "resumed", "claim", "fetch", "empty",
                               "giveup"} => Busy(p)'
         /\ run'[p].pc \in {"empty", "giveup"} /\ run'[p].other # NoOne => Busy(p)'
BY DEF Busy, AtWork, Begins, Procs

LEMMA BusyEngaged ==
  ASSUME PhasesAre, NEW p \in Procs, Busy(p), ~run[p].handed
  PROVE  Engaged(p) /\ PhaseOf(p) = AdmittedTo(p)
BY Apart DEF PhasesAre, Busy, AnswerPhases, ReadingPhases, Engaged, AdmittedTo

LEMMA BusyStays ==
  ASSUME PhasesAre, PhasesAre', NEW p \in Procs, Busy(p), Busy(p)',
         run'[p].handed = run[p].handed, rec'.holder = p <=> rec.holder = p
  PROVE  PhaseOf(p)' = PhaseOf(p)
<1>1. CASE p \in Messages
  BY <1>1, Apart DEF PhasesAre, Busy, AnswerPhases
<1>2. CASE p \in Readings
  BY <1>2, Apart DEF PhasesAre, Busy, ReadingPhases
<1>3. QED BY <1>1, <1>2 DEF Procs

\* A run that works on, for the same follow-up if any, leaves every turn at its phase.
LEMMA WorksOn ==
  ASSUME PhasesAre, PhasesAre', NEW p \in Procs, Others(p), ask' = ask, Busy(p), Busy(p)',
         run'[p].handed = run[p].handed, rec'.holder = rec.holder, rec'.resumedBy = rec.resumedBy,
         \/ run[p].pc \notin ClaimingPcs /\ run'[p].pc \notin ClaimingPcs
         \/ \A c \in Procs : c \in ClaimedFor(p)' <=> c \in ClaimedFor(p)
  PROVE  PhasesSame
<1>1. \A c \in Procs : c \in ClaimedFor(p)' <=> c \in ClaimedFor(p)
  BY NotClaiming
<1>2. QED BY <1>1, PhasesElsewhere, BusyStays DEF PhasesSame

\* Nothing runs under a turn that is not live.
LEMMA NotLive ==
  ASSUME PhasesAre, Shaped, NEW t \in Procs, ~Live(t)
  PROVE  PhaseOf(t) # "working" /\ (t \in Messages => ~AtWork(t))
<1>1. run[t].pc \in {"none", "over", "dead", "parked"}
  BY DEF Live, ActsFor, Active
<1>2. CASE t \in Messages
  BY <1>1, <1>2, Apart DEF PhasesAre, AnswerPhases, AtWork
<1>3. CASE t \in Readings
  BY <1>1, <1>3, Apart DEF PhasesAre, ReadingPhases, Shaped, RunShaped, ReadingPcs, ExitPcs
<1>4. QED BY <1>2, <1>3 DEF Procs

-----------------------------------------------------------------------------
(* Every step of every run is a step of the lock, or leaves it alone.       *)

LEMMA ClaimImplements ==
  ASSUME IInv, PhasesAre, PhasesAre', NEW m \in Messages, ClaimTurnFor(m)
  PROVE  LockStep
<1>0. TypeOK /\ Shaped /\ Asking /\ m \in Procs
  BY DEF IInv, Procs
<1>1. /\ run' = run /\ ask[m] \in {"unsent", "claim"} /\ \A o \in Messages \ {m} : ask'[o] = ask[o]
      /\ ask'[m] \in {"claimed", "read"} /\ rec'.resumedBy = rec.resumedBy
  BY <1>0, ClaimTurnForStep DEF AskGoes, HolderIs, RecIs
<1>2. run[m].pc = "none" /\ ~AtWork(m) /\ ~Routed(m) /\ PhaseOf(m) = "idle"
  BY <1>0, <1>1 DEF Asking, AtWork, Routed, PhasesAre, AnswerPhases
<1>3. ask'[m] = "claimed" => PhaseOf(m)' = "named"
  BY <1>1, <1>2 DEF PhasesAre, AnswerPhases, Routed
<1>4. /\ \A r \in Readings : PhaseOf(r)' = PhaseOf(r)
      /\ \A o \in Messages : /\ Routed(o)' <=> Routed(o)
                             /\ (rec'.holder = o <=> rec.holder = o) \/ ~AtWork(o)
                             => PhaseOf(o)' = PhaseOf(o)
  <2>1. \A q \in Procs : Stands(q)
    BY <1>1 DEF Stands
  <2>2. QED BY <1>1, <2>1, AllStand
<1>5. \A o \in Messages \ {m} : Routed(o)' <=> Routed(o)
  BY <1>1 DEF Routed
<1>6. CASE rec' = rec /\ ask'[m] = "read"
  <2>1. PhaseOf(m)' = PhaseOf(m)
    BY <1>1, <1>2, <1>4, <1>6 DEF Routed
  <2>2. PhasesSame
    BY <1>4, <1>5, <1>6, <2>1 DEF PhasesSame, Procs
  <2>3. QED BY <1>6, <2>2, LockIsOfRec, BarsSame
<1>7. CASE rec' = rec /\ ask'[m] = "claimed"
  <2>1. Becomes(m, "named")
    BY <1>0, <1>3, <1>4, <1>5, <1>7 DEF Becomes, Procs
  <2>2. QED BY <1>2, <1>7, <2>1, LockIsOfRec, LockGoOn
<1>8. CASE rec' # rec
  <2>1. HolderIs(m) /\ ask'[m] = "claimed"
    BY <1>0, <1>8, ClaimTurnForStep DEF AskGoes
  <2>2. PICK h : h = rec.holder
    OBVIOUS
  <2>3. h \in {NoOne, m} \/ ~Live(h)
    BY <1>8, <2>2 DEF ClaimTurnFor, ClaimTurnOk, Gone
  <2>4. h \in Procs \cup {NoOne}
    BY <1>0, <2>2, TurnsAre DEF TypeOK, TurnRecords
  <2>5. h \in {NoOne, m} \/ (PhaseOf(h) # "working" /\ (h \in Messages => ~AtWork(h)))
    BY <1>0, <2>3, <2>4, NotLive
  <2>6. rec'.holder = m
    BY <2>1 DEF HolderIs, RecIs
  <2>7. \A o \in Messages \ {m} : PhaseOf(o)' = PhaseOf(o)
    BY <1>4, <1>5, <2>2, <2>5, <2>6, Apart
  <2>8. Becomes(m, "named")
    BY <1>0, <1>3, <1>4, <2>1, <2>7 DEF Becomes, Procs
  <2>9. LockIs(m, rec.triagedBy, rec.parked, rec.resumedBy)
    BY <2>1, LockIsOfRec DEF HolderIs
  <2>10. QED BY <1>2, <2>2, <2>4, <2>5, <2>8, <2>9, LockClaim
<1>9. QED BY <1>1, <1>6, <1>7, <1>8

\* A refused claim that finds nobody holding the lock goes on without it.
LEMMA ReadHolderImplements ==
  ASSUME IInv, PhasesAre, PhasesAre', NEW m \in Messages, ReadHolder(m)
  PROVE  LockStep
<1>0. TypeOK /\ Asking /\ m \in Procs
  BY DEF IInv, Procs
<1>1. /\ run' = run /\ ask[m] = "read" /\ \A o \in Messages \ {m} : ask'[o] = ask[o]
      /\ ask'[m] \in {"claimed", "enqueue"} /\ rec' = rec
  BY <1>0, ReadHolderStep DEF AskGoes
<1>2. run[m].pc = "none" /\ ~Routed(m) /\ PhaseOf(m) = "idle"
  BY <1>0, <1>1 DEF Asking, Routed, PhasesAre, AnswerPhases
<1>3. PhaseOf(m)' = IF ask'[m] = "claimed" THEN "named" ELSE "idle"
  BY <1>1, <1>2 DEF PhasesAre, AnswerPhases, Routed
<1>4. \A u \in Procs \ {m} : PhaseOf(u)' = PhaseOf(u)
  <2>1. \A q \in Procs : Stands(q)
    BY <1>1 DEF Stands
  <2>2. \A o \in Messages \ {m} : Routed(o)' <=> Routed(o)
    BY <1>1 DEF Routed
  <2>3. QED BY <1>1, <2>1, <2>2, AllStand DEF Procs
<1>5. CASE ask'[m] = "claimed"
  BY <1>0, <1>1, <1>2, <1>3, <1>4, <1>5, LockIsOfRec, LockGoOn DEF Becomes
<1>6. CASE ask'[m] = "enqueue"
  BY <1>0, <1>1, <1>2, <1>3, <1>4, <1>6, LockIsOfRec, BarsSame DEF PhasesSame
<1>7. QED BY <1>1, <1>5, <1>6

LEMMA DispatchImplements ==
  ASSUME IInv, PhasesAre, PhasesAre', NEW m \in Messages, Dispatch(m)
  PROVE  LockStep
<1>0. TypeOK /\ Asking /\ m \in Procs
  BY DEF IInv, Procs
<1>1. ask[m] = "claimed" /\ rec' = rec /\ \A o \in Messages \ {m} : ask'[o] = ask[o]
  BY <1>0, DispatchStep DEF AskGoes
<1>2. run[m].pc = "none" /\ ~run[m].handed /\ PhaseOf(m) = "named"
  BY <1>0, <1>1 DEF IInv, Asking, Routed, PhasesAre, AnswerPhases, Shaped, RunShaped
<1>3. \A o \in Messages \ {m} : Routed(o)' <=> Routed(o)
  BY <1>1 DEF Routed
<1>4. CASE run' = run /\ ask'[m] = "undo"
  <2>1. \A q \in Procs : Stands(q)
    BY <1>4 DEF Stands
  <2>2. \A o \in Messages : Routed(o)' <=> Routed(o)
    BY <1>1, <1>3, <1>4 DEF Routed
  <2>3. PhasesSame
    BY <1>1, <2>1, <2>2, AllStand DEF Procs, PhasesSame
  <2>4. QED BY <1>1, <2>3, LockIsOfRec, BarsSame
<1>5. CASE Others(m) /\ Moved(m, "go") /\ ask'[m] = "done"
  <2>1. run'[m].pc = "go" /\ ~run'[m].handed
    BY <1>2, <1>5 DEF Moved, RunIs
  <2>2. PICK phase : phase = AdmittedTo(m)
    OBVIOUS
  <2>3. PhaseOf(m)' = phase
    BY <1>1, <2>1, <2>2 DEF PhasesAre, AnswerPhases, AtWork, AdmittedTo
  <2>4. Becomes(m, phase)
    BY <1>0, <1>1, <1>2, <1>5, <2>1, <2>3, PhasesStay DEF ClaimingPcs
  <2>5. QED BY <1>0, <1>1, <1>2, <2>2, <2>4, LockIsOfRec, LockStart
<1>6. QED BY <1>0, <1>4, <1>5, DispatchStep DEF AskGoes

LEMMA UndoImplements ==
  ASSUME IInv, PhasesAre, PhasesAre', NEW m \in Messages, UndoClaim(m)
  PROVE  LockStep
<1>0. TypeOK /\ Asking /\ m \in Procs /\ m \notin Readings
  BY Apart DEF IInv, Procs
<1>1. /\ ask[m] = "undo" /\ Others(m) /\ ask'[m] = "done"
      /\ \A o \in Messages \ {m} : ask'[o] = ask[o]
      /\ \/ IsOver(m) /\ ((rec.holder = m /\ HolderIs(NoOne)) \/ (rec.holder # m /\ rec' = rec))
         \/ Moved(m, "dead") /\ rec' = rec
  BY <1>0, UndoClaimStep DEF AskGoes
<1>2. run[m].pc = "none" /\ PhaseOf(m) = "named" /\ ~run[m].handed
  BY <1>0, <1>1 DEF IInv, Asking, Routed, PhasesAre, AnswerPhases, Shaped, RunShaped
<1>3. CASE Moved(m, "dead") /\ rec' = rec
  <2>1. PhaseOf(m)' = "dead" /\ run'[m].pc = "dead"
    BY <1>2, <1>3 DEF Moved, RunIs, PhasesAre, AnswerPhases
  <2>2. Becomes(m, "dead")
    BY <1>0, <1>1, <1>2, <1>3, <2>1, PhasesStay DEF ClaimingPcs
  <2>3. QED BY <1>0, <1>2, <1>3, <2>2, LockIsOfRec, LockLost
<1>4. CASE IsOver(m) /\ ((rec.holder = m /\ HolderIs(NoOne)) \/ (rec.holder # m /\ rec' = rec))
  <2>1. run'[m].pc = "over" /\ PhaseOf(m)' = "over"
    BY <1>4 DEF IsOver, RunIs, PhasesAre, AnswerPhases
  <2>2. Dropped(m) /\ rec'.resumedBy = rec.resumedBy
        /\ \A o \in Messages \ {m} : rec'.holder = o <=> rec.holder = o
    <3>1. CASE rec.holder = m
      BY <1>4, <3>1, Apart DEF HolderIs, RecIs, Dropped, LockIs
    <3>2. CASE rec.holder # m
      BY <1>4, <3>2 DEF Dropped, LockIs
    <3>3. QED BY <3>1, <3>2
  <2>3. PICK phase : phase = "over" /\ phase = DoneIs(m)
    BY <1>0 DEF DoneIs
  <2>4. Becomes(m, phase)
    BY <1>0, <1>1, <1>2, <2>1, <2>2, <2>3, PhasesStay DEF ClaimingPcs
  <2>5. QED BY <1>0, <1>2, <2>2, <2>3, <2>4, LockNotStarted
<1>5. QED BY <1>1, <1>3, <1>4

\* The queue, the notices, the clean-up after a fold and redactions are none of the lock's.
LEMMA QueueImplements ==
  ASSUME IInv, NEW m \in Messages,
         \/ EnqueueMessage(m) \/ TrimQueue(m) \/ PostNotice(m)
         \/ ClearFolded(m) \/ TakeFolded(m) \/ Redact(m)
  PROVE  LockStep
<1>0. TypeOK
  BY DEF IInv
<1>1. (\A q \in Procs : Stands(q)) /\ rec'.resumedBy = rec.resumedBy
  BY <1>0, RouterQuiet DEF RouterQuietly
<1>2. LockSame /\ \A o \in Messages : Routed(o)' <=> Routed(o)
  <2>1. CASE EnqueueMessage(m)
    BY <1>0, <2>1, EnqueueMessageStep DEF AskGoes, Routed, QueueIs, RecIs, LockSame, LockIs
  <2>2. CASE TrimQueue(m)
    BY <1>0, <2>2, TrimQueueStep DEF AskGoes, Routed, QueueIs, RecIs, LockSame, LockIs
  <2>3. CASE PostNotice(m)
    BY <1>0, <2>3, PostNoticeStep DEF AskGoes, Routed, LockSame, LockIs
  <2>4. CASE ClearFolded(m)
    BY <1>0, <2>4, ClearFoldedStep DEF Routed, RecIs, LockSame, LockIs
  <2>5. CASE TakeFolded(m)
    BY <1>0, <2>5, TakeFoldedStep DEF Routed, QueueIs, RecIs, LockSame, LockIs
  <2>6. CASE Redact(m)
    BY <1>0, <2>6, RedactStep DEF Routed, LockSame, LockIs
  <2>7. QED BY <2>1, <2>2, <2>3, <2>4, <2>5, <2>6
<1>3. PhasesSame
  BY <1>1, <1>2, AllStand DEF PhasesSame, Procs, LockSame, LockIs
<1>4. QED BY <1>2, <1>3, BarsSame

LEMMA TakeUpImplements ==
  ASSUME IInv, PhasesAre, PhasesAre', TakeUpNotice
  PROVE  LockStep
<1>0. rec' = rec /\ ask' = ask /\ LockSame
  BY TakeUpNoticeStep, LockIsOfRec DEF IInv
<1>1. CASE run' = run
  <2>1. \A q \in Procs : Stands(q)
    BY <1>1 DEF Stands
  <2>2. PhasesSame
    BY <1>0, <2>1, AllStand DEF PhasesSame, Procs, Routed
  <2>3. QED BY <1>0, <2>2, BarsSame
<1>2. CASE run' # run
  <2>1. PICK r \in Readings : Unused(r) /\ Others(r) /\ run'[r].pc = "claim"
    BY <1>2, TakeUpNoticeStep DEF IInv, RunIs
  <2>2. ~Wanted(r) /\ r \in Procs /\ run[r].pc \in {"none", "over"}
    BY <2>1 DEF Unused, Wanted, ClaimedFor, Procs
  <2>3. PhaseOf(r) = "idle" /\ PhaseOf(r)' = "idle"
    BY <2>1, <2>2 DEF PhasesAre, ReadingPhases
  <2>4. PhasesSame
    BY <1>0, <2>1, <2>2, <2>3, PhasesStay DEF ClaimingPcs
  <2>5. QED BY <1>0, <2>4, BarsSame
<1>3. QED BY <1>1, <1>2

-----------------------------------------------------------------------------
(* An answer's steps.                                                       *)

LEMMA CheckpointImplements ==
  ASSUME IInv, PhasesAre, PhasesAre', NEW p \in Procs, Checkpoint(p)
  PROVE  LockStep
<1>1. /\ run[p].pc = "go" /\ Others(p) /\ rec' = rec /\ ask' = ask
      /\ run'[p].pc \in {"park", "fold", "exit"} /\ run'[p].handed = run[p].handed
  BY CheckpointStep DEF IInv, RunIs, Delivered
<1>2. PhasesSame
  BY <1>1, BusyAt, WorksOn DEF ClaimingPcs
<1>3. QED BY <1>1, <1>2, LockIsOfRec, BarsSame

LEMMA ParkImplements ==
  ASSUME IInv, PhasesAre, PhasesAre', NEW p \in Procs, ParkForReading(p)
  PROVE  LockStep
<1>1. p \in Messages /\ run[p].pc = "park" /\ Others(p) /\ ask' = ask /\ Parking
      /\ Busy(p) /\ ~run[p].handed
  BY ParkForReadingStep, BusyAt DEF IInv, Shaped, RunShaped
<1>2. CASE rec' = rec /\ run'[p].pc \in {"fold", "exit"} /\ run'[p].handed = run[p].handed
  <2>1. PhasesSame
    BY <1>1, <1>2, BusyAt, WorksOn DEF ClaimingPcs
  <2>2. QED BY <1>2, <2>1, LockIsOfRec, BarsSame
<1>3. CASE /\ ParkOk(rec, p, run[p].other) /\ run[p].other \in Readings
           /\ LockIs(run[p].other, rec.triagedBy, p, rec.resumedBy) /\ run'[p].pc = "parked"
  <2>1. PICK reader \in Readings : reader = run[p].other
    BY <1>3
  <2>2. /\ rec.holder = p /\ rec.triagedBy = reader /\ rec.parked = NoOne
        /\ rec.resumedBy = NoOne /\ LockIs(reader, rec.triagedBy, p, rec.resumedBy)
    BY <1>1, <1>3, <2>1 DEF ParkOk, Parking
  <2>3. PhaseOf(p)' = "parked"
    BY <1>1, <1>3, <2>2 DEF PhasesAre, AnswerPhases, LockIs
  <2>4. Becomes(p, "parked")
    BY <1>1, <1>3, <2>2, <2>3, PhasesStay, Apart DEF ClaimingPcs, LockIs, Procs
  <2>5. Engaged(p)
    BY <1>1, BusyEngaged
  <2>6. QED BY <1>1, <2>2, <2>4, <2>5, LockPark
<1>4. QED
  <2>1. \/ rec' = rec /\ run'[p].pc \in {"fold", "exit"} /\ run'[p].handed = run[p].handed
        \/ /\ ParkOk(rec, p, run[p].other) /\ run[p].other \in Readings
           /\ LockIs(run[p].other, rec.triagedBy, p, rec.resumedBy) /\ run'[p].pc = "parked"
    BY ParkForReadingStep, LockIsOfRec DEF RunIs, Moved, Delivered
  <2>2. QED BY <1>2, <1>3, <2>1

LEMMA FoldImplements ==
  ASSUME IInv, PhasesAre, PhasesAre', NEW p \in Procs, Fold(p)
  PROVE  LockStep
<1>1. p \in Messages /\ run[p].pc = "fold" /\ Others(p) /\ rec' = rec
      /\ Busy(p) /\ ~run[p].handed
  BY FoldStep, BusyAt DEF IInv, Shaped, RunShaped
<1>2. \/ ask' = ask /\ run'[p].pc = "exit" /\ run'[p].handed = run[p].handed
      \/ run'[p].pc = "none" /\ ask'[p] = "claim" /\ \A o \in Messages \ {p} : ask'[o] = ask[o]
  BY FoldStep DEF RunIs, Delivered, AskGoes
<1>3. CASE ask' = ask /\ run'[p].pc = "exit" /\ run'[p].handed = run[p].handed
  <2>1. PhasesSame
    BY <1>1, <1>3, BusyAt, WorksOn DEF ClaimingPcs
  <2>2. QED BY <1>1, <2>1, LockIsOfRec, BarsSame
<1>4. CASE run'[p].pc = "none" /\ ask'[p] = "claim" /\ \A o \in Messages \ {p} : ask'[o] = ask[o]
  <2>1. PhaseOf(p)' = "idle"
    BY <1>1, <1>4 DEF PhasesAre, AnswerPhases, Routed
  <2>2. Becomes(p, "idle")
    BY <1>1, <1>4, <2>1, PhasesStay DEF ClaimingPcs
  <2>3. Engaged(p)
    BY <1>1, BusyEngaged
  <2>4. QED BY <1>1, <2>2, <2>3, LockIsOfRec, LockRedispatch
<1>5. QED BY <1>2, <1>3, <1>4

LEMMA DeliverImplements ==
  ASSUME IInv, PhasesAre, PhasesAre', NEW p \in Procs, DeliverParked(p)
  PROVE  LockStep
<1>1. /\ p \in Messages /\ run[p].pc = "resumed" /\ Others(p) /\ ask' = ask /\ Parking /\ ~run[p].handed
      /\ \/ /\ Moved(p, "go") /\ TakeParkedOk(rec, p)
            /\ RecIs(rec', rec.holder, rec.queued, rec.amendments, rec.triagedBy, NoOne, NoOne)
         \/ Moved(p, "dead") /\ rec' = rec
  BY DeliverParkedStep DEF IInv, Shaped, RunShaped
<1>2. /\ rec.parked = p /\ rec.resumedBy # NoOne /\ PhaseOf(p) = "resuming"
      /\ \A m \in Messages \ {p} : run[m].pc # "parked"
  BY <1>1 DEF PhasesAre, AnswerPhases, Parking
<1>3. \A u \in Readings : PhaseOf(u)' = PhaseOf(u)
  <2>0. run'[p].pc \in {"go", "dead"}
    BY <1>1 DEF Moved, RunIs
  <2>1. ClaimedFor(p) = {} /\ ClaimedFor(p)' = {}
    BY <1>1, <2>0, NotClaiming DEF ClaimingPcs
  <2>2. \A q \in Procs \ {p} : \A r \in Readings : r \in ClaimedFor(q)' <=> r \in ClaimedFor(q)
    BY <1>1 DEF Others, ClaimedFor
  <2>3. \A r \in Readings : Wanted(r)' <=> Wanted(r)
    BY <2>1, <2>2 DEF Wanted
  <2>4. QED BY <1>1, <2>3, ReadingPhaseKept, Apart DEF Others, Procs
<1>4. \A m \in Messages \ {p} : (rec'.holder = m <=> rec.holder = m) => PhaseOf(m)' = PhaseOf(m)
  BY <1>1, <1>2, AnswerPhaseKept DEF Others, Procs, Routed
<1>5. CASE Moved(p, "dead") /\ rec' = rec
  <2>1. PhaseOf(p)' = "dead"
    BY <1>1, <1>5 DEF Moved, RunIs, PhasesAre, AnswerPhases
  <2>2. Becomes(p, "dead")
    BY <1>3, <1>4, <1>5, <2>1 DEF Becomes, Procs
  <2>3. QED BY <1>2, <1>5, <2>2, LockIsOfRec, LockLost
<1>6. CASE /\ Moved(p, "go") /\ TakeParkedOk(rec, p)
           /\ RecIs(rec', rec.holder, rec.queued, rec.amendments, rec.triagedBy, NoOne, NoOne)
  <2>1. LockIs(rec.holder, rec.triagedBy, NoOne, NoOne)
    BY <1>6, LockIsOfRec
  <2>2. PICK phase : phase = AdmittedTo(p)
    OBVIOUS
  <2>3. PhaseOf(p)' = phase
    BY <1>1, <1>6, <2>1, <2>2 DEF Moved, RunIs, PhasesAre, AnswerPhases, AtWork, AdmittedTo, LockIs
  <2>4. Becomes(p, phase)
    BY <1>3, <1>4, <2>1, <2>3 DEF Becomes, LockIs, Procs
  <2>5. QED BY <1>1, <1>2, <2>1, <2>2, <2>4, LockDeliver
<1>7. QED BY <1>1, <1>5, <1>6

-----------------------------------------------------------------------------
(* A reading's steps.                                                       *)

\* Where one reading goes on that claims the queue for nobody, no reading is wanted that
\* was not, and the others are where they were.
LEMMA ReadingsElsewhere ==
  ASSUME NEW p \in Procs, NEW q \in Procs,
         \A o \in Procs \ {p, q} : run'[o] = run[o],
         run[p].pc \notin ClaimingPcs, run'[p].pc \notin ClaimingPcs,
         run[q].pc \notin ClaimingPcs, run'[q].pc \notin ClaimingPcs
  PROVE  /\ \A r \in Readings : Wanted(r)' <=> Wanted(r)
         /\ \A r \in Readings \ {p, q} : PhaseOf(r)' = PhaseOf(r)
<1>1. ClaimedFor(p) = {} /\ ClaimedFor(p)' = {} /\ ClaimedFor(q) = {} /\ ClaimedFor(q)' = {}
  BY NotClaiming
<1>2. \A o \in Procs \ {p, q} : \A r \in Readings : r \in ClaimedFor(o)' <=> r \in ClaimedFor(o)
  BY DEF ClaimedFor
<1>3. \A r \in Readings : Wanted(r)' <=> Wanted(r)
  BY <1>1, <1>2 DEF Wanted
<1>4. QED BY <1>3, ReadingPhaseKept DEF Procs

LEMMA ClaimOnArrivalImplements ==
  ASSUME IInv, PhasesAre, PhasesAre', NEW r \in Readings, ClaimQueueOnArrival(r)
  PROVE  LockStep
<1>1. /\ run[r].pc = "claim" /\ Others(r) /\ ask' = ask /\ r \in Procs
      /\ \/ /\ LockIs(rec.holder, r, rec.parked, rec.resumedBy)
            /\ run'[r].pc = "fetch" /\ run'[r].handed = run[r].handed
         \/ rec' = rec /\ run'[r].pc = "over"
  BY ClaimQueueOnArrivalStep, LockIsOfRec DEF IInv, ClaimIs, Moved, IsOver, RunIs, Procs
<1>2. ~run[r].handed /\ ~Wanted(r) /\ PhaseOf(r) = "idle"
  BY <1>1 DEF IInv, Shaped, RunShaped, PhasesAre, FollowUpsIdle, Wanted, ReadingPhases
<1>3. Wanted(r)' <=> Wanted(r)
  BY <1>1, ReadingsElsewhere DEF ClaimingPcs, Others
<1>4. CASE rec' = rec /\ run'[r].pc = "over"
  <2>1. PhaseOf(r)' = "idle"
    BY <1>2, <1>3, <1>4 DEF PhasesAre, ReadingPhases
  <2>2. PhasesSame
    BY <1>1, <1>2, <1>4, <2>1, PhasesStay DEF ClaimingPcs
  <2>3. QED BY <1>4, <2>2, LockIsOfRec, BarsSame
<1>5. CASE /\ LockIs(rec.holder, r, rec.parked, rec.resumedBy)
           /\ run'[r].pc = "fetch" /\ run'[r].handed = run[r].handed
  <2>1. PhaseOf(r)' = "named"
    BY <1>2, <1>5 DEF PhasesAre, ReadingPhases, Begins
  <2>2. Becomes(r, "named")
    BY <1>1, <1>5, <2>1, PhasesStay DEF ClaimingPcs, LockIs
  <2>3. QED BY <1>2, <1>5, <2>2, LockClaimQueue
<1>6. QED BY <1>1, <1>4, <1>5

LEMMA StartReadingImplements ==
  ASSUME IInv, PhasesAre, PhasesAre', NEW r \in Readings, StartReading(r)
  PROVE  LockStep
<1>1. /\ run[r].pc = "fetch" /\ Others(r) /\ ask' = ask /\ r \in Procs /\ r \notin Messages
      /\ rec' = rec /\ run'[r].pc \in {"empty", "go", "giveup"}
      /\ run'[r].handed = run[r].handed /\ run'[r].other = run[r].other
  BY StartReadingStep, Apart DEF IInv, Moved, RunIs, Procs
<1>2. ~run[r].handed /\ run[r].other = NoOne /\ PhaseOf(r) = "named"
  BY <1>1 DEF IInv, Shaped, RunShaped, PhasesAre, ReadingPhases, Begins
<1>3. \A u \in Procs \ {r} : PhaseOf(u)' = PhaseOf(u)
  BY <1>1, <1>2, NotClaiming, PhasesElsewhere
<1>4. CASE run'[r].pc = "go"
  <2>1. PICK phase : phase = "working" /\ phase = AdmittedTo(r)
    BY <1>1 DEF AdmittedTo
  <2>2. PhaseOf(r)' = phase
    BY <1>1, <1>2, <1>4, <2>1 DEF PhasesAre, ReadingPhases, Begins
  <2>3. Becomes(r, phase)
    BY <1>1, <1>3, <2>2 DEF Becomes
  <2>4. QED BY <1>1, <1>2, <2>1, <2>3, LockIsOfRec, LockStart
<1>5. CASE run'[r].pc # "go"
  <2>1. PhaseOf(r)' = "named"
    BY <1>1, <1>2, <1>5 DEF PhasesAre, ReadingPhases, Begins
  <2>2. QED BY <1>1, <1>2, <1>3, <2>1, LockIsOfRec, BarsSame DEF PhasesSame
<1>6. QED BY <1>4, <1>5

\* A pass over the queue, and what a reading does about follow-ups, concern the lock not at all.
LEMMA PassImplements ==
  ASSUME IInv, PhasesAre, PhasesAre', NEW r \in Readings,
         Look(r) \/ StillRunning(r) \/ RecordFollowUps(r)
  PROVE  LockStep
<1>1. /\ run[r].pc \in {"go", "still", "record"} /\ Others(r) /\ ask' = ask /\ r \in Procs
      /\ LockSame
      /\ run'[r].pc \in {"go", "still", "record", "resume"} /\ run'[r].handed = FALSE
  <2>1. r \in Procs /\ (run[r].pc \in {"go", "still", "record"} => run[r].handed = FALSE)
    BY DEF IInv, TypeOK, Runs, Shaped, RunShaped, Procs
  <2>2. CASE Look(r)
    BY <2>1, <2>2, LookStep, LockIsOfRec DEF IInv, ReadsOnce, FollowsThrough, RunIs
  <2>3. CASE StillRunning(r)
    BY <2>1, <2>3, StillRunningStep, LockIsOfRec DEF IInv, ReadsOnce, Moved, RunIs
  <2>4. CASE RecordFollowUps(r)
    BY <2>1, <2>4, RecordFollowUpsStep, LockIsOfRec DEF IInv, ReadsOnce, FollowsThrough, RunIs, LockSame
  <2>5. QED BY <2>2, <2>3, <2>4
<1>2. run[r].handed = FALSE
  BY <1>1 DEF IInv, TypeOK, Runs, Shaped, RunShaped, Procs
<1>3. PhasesSame
  BY <1>1, <1>2, BusyAt, WorksOn DEF ClaimingPcs, LockSame, LockIs
<1>4. QED BY <1>1, <1>3, BarsSame

\* The answer in the record, where one message's run may change and a reading goes on.
LEMMA ParkedPhases ==
  ASSUME IInv, PhasesAre, PhasesAre', NEW r \in Readings, NEW t \in Messages, rec.parked = t,
         ask' = ask, Busy(r), Busy(r)', run'[r].handed = run[r].handed,
         run[r].pc \notin ClaimingPcs, run'[r].pc \notin ClaimingPcs,
         run[t].pc \notin ClaimingPcs, run'[t].pc \notin ClaimingPcs,
         \A o \in Procs \ {r, t} : run'[o] = run[o],
         \A m \in Messages \ {t} : rec'.holder = m <=> rec.holder = m
  PROVE  \A u \in Procs \ {t} : PhaseOf(u)' = PhaseOf(u)
<1>1. r \in Procs /\ t \in Procs /\ r \notin Messages
  BY Apart DEF Procs
<1>2. \A m \in Messages \ {t} : run[m].pc # "parked"
  BY DEF IInv, Parking
<1>3. \A m \in Messages \ {t} : PhaseOf(m)' = PhaseOf(m)
  BY <1>1, <1>2, AnswerPhaseKept DEF Procs, Routed
<1>4. \A q \in Readings \ {r} : PhaseOf(q)' = PhaseOf(q)
  BY <1>1, ReadingsElsewhere, Apart DEF Procs
<1>5. PhaseOf(r)' = PhaseOf(r)
  BY <1>1 DEF PhasesAre, Busy, ReadingPhases
<1>6. QED BY <1>3, <1>4, <1>5 DEF Procs

LEMMA ResumeImplements ==
  ASSUME IInv, PhasesAre, PhasesAre', NEW r \in Readings, ResumeParked(r)
  PROVE  LockStep
<1>1. /\ run[r].pc = "resume" /\ Others(r) /\ ask' = ask /\ r \in Procs /\ ~run[r].handed
      /\ run'[r].pc \in {"invoke", "exit", "clear"} /\ run'[r].handed = run[r].handed
  BY ResumeParkedStep, AfterResumes DEF IInv, Moved, RunIs, Shaped, RunShaped, Procs
<1>2. Busy(r) /\ Busy(r)' /\ Engaged(r)
  BY <1>1, BusyAt, BusyEngaged
<1>3. CASE rec' = rec
  BY <1>1, <1>2, <1>3, WorksOn, LockIsOfRec, BarsSame DEF ClaimingPcs
<1>4. CASE rec' # rec
  <2>1. PICK t \in Messages : t = rec.parked
    BY <1>4, ResumeParkedStep DEF IInv
  <2>2. /\ rec.resumedBy = NoOne /\ rec.holder \in {r, NoOne}
        /\ LockIs(t, rec.triagedBy, rec.parked, r)
    BY <1>4, <2>1, ResumeParkedStep, LockIsOfRec DEF IInv, BeginResumeOk
  <2>3. run[t].pc = "parked" /\ run'[t] = run[t] /\ t \in Procs /\ t # r
    BY <1>1, <2>1, <2>2, Apart DEF IInv, Parking, Others, Procs
  <2>4. PhaseOf(t)' = "resuming"
    BY <2>2, <2>3, Apart DEF PhasesAre, AnswerPhases, LockIs
  <2>5. \A m \in Messages \ {t} : rec'.holder = m <=> rec.holder = m
    BY <1>1, <2>2, Apart DEF LockIs
  <2>6. \A u \in Procs \ {t} : PhaseOf(u)' = PhaseOf(u)
    BY <1>1, <1>2, <2>1, <2>3, <2>5, ParkedPhases DEF ClaimingPcs, Others
  <2>7. Becomes(t, "resuming")
    BY <2>3, <2>4, <2>6 DEF Becomes
  <2>8. QED BY <1>2, <2>1, <2>2, <2>7, LockResume
<1>5. QED BY <1>3, <1>4

LEMMA InvokeImplements ==
  ASSUME IInv, PhasesAre, PhasesAre', NEW r \in Readings, InvokeResume(r)
  PROVE  LockStep
<1>1. /\ run[r].pc = "invoke" /\ rec' = rec /\ ask' = ask /\ r \in Procs /\ ~run[r].handed
      /\ rec.resumedBy = r /\ rec.parked \in Messages /\ run[rec.parked].pc = "parked"
  BY InvokeResumeStep DEF IInv, Shaped, RunShaped, Procs
<1>2. PICK t \in Messages : t = rec.parked
  BY <1>1
<1>3. t \in Procs /\ r # t
  BY <1>1, Apart DEF Procs
<1>4. /\ run'[r].pc \in {"exit", "clear", "abandon"} /\ run'[r].handed = run[r].handed
      /\ run'[t].pc \in {"parked", "resumed"} /\ \A o \in Procs \ {r, t} : run'[o] = run[o]
  <2>1. CASE Moved(r, AfterResume(r))
    BY <1>1, <1>2, <1>3, <2>1, InvokeResumeStep, AfterResumes DEF IInv, Moved, RunIs, Others
  <2>2. CASE ~Moved(r, AfterResume(r))
    BY <1>1, <1>2, <1>3, <2>2, InvokeResumeStep DEF IInv, Moved, RunIs, Others
  <2>3. QED BY <2>1, <2>2
<1>5. PhaseOf(t)' = PhaseOf(t)
  BY <1>1, <1>2, <1>4, Apart DEF PhasesAre, AnswerPhases
<1>6. \A u \in Procs \ {t} : PhaseOf(u)' = PhaseOf(u)
  BY <1>1, <1>2, <1>3, <1>4, BusyAt, ParkedPhases DEF ClaimingPcs
<1>7. QED BY <1>1, <1>5, <1>6, LockIsOfRec, BarsSame DEF PhasesSame

LEMMA AbandonImplements ==
  ASSUME IInv, PhasesAre, PhasesAre', NEW r \in Readings, AbandonResumed(r)
  PROVE  LockStep
<1>1. /\ run[r].pc = "abandon" /\ ask' = ask /\ r \in Procs /\ ~run[r].handed
      /\ run'[r].pc \in {"exit", "clear"} /\ run'[r].handed = run[r].handed
      /\ rec.resumedBy = r /\ rec.parked \in Messages /\ run[rec.parked].pc = "parked"
  BY AbandonResumedStep, AfterResumes DEF IInv, Moved, RunIs, Shaped, RunShaped, Procs
<1>2. Busy(r) /\ Busy(r)' /\ Engaged(r)
  BY <1>1, BusyAt, BusyEngaged
<1>3. PICK t \in Messages : t = rec.parked
  BY <1>1
<1>4. t \in Procs /\ t # r /\ r \notin Messages /\ PhaseOf(t) = "resuming"
  BY <1>1, <1>3, Apart DEF Procs, PhasesAre, AnswerPhases
<1>5. CASE rec' = rec /\ Others(r)
  BY <1>1, <1>2, <1>5, WorksOn, LockIsOfRec, BarsSame DEF ClaimingPcs
<1>6. CASE Others(r) /\ AbandonResumeOk(rec, r, rec.parked) /\ LockIs(r, rec.triagedBy, rec.parked, NoOne)
  <2>1. rec.holder = t
    BY <1>3, <1>6 DEF AbandonResumeOk
  <2>2. run[t].pc = "parked" /\ run'[t] = run[t]
    BY <1>1, <1>3, <1>4, <1>6 DEF Others
  <2>3. PhaseOf(t)' = "parked"
    BY <1>6, <2>2 DEF PhasesAre, AnswerPhases, LockIs
  <2>4. \A m \in Messages \ {t} : rec'.holder = m <=> rec.holder = m
    BY <1>4, <1>6, <2>1 DEF LockIs
  <2>5. \A u \in Procs \ {t} : PhaseOf(u)' = PhaseOf(u)
    BY <1>1, <1>2, <1>3, <1>6, <2>2, <2>4, ParkedPhases DEF ClaimingPcs, Others
  <2>6. Becomes(t, "parked")
    BY <1>4, <2>3, <2>5 DEF Becomes
  <2>7. QED BY <1>1, <1>2, <1>3, <1>4, <1>6, <2>1, <2>6, LockAbandon
<1>7. CASE /\ rec' = rec /\ Moved(rec.parked, "dead")
           /\ \A q \in Procs \ {r, rec.parked} : run'[q] = run[q]
  <2>1. run[t].pc = "parked" /\ run'[t].pc = "dead" /\ ~run'[t].handed
    BY <1>1, <1>3, <1>4, <1>7 DEF Moved, RunIs, IInv, Shaped, RunShaped
  <2>2. PhaseOf(t)' = "dead"
    BY <2>1 DEF PhasesAre, AnswerPhases
  <2>3. \A u \in Procs \ {t} : PhaseOf(u)' = PhaseOf(u)
    BY <1>1, <1>2, <1>3, <1>7, <2>1, ParkedPhases DEF ClaimingPcs
  <2>4. Becomes(t, "dead")
    BY <1>4, <2>2, <2>3 DEF Becomes
  <2>5. QED BY <1>4, <1>7, <2>4, LockIsOfRec, LockLost
<1>8. QED BY <1>5, <1>6, <1>7, AbandonResumedStep, LockIsOfRec DEF IInv

LEMMA ClearReadImplements ==
  ASSUME IInv, PhasesAre, PhasesAre', NEW r \in Readings, ClearQueueRead(r)
  PROVE  LockStep
<1>1. /\ run[r].pc = "clear" /\ ask' = ask /\ r \in Procs /\ Others(r)
      /\ run'[r].pc = "resume" /\ run'[r].handed = run[r].handed
  BY ClearQueueReadStep DEF IInv, RunIs, Procs
<1>2. \/ LockIs(rec.holder, IF rec.triagedBy = r THEN NoOne ELSE rec.triagedBy, rec.parked,
                rec.resumedBy)
      \/ LockSame
  BY ClearQueueReadStep, LockIsOfRec DEF IInv, RecIs, LockIs
<1>3. PhasesSame
  BY <1>1, <1>2, BusyAt, WorksOn DEF ClaimingPcs, LockIs, LockSame
<1>4. QED BY <1>2, <1>3, LockEndClaim, BarsSame

-----------------------------------------------------------------------------
(* The steps that end a run.                                                *)

LEMMA ReadAtExitImplements ==
  ASSUME IInv, PhasesAre, PhasesAre', NEW p \in Procs, ReadAtExit(p) \/ ReturnFollowUps(p)
  PROVE  LockStep
<1>1. /\ run[p].pc \in {"exit", "return"} /\ Others(p) /\ LockSame /\ ask' = ask
      /\ run'[p].pc \in {"release", "follow", "return"} /\ run'[p].handed = run[p].handed
  <2>1. CASE ReadAtExit(p)
    BY <2>1, ReadAtExitStep, LockIsOfRec DEF IInv, Moved, RunIs
  <2>2. CASE ReturnFollowUps(p)
    BY <2>2, ReturnFollowUpsStep, LockIsOfRec DEF IInv, RunIs, LockSame
  <2>3. QED BY <2>1, <2>2
<1>2. PhasesSame
  BY <1>1, BusyAt, WorksOn DEF ClaimingPcs, LockSame, LockIs
<1>3. QED BY <1>1, <1>2, BarsSame

LEMMA ClaimFollowUpImplements ==
  ASSUME IInv, PhasesAre, PhasesAre', NEW p \in Procs, ClaimFollowUp(p)
  PROVE  LockStep
<1>1. run[p].pc = "follow" /\ Others(p) /\ ask' = ask
  BY ClaimFollowUpStep DEF IInv
<1>2. CASE rec' = rec /\ run'[p].pc \in {"release", "yield"} /\ run'[p].handed = run[p].handed
  <2>1. PhasesSame
    BY <1>1, <1>2, BusyAt, WorksOn DEF ClaimingPcs
  <2>2. QED BY <1>2, <2>1, LockIsOfRec, BarsSame
<1>3. CASE \E c \in Readings :
             /\ Unused(c) /\ LockIs(rec.holder, c, rec.parked, rec.resumedBy)
             /\ run'[p].pc = "messages" /\ run'[p].other = c /\ run'[p].handed = run[p].handed
  <2>1. PICK c \in Readings :
             /\ Unused(c) /\ LockIs(rec.holder, c, rec.parked, rec.resumedBy)
             /\ run'[p].pc = "messages" /\ run'[p].other = c /\ run'[p].handed = run[p].handed
    BY <1>3
  <2>2. c \in Procs /\ c # p /\ run[c].pc \in {"none", "over"} /\ ~Wanted(c)
    BY <1>1, <2>1 DEF Unused, Wanted, ClaimedFor, Procs
  <2>3. ClaimedFor(p) = {} /\ \A u : u \in ClaimedFor(p)' <=> u = c
    <3>1. ClaimedFor(p) = {}
      BY <1>1, NotClaiming DEF ClaimingPcs
    <3>2. \A u : u \in ClaimedFor(p)' <=> u = c
      BY <2>1 DEF ClaimedFor
    <3>3. QED BY <3>1, <3>2
  <2>4. PhaseOf(c) = "idle"
    BY <2>2 DEF PhasesAre, ReadingPhases
  <2>5. PhaseOf(c)' = "named"
    BY <1>1, <2>2, <2>3 DEF PhasesAre, ReadingPhases, Wanted, Others
  <2>6. PhaseOf(p)' = PhaseOf(p)
    BY <1>1, <2>1, BusyAt, BusyStays DEF LockIs
  <2>7. \A u \in Procs \ {c} : PhaseOf(u)' = PhaseOf(u)
    BY <1>1, <2>1, <2>3, <2>6, PhasesElsewhere DEF LockIs
  <2>8. Becomes(c, "named")
    BY <2>2, <2>5, <2>7 DEF Becomes
  <2>9. QED BY <2>1, <2>4, <2>8, LockClaimQueue
<1>4. QED
  <2>1. \/ rec' = rec /\ run'[p].pc \in {"release", "yield"} /\ run'[p].handed = run[p].handed
        \/ \E c \in Readings :
             /\ Unused(c) /\ LockIs(rec.holder, c, rec.parked, rec.resumedBy)
             /\ run'[p].pc = "messages" /\ run'[p].other = c /\ run'[p].handed = run[p].handed
    BY ClaimFollowUpStep, LockIsOfRec DEF IInv, ClaimIs, Moved, RunIs
  <2>2. QED BY <1>2, <1>3, <2>1

\* A run that is over: its phase is what it is when a turn is done.
LEMMA OverIs ==
  ASSUME IInv, PhasesAre, PhasesAre', NEW p \in Procs, Others(p), run'[p].pc = "over",
         run[p].pc \notin {"none", "over"}
  PROVE  PhaseOf(p)' = DoneIs(p)
<1>1. CASE p \in Messages
  BY <1>1, Apart DEF PhasesAre, AnswerPhases, DoneIs
<1>2. CASE p \in Readings
  <2>1. ~Wanted(p)
    BY <1>2 DEF PhasesAre, FollowUpsIdle, Wanted
  <2>2. \A q \in Procs \ {p} : p \notin ClaimedFor(q)'
    BY <2>1 DEF Wanted, Others, ClaimedFor
  <2>3. p \notin ClaimedFor(p)'
    BY DEF ClaimedFor
  <2>4. Wanted(p)' = FALSE
    BY <2>2, <2>3 DEF Wanted
  <2>5. QED BY <1>2, <2>4 DEF PhasesAre, ReadingPhases, DoneIs
<1>3. QED BY <1>1, <1>2 DEF Procs

LEMMA YieldImplements ==
  ASSUME IInv, PhasesAre, PhasesAre', NEW p \in Procs, YieldToReading(p)
  PROVE  LockStep
<1>1. /\ run[p].pc = "yield" /\ Others(p) /\ ask' = ask /\ ~run[p].handed
      /\ run[p].other \in Readings /\ run[p].other # p
  BY YieldToReadingStep DEF IInv, Shaped, RunShaped
<1>2. CASE rec' = rec /\ run'[p].pc = "release" /\ run'[p].handed = run[p].handed
  <2>1. PhasesSame
    BY <1>1, <1>2, BusyAt, WorksOn DEF ClaimingPcs
  <2>2. QED BY <1>2, <2>1, LockIsOfRec, BarsSame
<1>3. CASE HandOverOk(rec, p, run[p].other, TRUE) /\ HolderIs(run[p].other) /\ run'[p].pc = "over"
  <2>1. PICK reader \in Readings \ {p} : reader = run[p].other
    BY <1>1
  <2>2. /\ rec.holder = p /\ rec.triagedBy = reader
        /\ LockIs(reader, rec.triagedBy, rec.parked, rec.resumedBy)
    BY <1>3, <2>1, LockIsOfRec DEF HandOverOk, HolderIs
  <2>3. Engaged(p)
    BY <1>1, BusyAt, BusyEngaged
  <2>4. PICK phase : phase = DoneIs(p)
    OBVIOUS
  <2>5. PhaseOf(p)' = phase
    BY <1>1, <1>3, <2>4, OverIs
  <2>6. Becomes(p, phase)
    BY <1>1, <1>3, <2>2, <2>5, PhasesStay, Apart DEF ClaimingPcs, LockIs, Procs
  <2>7. QED BY <2>2, <2>3, <2>4, <2>6, LockHandToReading
<1>4. QED
  <2>1. \/ rec' = rec /\ run'[p].pc = "release" /\ run'[p].handed = run[p].handed
        \/ HandOverOk(rec, p, run[p].other, TRUE) /\ HolderIs(run[p].other) /\ run'[p].pc = "over"
    BY YieldToReadingStep DEF Moved, IsOver, RunIs
  <2>2. QED BY <1>2, <1>3, <2>1

\* A run that has claimed the queue for a follow-up, and keeps the claim.
LEMMA KeepsClaim ==
  ASSUME NEW p \in Procs, run'[p].other = run[p].other,
         run[p].pc \in {"messages", "empty", "hand", "send", "free"}
            \/ (run[p].pc = "giveup" /\ ~run[p].handed),
         run'[p].pc \in {"messages", "empty", "hand", "send", "free"}
            \/ (run'[p].pc = "giveup" /\ ~run'[p].handed)
  PROVE  \A c : c \in ClaimedFor(p)' <=> c \in ClaimedFor(p)
BY DEF ClaimedFor

LEMMA FetchFollowUpImplements ==
  ASSUME IInv, PhasesAre, PhasesAre', NEW p \in Procs, FetchFollowUp(p)
  PROVE  LockStep
<1>1. /\ run[p].pc = "messages" /\ Others(p) /\ ask' = ask /\ rec' = rec /\ ~run[p].handed
      /\ run[p].other # NoOne /\ run'[p].other = run[p].other
      /\ run'[p].pc \in {"empty", "hand", "giveup"} /\ run'[p].handed = run[p].handed
  BY FetchFollowUpStep DEF IInv, Moved, RunIs, Shaped, RunShaped
<1>2. \A c : c \in ClaimedFor(p)' <=> c \in ClaimedFor(p)
  BY <1>1, KeepsClaim
<1>3. PhasesSame
  BY <1>1, <1>2, BusyAt, WorksOn
<1>4. QED BY <1>1, <1>3, LockIsOfRec, BarsSame

LEMMA ClearEmptiedImplements ==
  ASSUME IInv, PhasesAre, PhasesAre', NEW p \in Procs, ClearEmptied(p)
  PROVE  LockStep
<1>1. /\ run[p].pc = "empty" /\ Others(p) /\ ask' = ask /\ ~run[p].handed
      /\ run'[p].other = run[p].other /\ run'[p].pc = "giveup" /\ run'[p].handed = run[p].handed
  BY ClearEmptiedStep DEF IInv, Moved, RunIs, Shaped, RunShaped
<1>2. PICK c \in Readings : c = Claimed(p)
  BY <1>1 DEF IInv, TypeOK, Runs, Shaped, RunShaped, Procs, Claimed
<1>3. \/ LockIs(rec.holder, IF rec.triagedBy = c THEN NoOne ELSE rec.triagedBy, rec.parked,
                rec.resumedBy)
      \/ LockSame
  BY <1>2, ClearEmptiedStep, LockIsOfRec DEF IInv, RecIs, LockIs
<1>4. rec'.holder = rec.holder /\ rec'.resumedBy = rec.resumedBy
  BY <1>3 DEF LockIs, LockSame
<1>5. \A u : u \in ClaimedFor(p)' <=> u \in ClaimedFor(p)
  BY <1>1, KeepsClaim
<1>6. PhasesSame
  <2>1. CASE run[p].other # NoOne
    BY <1>1, <1>4, <1>5, <2>1, BusyAt, WorksOn
  <2>2. CASE run[p].other = NoOne
    <3>1. p \in Readings
      BY <1>1, <2>2 DEF IInv, Shaped, RunShaped, Procs
    <3>2. PhaseOf(p)' = PhaseOf(p)
      BY <1>1, <2>2, <3>1 DEF PhasesAre, ReadingPhases, Begins
    <3>3. QED BY <1>1, <1>4, <1>5, <3>2, PhasesElsewhere DEF PhasesSame
  <2>3. QED BY <2>1, <2>2
<1>7. QED BY <1>3, <1>6, LockEndClaim, BarsSame

LEMMA HandOverImplements ==
  ASSUME IInv, PhasesAre, PhasesAre', NEW p \in Procs, HandOverToFollowUp(p)
  PROVE  LockStep
<1>1. /\ run[p].pc = "hand" /\ Others(p) /\ ask' = ask /\ ~run[p].handed /\ run[p].other \in Readings
      /\ run'[p].other = run[p].other
  BY HandOverToFollowUpStep DEF IInv, RunIs, Shaped, RunShaped
<1>2. CASE rec' = rec /\ run'[p].pc = "giveup" /\ run'[p].handed = FALSE
  <2>1. \A u : u \in ClaimedFor(p)' <=> u \in ClaimedFor(p)
    BY <1>1, <1>2, KeepsClaim
  <2>2. run[p].handed = FALSE
    BY <1>1 DEF IInv, TypeOK, Runs
  <2>3. PhasesSame
    BY <1>1, <1>2, <2>1, <2>2, BusyAt, WorksOn, Apart
  <2>4. QED BY <1>2, <2>3, LockIsOfRec, BarsSame
<1>3. CASE /\ HandOverOk(rec, p, run[p].other, FALSE) /\ HolderIs(run[p].other)
           /\ run'[p].pc = "send" /\ run'[p].handed = TRUE
  <2>1. PICK c \in Readings : c = run[p].other
    BY <1>1
  <2>2. rec.holder = p /\ LockIs(c, rec.triagedBy, rec.parked, rec.resumedBy)
    BY <1>3, <2>1, LockIsOfRec DEF HandOverOk, HolderIs
  <2>3. c \in ClaimedFor(p) /\ Wanted(c)
    BY <1>1, <2>1 DEF ClaimedFor, Wanted
  <2>4. PhaseOf(c) = "named" /\ c # p
    BY <2>3 DEF PhasesAre, FollowUpsIdle, ReadingPhases
  <2>5. Engaged(p)
    BY <1>1, BusyAt, BusyEngaged
  <2>6. PICK phase : phase = DoneIs(p)
    OBVIOUS
  <2>7. PhaseOf(p)' = phase
    BY <1>3, <2>6, Apart DEF PhasesAre, AnswerPhases, ReadingPhases, DoneIs, Procs
  <2>8. \A u : u \in ClaimedFor(p)' <=> u \in ClaimedFor(p)
    BY <1>1, <1>3, KeepsClaim
  <2>9. \A u \in Procs \ {p} : PhaseOf(u)' = PhaseOf(u)
    BY <1>1, <2>2, <2>8, PhasesElsewhere, Apart DEF LockIs, Procs
  <2>10. Becomes(p, phase)
    BY <2>7, <2>9 DEF Becomes
  <2>11. QED BY <2>2, <2>4, <2>5, <2>6, <2>10, LockHandToReading
<1>4. QED
  <2>1. \/ rec' = rec /\ run'[p].pc = "giveup" /\ run'[p].handed = FALSE
        \/ /\ HandOverOk(rec, p, run[p].other, FALSE) /\ HolderIs(run[p].other)
           /\ run'[p].pc = "send" /\ run'[p].handed = TRUE
    BY HandOverToFollowUpStep DEF RunIs
  <2>2. QED BY <1>2, <1>3, <2>1

LEMMA DispatchFollowUpImplements ==
  ASSUME IInv, PhasesAre, PhasesAre', NEW p \in Procs, DispatchFollowUp(p)
  PROVE  LockStep
<1>1. /\ run[p].pc = "send" /\ ask' = ask /\ rec' = rec /\ run[p].handed
      /\ run[p].other \in Readings \ {p} /\ rec.holder # p
  BY DispatchFollowUpStep DEF IInv, Shaped, RunShaped, HandedAway
<1>2. PICK c \in Readings \ {p} : c = run[p].other
  BY <1>1
<1>3. c \in Procs /\ c \notin Messages /\ c \in ClaimedFor(p)
  BY <1>1, <1>2, Apart DEF ClaimedFor, Procs
<1>4. /\ Wanted(c) /\ run[c].pc \in {"none", "over"} /\ PhaseOf(c) = "named"
      /\ \A q \in Procs \ {p} : c \notin ClaimedFor(q)
  BY <1>3 DEF PhasesAre, FollowUpsIdle, ReadingPhases, Wanted
<1>5. PhaseOf(p) = DoneIs(p)
  BY <1>1, Apart DEF PhasesAre, AnswerPhases, ReadingPhases, DoneIs, Procs
<1>6. CASE Others(p) /\ run'[p].pc = "free" /\ run'[p].other = c /\ run'[p].handed = run[p].handed
  <2>1. \A u : u \in ClaimedFor(p)' <=> u \in ClaimedFor(p)
    BY <1>1, <1>2, <1>6, KeepsClaim
  <2>2. PhasesSame
    BY <1>1, <1>6, <2>1, BusyAt, WorksOn
  <2>3. QED BY <1>1, <2>2, LockIsOfRec, BarsSame
<1>7. CASE /\ run'[p].pc = "over" /\ run'[c].pc = "go" /\ run'[c].handed = FALSE
           /\ \A q \in Procs \ {p, c} : run'[q] = run[q]
  <2>1. PICK phase : phase = "working" /\ phase = AdmittedTo(c)
    BY <1>3 DEF AdmittedTo
  <2>2. PhaseOf(c)' = phase
    BY <1>7, <2>1 DEF PhasesAre, ReadingPhases, Begins
  <2>3. /\ \A u \in Procs \ {c} : u \notin ClaimedFor(p) /\ u \notin ClaimedFor(p)'
        /\ \A u \in Procs : u \notin ClaimedFor(c) /\ u \notin ClaimedFor(c)'
    BY <1>2, <1>3, <1>4, <1>7, NotClaiming DEF ClaimedFor, ClaimingPcs
  <2>4. \A r \in Readings \ {c} : Wanted(r)' <=> Wanted(r)
    <3>1. \A q \in Procs \ {p, c} : \A r \in Readings : r \in ClaimedFor(q)' <=> r \in ClaimedFor(q)
      BY <1>7 DEF ClaimedFor
    <3>2. QED BY <2>3, <3>1 DEF Wanted, Procs
  <2>5. PhaseOf(p)' = PhaseOf(p)
    <3>1. CASE p \in Messages
      BY <1>5, <1>7, <3>1, Apart DEF PhasesAre, AnswerPhases, DoneIs
    <3>2. CASE p \in Readings
      <4>1. ~Wanted(p)
        BY <1>1, <3>2 DEF PhasesAre, FollowUpsIdle, Wanted
      <4>2. Wanted(p)' = FALSE
        BY <1>2, <2>4, <3>2, <4>1 DEF Wanted
      <4>3. QED BY <1>5, <1>7, <3>2, <4>2 DEF PhasesAre, ReadingPhases, DoneIs
    <3>3. QED BY <3>1, <3>2 DEF Procs
  <2>6. \A u \in Procs \ {p, c} : PhaseOf(u)' = PhaseOf(u)
    BY <1>1, <1>7, <2>4, AnswerPhaseKept, ReadingPhaseKept DEF Procs, Routed
  <2>7. Becomes(c, phase)
    BY <1>3, <2>2, <2>5, <2>6 DEF Becomes
  <2>8. QED BY <1>1, <1>3, <1>4, <2>1, <2>7, LockIsOfRec, LockStart
<1>8. QED
  <2>1. \/ Others(p) /\ run'[p].pc = "free" /\ run'[p].other = c /\ run'[p].handed = run[p].handed
        \/ /\ run'[p].pc = "over" /\ run'[c].pc = "go" /\ run'[c].handed = FALSE
           /\ \A q \in Procs \ {p, c} : run'[q] = run[q]
    BY <1>2, DispatchFollowUpStep DEF IInv, Moved, IsOver, RunIs
  <2>2. QED BY <1>6, <1>7, <2>1

\* The run of a claim that is given up leaves nobody wanted.
LEMMA NoLongerWanted ==
  ASSUME PhasesAre, NEW p \in Procs, NEW c \in ClaimedFor(p), Others(p), ClaimedFor(p)' = {}
  PROVE  Wanted(c)' = FALSE
<1>1. \A q \in Procs \ {p} : c \notin ClaimedFor(q)'
  BY DEF PhasesAre, FollowUpsIdle, Others, ClaimedFor
<1>2. c \notin ClaimedFor(p)'
  OBVIOUS
<1>3. QED BY <1>1, <1>2 DEF Wanted

\* The follow-up whose lock, or whose claim, could not be given up is left without a run.
LEMMA FollowUpLost ==
  ASSUME PhasesAre, PhasesAre', NEW p \in Procs, NEW c \in Readings, c # p, PhaseOf(c) = "named",
         run[c].pc \in {"none", "over"}, ~run[c].handed, Moved(c, "dead"),
         rec' = rec, ask' = ask, \A q \in Procs \ {p, c} : run'[q] = run[q],
         ClaimedFor(p)' = {}, \A u \in Procs \ {c} : u \notin ClaimedFor(p),
         PhaseOf(p)' = PhaseOf(p)
  PROVE  LockStep
<1>1. c \in Procs /\ c \notin Messages /\ run'[c].pc = "dead" /\ ~run'[c].handed
  BY Apart DEF Procs, Moved, RunIs
<1>2. PhaseOf(c)' = "dead"
  BY <1>1 DEF PhasesAre, ReadingPhases
<1>3. ASSUME NEW u \in Readings \ {c} PROVE Wanted(u)' <=> Wanted(u)
  <2>1. u \notin ClaimedFor(p) /\ u \notin ClaimedFor(p)'
    BY <1>3 DEF Procs
  <2>2. u \notin ClaimedFor(c) /\ u \notin ClaimedFor(c)'
    BY <1>1 DEF ClaimedFor
  <2>3. \A q \in Procs \ {p, c} : u \in ClaimedFor(q)' <=> u \in ClaimedFor(q)
    BY DEF ClaimedFor
  <2>4. QED BY <2>1, <2>2, <2>3 DEF Wanted
<1>4. \A u \in Readings \ {p, c} : PhaseOf(u)' = PhaseOf(u)
  BY <1>3, ReadingPhaseKept DEF Procs
<1>5. \A m \in Messages \ {p} : PhaseOf(m)' = PhaseOf(m)
  BY <1>1, AnswerPhaseKept DEF Procs, Routed
<1>6. Becomes(c, "dead")
  BY <1>1, <1>2, <1>4, <1>5 DEF Becomes, Procs
<1>7. QED BY <1>1, <1>6, LockIsOfRec, LockLost

LEMMA FreeFollowUpImplements ==
  ASSUME IInv, PhasesAre, PhasesAre', NEW p \in Procs, FreeFollowUp(p)
  PROVE  LockStep
<1>1. /\ run[p].pc = "free" /\ ask' = ask /\ run[p].handed = TRUE /\ rec.holder # p
      /\ run'[p].pc = "giveup" /\ run'[p].other = run[p].other /\ run'[p].handed = TRUE
      /\ run[p].other \in Readings
  BY FreeFollowUpStep DEF IInv, TypeOK, Runs, Moved, RunIs, Shaped, RunShaped, HandedAway
<1>2. PICK c \in Readings : c = run[p].other
  BY <1>1
<1>3. c \in Procs /\ c \in ClaimedFor(p) /\ ClaimedFor(p)' = {}
  <2>1. c \in Procs /\ c \in ClaimedFor(p)
    BY <1>1, <1>2 DEF ClaimedFor, Procs
  <2>2. ClaimedFor(p)' = {}
    BY <1>1 DEF ClaimedFor
  <2>3. QED BY <2>1, <2>2
<1>4. run[c].pc \in {"none", "over"} /\ PhaseOf(c) = "named" /\ c # p /\ ~run[c].handed
  BY <1>3 DEF PhasesAre, FollowUpsIdle, ReadingPhases, Wanted
<1>5. \A u \in Procs \ {c} : u \notin ClaimedFor(p)
  BY <1>2 DEF ClaimedFor
<1>6. rec'.holder = p <=> rec.holder = p
  BY <1>1, FreeFollowUpStep, Apart DEF IInv, HolderIs, RecIs
<1>7. PhaseOf(p)' = PhaseOf(p)
  BY <1>1, <1>6, BusyAt, BusyStays, Apart DEF PhasesAre, AnswerPhases, ReadingPhases, Procs
<1>8. CASE Others(p) /\ ((rec.holder = c /\ HolderIs(NoOne)) \/ (rec.holder # c /\ rec' = rec))
  <2>1. PICK phase : phase = "idle" /\ phase = DoneIs(c)
    BY DEF DoneIs
  <2>2. PhaseOf(c)' = phase
    <3>1. Wanted(c)' = FALSE
      BY <1>3, <1>8, NoLongerWanted
    <3>2. QED BY <1>3, <1>4, <1>8, <2>1, <3>1 DEF PhasesAre, ReadingPhases, Others
  <2>3. Dropped(c) /\ \A m \in Messages : rec'.holder = m <=> rec.holder = m
    <3>1. c \notin Messages /\ NoOne \notin Messages
      BY <1>3, Apart
    <3>2. CASE rec.holder = c /\ HolderIs(NoOne)
      BY <3>1, <3>2 DEF HolderIs, RecIs, Dropped, LockIs
    <3>3. CASE rec.holder # c /\ rec' = rec
      BY <3>3 DEF Dropped, LockIs
    <3>4. QED BY <1>8, <3>2, <3>3
  <2>4. \A u \in Procs \ {p, c} : PhaseOf(u)' = PhaseOf(u)
    BY <1>1, <1>3, <1>5, <1>8, <2>3, PhasesElsewhere DEF Dropped, LockIs
  <2>5. Becomes(c, phase)
    BY <1>3, <1>7, <2>2, <2>4 DEF Becomes
  <2>6. QED BY <1>3, <1>4, <2>1, <2>3, <2>5, LockNotStarted
<1>9. CASE /\ rec' = rec /\ Moved(c, "dead")
           /\ \A q \in Procs \ {p, c} : run'[q] = run[q]
  BY <1>1, <1>3, <1>4, <1>5, <1>7, <1>9, FollowUpLost
<1>10. QED BY <1>2, <1>8, <1>9, FreeFollowUpStep DEF IInv

LEMMA GiveUpImplements ==
  ASSUME IInv, PhasesAre, PhasesAre', NEW p \in Procs, GiveUpClaim(p)
  PROVE  LockStep
<1>1. /\ run[p].pc = "giveup" /\ ask' = ask /\ run[p].handed \in BOOLEAN
      /\ \/ run[p].other = NoOne /\ run'[p].pc = "over" /\ Others(p)
         \/ run[p].other = NoOne /\ rec' = rec /\ Moved(p, "dead") /\ Others(p)
         \/ run[p].other # NoOne /\ GoesOn(p)
  <2>1. run[p].pc = "giveup" /\ ask' = ask /\ run[p].handed \in BOOLEAN /\ NoOne \notin Readings
    BY GiveUpClaimStep, RunFields, Apart DEF IInv, TypeOK
  <2>2. IsOver(p) => run'[p].pc = "over"
    BY DEF IsOver, RunIs
  <2>3. \/ run[p].other = NoOne /\ IsOver(p) /\ Others(p)
        \/ run[p].other = NoOne /\ rec' = rec /\ Moved(p, "dead") /\ Others(p)
        \/ run[p].other # NoOne /\ GoesOn(p)
    BY <2>1, GiveUpClaimStep DEF IInv
  <2>4. QED BY <2>1, <2>2, <2>3
<1>2. PICK c \in Readings : c = Claimed(p)
  BY <1>1 DEF IInv, TypeOK, Runs, Shaped, RunShaped, Procs, Claimed
<1>3. \/ LockIs(rec.holder, IF rec.triagedBy = c THEN NoOne ELSE rec.triagedBy, rec.parked,
                rec.resumedBy)
      \/ LockSame
  BY <1>2, GiveUpClaimStep, LockIsOfRec DEF IInv, ClaimIs, RecIs, LockIs
<1>4. rec'.holder = rec.holder /\ rec'.resumedBy = rec.resumedBy
  BY <1>3 DEF LockIs, LockSame
<1>5. CASE run[p].other = NoOne
  <2>1. p = c /\ ClaimedFor(p) = {}
    BY <1>2, <1>5, NotClaiming DEF Claimed
  <2>2. PhaseOf(p) = IF run[p].handed THEN "idle" ELSE "named"
    BY <1>1, <1>5, <2>1 DEF PhasesAre, ReadingPhases, Begins
  <2>3. run'[p].pc \in {"over", "dead"} => ClaimedFor(p)' = {}
    BY NotClaiming DEF ClaimingPcs
  <2>4. Others(p) /\ run'[p].pc \in {"over", "dead"} =>
           \A u \in Procs \ {p} : PhaseOf(u)' = PhaseOf(u)
    BY <1>1, <1>4, <2>1, <2>3, PhasesElsewhere
  <2>5. CASE run'[p].pc = "over" /\ Others(p)
    <3>1. PhaseOf(p)' = "idle"
      BY <1>1, <2>1, <2>5, OverIs DEF DoneIs
    <3>2. PhasesSame \/ (PhaseOf(c) = "named" /\ Becomes(c, "idle"))
      BY <2>1, <2>2, <2>4, <2>5, <3>1 DEF PhasesSame, Becomes
    <3>3. LockIs(rec.holder, IF rec.triagedBy = c THEN NoOne ELSE rec.triagedBy, rec.parked,
                 rec.resumedBy)
      BY <1>2, <2>5, GiveUpClaimStep DEF IInv, ClaimIs, RecIs, LockIs, Moved, RunIs, GoesOn
    <3>4. QED BY <3>2, <3>3, LockEndClaim
  <2>6. CASE rec' = rec /\ Moved(p, "dead") /\ Others(p)
    <3>1. run'[p].pc = "dead" /\ run'[p].handed = run[p].handed
      BY <2>6 DEF Moved, RunIs
    <3>2. PhaseOf(p)' = IF run[p].handed THEN "idle" ELSE "dead"
      BY <1>1, <2>1, <3>1 DEF PhasesAre, ReadingPhases
    <3>3. CASE run[p].handed
      BY <2>2, <2>4, <2>6, <3>1, <3>2, <3>3, LockIsOfRec, BarsSame DEF PhasesSame
    <3>4. CASE ~run[p].handed
      <4>1. Becomes(p, "dead")
        BY <2>4, <2>6, <3>1, <3>2, <3>4 DEF Becomes
      <4>2. QED BY <2>2, <2>6, <3>4, <4>1, LockIsOfRec, LockLost
    <3>5. QED BY <3>3, <3>4
  <2>7. QED BY <1>1, <1>5, <2>5, <2>6
<1>6. CASE run[p].other # NoOne
  <2>1. /\ c = run[p].other /\ run'[p].pc = "release" /\ run'[p].other = NoOne
        /\ run'[p].handed = run[p].handed /\ ClaimedFor(p)' = {}
    BY <1>1, <1>2, <1>6, NotClaiming DEF Claimed, GoesOn, RunIs, ClaimingPcs
  <2>2. PhaseOf(p)' = PhaseOf(p)
    BY <1>1, <1>4, <1>6, <2>1, BusyAt, BusyStays
  <2>3. CASE run[p].handed
    <3>1. ClaimedFor(p) = {} /\ Others(p)
      BY <1>1, <1>6, <2>3, GiveUpClaimStep DEF ClaimedFor, IInv
    <3>2. PhasesSame
      BY <1>1, <1>4, <2>1, <2>2, <3>1, PhasesElsewhere DEF PhasesSame
    <3>3. QED BY <1>3, <3>2, LockEndClaim, BarsSame
  <2>4. CASE ~run[p].handed
    <3>1. c \in ClaimedFor(p) /\ c \in Procs /\ \A u \in Procs \ {c} : u \notin ClaimedFor(p)
      BY <1>1, <2>1, <2>4 DEF ClaimedFor, Procs
    <3>2. run[c].pc \in {"none", "over"} /\ PhaseOf(c) = "named" /\ c # p /\ ~run[c].handed
      BY <3>1 DEF PhasesAre, FollowUpsIdle, ReadingPhases, Wanted
    <3>3. CASE /\ Others(p)
               /\ LockIs(rec.holder, IF rec.triagedBy = c THEN NoOne ELSE rec.triagedBy, rec.parked,
                         rec.resumedBy)
      <4>1. Wanted(c)' = FALSE
        BY <2>1, <3>1, <3>3, NoLongerWanted
      <4>2. PhaseOf(c)' = "idle"
        BY <3>1, <3>2, <3>3, <4>1 DEF PhasesAre, ReadingPhases, Others
      <4>3. Becomes(c, "idle")
        BY <1>1, <1>4, <2>1, <2>2, <3>1, <3>3, <4>2, PhasesElsewhere DEF Becomes
      <4>4. QED BY <3>2, <3>3, <4>3, LockEndClaim
    <3>4. CASE /\ rec' = rec /\ Moved(c, "dead")
               /\ \A q \in Procs \ {p, c} : run'[q] = run[q]
      BY <1>1, <2>1, <2>2, <3>1, <3>2, <3>4, FollowUpLost
    <3>5. QED
      <4>1. CASE Others(p) /\ rec' = ReleaseTriage(rec, Claimed(p))
        <5>1. LockIs(rec.holder, IF rec.triagedBy = c THEN NoOne ELSE rec.triagedBy, rec.parked,
                     rec.resumedBy)
          BY <1>2, <4>1, GiveUpClaimStep DEF IInv, TypeOK, TurnRecords, ReleaseTriage, LockIs
        <5>2. QED BY <3>3, <4>1, <5>1
      <4>2. QED BY <1>6, <2>1, <2>4, <3>4, <4>1, GiveUpClaimStep DEF IInv
  <2>5. QED BY <1>1, <2>3, <2>4
<1>7. QED BY <1>5, <1>6

LEMMA ReleaseImplements ==
  ASSUME IInv, PhasesAre, PhasesAre', NEW p \in Procs, ReleaseAtExit(p)
  PROVE  LockStep
<1>1. /\ run[p].pc = "release" /\ Others(p) /\ ask' = ask
      /\ rec'.resumedBy = rec.resumedBy
      /\ \A m \in Messages \ {p} : rec'.holder = m <=> rec.holder = m
      /\ \/ Dropped(p) /\ run'[p].pc = "over"
         \/ rec' = rec /\ run'[p].pc = "dead" /\ run'[p].handed = run[p].handed
  <2>1. run[p].pc = "release" /\ Others(p) /\ ask' = ask
    BY ReleaseAtExitStep DEF IInv
  <2>2. CASE rec.holder = p /\ HolderIs(NoOne) /\ IsOver(p)
    <3>1. LockIs(NoOne, rec.triagedBy, rec.parked, rec.resumedBy) /\ run'[p].pc = "over"
      BY <2>2, LockIsOfRec DEF HolderIs, IsOver, RunIs
    <3>2. QED BY <2>1, <2>2, <3>1, Apart DEF Dropped, LockIs
  <2>3. CASE rec.holder # p /\ rec' = rec /\ IsOver(p)
    BY <2>1, <2>3 DEF Dropped, LockIs, IsOver, RunIs
  <2>4. CASE rec' = rec /\ Moved(p, "dead")
    BY <2>1, <2>4 DEF Moved, RunIs
  <2>5. QED BY <2>2, <2>3, <2>4, ReleaseAtExitStep DEF IInv
<1>2. run[p].handed => PhaseOf(p) = DoneIs(p) /\ rec.holder # p
  BY <1>1, Apart DEF IInv, HandedAway, PhasesAre, AnswerPhases, ReadingPhases, DoneIs, Procs
<1>3. ~run[p].handed => Engaged(p)
  BY <1>1, BusyAt, BusyEngaged
<1>4. PICK phase : phase = DoneIs(p)
  OBVIOUS
<1>5. CASE Dropped(p) /\ run'[p].pc = "over"
  <2>1. PhaseOf(p)' = phase
    BY <1>1, <1>4, <1>5, OverIs
  <2>2. Becomes(p, phase)
    BY <1>1, <1>5, <2>1, PhasesStay DEF ClaimingPcs
  <2>3. CASE run[p].handed
    <3>1. LockSame
      BY <1>2, <1>5, <2>3 DEF Dropped, LockIs, LockSame
    <3>2. PhasesSame
      BY <1>2, <1>4, <2>2, <2>3 DEF Becomes, PhasesSame
    <3>3. QED BY <3>1, <3>2, BarsSame
  <2>4. CASE ~run[p].handed
    BY <1>3, <1>4, <1>5, <2>2, <2>4, LockRelease
  <2>5. QED BY <2>3, <2>4
<1>6. CASE rec' = rec /\ run'[p].pc = "dead" /\ run'[p].handed = run[p].handed
  <2>1. \A u \in Procs \ {p} : PhaseOf(u)' = PhaseOf(u)
    BY <1>1, <1>6, PhasesStay DEF ClaimingPcs
  <2>2. CASE run[p].handed
    <3>1. PhaseOf(p)' = PhaseOf(p)
      BY <1>2, <1>6, <2>2, Apart DEF PhasesAre, AnswerPhases, ReadingPhases, DoneIs, Procs
    <3>2. QED BY <1>6, <2>1, <3>1, LockIsOfRec, BarsSame DEF PhasesSame
  <2>3. CASE ~run[p].handed
    <3>1. PhaseOf(p)' = "dead"
      BY <1>6, <2>3 DEF PhasesAre, AnswerPhases, ReadingPhases, Procs
    <3>2. PICK lost \in SUBSET Readings : lost = {}
      OBVIOUS
    <3>3. \A u \in Procs : PhaseOf(u)' = IF u = p \/ u \in lost THEN "dead" ELSE PhaseOf(u)
      BY <2>1, <3>1, <3>2
    <3>4. PhaseOf(p) \in {"named", "working", "alone", "resuming"}
      BY <1>3, <2>3 DEF Engaged
    <3>5. QED BY <1>6, <3>2, <3>3, <3>4, LockIsOfRec, LockDie
  <2>4. QED BY <2>2, <2>3
<1>7. QED BY <1>1, <1>5, <1>6

\* A run that is ended takes the reading it had claimed the queue for with it.
LEMMA DieImplements ==
  ASSUME IInv, PhasesAre, PhasesAre', NEW p \in Procs, Die(p)
  PROVE  LockStep
<1>1. /\ rec' = rec /\ ask' = ask /\ Active(p) /\ run[p].pc # "claim"
      /\ run[p].handed \in BOOLEAN
      /\ \A q \in Procs : IF q = p \/ q \in ClaimedFor(p)
                          THEN run'[q].pc = "dead" /\ run'[q].handed = run[q].handed
                          ELSE run'[q] = run[q]
  BY DieStep DEF IInv, TypeOK, Runs, Moved, RunIs
<1>2. \A c \in ClaimedFor(p) : /\ c \in Readings /\ c \in Procs /\ run[c].pc \in {"none", "over"}
                               /\ ~run[c].handed /\ c # p /\ PhaseOf(c) = "named"
  BY DEF PhasesAre, FollowUpsIdle, ReadingPhases, Wanted, Procs
<1>3. \A c \in ClaimedFor(p) : PhaseOf(c)' = "dead"
  BY <1>1, <1>2 DEF PhasesAre, ReadingPhases
<1>4. \A r \in Readings \ ClaimedFor(p) : Wanted(r)' <=> Wanted(r)
  <2>1. \A q \in Procs : q = p \/ q \in ClaimedFor(p) => ClaimedFor(q)' = {}
    BY <1>1 DEF ClaimedFor
  <2>2. \A q \in ClaimedFor(p) : ClaimedFor(q) = {}
    BY <1>2 DEF ClaimedFor
  <2>3. \A q \in Procs : q # p /\ q \notin ClaimedFor(p) =>
           \A r \in Readings : r \in ClaimedFor(q)' <=> r \in ClaimedFor(q)
    BY <1>1 DEF ClaimedFor
  <2>4. QED BY <2>1, <2>2, <2>3 DEF Wanted
<1>5. \A u \in Procs : u # p /\ u \notin ClaimedFor(p) => PhaseOf(u)' = PhaseOf(u)
  BY <1>1, <1>4, AnswerPhaseKept, ReadingPhaseKept DEF Procs, Routed
<1>6. PICK lost \in SUBSET Readings : lost = ClaimedFor(p)
  BY <1>2
<1>7. CASE ~run[p].handed
  <2>1. PhaseOf(p) \in {"named", "working", "alone", "resuming"}
    <3>1. CASE p \in Messages
      BY <1>1, <1>7, <3>1 DEF IInv, Asking, PhasesAre, AnswerPhases, Active, AtWork
    <3>2. CASE p \in Readings
      BY <1>1, <1>7, <3>2 DEF PhasesAre, ReadingPhases, Active
    <3>3. QED BY <3>1, <3>2 DEF Procs
  <2>2. PhaseOf(p)' = "dead"
    BY <1>1, <1>7 DEF PhasesAre, AnswerPhases, ReadingPhases, Procs
  <2>3. \A u \in Procs : PhaseOf(u)' = IF u = p \/ u \in lost THEN "dead" ELSE PhaseOf(u)
    BY <1>3, <1>5, <1>6, <2>2
  <2>4. QED BY <1>1, <1>2, <1>6, <2>1, <2>3, LockIsOfRec, LockDie
<1>8. CASE run[p].handed
  <2>1. PhaseOf(p)' = PhaseOf(p)
    BY <1>1, <1>8, Apart DEF PhasesAre, AnswerPhases, ReadingPhases, Procs
  <2>2. CASE ClaimedFor(p) = {}
    BY <1>1, <1>5, <2>1, <2>2, LockIsOfRec, BarsSame DEF PhasesSame
  <2>3. CASE ClaimedFor(p) # {}
    <3>1. PICK c \in ClaimedFor(p) : TRUE
      BY <2>3
    <3>2. c \in Procs /\ PhaseOf(c) = "named" /\ \A u \in ClaimedFor(p) : u = c
      BY <1>2 DEF PhasesAre, FollowUpsIdle
    <3>3. PICK none \in SUBSET Readings : none = {}
      OBVIOUS
    <3>4. \A u \in Procs : PhaseOf(u)' = IF u = c \/ u \in none THEN "dead" ELSE PhaseOf(u)
      BY <1>3, <1>5, <2>1, <3>1, <3>2, <3>3
    <3>5. QED BY <1>1, <3>2, <3>3, <3>4, LockIsOfRec, LockDie
  <2>4. QED BY <2>2, <2>3
<1>9. QED BY <1>7, <1>8

-----------------------------------------------------------------------------
(* The refinement.                                                          *)

\* Every step of every run is a step of the lock's protocol, or leaves the lock alone.
LEMMA StepImplements ==
  ASSUME IInv, [Next]_vars
  PROVE  [Lock!Next]_(Lock!vars)
<1>0. PhasesAre /\ PhasesAre'
  BY IInvKept, PhasesHold, PhasesHoldNext
<1>1. CASE UNCHANGED vars
  BY <1>1 DEF vars, Lock!vars, PhaseOfAnswer, PhaseOfReading, ClaimedFor, ledger
<1>2. ASSUME NEW m \in Messages, ClaimTurnFor(m) \/ RouterStep(m) \/ Redact(m) PROVE LockStep
  BY <1>0, <1>2, ClaimImplements, ReadHolderImplements, DispatchImplements, UndoImplements,
     QueueImplements DEF RouterStep
<1>3. ASSUME TakeUpNotice PROVE LockStep
  BY <1>0, <1>3, TakeUpImplements
<1>4. ASSUME NEW p \in Procs, AnswerStep(p) PROVE LockStep
  BY <1>0, <1>4, CheckpointImplements, ParkImplements, FoldImplements, DeliverImplements
     DEF AnswerStep
<1>5. ASSUME NEW r \in Readings, ReadingStep(r) PROVE LockStep
  BY <1>0, <1>5, ClaimOnArrivalImplements, StartReadingImplements, PassImplements,
     ResumeImplements, InvokeImplements, AbandonImplements, ClearReadImplements DEF ReadingStep
<1>6. ASSUME NEW p \in Procs, ExitStep(p) PROVE LockStep
  BY <1>0, <1>6, ReadAtExitImplements, ClaimFollowUpImplements, YieldImplements,
     FetchFollowUpImplements, ClearEmptiedImplements, HandOverImplements,
     DispatchFollowUpImplements, FreeFollowUpImplements, GiveUpImplements, ReleaseImplements
     DEF ExitStep
<1>7. ASSUME NEW p \in Procs, Die(p) PROVE LockStep
  BY <1>0, <1>7, DieImplements
<1>8. LockStep => [Lock!Next]_(Lock!vars)
  BY DEF LockStep
<1>9. QED BY <1>1, <1>2, <1>3, <1>4, <1>5, <1>6, <1>7, <1>8 DEF Next

LEMMA InitBars ==
  Init => /\ PhaseBar = [t \in Procs |-> "idle"]
          /\ LockBar = [ holder |-> NoOne, triagedBy |-> NoOne, parked |-> NoOne, resumedBy |-> NoOne ]
<1> SUFFICES ASSUME Init
             PROVE  /\ PhaseBar = [t \in Procs |-> "idle"]
                    /\ LockBar = [ holder |-> NoOne, triagedBy |-> NoOne, parked |-> NoOne,
                                   resumedBy |-> NoOne ]
  OBVIOUS
<1>1. IInv
  BY InitInv
<1>2. \A p \in Procs : run[p].pc = "none"
  BY FreshRun DEF Init, RunIs
<1>3. \A m \in Messages : PhaseOf(m) = "idle"
  BY <1>1, <1>2, PhasesHold DEF Init, PhasesAre, AnswerPhases, Routed, Procs
<1>4. \A r \in Readings : PhaseOf(r) = "idle"
  <2>1. \A p \in Procs : ClaimedFor(p) = {}
    BY <1>2 DEF ClaimedFor
  <2>2. QED BY <1>1, <1>2, <2>1, PhasesHold DEF PhasesAre, ReadingPhases, Wanted, Procs
<1>5. PhaseBar = [t \in Procs |-> "idle"]
  BY <1>3, <1>4, TurnsAre DEF PhaseBar, Procs
<1>6. LockBar = [holder |-> NoOne, triagedBy |-> NoOne, parked |-> NoOne, resumedBy |-> NoOne]
  BY DEF Init, EmptyRecord, LockBar
<1>7. QED BY <1>5, <1>6

\* The runs of the queue keep to the protocol of the lock, whatever happens around them.
THEOREM KeepsToLock == Spec => ImplementsTurnLock
<1>1. Init => Lock!Init
  BY InitBars, TurnsAre DEF Lock!Init, PhaseBar, PhaseOf, LockBar
<1>2. IInv /\ [Next]_vars => [Lock!Next]_(Lock!vars)
  BY StepImplements
<1>3. QED BY <1>1, <1>2, IInvHolds, PTL DEF Spec, ImplementsTurnLock, Lock!Spec

-----------------------------------------------------------------------------
(* What the lock promises the runs.                                         *)

LockPhases == {"idle", "named", "working", "alone", "parked", "resuming", "dead", "over"}
LockOf     == LocksOf(Procs \cup {NoOne}, Readings \cup {NoOne}, Messages \cup {NoOne},
                      Readings \cup {NoOne})

\* The promises of TurnLock.tla, of a lock l and the phases p.
Promised(l, p) ==
    /\ \A m \in Messages : p[m] = "working" => l.holder = m
    /\ \A m \in Messages : p[m] \in {"over", "parked"} => l.holder # m
    /\ \A m \in Messages : p[m] \in {"parked", "resuming"} => l.parked = m
    /\ l.parked # NoOne => p[l.parked] \in {"parked", "resuming", "over", "dead"}
    /\ l.resumedBy # NoOne => l.parked # NoOne
    /\ \A m \in Messages : p[m] = "parked" => l.resumedBy = NoOne

LEMMA PromisedIs ==
  Promised(LockBar, PhaseBar) <=>
      Lock!LockedAnswerHolds /\ Lock!FinishedAnswerHoldsNothing /\ Lock!ParkedAnswerKept
BY TurnsAre DEF Promised, Lock!LockedAnswerHolds, Lock!FinishedAnswerHoldsNothing,
   Lock!ParkedAnswerKept, LockBar, PhaseBar, PhaseOf

LEMMA PromiseTyped == IInv => LockBar \in LockOf /\ PhaseBar \in [Procs -> LockPhases]
<1> SUFFICES ASSUME IInv PROVE LockBar \in LockOf /\ PhaseBar \in [Procs -> LockPhases]
  OBVIOUS
<1>1. LockBar \in LockOf
  BY NoPickups, TurnsAre DEF LockBar, LockOf, LocksOf, IInv, TypeOK, TurnRecords, Procs
<1>2. \A t \in Procs : PhaseOf(t) \in LockPhases
  BY DEF PhaseOf, PhaseOfAnswer, PhaseOfReading, LockPhases
<1>3. QED BY <1>1, <1>2, TurnsAre DEF PhaseBar

LEMMA PromiseTypedNext == IInv' => LockBar' \in LockOf /\ PhaseBar' \in [Procs -> LockPhases]
<1>1. IInv' => (LockBar \in LockOf /\ PhaseBar \in [Procs -> LockPhases])'
  BY PromiseTyped, PTL
<1>2. QED BY <1>1

-----------------------------------------------------------------------------
(* The steps of the lock, of locks and phases that are given.               *)

ClaimOf(l, p, l2, p2) == \E t \in Messages :
    /\ p[t] = "idle" /\ (l.holder \in {NoOne, t} \/ (l.holder # NoOne /\ p[l.holder] # "working"))
    /\ l2 = [l EXCEPT !.holder = t] /\ p2 = [p EXCEPT ![t] = "named"]

\* The lock stays, and one turn goes where it needs no lock, or is dead with those it claimed for.
StayOf(l, p, l2, p2) ==
    /\ l2 = l
    /\ \A t \in Procs : p2[t] # p[t] =>
          \/ p[t] \in {"idle", "named", "working", "alone"} /\ p2[t] \in {"idle", "named", "dead"}
          \/ p[t] = "resuming" /\ p2[t] = "dead"
          \/ /\ p[t] = "named" /\ p2[t] \in {"working", "alone"}
             /\ p2[t] = "working" /\ t \in Messages => l.holder = t

DropOf(l, p, l2, p2) == \E t \in Procs :
    /\ p[t] \in {"named", "working", "alone", "resuming"}
    /\ l2 = (IF l.holder = t THEN [l EXCEPT !.holder = NoOne] ELSE l)
    /\ p2 = [p EXCEPT ![t] = IF t \in Readings THEN "idle" ELSE "over"]

ParkOf(l, p, l2, p2) == \E t \in Messages, r \in Readings :
    /\ p[t] \in {"working", "alone"} /\ l.holder = t /\ l.parked = NoOne
    /\ l2 = [l EXCEPT !.holder = r, !.parked = t] /\ p2 = [p EXCEPT ![t] = "parked"]

ResumeOf(l, p, l2, p2) == \E r \in Readings :
    /\ l.parked # NoOne /\ l.resumedBy = NoOne /\ l.holder \in {r, NoOne}
    /\ l2 = [l EXCEPT !.holder = l.parked, !.resumedBy = r]
    /\ p2 = [p EXCEPT ![l.parked] = "resuming"]

AbandonOf(l, p, l2, p2) == \E r \in Readings :
    /\ l.parked # NoOne /\ p[l.parked] = "resuming" /\ l.holder = l.parked
    /\ l2 = [l EXCEPT !.holder = r, !.resumedBy = NoOne]
    /\ p2 = [p EXCEPT ![l.parked] = "parked"]

DeliverOf(l, p, l2, p2) == \E t \in Messages :
    /\ p[t] = "resuming" /\ l.parked = t
    /\ l2 = [l EXCEPT !.parked = NoOne, !.resumedBy = NoOne]
    /\ p2 = [p EXCEPT ![t] = IF l.holder # t THEN "alone" ELSE "working"]

HandOf(l, p, l2, p2) == \E t \in Procs, r \in Readings :
    /\ p[t] \in {"working", "alone"} /\ l.holder = t /\ r # t
    /\ l2 = [l EXCEPT !.holder = r]
    /\ p2 = [p EXCEPT ![t] = IF t \in Readings THEN "idle" ELSE "over"]

QueueOf(l, p, l2, p2) ==
    /\ l2.holder = l.holder /\ l2.parked = l.parked /\ l2.resumedBy = l.resumedBy
    /\ \A t \in Messages : p2[t] = p[t]

ProtocolOf(l, p, l2, p2) ==
    \/ ClaimOf(l, p, l2, p2) \/ StayOf(l, p, l2, p2) \/ DropOf(l, p, l2, p2)
    \/ ParkOf(l, p, l2, p2) \/ ResumeOf(l, p, l2, p2) \/ AbandonOf(l, p, l2, p2)
    \/ DeliverOf(l, p, l2, p2) \/ HandOf(l, p, l2, p2) \/ QueueOf(l, p, l2, p2)

LEMMA ProtocolKeeps ==
  ASSUME NEW l \in LockOf, NEW p \in [Procs -> LockPhases],
         NEW l2 \in LockOf, NEW p2 \in [Procs -> LockPhases],
         Promised(l, p), ProtocolOf(l, p, l2, p2)
  PROVE  /\ Promised(l2, p2)
         /\ \A m \in Messages : p[m] = "working" => p2[m] # "alone"
<1> USE IdsAssumption DEF Promised, LockOf, LocksOf, Procs
<1>1. CASE ClaimOf(l, p, l2, p2)
  BY <1>1 DEF ClaimOf
<1>2. CASE StayOf(l, p, l2, p2)
  BY <1>2 DEF StayOf
<1>3. CASE DropOf(l, p, l2, p2)
  BY <1>3 DEF DropOf
<1>4. CASE ParkOf(l, p, l2, p2)
  BY <1>4 DEF ParkOf
<1>5. CASE ResumeOf(l, p, l2, p2)
  BY <1>5 DEF ResumeOf
<1>6. CASE AbandonOf(l, p, l2, p2)
  BY <1>6 DEF AbandonOf
<1>7. CASE DeliverOf(l, p, l2, p2)
  BY <1>7 DEF DeliverOf
<1>8. CASE HandOf(l, p, l2, p2)
  BY <1>8 DEF HandOf
<1>9. CASE QueueOf(l, p, l2, p2)
  BY <1>9 DEF QueueOf
<1>10. QED BY <1>1, <1>2, <1>3, <1>4, <1>5, <1>6, <1>7, <1>8, <1>9 DEF ProtocolOf

-----------------------------------------------------------------------------
(* Every step of TurnLock.tla is one of these.                              *)

Protocol == ProtocolOf(LockBar, PhaseBar, LockBar', PhaseBar')

LEMMA ClaimProtocol == ASSUME NEW t \in Messages, Lock!Claim(t) PROVE Protocol
<1>1. /\ PhaseBar[t] = "idle"
      /\ LockBar.holder \in {NoOne, t} \/ (LockBar.holder # NoOne /\ PhaseBar[LockBar.holder] # "working")
      /\ LockBar' = [LockBar EXCEPT !.holder = t] /\ PhaseBar' = [PhaseBar EXCEPT ![t] = "named"]
  BY DEF Lock!Claim, Lock!ClaimTurnOk, Lock!Expired, Lock!ClaimTurn, Lock!Become, LockBar, PhaseBar, PhaseOf
<1>2. QED BY <1>1 DEF Protocol, ProtocolOf, ClaimOf

LEMMA StayProtocol ==
  ASSUME PhaseBar \in [Procs -> LockPhases], NEW t \in Procs,
         (t \in Messages /\ Lock!GoOnUnclaimed(t)) \/ Lock!Start(t) \/ Lock!Redispatch(t) \/ Lock!Die(t)
  PROVE  Protocol
<1>1. LockBar' = LockBar
  BY DEF LockBar, Lock!GoOnUnclaimed, Lock!Start, Lock!Redispatch, Lock!Die
<1>2. ASSUME Lock!GoOnUnclaimed(t)
      PROVE  PhaseBar[t] = "idle" /\ PhaseBar' = [PhaseBar EXCEPT ![t] = "named"]
  BY <1>2 DEF Lock!GoOnUnclaimed, Lock!Become, PhaseBar, PhaseOf
<1>3. ASSUME Lock!Start(t)
      PROVE  /\ PhaseBar[t] = "named"
             /\ PhaseBar' = [PhaseBar EXCEPT ![t] = IF t \in Messages /\ LockBar.holder # t
                                                    THEN "alone" ELSE "working"]
  BY <1>3, TurnsAre DEF Lock!Start, Lock!Become, Lock!Admitted, PhaseBar, PhaseOf, LockBar
<1>4. ASSUME Lock!Redispatch(t)
      PROVE  /\ PhaseBar[t] \in {"working", "alone"}
             /\ PhaseBar' = [PhaseBar EXCEPT ![t] = IF t \in Readings THEN "named" ELSE "idle"]
  BY <1>4 DEF Lock!Redispatch, Lock!Running, Lock!Become, PhaseBar, PhaseOf
<1>5. ASSUME Lock!Die(t)
      PROVE  /\ PhaseBar[t] \in {"named", "working", "alone", "resuming"}
             /\ \E lost \in SUBSET {r \in Readings : PhaseBar[r] = "named"} :
                   PhaseBar' = [u \in Procs |-> IF u = t \/ u \in lost THEN "dead" ELSE PhaseBar[u]]
  BY <1>5, TurnsAre DEF Lock!Die, PhaseBar, PhaseOf, Procs
<1>6. StayOf(LockBar, PhaseBar, LockBar', PhaseBar')
  BY <1>1, <1>2, <1>3, <1>4, <1>5 DEF StayOf, LockPhases
<1>7. QED BY <1>6 DEF Protocol, ProtocolOf

LEMMA DropProtocol ==
  ASSUME NEW t \in Procs, Lock!NotStarted(t) \/ Lock!ReleaseAtExit(t)
  PROVE  Protocol
<1>1. LockBar' = IF LockBar.holder = t THEN [LockBar EXCEPT !.holder = NoOne] ELSE LockBar
  BY DEF Lock!NotStarted, Lock!ReleaseAtExit, Lock!Drop, Lock!ReleaseOk, Lock!Release, LockBar
<1>2. /\ PhaseBar[t] \in {"named", "working", "alone", "resuming"}
      /\ PhaseBar' = [PhaseBar EXCEPT ![t] = IF t \in Readings THEN "idle" ELSE "over"]
  BY DEF Lock!NotStarted, Lock!ReleaseAtExit, Lock!Running, Lock!Become, Lock!Done, PhaseBar, PhaseOf
<1>3. QED BY <1>1, <1>2 DEF Protocol, ProtocolOf, DropOf

LEMMA ParkProtocol ==
  ASSUME NEW t \in Messages, NEW r \in Readings, Lock!ParkAnswer(t, r)
  PROVE  Protocol
<1>1. /\ PhaseBar[t] \in {"working", "alone"} /\ LockBar.holder = t /\ LockBar.parked = NoOne
      /\ LockBar' = [LockBar EXCEPT !.holder = r, !.parked = t]
      /\ PhaseBar' = [PhaseBar EXCEPT ![t] = "parked"]
  BY DEF Lock!ParkAnswer, Lock!Park, Lock!Running, Lock!Become, PhaseBar, PhaseOf, LockBar
<1>2. QED BY <1>1 DEF Protocol, ProtocolOf, ParkOf

LEMMA ResumeProtocol ==
  ASSUME NEW r \in Readings, Lock!ResumeParked(r)
  PROVE  Protocol
<1>1. /\ LockBar.parked # NoOne /\ LockBar.resumedBy = NoOne /\ LockBar.holder \in {r, NoOne}
      /\ LockBar' = [LockBar EXCEPT !.holder = LockBar.parked, !.resumedBy = r]
      /\ PhaseBar' = [PhaseBar EXCEPT ![LockBar.parked] = "resuming"]
  BY DEF Lock!ResumeParked, Lock!BeginResumeOk, Lock!BeginResume, Lock!Become, PhaseBar, PhaseOf, LockBar
<1>2. QED BY <1>1 DEF Protocol, ProtocolOf, ResumeOf

LEMMA AbandonProtocol ==
  ASSUME NEW r \in Readings, Lock!AbandonResumed(r)
  PROVE  Protocol
<1>1. /\ LockBar.parked # NoOne /\ PhaseBar[LockBar.parked] = "resuming"
      /\ LockBar.holder = LockBar.parked
      /\ LockBar' = [LockBar EXCEPT !.holder = r, !.resumedBy = NoOne]
      /\ PhaseBar' = [PhaseBar EXCEPT ![LockBar.parked] = "parked"]
  BY DEF Lock!AbandonResumed, Lock!AbandonResumeOk, Lock!AbandonResume, Lock!Become, PhaseBar, PhaseOf, LockBar
<1>2. QED BY <1>1 DEF Protocol, ProtocolOf, AbandonOf

LEMMA DeliverProtocol ==
  ASSUME NEW t \in Messages, Lock!DeliverParked(t)
  PROVE  Protocol
<1>1. /\ PhaseBar[t] = "resuming" /\ LockBar.parked = t
      /\ LockBar' = [LockBar EXCEPT !.parked = NoOne, !.resumedBy = NoOne]
      /\ PhaseBar' = [PhaseBar EXCEPT ![t] = IF LockBar.holder # t THEN "alone" ELSE "working"]
  BY TurnsAre DEF Lock!DeliverParked, Lock!TakeParkedOk, Lock!TakeParked, Lock!Become, Lock!Admitted,
     PhaseBar, PhaseOf, LockBar
<1>2. QED BY <1>1 DEF Protocol, ProtocolOf, DeliverOf

LEMMA HandProtocol ==
  ASSUME NEW t \in Procs, NEW r \in Readings, Lock!HandToReading(t, r)
  PROVE  Protocol
<1>1. /\ PhaseBar[t] \in {"working", "alone"} /\ LockBar.holder = t /\ r # t
      /\ LockBar' = [LockBar EXCEPT !.holder = r]
      /\ PhaseBar' = [PhaseBar EXCEPT ![t] = IF t \in Readings THEN "idle" ELSE "over"]
  BY DEF Lock!HandToReading, Lock!HandOverOk, Lock!HandOver, Lock!Running, Lock!Become, Lock!Done,
     PhaseBar, PhaseOf, LockBar
<1>2. QED BY <1>1 DEF Protocol, ProtocolOf, HandOf

LEMMA QueueProtocol ==
  ASSUME NEW r \in Readings, PhaseBar \in [Procs -> LockPhases],
         (\E expired \in BOOLEAN : Lock!ClaimQueue(r, expired)) \/ Lock!EndQueueClaim(r)
  PROVE  Protocol
<1>1. /\ LockBar'.holder = LockBar.holder /\ LockBar'.parked = LockBar.parked
      /\ LockBar'.resumedBy = LockBar.resumedBy
  BY DEF Lock!ClaimQueue, Lock!ClaimTriage, Lock!EndQueueClaim, Lock!ReleaseTriage, LockBar
<1>2. PhaseBar' = PhaseBar \/ \E phase : PhaseBar' = [PhaseBar EXCEPT ![r] = phase]
  BY DEF Lock!ClaimQueue, Lock!EndQueueClaim, Lock!Become, PhaseBar, PhaseOf
<1>3. \A t \in Messages : PhaseBar'[t] = PhaseBar[t]
  BY <1>2, IdsAssumption DEF Procs
<1>4. QED BY <1>1, <1>3 DEF Protocol, ProtocolOf, QueueOf

LEMMA LockProtocol ==
  ASSUME PhaseBar \in [Procs -> LockPhases], Lock!Next
  PROVE  Protocol
<1>1. ASSUME NEW t \in Messages, Lock!AnswerStep(t) PROVE Protocol
  BY <1>1, ClaimProtocol, StayProtocol, ParkProtocol, DeliverProtocol DEF Lock!AnswerStep, Procs
<1>2. ASSUME NEW r \in Readings, Lock!ReadingStep(r) PROVE Protocol
  BY <1>2, QueueProtocol, ResumeProtocol, AbandonProtocol DEF Lock!ReadingStep
<1>3. ASSUME NEW t \in Procs, Lock!RunStep(t) PROVE Protocol
  BY <1>3, NoPickups, StayProtocol, DropProtocol, HandProtocol DEF Lock!RunStep
<1>4. QED BY <1>1, <1>2, <1>3, TurnsAre DEF Lock!Next

\* With every step of a run, a promise that held holds, and no answer at work loses the lock.
LEMMA StepPromises ==
  ASSUME IInv, [Next]_vars
  PROVE  /\ Promised(LockBar, PhaseBar) => Promised(LockBar', PhaseBar')
         /\ Promised(LockBar, PhaseBar) =>
              \A m \in Messages : PhaseBar[m] = "working" => PhaseBar'[m] # "alone"
<1>1. /\ LockBar \in LockOf /\ PhaseBar \in [Procs -> LockPhases]
      /\ LockBar' \in LockOf /\ PhaseBar' \in [Procs -> LockPhases]
  BY PromiseTyped, PromiseTypedNext, IInvKept
<1>2. [Lock!Next]_(Lock!vars)
  BY StepImplements
<1>3. CASE Lock!Next
  <2>1. PICK l \in LockOf, p \in [Procs -> LockPhases], l2 \in LockOf, p2 \in [Procs -> LockPhases] :
           l = LockBar /\ p = PhaseBar /\ l2 = LockBar' /\ p2 = PhaseBar'
    BY <1>1
  <2>2. ProtocolOf(l, p, l2, p2)
    BY <1>1, <1>3, <2>1, LockProtocol DEF Protocol
  <2>3. Promised(l, p) => Promised(l2, p2) /\ \A m \in Messages : p[m] = "working" => p2[m] # "alone"
    BY <2>2, ProtocolKeeps
  <2>4. QED BY <2>1, <2>3
<1>4. CASE UNCHANGED Lock!vars
  <2>1. LockBar' = LockBar /\ PhaseBar' = PhaseBar
    BY <1>4 DEF Lock!vars, LockBar, PhaseBar, PhaseOf
  <2>2. QED BY <2>1
<1>5. QED BY <1>2, <1>3, <1>4

LEMMA InitPromises == Init => Promised(LockBar, PhaseBar)
<1> SUFFICES ASSUME Init PROVE Promised(LockBar, PhaseBar)
  OBVIOUS
<1>1. \A m \in Messages : PhaseBar[m] = "idle"
  BY InitBars DEF Procs
<1>2. LockBar.holder = NoOne /\ LockBar.parked = NoOne /\ LockBar.resumedBy = NoOne
  BY InitBars
<1>3. QED BY <1>1, <1>2 DEF Promised

\* What TurnLock promises of the lock is true of the runs: an answer that is over or parked is
\* not the holder (ADR-033 invariant A), and a parked answer stays in the record until one run
\* takes it (parkTurnForReading, beginResumeParkedTurn, takeParkedTurn).
THEOREM KeepsPromises ==
  Spec => [](Lock!LockedAnswerHolds /\ Lock!FinishedAnswerHoldsNothing /\ Lock!ParkedAnswerKept)
<1> DEFINE Promises == Promised(LockBar, PhaseBar)
<1>1. Init => Promises
  BY InitPromises
<1>2. IInv /\ Promises /\ [Next]_vars => Promises'
  BY StepPromises
<1>3. Promises => Lock!LockedAnswerHolds /\ Lock!FinishedAnswerHoldsNothing /\ Lock!ParkedAnswerKept
  BY PromisedIs
<1> HIDE DEF Promises
<1>4. QED BY <1>1, <1>2, <1>3, IInvHolds, PTL DEF Spec

\* An answer at work that holds the lock is not left at work without it.
LockKept == \A m \in Messages : PhaseOf(m) = "working" => PhaseOf(m)' # "alone"

\* No claim, takeover, hand-over, resume or release of any run takes the lock from an answer
\* that was admitted under it and is at work (every condition on `holder` in turn-lock.ts).
THEOREM KeepsLock == Spec => [][LockKept]_vars
<1> DEFINE Promises == Promised(LockBar, PhaseBar)
<1>1. Init => Promises
  BY InitPromises
<1>2. IInv /\ Promises /\ [Next]_vars => Promises'
  BY StepPromises
<1>3. IInv /\ Promises /\ [Next]_vars => [LockKept]_vars
  <2> SUFFICES ASSUME IInv, Promises, [Next]_vars PROVE LockKept
    OBVIOUS
  <2>1. \A m \in Messages : PhaseBar[m] = "working" => PhaseBar'[m] # "alone"
    BY StepPromises
  <2>2. \A m \in Messages : PhaseBar[m] = PhaseOf(m) /\ PhaseBar'[m] = PhaseOf(m)'
    BY TurnsAre DEF PhaseBar, Procs
  <2>3. QED BY <2>1, <2>2 DEF LockKept
<1> HIDE DEF Promises
<1>4. QED BY <1>1, <1>2, <1>3, IInvHolds, PTL DEF Spec
=============================================================================
