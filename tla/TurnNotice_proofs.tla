------------------------- MODULE TurnNotice_proofs -------------------------
(***************************************************************************)
(* Theorems about TurnNotice.tla, for any messages and readings and any    *)
(* number of failures: who owns the notice, its mark, its stage and the    *)
(* drain task.                                                             *)
(*                                                                         *)
(* One process moves in a step.  The lemmas ...Moves say where it goes and *)
(* what it then knows; each part of the inductive invariant IInv has a     *)
(* lemma over the actions (...Kept).                                       *)
(***************************************************************************)
EXTENDS TurnNotice, TLAPS

-----------------------------------------------------------------------------
(* The inductive invariant.                                                 *)

\* The messages that become notices.
Notices == Messages \cup {Placeholder}

SenderPcs == {"idle", "over", "peek", "write", "drain", "create", "notice", "find", "place",
              "post", "remember", "release", "wait"}

ReadingPcs == {"idle", "over", "peek", "write", "state", "stage", "judge", "record", "note",
               "before", "clear", "now", "close", "exit"}

AnswerPcs == {"idle", "over", "peek", "write", "fold", "deliver", "forget", "exit", "unpoint"}

Writing(p) == run[p].pc \in {"peek", "write"}
Posting(m) == run[m].pc \in {"find", "place", "post", "remember", "release"}

\* Where a sender, a reading and the answer can be, and what they are writing there.
SendersShaped ==
    \A m \in Messages :
        /\ run[m].pc \in SenderPcs /\ run[m].notice \in Notices \cup {NoOne}
        /\ Writing(m) => run[m].job \in {"count", "recount"} /\ run[m].target \in Notices
        /\ run[m].pc = "remember" => run[m].target \in Notices
        /\ run[m].pc \in {"idle", "drain", "create", "notice"} => run[m].job = "count"
        /\ run[m].mine => Posting(m) /\ run[m].job = "count"

ReadingsShaped ==
    \A r \in Readings :
        /\ run[r].pc \in ReadingPcs /\ run[r].notice \in Notices \cup {NoOne}
        /\ Writing(r) => /\ run[r].job \in {"reviewing", "note", "clearing", "settle"}
                         /\ run[r].target \in Notices

AnswerShaped ==
    /\ run[Answerer].pc \in AnswerPcs
    /\ Writing(Answerer) => run[Answerer].job = "settle" /\ run[Answerer].target \in Notices

PointerShaped == rec.pointer \in Notices \cup {NoOne} \cup {Pending(m) : m \in Messages}

Shaped == SendersShaped /\ ReadingsShaped /\ AnswerShaped /\ PointerShaped

\* A reading that is not past its clear has the claim on the queue.
UnderClaim(r) ==
    \/ run[r].pc \in {"state", "stage", "judge", "record", "note", "before", "clear"}
    \/ (Writing(r) /\ run[r].job # "settle")

ClaimHeld == \A r \in Readings : UnderClaim(r) => rec.claim = r

\* The mark of a notice is its sender's, until the sender has posted it.
Marked == \A m \in Messages : rec.pointer = Pending(m) => run[m].mine \/ run[m].blind

\* What excuses a queue without a notice, for good.
Excused == told # {} \/ AnsweredInNotice \/ \E m \in Messages : run[m].blind

\* The post of the answer says nothing as long as the answer may still go elsewhere, and
\* when the answer has gone into the notice.
AnswerPlaced ==
    /\ (\/ run[Answerer].pc \in {"idle", "fold"}
        \/ At(Answerer, "deliver") /\ run[Answerer].target = Placeholder)
       => says[AnswerPost] = "nothing"
    /\ At(Answerer, "forget") => run[Answerer].moved /\ says[AnswerPost] = "nothing"
    /\ At(Answerer, "idle") => ~run[Answerer].moved

\* The sender has seen a notice, or has claimed one.
Informed(m) ==
    \/ run[m].pc \notin {"idle", "drain", "create", "notice"}
    \/ run[m].pc \in {"drain", "create"} /\ run[m].notice # NoOne

InformedOwned == \A m \in rec.queued \ returned : Informed(m) => rec.pointer # NoOne \/ Excused

\* A sender gives up its claim when it was told otherwise.
ReleaseTold == \A m \in Messages : At(m, "release") => told # {}

\* A drain has its id from a sender that opened it, once.
DrainsOpened ==
    \A m \in Messages : run[m].pc \in {"idle", "drain"} =>
        /\ run[m].drain = NoOne /\ rec.drainId # m /\ drains[m] = "none" /\ m \notin emptied
        /\ \A r \in Readings : run[r].drain # m

DrainJoined ==
    \A m \in rec.queued \ returned : run[m].drain # NoOne => rec.drainId = run[m].drain

\* A reading that closes the drain it read does so when the record names another, or none,
\* unless an answer emptied the queue under it, or a clear failed.
Closing(r) == run[r].pc = "close" \/ (Writing(r) /\ run[r].job = "settle")

ClosedLate ==
    (\A r \in Readings : ~run[r].blind) =>
        /\ \A r \in Readings : run[r].drain # NoOne /\ run[r].drain = rec.drainId =>
              /\ At(r, "now") => rec.queued # {} \/ rec.drainId \in emptied
              /\ Closing(r) => rec.drainId \in emptied
        /\ \A d \in Messages : drains[d] = "closed" /\ rec.drainId = d => d \in emptied

IInv ==
    /\ TypeOK /\ Shaped /\ ClaimHeld /\ StageOfReading /\ Marked
    /\ AnswerPlaced /\ InformedOwned /\ ReleaseTold
    /\ DrainsOpened /\ DrainJoined /\ ClosedLate

-----------------------------------------------------------------------------
(* What the actions do.                                                     *)

\* p alone moves, to pc; what it is to write, and what it knows, are the same.
Moved(p, pc) == /\ run'[p].pc = pc /\ run'[p].moved = run[p].moved
                /\ \A q \in Procs : q # p => run'[q] = run[q]
SameAim(p)   == run'[p].job = run[p].job /\ run'[p].target = run[p].target
SameMarks(p) == run'[p].mine = run[p].mine /\ run'[p].blind = run[p].blind
SameReads(p) == run'[p].notice = run[p].notice /\ run'[p].drain = run[p].drain

\* p goes on to write the message, for the job.
Aims(p, pc, job, target) == /\ Moved(p, pc) /\ SameMarks(p)
                            /\ run'[p].job = job /\ run'[p].target = target

\* p is over, and may have failed.
Leaves(p, failed) ==
    /\ Moved(p, "over") /\ run'[p].notice = NoOne /\ ~run'[p].mine
    /\ run'[p].blind = (run[p].blind \/ failed)
    /\ run'[p].drain = IF p \in Messages THEN run[p].drain ELSE NoOne

\* The record, but for the follow-ups.
RecIs(queued, pointer, drainId, stage, claim) ==
    /\ rec'.queued = queued /\ rec'.pointer = pointer /\ rec'.drainId = drainId
    /\ rec'.stage = stage /\ rec'.claim = claim

\* A sender goes on to update the notice it saw, or to claim one.
GoesOn(m) ==
    /\ run'[m].job = run[m].job /\ run'[m].notice = NoOne /\ SameMarks(m)
    /\ \/ run[m].notice = NoOne /\ Moved(m, "notice")
       \/ run[m].notice # NoOne /\ Moved(m, "peek") /\ run'[m].target = run[m].notice

\* Follow-ups go back on the queue.
Returns ==
    \E back \in SUBSET Messages :
        /\ returned' = returned \cup back
        /\ RecIs(rec.queued \cup back, rec.pointer, rec.drainId, rec.stage, rec.claim)

\* What most actions leave alone.
AnswerPostSame == says'[AnswerPost] = says[AnswerPost]
OnlyReturns    == UNCHANGED <<told, emptied>> /\ AnswerPostSame
RestButDrains  == UNCHANGED <<returned, emptied>> /\ told \subseteq told' /\ AnswerPostSame
Rest           == UNCHANGED drains /\ RestButDrains

LEMMA Ids ==
    /\ Procs = Messages \cup Readings \cup {Answerer}
    /\ Answerer \in Procs /\ \A m \in Messages : m \in Procs
    /\ \A r \in Readings : r \in Procs /\ r \notin Messages /\ r # Answerer /\ r # NoOne
    /\ \A m \in Messages : m \notin Readings /\ m # Answerer /\ m # NoOne
    /\ Notices \subseteq Posts /\ NoOne \notin Posts /\ AnswerPost \notin Notices
    /\ \A m \in Messages : Pending(m) \notin Posts /\ Pending(m) # NoOne
    /\ \A m, n \in Messages : Pending(m) = Pending(n) => m = n
  BY NoticeAssumption DEF Procs, Posts, Notices, Pending

LEMMA ShownIs ==
    ASSUME TypeOK, PointerShaped
    PROVE  /\ Shown(rec.pointer) \in Notices \cup {NoOne}
           /\ Shown(rec.pointer) # NoOne => rec.pointer = Shown(rec.pointer)
           /\ rec.pointer = NoOne => Shown(rec.pointer) = NoOne
  BY Ids DEF Shown, PointerShaped

\* A record of a run is written as a whole.
RunTyped == run \in [Procs -> Runs]

LEMMA RunWritten ==
    ASSUME RunTyped, NEW p \in Procs, NEW x \in Runs, run' = [run EXCEPT ![p] = x]
    PROVE  RunTyped' /\ run'[p] = x /\ \A q \in Procs : q # p => run'[q] = run[q]
  BY DEF RunTyped

\* The parts of the type that the effects need.
RecTyped == rec \in [ queued    : SUBSET Messages,
                      followUps : SUBSET Messages,
                      pointer   : Posts \cup {NoOne} \cup {Pending(m) : m \in Messages},
                      drainId   : Messages \cup {NoOne},
                      stage     : {"waiting", "reviewing", "clearing"},
                      claim     : Readings \cup {NoOne} ]

LEMMA Typed ==
    TypeOK <=> /\ RecTyped /\ RunTyped
               /\ says \in [Posts -> Texts] /\ drains \in [Messages -> {"none", "open", "closed"}]
               /\ told \subseteq Messages /\ returned \subseteq Messages /\ emptied \subseteq Messages
               /\ faults \in 0..MaxFaults
  BY DEF TypeOK, RecTyped, RunTyped

\* Which attributes of a run are written, and which are kept.
LEMMA GoesMoves ==
    ASSUME RunTyped, NEW p \in Procs, NEW pc \in Pcs,
           run' = [run EXCEPT ![p].pc = pc]
    PROVE  /\ RunTyped' /\ Moved(p, pc) /\ SameAim(p) /\ SameMarks(p) /\ SameReads(p)
  <1>1. PICK x : x = [run[p] EXCEPT !.pc = pc]
    OBVIOUS
  <1>2. /\ x \in Runs /\ x.pc = pc /\ x.moved = run[p].moved /\ x.job = run[p].job
        /\ x.target = run[p].target /\ x.mine = run[p].mine /\ x.blind = run[p].blind
        /\ x.notice = run[p].notice /\ x.drain = run[p].drain
    <2>1. run[p] \in Runs
      BY DEF RunTyped
    <2>2. x \in Runs
      BY <1>1, <2>1, Zenon DEF Runs
    <2>3. QED BY <1>1, <2>1, <2>2 DEF Runs
  <1>3. run' = [run EXCEPT ![p] = x]
    BY <1>1 DEF RunTyped
  <1>4. RunTyped' /\ run'[p] = x /\ \A q \in Procs : q # p => run'[q] = run[q]
    BY <1>2, <1>3, RunWritten
  <1>5. QED BY <1>2, <1>4 DEF Moved, SameAim, SameMarks, SameReads

LEMMA IdsMove ==
    ASSUME RunTyped, NEW p \in Procs, NEW pc \in Pcs, NEW ids \in SUBSET Messages,
           run' = [run EXCEPT ![p].pc = pc, ![p].ids = ids]
    PROVE  /\ RunTyped' /\ Moved(p, pc) /\ SameAim(p) /\ SameMarks(p) /\ SameReads(p)
  <1>1. PICK x : x = [run[p] EXCEPT !.pc = pc, !.ids = ids]
    OBVIOUS
  <1>2. /\ x \in Runs /\ x.pc = pc /\ x.moved = run[p].moved /\ x.job = run[p].job
        /\ x.target = run[p].target /\ x.mine = run[p].mine /\ x.blind = run[p].blind
        /\ x.notice = run[p].notice /\ x.drain = run[p].drain
    <2>1. run[p] \in Runs
      BY DEF RunTyped
    <2>2. x \in Runs
      BY <1>1, <2>1, Zenon DEF Runs
    <2>3. QED BY <1>1, <2>1, <2>2 DEF Runs
  <1>3. run' = [run EXCEPT ![p] = x]
    BY <1>1 DEF RunTyped
  <1>4. RunTyped' /\ run'[p] = x /\ \A q \in Procs : q # p => run'[q] = run[q]
    BY <1>2, <1>3, RunWritten
  <1>5. QED BY <1>2, <1>4 DEF Moved, SameAim, SameMarks, SameReads

LEMMA NoticeMoves ==
    ASSUME RunTyped, NEW p \in Procs, NEW pc \in Pcs, NEW notice \in Posts \cup {NoOne},
           run' = [run EXCEPT ![p].pc = pc, ![p].notice = notice]
    PROVE  /\ RunTyped' /\ Moved(p, pc) /\ SameAim(p) /\ SameMarks(p)
           /\ run'[p].notice = notice /\ run'[p].drain = run[p].drain
  <1>1. PICK x : x = [run[p] EXCEPT !.pc = pc, !.notice = notice]
    OBVIOUS
  <1>2. /\ x \in Runs /\ x.pc = pc /\ x.moved = run[p].moved /\ x.job = run[p].job
        /\ x.target = run[p].target /\ x.mine = run[p].mine /\ x.blind = run[p].blind
        /\ x.notice = notice /\ x.drain = run[p].drain
    <2>1. run[p] \in Runs
      BY DEF RunTyped
    <2>2. x \in Runs
      BY <1>1, <2>1, Zenon DEF Runs
    <2>3. QED BY <1>1, <2>1, <2>2 DEF Runs
  <1>3. run' = [run EXCEPT ![p] = x]
    BY <1>1 DEF RunTyped
  <1>4. RunTyped' /\ run'[p] = x /\ \A q \in Procs : q # p => run'[q] = run[q]
    BY <1>2, <1>3, RunWritten
  <1>5. QED BY <1>2, <1>4 DEF Moved, SameAim, SameMarks, SameReads

LEMMA DrainMoves ==
    ASSUME RunTyped, NEW p \in Procs, NEW pc \in Pcs,
           NEW drain \in Messages \cup {NoOne},
           run' = [run EXCEPT ![p].pc = pc, ![p].drain = drain]
    PROVE  /\ RunTyped' /\ Moved(p, pc) /\ SameAim(p) /\ SameMarks(p)
           /\ run'[p].notice = run[p].notice /\ run'[p].drain = drain
  <1>1. PICK x : x = [run[p] EXCEPT !.pc = pc, !.drain = drain]
    OBVIOUS
  <1>2. /\ x \in Runs /\ x.pc = pc /\ x.moved = run[p].moved /\ x.job = run[p].job
        /\ x.target = run[p].target /\ x.mine = run[p].mine /\ x.blind = run[p].blind
        /\ x.notice = run[p].notice /\ x.drain = drain
    <2>1. run[p] \in Runs
      BY DEF RunTyped
    <2>2. x \in Runs
      BY <1>1, <2>1, Zenon DEF Runs
    <2>3. QED BY <1>1, <2>1, <2>2 DEF Runs
  <1>3. run' = [run EXCEPT ![p] = x]
    BY <1>1 DEF RunTyped
  <1>4. RunTyped' /\ run'[p] = x /\ \A q \in Procs : q # p => run'[q] = run[q]
    BY <1>2, <1>3, RunWritten
  <1>5. QED BY <1>2, <1>4 DEF Moved, SameAim, SameMarks, SameReads

LEMMA MineMoves ==
    ASSUME RunTyped, NEW p \in Procs, NEW pc \in Pcs, NEW mine \in BOOLEAN,
           run' = [run EXCEPT ![p].pc = pc, ![p].mine = mine]
    PROVE  /\ RunTyped' /\ Moved(p, pc) /\ SameAim(p) /\ run'[p].mine = mine
           /\ run'[p].blind = run[p].blind /\ SameReads(p)
  <1>1. PICK x : x = [run[p] EXCEPT !.pc = pc, !.mine = mine]
    OBVIOUS
  <1>2. /\ x \in Runs /\ x.pc = pc /\ x.moved = run[p].moved /\ x.job = run[p].job
        /\ x.target = run[p].target /\ x.mine = mine /\ x.blind = run[p].blind
        /\ x.notice = run[p].notice /\ x.drain = run[p].drain
    <2>1. run[p] \in Runs
      BY DEF RunTyped
    <2>2. x \in Runs
      BY <1>1, <2>1, Zenon DEF Runs
    <2>3. QED BY <1>1, <2>1, <2>2 DEF Runs
  <1>3. run' = [run EXCEPT ![p] = x]
    BY <1>1 DEF RunTyped
  <1>4. RunTyped' /\ run'[p] = x /\ \A q \in Procs : q # p => run'[q] = run[q]
    BY <1>2, <1>3, RunWritten
  <1>5. QED BY <1>2, <1>4 DEF Moved, SameAim, SameMarks, SameReads

LEMMA BlindMoves ==
    ASSUME RunTyped, NEW p \in Procs, NEW pc \in Pcs, NEW blind \in BOOLEAN,
           run' = [run EXCEPT ![p].pc = pc, ![p].blind = blind]
    PROVE  /\ RunTyped' /\ Moved(p, pc) /\ SameAim(p) /\ run'[p].mine = run[p].mine
           /\ run'[p].blind = blind /\ SameReads(p)
  <1>1. PICK x : x = [run[p] EXCEPT !.pc = pc, !.blind = blind]
    OBVIOUS
  <1>2. /\ x \in Runs /\ x.pc = pc /\ x.moved = run[p].moved /\ x.job = run[p].job
        /\ x.target = run[p].target /\ x.mine = run[p].mine /\ x.blind = blind
        /\ x.notice = run[p].notice /\ x.drain = run[p].drain
    <2>1. run[p] \in Runs
      BY DEF RunTyped
    <2>2. x \in Runs
      BY <1>1, <2>1, Zenon DEF Runs
    <2>3. QED BY <1>1, <2>1, <2>2 DEF Runs
  <1>3. run' = [run EXCEPT ![p] = x]
    BY <1>1 DEF RunTyped
  <1>4. RunTyped' /\ run'[p] = x /\ \A q \in Procs : q # p => run'[q] = run[q]
    BY <1>2, <1>3, RunWritten
  <1>5. QED BY <1>2, <1>4 DEF Moved, SameAim, SameMarks, SameReads

LEMMA TargetMoves ==
    ASSUME RunTyped, NEW p \in Procs, NEW pc \in Pcs, NEW target \in Posts \cup {NoOne},
           run' = [run EXCEPT ![p].pc = pc, ![p].target = target]
    PROVE  /\ RunTyped' /\ Moved(p, pc) /\ run'[p].job = run[p].job
           /\ run'[p].target = target /\ SameMarks(p) /\ SameReads(p)
  <1>1. PICK x : x = [run[p] EXCEPT !.pc = pc, !.target = target]
    OBVIOUS
  <1>2. /\ x \in Runs /\ x.pc = pc /\ x.moved = run[p].moved /\ x.job = run[p].job
        /\ x.target = target /\ x.mine = run[p].mine /\ x.blind = run[p].blind
        /\ x.notice = run[p].notice /\ x.drain = run[p].drain
    <2>1. run[p] \in Runs
      BY DEF RunTyped
    <2>2. x \in Runs
      BY <1>1, <2>1, Zenon DEF Runs
    <2>3. QED BY <1>1, <2>1, <2>2 DEF Runs
  <1>3. run' = [run EXCEPT ![p] = x]
    BY <1>1 DEF RunTyped
  <1>4. RunTyped' /\ run'[p] = x /\ \A q \in Procs : q # p => run'[q] = run[q]
    BY <1>2, <1>3, RunWritten
  <1>5. QED BY <1>2, <1>4 DEF Moved, SameAim, SameMarks, SameReads

LEMMA AimMoves ==
    ASSUME RunTyped, NEW p \in Procs, NEW pc \in Pcs, NEW job \in Jobs,
           NEW target \in Posts \cup {NoOne},
           run' = [run EXCEPT ![p].pc = pc, ![p].job = job, ![p].target = target]
    PROVE  /\ RunTyped' /\ Moved(p, pc) /\ run'[p].job = job /\ run'[p].target = target
           /\ SameMarks(p) /\ SameReads(p)
  <1>1. PICK x : x = [run[p] EXCEPT !.pc = pc, !.job = job, !.target = target]
    OBVIOUS
  <1>2. /\ x \in Runs /\ x.pc = pc /\ x.moved = run[p].moved /\ x.job = job
        /\ x.target = target /\ x.mine = run[p].mine /\ x.blind = run[p].blind
        /\ x.notice = run[p].notice /\ x.drain = run[p].drain
    <2>1. run[p] \in Runs
      BY DEF RunTyped
    <2>2. x \in Runs
      BY <1>1, <2>1, Zenon DEF Runs
    <2>3. QED BY <1>1, <2>1, <2>2 DEF Runs
  <1>3. run' = [run EXCEPT ![p] = x]
    BY <1>1 DEF RunTyped
  <1>4. RunTyped' /\ run'[p] = x /\ \A q \in Procs : q # p => run'[q] = run[q]
    BY <1>2, <1>3, RunWritten
  <1>5. QED BY <1>2, <1>4 DEF Moved, SameAim, SameMarks, SameReads

LEMMA JobMoves ==
    ASSUME RunTyped, NEW p \in Procs, NEW pc \in Pcs, NEW job \in Jobs,
           run' = [run EXCEPT ![p].pc = pc, ![p].job = job]
    PROVE  /\ RunTyped' /\ Moved(p, pc) /\ run'[p].job = job
           /\ run'[p].target = run[p].target /\ SameMarks(p) /\ SameReads(p)
  <1>1. PICK x : x = [run[p] EXCEPT !.pc = pc, !.job = job]
    OBVIOUS
  <1>2. /\ x \in Runs /\ x.pc = pc /\ x.moved = run[p].moved /\ x.job = job
        /\ x.target = run[p].target /\ x.mine = run[p].mine /\ x.blind = run[p].blind
        /\ x.notice = run[p].notice /\ x.drain = run[p].drain
    <2>1. run[p] \in Runs
      BY DEF RunTyped
    <2>2. x \in Runs
      BY <1>1, <2>1, Zenon DEF Runs
    <2>3. QED BY <1>1, <2>1, <2>2 DEF Runs
  <1>3. run' = [run EXCEPT ![p] = x]
    BY <1>1 DEF RunTyped
  <1>4. RunTyped' /\ run'[p] = x /\ \A q \in Procs : q # p => run'[q] = run[q]
    BY <1>2, <1>3, RunWritten
  <1>5. QED BY <1>2, <1>4 DEF Moved, SameAim, SameMarks, SameReads

LEMMA FoldsMove ==
    ASSUME RunTyped, NEW p \in Procs, NEW pc \in Pcs, NEW job \in Jobs,
           NEW folds \in {"none", "some", "all"},
           run' = [run EXCEPT ![p].pc = pc, ![p].job = job, ![p].folds = folds]
    PROVE  /\ RunTyped' /\ Moved(p, pc) /\ run'[p].job = job
           /\ run'[p].target = run[p].target /\ SameMarks(p) /\ SameReads(p)
  <1>1. PICK x : x = [run[p] EXCEPT !.pc = pc, !.job = job, !.folds = folds]
    OBVIOUS
  <1>2. /\ x \in Runs /\ x.pc = pc /\ x.moved = run[p].moved /\ x.job = job
        /\ x.target = run[p].target /\ x.mine = run[p].mine /\ x.blind = run[p].blind
        /\ x.notice = run[p].notice /\ x.drain = run[p].drain
    <2>1. run[p] \in Runs
      BY DEF RunTyped
    <2>2. x \in Runs
      BY <1>1, <2>1, Zenon DEF Runs
    <2>3. QED BY <1>1, <2>1, <2>2 DEF Runs
  <1>3. run' = [run EXCEPT ![p] = x]
    BY <1>1 DEF RunTyped
  <1>4. RunTyped' /\ run'[p] = x /\ \A q \in Procs : q # p => run'[q] = run[q]
    BY <1>2, <1>3, RunWritten
  <1>5. QED BY <1>2, <1>4 DEF Moved, SameAim, SameMarks, SameReads

LEMMA LooksMoves ==
    ASSUME RunTyped, NEW p \in Procs, NEW pc \in Pcs, NEW moved \in BOOLEAN,
           run' = [run EXCEPT ![p].pc = pc, ![p].moved = moved]
    PROVE  /\ RunTyped' /\ run'[p].pc = pc
           /\ (\A q \in Procs : q # p => run'[q] = run[q]) /\ SameAim(p) /\ SameMarks(p)
           /\ SameReads(p)
  <1>1. PICK x : x = [run[p] EXCEPT !.pc = pc, !.moved = moved]
    OBVIOUS
  <1>2. /\ x \in Runs /\ x.pc = pc /\ x.moved = moved /\ x.job = run[p].job
        /\ x.target = run[p].target /\ x.mine = run[p].mine /\ x.blind = run[p].blind
        /\ x.notice = run[p].notice /\ x.drain = run[p].drain
    <2>1. run[p] \in Runs
      BY DEF RunTyped
    <2>2. x \in Runs
      BY <1>1, <2>1, Zenon DEF Runs
    <2>3. QED BY <1>1, <2>1, <2>2 DEF Runs
  <1>3. run' = [run EXCEPT ![p] = x]
    BY <1>1 DEF RunTyped
  <1>4. RunTyped' /\ run'[p] = x /\ \A q \in Procs : q # p => run'[q] = run[q]
    BY <1>2, <1>3, RunWritten
  <1>5. QED BY <1>2, <1>4 DEF Moved, SameAim, SameMarks, SameReads

LEMMA SawMoves ==
    ASSUME RunTyped, NEW p \in Procs, NEW pc \in Pcs, NEW saw \in Texts,
           run' = [run EXCEPT ![p].pc = pc, ![p].saw = saw]
    PROVE  /\ RunTyped' /\ Moved(p, pc) /\ SameAim(p) /\ SameMarks(p) /\ SameReads(p)
  <1>1. PICK x : x = [run[p] EXCEPT !.pc = pc, !.saw = saw]
    OBVIOUS
  <1>2. /\ x \in Runs /\ x.pc = pc /\ x.moved = run[p].moved /\ x.job = run[p].job
        /\ x.target = run[p].target /\ x.mine = run[p].mine /\ x.blind = run[p].blind
        /\ x.notice = run[p].notice /\ x.drain = run[p].drain
    <2>1. run[p] \in Runs
      BY DEF RunTyped
    <2>2. x \in Runs
      BY <1>1, <2>1, Zenon DEF Runs
    <2>3. QED BY <1>1, <2>1, <2>2 DEF Runs
  <1>3. run' = [run EXCEPT ![p] = x]
    BY <1>1 DEF RunTyped
  <1>4. RunTyped' /\ run'[p] = x /\ \A q \in Procs : q # p => run'[q] = run[q]
    BY <1>2, <1>3, RunWritten
  <1>5. QED BY <1>2, <1>4 DEF Moved, SameAim, SameMarks, SameReads

LEMMA WriteMoves ==
    ASSUME RunTyped, NEW p \in Procs, NEW pc \in Pcs, NEW saw \in Texts,
           NEW target \in Posts \cup {NoOne},
           run' = [run EXCEPT ![p].pc = pc, ![p].saw = saw, ![p].target = target]
    PROVE  /\ RunTyped' /\ Moved(p, pc) /\ run'[p].job = run[p].job
           /\ run'[p].target = target /\ SameMarks(p) /\ SameReads(p)
  <1>1. PICK x : x = [run[p] EXCEPT !.pc = pc, !.saw = saw, !.target = target]
    OBVIOUS
  <1>2. /\ x \in Runs /\ x.pc = pc /\ x.moved = run[p].moved /\ x.job = run[p].job
        /\ x.target = target /\ x.mine = run[p].mine /\ x.blind = run[p].blind
        /\ x.notice = run[p].notice /\ x.drain = run[p].drain
    <2>1. run[p] \in Runs
      BY DEF RunTyped
    <2>2. x \in Runs
      BY <1>1, <2>1, Zenon DEF Runs
    <2>3. QED BY <1>1, <2>1, <2>2 DEF Runs
  <1>3. run' = [run EXCEPT ![p] = x]
    BY <1>1 DEF RunTyped
  <1>4. RunTyped' /\ run'[p] = x /\ \A q \in Procs : q # p => run'[q] = run[q]
    BY <1>2, <1>3, RunWritten
  <1>5. QED BY <1>2, <1>4 DEF Moved, SameAim, SameMarks, SameReads

\* The names of the places and jobs are what they are.
LEMMA Named ==
    /\ "find" \in Pcs /\ "wait" \in Pcs /\ "place" \in Pcs /\ "post" \in Pcs /\ "release" \in Pcs
    /\ "remember" \in Pcs /\ "create" \in Pcs /\ "state" \in Pcs /\ "stage" \in Pcs
    /\ "note" \in Pcs /\ "peek" \in Pcs /\ "write" \in Pcs /\ "now" \in Pcs /\ "exit" \in Pcs
    /\ "close" \in Pcs /\ "deliver" \in Pcs /\ "forget" \in Pcs /\ "over" \in Pcs
    /\ "notice" \in Pcs /\ "reviewing" \in Jobs /\ "clearing" \in Jobs /\ "settle" \in Jobs
  BY DEF Pcs, Jobs

LEMMA BlankIs ==
    /\ Blank \in Runs /\ Blank.pc = "idle" /\ Blank.notice = NoOne /\ Blank.drain = NoOne
    /\ ~Blank.mine /\ ~Blank.blind /\ ~Blank.moved /\ Blank.job = "count"
    /\ Blank.target = NoOne
  BY DEF Blank, Runs, Pcs, Jobs, Texts

LEMMA OverMoves ==
    ASSUME RunTyped, NEW p \in Procs, NEW failed \in BOOLEAN, run' = Over(p, failed)
    PROVE  RunTyped' /\ Leaves(p, failed)
  <1>1. run[p] \in Runs
    BY DEF RunTyped
  <1>2. PICK d \in Messages \cup {NoOne} : d = IF p \in Messages THEN run[p].drain ELSE NoOne
    BY <1>1 DEF Runs
  <1>3. PICK b \in BOOLEAN : b = (run[p].blind \/ failed)
    BY <1>1 DEF Runs
  <1>4. PICK v \in BOOLEAN : v = run[p].moved
    BY <1>1 DEF Runs
  <1>5. PICK y \in Runs : y = Blank
    BY BlankIs
  <1>6. PICK x : x = [y EXCEPT !.pc = "over", !.blind = b, !.drain = d, !.moved = v]
    OBVIOUS
  <1>7. x \in Runs
    <2>1. d \in Messages \cup {NoOne} /\ b \in BOOLEAN /\ v \in BOOLEAN /\ y \in Runs
      BY <1>2, <1>3, <1>4, <1>5
    <2>2. QED BY <2>1, <1>6, Named, Zenon DEF Runs
  <1>8. x.pc = "over" /\ x.blind = b /\ x.drain = d /\ x.moved = v
    BY <1>5, <1>6 DEF Runs
  <1>9. x.notice = NoOne /\ ~x.mine
    <2>1. x.notice = y.notice /\ x.mine = y.mine
      BY <1>5, <1>6 DEF Runs
    <2>2. QED BY <2>1, <1>5, BlankIs
  <1>10. run' = [run EXCEPT ![p] = x]
    BY <1>2, <1>3, <1>4, <1>5, <1>6 DEF Over
  <1>11. RunTyped' /\ run'[p] = x /\ \A q \in Procs : q # p => run'[q] = run[q]
    BY <1>7, <1>10, RunWritten
  <1>12. QED BY <1>2, <1>3, <1>4, <1>8, <1>9, <1>11 DEF Leaves, Moved

LEMMA InformsIs ==
    ASSUME RunTyped, NEW m \in Messages
    PROVE  /\ Informs(m) \in Runs /\ Informs(m).job = run[m].job /\ Informs(m).notice = NoOne
           /\ Informs(m).mine = run[m].mine /\ Informs(m).blind = run[m].blind
           /\ Informs(m).moved = run[m].moved /\ Informs(m).drain = run[m].drain
           /\ run[m].notice = NoOne => Informs(m).pc = "notice"
           /\ run[m].notice # NoOne => Informs(m).pc = "peek" /\ Informs(m).target = run[m].notice
  <1>1. run[m] \in Runs
    BY Ids DEF RunTyped
  <1>2. CASE run[m].notice = NoOne
    <2>1. Informs(m) = [run[m] EXCEPT !.pc = "notice"]
      BY <1>2 DEF Informs
    <2>2. QED BY <1>1, <1>2, <2>1 DEF Runs, Pcs
  <1>3. CASE run[m].notice # NoOne
    <2>1. PICK n \in Posts \cup {NoOne} : n = run[m].notice
      BY <1>1 DEF Runs
    <2>2. Informs(m) = [run[m] EXCEPT !.pc = "peek", !.notice = NoOne, !.target = n]
      BY <1>3, <2>1 DEF Informs
    <2>3. QED BY <1>1, <1>3, <2>1, <2>2 DEF Runs, Pcs
  <1>4. QED BY <1>2, <1>3

LEMMA InformsMoves ==
    ASSUME RunTyped, NEW m \in Messages, run' = [run EXCEPT ![m] = Informs(m)]
    PROVE  RunTyped' /\ GoesOn(m) /\ run'[m].drain = run[m].drain
  <1>1. m \in Procs
    BY Ids
  <1>2. PICK y \in Runs : y = Informs(m)
    BY InformsIs
  <1>3. run' = [run EXCEPT ![m] = y]
    BY <1>2
  <1>4. RunTyped' /\ run'[m] = y /\ \A q \in Procs : q # m => run'[q] = run[q]
    BY <1>1, <1>3, RunWritten
  <1>5. QED BY <1>2, <1>4, InformsIs DEF GoesOn, Moved, SameMarks

LEMMA GoesOnMoves ==
    ASSUME RunTyped, NEW m \in Messages, NEW drain \in Messages \cup {NoOne},
           run' = [run EXCEPT ![m] = [Informs(m) EXCEPT !.drain = drain]]
    PROVE  RunTyped' /\ GoesOn(m) /\ run'[m].drain = drain
  <1>1. PICK y \in Runs : y = Informs(m)
    BY InformsIs
  <1>2. PICK x : x = [y EXCEPT !.drain = drain]
    OBVIOUS
  <1>3. /\ x \in Runs /\ x.pc = y.pc /\ x.job = y.job /\ x.target = y.target /\ x.mine = y.mine
        /\ x.blind = y.blind /\ x.moved = y.moved /\ x.notice = y.notice /\ x.drain = drain
    BY <1>1, <1>2 DEF Runs
  <1>4. run' = [run EXCEPT ![m] = x]
    BY <1>1, <1>2
  <1>5. RunTyped' /\ run'[m] = x /\ \A q \in Procs : q # m => run'[q] = run[q]
    <2>1. m \in Procs
      BY Ids
    <2>2. QED BY <1>3, <1>4, <2>1, RunWritten
  <1>6. QED BY <1>1, <1>3, <1>5, InformsIs DEF GoesOn, Moved, SameMarks

LEMMA EnqueueMoves ==
    ASSUME TypeOK, Shaped, NEW m \in Messages, Enqueue(m)
    PROVE  /\ RunTyped' /\ Rest
           /\ At(m, "idle")
           /\ \/ /\ RecIs(rec.queued \cup {m}, rec.pointer, rec.drainId, rec.stage, rec.claim)
                 /\ Moved(m, "drain") /\ SameAim(m) /\ SameMarks(m)
                 /\ run'[m].drain = run[m].drain /\ run'[m].notice = Shown(rec.pointer)
              \/ UNCHANGED rec /\ Leaves(m, FALSE) /\ told' # {}
  <1>1. RunTyped /\ RecTyped /\ m \in Procs
    BY Ids, Typed
  <1>2. PICK n \in Posts \cup {NoOne} : n = Shown(rec.pointer)
    BY ShownIs, Ids DEF Shaped
  <1>3. ASSUME run' = [run EXCEPT ![m].pc = "drain", ![m].notice = Shown(rec.pointer)]
       PROVE  /\ RunTyped' /\ Moved(m, "drain") /\ SameAim(m) /\ SameMarks(m)
              /\ run'[m].drain = run[m].drain /\ run'[m].notice = Shown(rec.pointer)
    <2>1. run' = [run EXCEPT ![m].pc = "drain", ![m].notice = n]
      BY <1>3, <1>2
    <2>2. "drain" \in Pcs
      BY DEF Pcs
    <2>3. /\ RunTyped' /\ Moved(m, "drain") /\ SameAim(m) /\ SameMarks(m)
          /\ run'[m].drain = run[m].drain /\ run'[m].notice = n
      BY <1>1, <2>1, <1>2, <2>2, NoticeMoves
    <2>4. QED BY <2>3, <1>2
  <1>4. ASSUME run' = Over(m, FALSE)
       PROVE  RunTyped' /\ Leaves(m, FALSE)
    BY <1>1, <1>4, OverMoves
  <1>5. QED
    BY <1>1, <1>3, <1>4, Ids DEF Enqueue, Ends, Works, RecIs, RecTyped, Rest, RestButDrains,
       AnswerPostSame, OnlyReturns, Returns

LEMMA ClaimDrainMoves ==
    ASSUME TypeOK, Shaped, NEW m \in Messages, ClaimDrain(m)
    PROVE  /\ RunTyped' /\ Rest
           /\ At(m, "drain")
           /\ \/ /\ rec.drainId = NoOne /\ RecIs(rec.queued, rec.pointer, m, rec.stage, rec.claim)
                 /\ Moved(m, "create") /\ SameAim(m) /\ SameMarks(m)
                 /\ run'[m].drain = m /\ run'[m].notice = run[m].notice
              \/ UNCHANGED rec /\ GoesOn(m) /\ run'[m].drain \in {rec.drainId, run[m].drain}
  <1>1. RunTyped /\ RecTyped /\ m \in Procs
    BY Ids, Typed
  <1>2. PICK d \in Messages \cup {NoOne} : d = rec.drainId
    BY <1>1 DEF RecTyped
  <1>3. ASSUME run' = [run EXCEPT ![m].pc = "create", ![m].drain = m]
        PROVE  /\ RunTyped' /\ Moved(m, "create") /\ SameAim(m) /\ SameMarks(m)
               /\ run'[m].drain = m /\ run'[m].notice = run[m].notice
    BY <1>1, <1>3, DrainMoves, Named
  <1>4. ASSUME run' = [run EXCEPT ![m] = [Informs(m) EXCEPT !.drain = rec.drainId]]
        PROVE  RunTyped' /\ GoesOn(m) /\ run'[m].drain = rec.drainId
    BY <1>1, <1>2, <1>4, GoesOnMoves
  <1>5. ASSUME run' = [run EXCEPT ![m] = Informs(m)]
        PROVE  RunTyped' /\ GoesOn(m) /\ run'[m].drain = run[m].drain
    BY <1>1, <1>5, InformsMoves
  <1>6. ASSUME rec' = [rec EXCEPT !.drainId = m]
        PROVE  RecIs(rec.queued, rec.pointer, m, rec.stage, rec.claim)
    BY <1>1, <1>6 DEF RecTyped, RecIs
  <1>7. QED
    BY <1>1, <1>3, <1>4, <1>5, <1>6 DEF ClaimDrain, Works, Rest, RestButDrains, AnswerPostSame

LEMMA CreateDrainMoves ==
    ASSUME TypeOK, Shaped, NEW m \in Messages, CreateDrain(m)
    PROVE  /\ RunTyped' /\ RestButDrains
           /\ At(m, "create") /\ UNCHANGED rec
           /\ GoesOn(m) /\ run'[m].drain = run[m].drain
           /\ UNCHANGED drains \/ drains' = [drains EXCEPT ![m] = "open"]
  <1>1. RunTyped /\ RecTyped /\ m \in Procs
    BY Ids, Typed
  <1>2. RunTyped' /\ GoesOn(m) /\ run'[m].drain = run[m].drain
    BY <1>1, InformsMoves DEF CreateDrain
  <1>3. QED BY <1>2 DEF CreateDrain, Works, RestButDrains, AnswerPostSame

LEMMA ClaimNoticeMoves ==
    ASSUME TypeOK, Shaped, NEW m \in Messages, ClaimNotice(m)
    PROVE  /\ RunTyped' /\ Rest
           /\ At(m, "notice") /\ SameAim(m) /\ SameReads(m)
           /\ \/ /\ rec.pointer = NoOne
                 /\ RecIs(rec.queued, Pending(m), rec.drainId, rec.stage, rec.claim)
                 /\ Moved(m, "find") /\ run'[m].mine /\ run'[m].blind = run[m].blind
              \/ rec.pointer # NoOne /\ UNCHANGED rec /\ Moved(m, "wait") /\ SameMarks(m)
              \/ UNCHANGED rec /\ Moved(m, "wait") /\ run'[m].mine = run[m].mine /\ run'[m].blind
  <1>1. RunTyped /\ RecTyped /\ m \in Procs
    BY Ids, Typed
  <1>2. ASSUME run' = [run EXCEPT ![m].pc = "find", ![m].mine = TRUE]
       PROVE  /\ RunTyped' /\ Moved(m, "find") /\ SameAim(m) /\ SameReads(m)
              /\ run'[m].mine /\ run'[m].blind = run[m].blind
    BY <1>1, <1>2, MineMoves, Named
  <1>3. ASSUME Goes(m, "wait")
       PROVE  RunTyped' /\ Moved(m, "wait") /\ SameAim(m) /\ SameMarks(m) /\ SameReads(m)
    BY <1>1, <1>3, GoesMoves, Named DEF Goes
  <1>4. ASSUME run' = [run EXCEPT ![m].pc = "wait", ![m].blind = TRUE]
       PROVE  /\ RunTyped' /\ Moved(m, "wait") /\ SameAim(m) /\ SameReads(m)
              /\ run'[m].mine = run[m].mine /\ run'[m].blind
    BY <1>1, <1>4, BlindMoves, Named
  <1>5. QED
    BY <1>1, <1>2, <1>3, <1>4, Ids DEF ClaimNotice, Works, RecIs, RecTyped, Rest,
       RestButDrains, AnswerPostSame, OnlyReturns, Returns

LEMMA FindPlaceholderMoves ==
    ASSUME TypeOK, Shaped, NEW m \in Messages, FindPlaceholder(m)
    PROVE  /\ RunTyped' /\ Rest
           /\ At(m, "find") /\ UNCHANGED rec
           /\ SameAim(m) /\ SameMarks(m) /\ SameReads(m)
           /\ Moved(m, "place") \/ Moved(m, "post")
  <1>1. RunTyped /\ RecTyped /\ m \in Procs
    BY Ids, Typed
  <1>2. ASSUME Goes(m, "place")
       PROVE  RunTyped' /\ Moved(m, "place") /\ SameAim(m) /\ SameMarks(m) /\ SameReads(m)
    BY <1>1, <1>2, GoesMoves, Named DEF Goes
  <1>3. ASSUME Goes(m, "post")
       PROVE  RunTyped' /\ Moved(m, "post") /\ SameAim(m) /\ SameMarks(m) /\ SameReads(m)
    BY <1>1, <1>3, GoesMoves, Named DEF Goes
  <1>4. QED
    BY <1>1, <1>2, <1>3, Ids DEF FindPlaceholder, Works, RecIs, RecTyped, Rest, RestButDrains,
       AnswerPostSame, OnlyReturns, Returns

LEMMA PlaceNoticeMoves ==
    ASSUME TypeOK, Shaped, NEW m \in Messages, PlaceNotice(m)
    PROVE  /\ RunTyped' /\ Rest
           /\ At(m, "place") /\ UNCHANGED rec /\ SameMarks(m) /\ SameReads(m)
           /\ run'[m].job = run[m].job
           /\ \/ Moved(m, "remember") /\ run'[m].target = Placeholder
              \/ Moved(m, "post")
  <1>1. RunTyped /\ RecTyped /\ m \in Procs
    BY Ids, Typed
  <1>2. ASSUME run' = [run EXCEPT ![m].pc = "remember", ![m].target = Placeholder]
       PROVE  /\ RunTyped' /\ Moved(m, "remember") /\ SameMarks(m) /\ SameReads(m)
              /\ run'[m].job = run[m].job /\ run'[m].target = Placeholder
    BY <1>1, <1>2, TargetMoves, Named DEF Posts
  <1>3. ASSUME Goes(m, "post")
       PROVE  RunTyped' /\ Moved(m, "post") /\ SameAim(m) /\ SameMarks(m) /\ SameReads(m)
    BY <1>1, <1>3, GoesMoves, Named DEF Goes
  <1>4. ASSUME says' = [says EXCEPT ![Placeholder] = "waiting"]
       PROVE  AnswerPostSame
    BY <1>1, <1>4, Ids DEF AnswerPostSame, Notices
  <1>5. QED
    BY <1>1, <1>2, <1>3, <1>4, Ids DEF PlaceNotice, SameAim, Works, Rest, RestButDrains,
       AnswerPostSame, OnlyReturns, Returns

LEMMA PostNoticeMoves ==
    ASSUME TypeOK, Shaped, NEW m \in Messages, PostNotice(m)
    PROVE  /\ RunTyped' /\ Rest
           /\ At(m, "post") /\ UNCHANGED rec
           /\ \/ Moved(m, "remember") /\ SameMarks(m) /\ SameReads(m)
                 /\ run'[m].job = run[m].job /\ run'[m].target = m
              \/ /\ run[m].mine /\ told' # {}
                 /\ Moved(m, "release") /\ SameAim(m) /\ SameMarks(m) /\ SameReads(m)
              \/ ~run[m].mine /\ Leaves(m, FALSE)
  <1>1. RunTyped /\ RecTyped /\ m \in Procs
    BY Ids, Typed
  <1>2. ASSUME run' = [run EXCEPT ![m].pc = "remember", ![m].target = m]
       PROVE  /\ RunTyped' /\ Moved(m, "remember") /\ SameMarks(m) /\ SameReads(m)
              /\ run'[m].job = run[m].job /\ run'[m].target = m
    BY <1>1, <1>2, TargetMoves, Named DEF Posts
  <1>3. ASSUME Goes(m, "release")
       PROVE  RunTyped' /\ Moved(m, "release") /\ SameAim(m) /\ SameMarks(m) /\ SameReads(m)
    BY <1>1, <1>3, GoesMoves, Named DEF Goes
  <1>4. ASSUME run' = Over(m, FALSE)
       PROVE  RunTyped' /\ Leaves(m, FALSE)
    BY <1>1, <1>4, OverMoves
  <1>5. ASSUME says' = [says EXCEPT ![m] = "waiting"]
       PROVE  AnswerPostSame
    BY <1>1, <1>5, Ids DEF AnswerPostSame, Notices
  <1>6. run[m].mine => run[m].job = "count"
    BY <1>1 DEF Shaped, SendersShaped
  <1>7. QED
    BY <1>1, <1>2, <1>3, <1>4, <1>5, <1>6, Ids DEF PostNotice, Ends, SameAim, Works, Rest,
       RestButDrains, AnswerPostSame, OnlyReturns, Returns

LEMMA RememberNoticeMoves ==
    ASSUME TypeOK, Shaped, NEW m \in Messages, RememberNotice(m)
    PROVE  /\ RunTyped' /\ Rest
           /\ At(m, "remember")
           /\ \/ /\ RecIs(rec.queued, run[m].target, rec.drainId, rec.stage, rec.claim)
                 /\ Leaves(m, FALSE)
              \/ UNCHANGED rec /\ Leaves(m, TRUE)
  <1>1. RunTyped /\ RecTyped /\ m \in Procs
    BY Ids, Typed
  <1>2. ASSUME run' = Over(m, FALSE)
       PROVE  RunTyped' /\ Leaves(m, FALSE)
    BY <1>1, <1>2, OverMoves
  <1>3. ASSUME run' = Over(m, TRUE)
       PROVE  RunTyped' /\ Leaves(m, TRUE)
    BY <1>1, <1>3, OverMoves
  <1>4. QED
    BY <1>1, <1>2, <1>3, Ids DEF RememberNotice, Ends, Works, RecIs, RecTyped, Rest,
       RestButDrains, AnswerPostSame, OnlyReturns, Returns

LEMMA ReleaseNoticeClaimMoves ==
    ASSUME TypeOK, Shaped, NEW m \in Messages, ReleaseNoticeClaim(m)
    PROVE  /\ RunTyped' /\ Rest
           /\ At(m, "release")
           /\ \/ /\ rec.pointer = Pending(m) /\ Leaves(m, FALSE)
                 /\ RecIs(rec.queued, NoOne, rec.drainId, rec.stage, rec.claim)
              \/ rec.pointer # Pending(m) /\ UNCHANGED rec /\ Leaves(m, FALSE)
              \/ UNCHANGED rec /\ Leaves(m, TRUE)
  <1>1. RunTyped /\ RecTyped /\ m \in Procs
    BY Ids, Typed
  <1>2. ASSUME run' = Over(m, FALSE)
       PROVE  RunTyped' /\ Leaves(m, FALSE)
    BY <1>1, <1>2, OverMoves
  <1>3. ASSUME run' = Over(m, TRUE)
       PROVE  RunTyped' /\ Leaves(m, TRUE)
    BY <1>1, <1>3, OverMoves
  <1>4. ASSUME rec' = [rec EXCEPT !.pointer = NoOne]
       PROVE  RecIs(rec.queued, NoOne, rec.drainId, rec.stage, rec.claim)
    BY <1>1, <1>4, Ids DEF RecTyped, RecIs
  <1>5. QED
    BY <1>1, <1>2, <1>3, <1>4, Ids DEF ReleaseNoticeClaim, Ends, Works, Rest, RestButDrains,
       AnswerPostSame, OnlyReturns, Returns

LEMMA AwaitNoticeMoves ==
    ASSUME TypeOK, Shaped, NEW m \in Messages, AwaitNotice(m)
    PROVE  /\ RunTyped' /\ Rest
           /\ At(m, "wait") /\ UNCHANGED rec
           /\ \/ /\ Shown(rec.pointer) # NoOne /\ SameReads(m)
                 /\ Aims(m, "peek", "recount", Shown(rec.pointer))
              \/ Leaves(m, FALSE)
  <1>1. RunTyped /\ RecTyped /\ m \in Procs
    BY Ids, Typed
  <1>2. PICK n \in Posts \cup {NoOne} : n = Shown(rec.pointer)
    BY ShownIs, Ids DEF Shaped
  <1>3. ASSUME Shown(rec.pointer) # NoOne,
         run' = [run EXCEPT ![m].pc = "peek", ![m].job = "recount", ![m].target = rec.pointer]
       PROVE  RunTyped' /\ Aims(m, "peek", "recount", Shown(rec.pointer)) /\ SameReads(m)
    <2>1. rec.pointer = n
      BY <1>3, <1>2, ShownIs DEF Shaped
    <2>2. run' = [run EXCEPT ![m].pc = "peek", ![m].job = "recount", ![m].target = n]
      BY <1>3, <2>1
    <2>3. "peek" \in Pcs /\ "recount" \in Jobs
      BY DEF Pcs, Jobs
    <2>4. RunTyped' /\ Aims(m, "peek", "recount", n) /\ SameReads(m)
      <3>1. /\ RunTyped' /\ Moved(m, "peek") /\ SameMarks(m) /\ SameReads(m)
            /\ run'[m].job = "recount" /\ run'[m].target = n
        BY <1>1, <2>2, <1>2, <2>3, AimMoves
      <3>2. QED BY <3>1 DEF Aims
    <2>5. QED BY <2>4, <1>2
  <1>4. ASSUME run' = Over(m, FALSE)
       PROVE  RunTyped' /\ Leaves(m, FALSE)
    BY <1>1, <1>4, OverMoves
  <1>5. QED
    BY <1>1, <1>3, <1>4, Ids DEF AwaitNotice, Ends, Works, RecIs, RecTyped, Rest,
       RestButDrains, AnswerPostSame, OnlyReturns, Returns

LEMMA BeginMoves ==
    ASSUME TypeOK, Shaped, NEW r \in Readings, Begin(r)
    PROVE  /\ RunTyped' /\ Rest
           /\ At(r, "idle") /\ (rec.claim # NoOne => At(rec.claim, "over"))
           /\ RecIs(rec.queued, rec.pointer, rec.drainId, rec.stage, r)
           /\ Moved(r, "state") /\ SameAim(r) /\ SameMarks(r) /\ SameReads(r)
  <1>1. RunTyped /\ RecTyped /\ r \in Procs
    BY Ids, Typed
  <1>2. PICK ids \in SUBSET Messages : ids = rec.queued
    BY <1>1 DEF RecTyped
  <1>3. ASSUME run' = [run EXCEPT ![r].pc = "state", ![r].ids = rec.queued]
       PROVE  RunTyped' /\ Moved(r, "state") /\ SameAim(r) /\ SameMarks(r) /\ SameReads(r)
    <2>1. run' = [run EXCEPT ![r].pc = "state", ![r].ids = ids]
      BY <1>3, <1>2
    <2>2. "state" \in Pcs
      BY DEF Pcs
    <2>3. RunTyped' /\ Moved(r, "state") /\ SameAim(r) /\ SameMarks(r) /\ SameReads(r)
      BY <1>1, <2>1, <1>2, <2>2, IdsMove
    <2>4. QED BY <2>3, <1>2
  <1>4. QED
    BY <1>1, <1>3, Ids DEF Begin, Works, RecIs, RecTyped, Rest, RestButDrains, AnswerPostSame,
       OnlyReturns, Returns

LEMMA ReadStateMoves ==
    ASSUME TypeOK, Shaped, NEW r \in Readings, ReadState(r)
    PROVE  /\ RunTyped' /\ Rest
           /\ At(r, "state") /\ UNCHANGED rec
           /\ Moved(r, "stage") /\ SameMarks(r) /\ run'[r].drain = run[r].drain
           /\ run'[r].notice = Shown(rec.pointer) \/ run'[r].notice = run[r].notice
  <1>1. RunTyped /\ RecTyped /\ r \in Procs
    BY Ids, Typed
  <1>2. PICK n \in Posts \cup {NoOne} : n = Shown(rec.pointer)
    BY ShownIs, Ids DEF Shaped
  <1>3. ASSUME run' = [run EXCEPT ![r].pc = "stage", ![r].job = "reviewing",
                                  ![r].notice = Shown(rec.pointer)]
       PROVE  /\ RunTyped' /\ Moved(r, "stage") /\ SameMarks(r)
              /\ run'[r].drain = run[r].drain /\ run'[r].notice = Shown(rec.pointer)
    <2>1. run' = [run EXCEPT ![r].pc = "stage", ![r].job = "reviewing", ![r].notice = n]
      BY <1>3, <1>2
    <2>2. "stage" \in Pcs /\ "reviewing" \in Jobs
      BY DEF Pcs, Jobs
    <2>3. PICK x : x = [run[r] EXCEPT !.pc = "stage", !.job = "reviewing", !.notice = n]
      OBVIOUS
    <2>4. /\ x \in Runs /\ x.pc = "stage" /\ x.moved = run[r].moved /\ x.job = "reviewing"
          /\ x.target = run[r].target /\ x.mine = run[r].mine /\ x.blind = run[r].blind
          /\ x.notice = n /\ x.drain = run[r].drain
      <3>1. run[r] \in Runs
        BY <1>1 DEF RunTyped
      <3>2. x \in Runs
        BY <1>1, <1>2, <2>2, <2>3, <3>1, Zenon DEF Runs
      <3>3. QED BY <1>1, <1>2, <2>2, <2>3, <3>1, <3>2 DEF Runs
    <2>5. run' = [run EXCEPT ![r] = x]
      BY <1>1, <2>1, <2>3 DEF RunTyped
    <2>6. RunTyped' /\ run'[r] = x /\ \A q \in Procs : q # r => run'[q] = run[q]
      BY <1>1, <2>4, <2>5, RunWritten
    <2>7. QED BY <2>4, <2>6, <1>2 DEF Moved, SameAim, SameMarks
  <1>4. ASSUME run' = [run EXCEPT ![r].pc = "stage", ![r].job = "reviewing"]
       PROVE  RunTyped' /\ Moved(r, "stage") /\ SameMarks(r) /\ SameReads(r)
    BY <1>1, <1>4, JobMoves, Named
  <1>5. QED
    BY <1>1, <1>3, <1>4, Ids DEF ReadState, SameReads, Works, RecIs, RecTyped, Rest,
       RestButDrains, AnswerPostSame, OnlyReturns, Returns

LEMMA AdvanceStageMoves ==
    ASSUME TypeOK, Shaped, NEW r \in Readings, AdvanceStage(r)
    PROVE  /\ RunTyped' /\ Rest
           /\ At(r, "stage") /\ SameReads(r)
           /\ \E stage \in {"reviewing", "clearing"} :
                 \/ /\ RecIs(rec.queued, rec.pointer, rec.drainId, stage, rec.claim)
                    /\ run[r].notice # NoOne /\ Aims(r, "peek", stage, run[r].notice)
                 \/ /\ UNCHANGED rec /\ SameMarks(r)
                    /\ Moved(r, "judge") \/ Moved(r, "before")
  <1>1. RunTyped /\ RecTyped /\ r \in Procs
    BY Ids, Typed
  <1>2. PICK stage \in {"reviewing", "clearing"} :
           stage = IF run[r].job = "reviewing" THEN "reviewing" ELSE "clearing"
    OBVIOUS
  <1>3. PICK n \in Posts \cup {NoOne} : n = run[r].notice
    BY <1>1 DEF RunTyped, Runs
  <1>4. PICK pc \in {"judge", "before"} : pc = IF stage = "reviewing" THEN "judge" ELSE "before"
    OBVIOUS
  <1>5. \/ /\ n # NoOne /\ rec' = [rec EXCEPT !.stage = stage]
           /\ run' = [run EXCEPT ![r].pc = "peek", ![r].job = stage, ![r].target = n]
        \/ UNCHANGED rec /\ run' = [run EXCEPT ![r].pc = pc, ![r].job = stage]
    BY <1>2, <1>3, <1>4 DEF AdvanceStage
  <1>6. stage \in Jobs /\ pc \in Pcs /\ "peek" \in Pcs
    BY <1>2, <1>4 DEF Jobs, Pcs
  <1>7. ASSUME run' = [run EXCEPT ![r].pc = "peek", ![r].job = stage, ![r].target = n]
        PROVE  RunTyped' /\ Aims(r, "peek", stage, n) /\ SameReads(r)
    <2>1. run' = [run EXCEPT ![r].pc = "peek", ![r].job = stage, ![r].target = n]
      BY <1>7
    <2>2. /\ RunTyped' /\ Moved(r, "peek") /\ run'[r].job = stage /\ run'[r].target = n
          /\ SameMarks(r) /\ SameReads(r)
      <3>1. PICK x : x = [run[r] EXCEPT !.pc = "peek", !.job = stage, !.target = n]
        OBVIOUS
      <3>2. /\ x \in Runs /\ x.pc = "peek" /\ x.moved = run[r].moved /\ x.job = stage
            /\ x.target = n /\ x.mine = run[r].mine /\ x.blind = run[r].blind
            /\ x.notice = run[r].notice /\ x.drain = run[r].drain
        <4>1. run[r] \in Runs
          BY <1>1 DEF RunTyped
        <4>2. x \in Runs
          BY <1>1, <1>3, <1>6, <3>1, <4>1, Zenon DEF Runs
        <4>3. QED BY <1>1, <1>3, <1>6, <3>1, <4>1, <4>2 DEF Runs
      <3>3. run' = [run EXCEPT ![r] = x]
        BY <1>1, <2>1, <3>1 DEF RunTyped
      <3>4. RunTyped' /\ run'[r] = x /\ \A q \in Procs : q # r => run'[q] = run[q]
        BY <1>1, <3>2, <3>3, RunWritten
      <3>5. QED BY <3>2, <3>4 DEF Moved, SameMarks, SameReads
    <2>3. QED BY <2>2 DEF Aims
  <1>8. ASSUME run' = [run EXCEPT ![r].pc = pc, ![r].job = stage]
        PROVE  RunTyped' /\ Moved(r, pc) /\ SameMarks(r) /\ SameReads(r)
    BY <1>1, <1>6, <1>8, JobMoves
  <1>9. ASSUME rec' = [rec EXCEPT !.stage = stage]
        PROVE  RecIs(rec.queued, rec.pointer, rec.drainId, stage, rec.claim)
    BY <1>1, <1>9 DEF RecTyped, RecIs
  <1>10. RunTyped' /\ SameReads(r)
    BY <1>5, <1>7, <1>8
  <1>11. \/ /\ RecIs(rec.queued, rec.pointer, rec.drainId, stage, rec.claim)
            /\ run[r].notice # NoOne /\ Aims(r, "peek", stage, run[r].notice)
         \/ UNCHANGED rec /\ SameMarks(r) /\ Moved(r, pc)
    BY <1>3, <1>5, <1>7, <1>8, <1>9
  <1>12. Rest /\ At(r, "stage")
    BY DEF AdvanceStage, Rest, RestButDrains, AnswerPostSame
  <1>13. QED BY <1>2, <1>4, <1>10, <1>11, <1>12

LEMMA JudgeMoves ==
    ASSUME TypeOK, Shaped, NEW r \in Readings, Judge(r)
    PROVE  /\ RunTyped' /\ Rest
           /\ At(r, "judge") /\ UNCHANGED rec /\ SameMarks(r) /\ SameReads(r)
           /\ Moved(r, "stage") \/ Moved(r, "record")
  <1>1. RunTyped /\ r \in Procs
    BY Ids, Typed
  <1>2. PICK pc \in Pcs, folds \in {"none", "some", "all"} :
           /\ pc \in {"stage", "record"}
           /\ run' = [run EXCEPT ![r].pc = pc, ![r].job = "clearing", ![r].folds = folds]
    BY DEF Judge, Pcs
  <1>3. RunTyped' /\ Moved(r, pc) /\ SameMarks(r) /\ SameReads(r)
    BY <1>1, <1>2, FoldsMove, Named
  <1>4. QED BY <1>2, <1>3 DEF Judge, Rest, RestButDrains, AnswerPostSame

LEMMA RecordFollowUpsMoves ==
    ASSUME TypeOK, Shaped, NEW r \in Readings, RecordFollowUps(r)
    PROVE  /\ RunTyped' /\ Rest
           /\ At(r, "record")
           /\ RecIs(rec.queued, rec.pointer, rec.drainId, rec.stage, rec.claim)
           /\ SameAim(r) /\ SameMarks(r) /\ SameReads(r)
           /\ Moved(r, "note") \/ Moved(r, "stage")
  <1>1. RunTyped /\ RecTyped /\ r \in Procs
    BY Ids, Typed
  <1>2. ASSUME Goes(r, "note")
       PROVE  RunTyped' /\ Moved(r, "note") /\ SameAim(r) /\ SameMarks(r) /\ SameReads(r)
    BY <1>1, <1>2, GoesMoves, Named DEF Goes
  <1>3. ASSUME Goes(r, "stage")
       PROVE  RunTyped' /\ Moved(r, "stage") /\ SameAim(r) /\ SameMarks(r) /\ SameReads(r)
    BY <1>1, <1>3, GoesMoves, Named DEF Goes
  <1>4. QED
    BY <1>1, <1>2, <1>3, Ids DEF RecordFollowUps, Writes, Works, RecIs, RecTyped, Rest,
       RestButDrains, AnswerPostSame, OnlyReturns, Returns

LEMMA BeginNoteMoves ==
    ASSUME TypeOK, Shaped, NEW r \in Readings, BeginNote(r)
    PROVE  /\ RunTyped' /\ Rest
           /\ At(r, "note") /\ UNCHANGED rec /\ SameReads(r)
           /\ \/ Shown(rec.pointer) # NoOne /\ Aims(r, "peek", "note", Shown(rec.pointer))
              \/ Moved(r, "stage") /\ SameAim(r) /\ SameMarks(r)
  <1>1. RunTyped /\ RecTyped /\ r \in Procs
    BY Ids, Typed
  <1>2. PICK n \in Posts \cup {NoOne} : n = Shown(rec.pointer)
    BY ShownIs, Ids DEF Shaped
  <1>3. ASSUME run' = [run EXCEPT ![r].pc = "peek", ![r].job = "note",
                                  ![r].target = Shown(rec.pointer)]
       PROVE  RunTyped' /\ Aims(r, "peek", "note", Shown(rec.pointer)) /\ SameReads(r)
    <2>1. run' = [run EXCEPT ![r].pc = "peek", ![r].job = "note", ![r].target = n]
      BY <1>3, <1>2
    <2>2. "peek" \in Pcs /\ "note" \in Jobs
      BY DEF Pcs, Jobs
    <2>3. RunTyped' /\ Aims(r, "peek", "note", n) /\ SameReads(r)
      <3>1. /\ RunTyped' /\ Moved(r, "peek") /\ SameMarks(r) /\ SameReads(r)
            /\ run'[r].job = "note" /\ run'[r].target = n
        BY <1>1, <2>1, <1>2, <2>2, AimMoves
      <3>2. QED BY <3>1 DEF Aims
    <2>4. QED BY <2>3, <1>2
  <1>4. ASSUME Goes(r, "stage")
       PROVE  RunTyped' /\ Moved(r, "stage") /\ SameAim(r) /\ SameMarks(r) /\ SameReads(r)
    BY <1>1, <1>4, GoesMoves, Named DEF Goes
  <1>5. QED
    BY <1>1, <1>3, <1>4, Ids DEF BeginNote, Works, RecIs, RecTyped, Rest, RestButDrains,
       AnswerPostSame, OnlyReturns, Returns

LEMMA ReadBeforeClearMoves ==
    ASSUME TypeOK, Shaped, NEW r \in Readings, ReadBeforeClear(r)
    PROVE  /\ RunTyped' /\ Rest
           /\ At(r, "before") /\ UNCHANGED rec
           /\ Moved(r, "clear") /\ SameAim(r) /\ SameMarks(r)
           /\ \/ run'[r].notice = Shown(rec.pointer) /\ run'[r].drain = rec.drainId
              \/ run'[r].notice = NoOne /\ run'[r].drain = NoOne
  <1>1. RunTyped /\ RecTyped /\ r \in Procs
    BY Ids, Typed
  <1>2. PICK n \in Posts \cup {NoOne} : n = Shown(rec.pointer)
    BY <1>1, ShownIs, Ids DEF Shaped
  <1>3. PICK d \in Messages \cup {NoOne} : d = rec.drainId
    BY <1>1 DEF RecTyped
  <1>4. ASSUME run' = [run EXCEPT ![r].pc = "clear", ![r].notice = Shown(rec.pointer),
                                  ![r].drain = rec.drainId]
       PROVE  /\ RunTyped' /\ Moved(r, "clear") /\ SameAim(r) /\ SameMarks(r)
              /\ run'[r].notice = Shown(rec.pointer) /\ run'[r].drain = rec.drainId
    <2>1. run' = [run EXCEPT ![r].pc = "clear", ![r].notice = n, ![r].drain = d]
      BY <1>4, <1>2, <1>3
    <2>2. "clear" \in Pcs
      BY DEF Pcs
    <2>3. PICK x : x = [run[r] EXCEPT !.pc = "clear", !.notice = n, !.drain = d]
      OBVIOUS
    <2>4. /\ x \in Runs /\ x.pc = "clear" /\ x.moved = run[r].moved /\ x.job = run[r].job
          /\ x.target = run[r].target /\ x.mine = run[r].mine /\ x.blind = run[r].blind
          /\ x.notice = n /\ x.drain = d
      <3>1. run[r] \in Runs
        BY <1>1 DEF RunTyped
      <3>2. x \in Runs
        BY <1>1, <1>2, <1>3, <2>2, <2>3, <3>1, Zenon DEF Runs
      <3>3. QED BY <1>1, <1>2, <1>3, <2>2, <2>3, <3>1, <3>2 DEF Runs
    <2>5. run' = [run EXCEPT ![r] = x]
      BY <1>1, <2>1, <2>3 DEF RunTyped
    <2>6. RunTyped' /\ run'[r] = x /\ \A q \in Procs : q # r => run'[q] = run[q]
      BY <1>1, <2>4, <2>5, RunWritten
    <2>7. QED BY <2>4, <2>6, <1>2, <1>3 DEF Moved, SameAim, SameMarks
  <1>5. PICK none \in (Posts \cup {NoOne}) \cap (Messages \cup {NoOne}) : none = NoOne
    OBVIOUS
  <1>6. ASSUME run' = [run EXCEPT ![r].pc = "clear", ![r].notice = NoOne, ![r].drain = NoOne]
       PROVE  /\ RunTyped' /\ Moved(r, "clear") /\ SameAim(r) /\ SameMarks(r)
              /\ run'[r].notice = NoOne /\ run'[r].drain = NoOne
    <2>1. run' = [run EXCEPT ![r].pc = "clear", ![r].notice = none, ![r].drain = none]
      BY <1>6, <1>5
    <2>2. "clear" \in Pcs
      BY DEF Pcs
    <2>3. PICK x : x = [run[r] EXCEPT !.pc = "clear", !.notice = none, !.drain = none]
      OBVIOUS
    <2>4. /\ x \in Runs /\ x.pc = "clear" /\ x.moved = run[r].moved /\ x.job = run[r].job
          /\ x.target = run[r].target /\ x.mine = run[r].mine /\ x.blind = run[r].blind
          /\ x.notice = none /\ x.drain = none
      <3>1. run[r] \in Runs
        BY <1>1 DEF RunTyped
      <3>2. x \in Runs
        BY <1>1, <1>5, <2>2, <2>3, <3>1, Zenon DEF Runs
      <3>3. QED BY <1>1, <1>5, <2>2, <2>3, <3>1, <3>2 DEF Runs
    <2>5. run' = [run EXCEPT ![r] = x]
      BY <1>1, <2>1, <2>3 DEF RunTyped
    <2>6. RunTyped' /\ run'[r] = x /\ \A q \in Procs : q # r => run'[q] = run[q]
      BY <1>1, <2>4, <2>5, RunWritten
    <2>7. QED BY <2>4, <2>6, <1>5 DEF Moved, SameAim, SameMarks
  <1>7. QED
    BY <1>1, <1>4, <1>6, Ids DEF ReadBeforeClear, Works, RecIs, RecTyped, Rest, RestButDrains,
       AnswerPostSame, OnlyReturns, Returns

LEMMA ClearQueueMoves ==
    ASSUME TypeOK, Shaped, NEW r \in Readings, ClearQueue(r)
    PROVE  /\ RunTyped' /\ Rest
           /\ At(r, "clear") /\ Moved(r, "now") /\ SameAim(r) /\ SameReads(r)
           /\ run'[r].mine = run[r].mine
           /\ \/ /\ run'[r].blind = run[r].blind /\ rec.claim = r
                 /\ \E rest \in SUBSET rec.queued : \E pointer \in {rec.pointer, NoOne} :
                       /\ pointer = rec.pointer \/ rest = {}
                       /\ RecIs(rest, pointer, IF rest = {} THEN NoOne ELSE rec.drainId, "waiting", NoOne)
              \/ run'[r].blind = run[r].blind /\ rec.claim # r /\ UNCHANGED rec
              \/ run'[r].blind /\ UNCHANGED rec
  <1>1. RunTyped /\ RecTyped /\ r \in Procs
    BY Ids, Typed
  <1>2. ASSUME Goes(r, "now")
       PROVE  RunTyped' /\ Moved(r, "now") /\ SameAim(r) /\ SameMarks(r) /\ SameReads(r)
    BY <1>1, <1>2, GoesMoves, Named DEF Goes
  <1>3. ASSUME run' = [run EXCEPT ![r].pc = "now", ![r].blind = TRUE]
       PROVE  /\ RunTyped' /\ Moved(r, "now") /\ SameAim(r) /\ SameReads(r)
              /\ run'[r].mine = run[r].mine /\ run'[r].blind
    BY <1>1, <1>3, BlindMoves, Named
  <1>4. ASSUME rec' = Cleared(r)
       PROVE  \E rest \in SUBSET rec.queued : \E pointer \in {rec.pointer, NoOne} :
                 /\ pointer = rec.pointer \/ rest = {}
                 /\ RecIs(rest, pointer, IF rest = {} THEN NoOne ELSE rec.drainId, "waiting", NoOne)
    <2>1. PICK rest : rest = rec.queued \ run[r].ids
      OBVIOUS
    <2>2. PICK d : d = IF rest = {} THEN NoOne ELSE rec.drainId
      OBVIOUS
    <2>3. PICK n : n = IF rest # {} \/ run[r].folds # "none" THEN rec.pointer ELSE NoOne
      OBVIOUS
    <2>4. rec' = [rec EXCEPT !.queued = rest, !.claim = NoOne, !.stage = "waiting",
                             !.drainId = d, !.pointer = n]
      BY <1>4, <2>1, <2>2, <2>3 DEF Cleared
    <2>5. RecIs(rest, n, d, "waiting", NoOne)
      BY <1>1, <2>4 DEF RecTyped, RecIs
    <2>6. QED BY <2>1, <2>2, <2>3, <2>5
  <1>5. QED
    BY <1>1, <1>2, <1>3, <1>4, Ids DEF ClearQueue, Cleared, SameMarks, Works, Rest,
       RestButDrains, AnswerPostSame, OnlyReturns, Returns

LEMMA ReadQueueNowMoves ==
    ASSUME TypeOK, Shaped, NEW r \in Readings, ReadQueueNow(r)
    PROVE  /\ RunTyped' /\ Rest
           /\ At(r, "now") /\ UNCHANGED rec /\ SameMarks(r) /\ run'[r].notice = NoOne
           /\ \/ Moved(r, "exit") /\ run'[r].drain = NoOne
              \/ /\ rec.queued = {} /\ run'[r].drain = run[r].drain
                 /\ \/ Moved(r, "close")
                    \/ run[r].notice # NoOne /\ Aims(r, "peek", "settle", run[r].notice)
  <1>1. RunTyped /\ RecTyped /\ r \in Procs
    BY Ids, Typed
  <1>2. PICK n \in Posts \cup {NoOne} : n = run[r].notice
    BY <1>1 DEF RunTyped, Runs
  <1>3. PICK y : y = [run[r] EXCEPT !.ids = {}, !.notice = NoOne, !.folds = "none"]
    OBVIOUS
  <1>4. /\ y \in Runs /\ y.job = run[r].job /\ y.target = run[r].target
        /\ y.mine = run[r].mine /\ y.blind = run[r].blind /\ y.moved = run[r].moved
        /\ y.notice = NoOne /\ y.drain = run[r].drain
    <2>1. run[r] \in Runs
      BY <1>1 DEF RunTyped
    <2>2. y \in Runs
      BY <1>1, <1>3, <2>1, Zenon DEF Runs
    <2>3. QED BY <1>1, <1>3, <2>1, <2>2 DEF Runs
  <1>5. PICK x :
           /\ run' = [run EXCEPT ![r] = x]
           /\ \/ x = [y EXCEPT !.pc = "exit", !.drain = NoOne]
              \/ rec.queued = {} /\ x = [y EXCEPT !.pc = "close"]
              \/ /\ rec.queued = {} /\ n # NoOne
                 /\ x = [y EXCEPT !.pc = "peek", !.job = "settle", !.target = n]
    BY <1>2, <1>3 DEF ReadQueueNow
  <1>6. /\ x \in Runs /\ x.mine = y.mine /\ x.blind = y.blind /\ x.moved = y.moved
        /\ x.notice = y.notice
        /\ \/ x.pc = "exit" /\ x.drain = NoOne
           \/ rec.queued = {} /\ x.pc = "close" /\ x.drain = y.drain
           \/ /\ rec.queued = {} /\ n # NoOne /\ x.pc = "peek" /\ x.drain = y.drain
              /\ x.job = "settle" /\ x.target = n
    <2>1. CASE x = [y EXCEPT !.pc = "exit", !.drain = NoOne]
      <3>1. x \in Runs
        BY <1>4, <2>1, Named, Zenon DEF Runs
      <3>2. QED BY <1>4, <2>1, <3>1 DEF Runs
    <2>2. CASE rec.queued = {} /\ x = [y EXCEPT !.pc = "close"]
      <3>1. x \in Runs
        BY <1>4, <2>2, Named, Zenon DEF Runs
      <3>2. QED BY <1>4, <2>2, <3>1 DEF Runs
    <2>3. CASE /\ rec.queued = {} /\ n # NoOne
               /\ x = [y EXCEPT !.pc = "peek", !.job = "settle", !.target = n]
      <3>1. x \in Runs
        BY <1>2, <1>4, <2>3, Named, Zenon DEF Runs
      <3>2. QED BY <1>4, <2>3, <3>1 DEF Runs
    <2>4. QED BY <1>5, <2>1, <2>2, <2>3
  <1>7. RunTyped' /\ run'[r] = x /\ \A q \in Procs : q # r => run'[q] = run[q]
    BY <1>1, <1>5, <1>6, RunWritten
  <1>8. Rest /\ At(r, "now") /\ UNCHANGED rec
    BY DEF ReadQueueNow, Rest, RestButDrains, AnswerPostSame
  <1>9. QED BY <1>2, <1>4, <1>6, <1>7, <1>8 DEF Moved, SameMarks, Aims

LEMMA CloseDrainMoves ==
    ASSUME TypeOK, Shaped, NEW r \in Readings, CloseDrain(r)
    PROVE  /\ RunTyped' /\ RestButDrains
           /\ At(r, "close") /\ UNCHANGED rec
           /\ Moved(r, "exit") /\ SameAim(r) /\ SameMarks(r) /\ SameReads(r)
           /\ \/ UNCHANGED drains
              \/ run[r].drain \in Messages /\ drains' = [drains EXCEPT ![run[r].drain] = "closed"]
  <1>1. RunTyped /\ RecTyped /\ r \in Procs
    BY Ids, Typed
  <1>2. ASSUME Goes(r, "exit")
       PROVE  RunTyped' /\ Moved(r, "exit") /\ SameAim(r) /\ SameMarks(r) /\ SameReads(r)
    BY <1>1, <1>2, GoesMoves, Named DEF Goes
  <1>3. QED
    BY <1>1, <1>2, Ids, Typed DEF CloseDrain, Works, RecIs, RecTyped, Rest, RestButDrains,
       AnswerPostSame, OnlyReturns, Returns

LEMMA ReadingExitMoves ==
    ASSUME TypeOK, Shaped, NEW r \in Readings, ReadingExit(r)
    PROVE  /\ RunTyped' /\ OnlyReturns
           /\ At(r, "exit") /\ UNCHANGED drains /\ Leaves(r, FALSE) /\ Returns
  <1>1. RunTyped /\ RecTyped /\ r \in Procs
    BY Ids, Typed
  <1>2. ASSUME run' = Over(r, FALSE)
       PROVE  RunTyped' /\ Leaves(r, FALSE)
    BY <1>1, <1>2, OverMoves
  <1>3. ASSUME rec' = [rec EXCEPT !.queued = @ \cup (IF Answering THEN {} ELSE rec.followUps),
                                  !.followUps = @ \ (IF Answering THEN {} ELSE rec.followUps)]
       PROVE  RecIs(rec.queued \cup (IF Answering THEN {} ELSE rec.followUps), rec.pointer, rec.drainId, rec.stage, rec.claim)
    BY <1>1, <1>3, Ids DEF RecTyped, RecIs
  <1>4. (IF Answering THEN {} ELSE rec.followUps) \in SUBSET Messages
    BY <1>1 DEF RecTyped
  <1>5. QED
    BY <1>1, <1>2, <1>3, <1>4, Ids DEF ReadingExit, Ends, Works, Rest, RestButDrains,
       AnswerPostSame, OnlyReturns, Returns

LEMMA LookAtPlaceholderMoves ==
    ASSUME TypeOK, Shaped, LookAtPlaceholder
    PROVE  /\ RunTyped' /\ Rest
           /\ At(Answerer, "idle") /\ UNCHANGED rec /\ run'[Answerer].pc = "fold"
           /\ SameAim(Answerer) /\ SameMarks(Answerer) /\ SameReads(Answerer)
           /\ \A q \in Procs : q # Answerer => run'[q] = run[q]
  <1>1. RunTyped /\ RecTyped /\ Answerer \in Procs
    BY Ids, Typed
  <1>2. PICK v \in BOOLEAN : v = (says[Placeholder] \in NoticeTexts)
    <2>1. CASE says[Placeholder] \in NoticeTexts
      <3>1. TRUE = (says[Placeholder] \in NoticeTexts)
        BY <2>1
      <3>2. QED BY <3>1
    <2>2. CASE ~(says[Placeholder] \in NoticeTexts)
      <3>1. FALSE = (says[Placeholder] \in NoticeTexts)
        BY <2>2
      <3>2. QED BY <3>1
    <2>3. QED BY <2>1, <2>2
  <1>3. ASSUME run' = [run EXCEPT ![Answerer].pc = "fold",
                                  ![Answerer].moved = (says[Placeholder] \in NoticeTexts)]
       PROVE  /\ RunTyped' /\ run'[Answerer].pc = "fold"
              /\ SameAim(Answerer) /\ SameMarks(Answerer) /\ SameReads(Answerer)
              /\ \A q \in Procs : q # Answerer => run'[q] = run[q]
    <2>1. run' = [run EXCEPT ![Answerer].pc = "fold", ![Answerer].moved = v]
      BY <1>3, <1>2
    <2>2. "fold" \in Pcs
      BY DEF Pcs
    <2>3. /\ RunTyped' /\ run'[Answerer].pc = "fold"
          /\ SameAim(Answerer) /\ SameMarks(Answerer) /\ SameReads(Answerer)
          /\ \A q \in Procs : q # Answerer => run'[q] = run[q]
      BY <1>1, <2>1, <1>2, <2>2, LooksMoves
    <2>4. QED BY <2>3, <1>2
  <1>4. QED
    BY <1>1, <1>3, Ids DEF LookAtPlaceholder, Works, RecIs, RecTyped, Rest, RestButDrains,
       AnswerPostSame, OnlyReturns, Returns

LEMMA FoldFollowUpsMoves ==
    ASSUME TypeOK, Shaped, FoldFollowUps
    PROVE  /\ RunTyped' /\ UNCHANGED <<drains, told, returned>>
           /\ At(Answerer, "fold")
           /\ SameMarks(Answerer) /\ SameReads(Answerer) /\ Moved(Answerer, "deliver")
           /\ RecIs(rec.queued \ rec.followUps, rec.pointer, rec.drainId, rec.stage, rec.claim)
           /\ emptied \subseteq emptied'
           /\ \A d \in emptied' : d \in emptied \/ d = rec.drainId
           /\ rec.queued \subseteq rec.followUps =>
                 \A r \in Readings : At(r, "now") /\ run[r].drain = rec.drainId /\ rec.drainId # NoOne
                    => rec.drainId \in emptied'
           /\ run'[Answerer].target = Placeholder => says'[AnswerPost] = says[AnswerPost]
  <1>1. RunTyped /\ RecTyped /\ Answerer \in Procs
    BY Ids, Typed
  <1>2. ASSUME run' = [run EXCEPT ![Answerer].pc = "deliver", ![Answerer].target = AnswerPost]
       PROVE  /\ RunTyped' /\ Moved(Answerer, "deliver") /\ SameMarks(Answerer) /\ SameReads(Answerer)
              /\ run'[Answerer].job = run[Answerer].job /\ run'[Answerer].target = AnswerPost
    BY <1>1, <1>2, TargetMoves, Named DEF Posts
  <1>3. ASSUME run' = [run EXCEPT ![Answerer].pc = "deliver", ![Answerer].target = Placeholder]
       PROVE  /\ RunTyped' /\ Moved(Answerer, "deliver") /\ SameMarks(Answerer) /\ SameReads(Answerer)
              /\ run'[Answerer].job = run[Answerer].job /\ run'[Answerer].target = Placeholder
    BY <1>1, <1>3, TargetMoves, Named DEF Posts
  <1>4. ASSUME UNCHANGED says
       PROVE  says'[AnswerPost] = says[AnswerPost]
    BY <1>1, <1>4, Ids DEF Notices
  <1>5. RecIs(rec.queued \ rec.followUps, rec.pointer, rec.drainId, rec.stage, rec.claim)
    BY <1>1 DEF FoldFollowUps, RecTyped, RecIs
  <1>6. emptied \subseteq emptied' /\ \A d \in emptied' : d \in emptied \/ d = rec.drainId
    BY <1>1 DEF FoldFollowUps
  <1>7. rec.queued \subseteq rec.followUps =>
        \A r \in Readings : At(r, "now") /\ run[r].drain = rec.drainId /\ rec.drainId # NoOne
           => rec.drainId \in emptied'
    BY <1>1 DEF FoldFollowUps, RecTyped
  <1>8. QED
    BY <1>1, <1>2, <1>3, <1>4, <1>5, <1>6, <1>7, Ids DEF FoldFollowUps, Notices, Works, Rest,
       RestButDrains, AnswerPostSame, OnlyReturns, Returns

LEMMA DeliverMoves ==
    ASSUME TypeOK, Shaped, Deliver
    PROVE  /\ RunTyped' /\ UNCHANGED <<drains, told, returned, emptied>>
           /\ At(Answerer, "deliver") /\ UNCHANGED rec
           /\ SameAim(Answerer) /\ SameMarks(Answerer) /\ SameReads(Answerer)
           /\ run[Answerer].target = Placeholder => says'[AnswerPost] = says[AnswerPost]
           /\ \/ Moved(Answerer, "forget") /\ run[Answerer].moved /\ run[Answerer].target = Placeholder
              \/ Moved(Answerer, "exit")
  <1>1. RunTyped /\ RecTyped /\ Answerer \in Procs
    BY Ids, Typed
  <1>2. ASSUME Goes(Answerer, "forget")
       PROVE  RunTyped' /\ Moved(Answerer, "forget") /\ SameAim(Answerer) /\ SameMarks(Answerer) /\ SameReads(Answerer)
    BY <1>1, <1>2, GoesMoves, Named DEF Goes
  <1>3. ASSUME Goes(Answerer, "exit")
       PROVE  RunTyped' /\ Moved(Answerer, "exit") /\ SameAim(Answerer) /\ SameMarks(Answerer) /\ SameReads(Answerer)
    BY <1>1, <1>3, GoesMoves, Named DEF Goes
  <1>4. ASSUME run[Answerer].target = Placeholder
       PROVE  says'[AnswerPost] = says[AnswerPost]
    BY <1>1, <1>4, Ids DEF Deliver, Notices
  <1>5. QED
    BY <1>1, <1>2, <1>3, <1>4, Ids DEF Deliver, Works, Rest, RestButDrains, AnswerPostSame,
       OnlyReturns, Returns

LEMMA ForgetNoticeMoves ==
    ASSUME TypeOK, Shaped, ForgetNotice
    PROVE  /\ RunTyped' /\ Rest
           /\ At(Answerer, "forget")
           /\ Moved(Answerer, "exit") /\ SameAim(Answerer) /\ SameMarks(Answerer) /\ SameReads(Answerer)
           /\ \/ RecIs(rec.queued, NoOne, rec.drainId, rec.stage, rec.claim)
              \/ UNCHANGED rec
  <1>1. RunTyped /\ RecTyped /\ Answerer \in Procs
    BY Ids, Typed
  <1>2. ASSUME Goes(Answerer, "exit")
       PROVE  RunTyped' /\ Moved(Answerer, "exit") /\ SameAim(Answerer) /\ SameMarks(Answerer) /\ SameReads(Answerer)
    BY <1>1, <1>2, GoesMoves, Named DEF Goes
  <1>3. QED
    BY <1>1, <1>2, Ids DEF ForgetNotice, Writes, Works, RecIs, RecTyped, Rest, RestButDrains,
       AnswerPostSame, OnlyReturns, Returns

LEMMA AnswerExitMoves ==
    ASSUME TypeOK, Shaped, AnswerExit
    PROVE  /\ RunTyped' /\ OnlyReturns
           /\ At(Answerer, "exit") /\ UNCHANGED drains /\ Returns
           /\ \/ /\ Shown(rec.pointer) # NoOne /\ SameReads(Answerer)
                 /\ Aims(Answerer, "peek", "settle", Shown(rec.pointer))
              \/ Leaves(Answerer, FALSE)
  <1>1. RunTyped /\ RecTyped /\ Answerer \in Procs
    BY Ids, Typed
  <1>2. PICK n \in Posts \cup {NoOne} : n = Shown(rec.pointer)
    BY ShownIs, Ids DEF Shaped
  <1>3. ASSUME Shown(rec.pointer) # NoOne,
         run' = [run EXCEPT ![Answerer].pc = "peek", ![Answerer].job = "settle",
                            ![Answerer].target = rec.pointer]
       PROVE  RunTyped' /\ Aims(Answerer, "peek", "settle", Shown(rec.pointer)) /\ SameReads(Answerer)
    <2>1. rec.pointer = n
      BY <1>3, <1>2, ShownIs DEF Shaped
    <2>2. run' = [run EXCEPT ![Answerer].pc = "peek", ![Answerer].job = "settle",
                             ![Answerer].target = n]
      BY <1>3, <2>1
    <2>3. "peek" \in Pcs /\ "settle" \in Jobs
      BY DEF Pcs, Jobs
    <2>4. RunTyped' /\ Aims(Answerer, "peek", "settle", n) /\ SameReads(Answerer)
      <3>1. /\ RunTyped' /\ Moved(Answerer, "peek") /\ SameMarks(Answerer) /\ SameReads(Answerer)
            /\ run'[Answerer].job = "settle" /\ run'[Answerer].target = n
        BY <1>1, <2>2, <1>2, <2>3, AimMoves
      <3>2. QED BY <3>1 DEF Aims
    <2>5. QED BY <2>4, <1>2
  <1>4. ASSUME run' = Over(Answerer, FALSE)
       PROVE  RunTyped' /\ Leaves(Answerer, FALSE)
    BY <1>1, <1>4, OverMoves
  <1>5. QED
    BY <1>1, <1>3, <1>4, Ids DEF AnswerExit, Works, RecIs, RecTyped, Rest, RestButDrains,
       AnswerPostSame, OnlyReturns, Returns

LEMMA ForgetSettledMoves ==
    ASSUME TypeOK, Shaped, ForgetSettled
    PROVE  /\ RunTyped' /\ Rest
           /\ At(Answerer, "unpoint") /\ Leaves(Answerer, FALSE)
           /\ \/ /\ rec.queued = {}
                 /\ RecIs(rec.queued, NoOne, rec.drainId, rec.stage, rec.claim)
              \/ UNCHANGED rec
  <1>1. RunTyped /\ RecTyped /\ Answerer \in Procs
    BY Ids, Typed
  <1>2. ASSUME run' = Over(Answerer, FALSE)
       PROVE  RunTyped' /\ Leaves(Answerer, FALSE)
    BY <1>1, <1>2, OverMoves
  <1>3. ASSUME rec' = [rec EXCEPT !.pointer = NoOne]
       PROVE  RecIs(rec.queued, NoOne, rec.drainId, rec.stage, rec.claim)
    BY <1>1, <1>3, Ids DEF RecTyped, RecIs
  <1>4. QED
    BY <1>1, <1>2, <1>3, Ids DEF ForgetSettled, Ends, Writes, Works, Rest, RestButDrains,
       AnswerPostSame, OnlyReturns, Returns

LEMMA ReadNoticeMoves ==
    ASSUME TypeOK, Shaped, NEW p \in Procs, ReadNotice(p)
    PROVE  /\ RunTyped' /\ Rest
           /\ At(p, "peek") /\ UNCHANGED rec
           /\ Moved(p, "write") /\ SameAim(p) /\ SameMarks(p) /\ SameReads(p)
  <1>1. RunTyped /\ RecTyped /\ p \in Procs
    BY Ids, Typed
  <1>2. run[p].target \in Posts
    BY Ids DEF Shaped, SendersShaped, ReadingsShaped, AnswerShaped, Writing, ReadNotice, At
  <1>3. PICK t \in Texts : t = says[run[p].target]
    BY <1>2, Typed
  <1>4. ASSUME run' = [run EXCEPT ![p].pc = "write", ![p].saw = says[run[p].target]]
       PROVE  RunTyped' /\ Moved(p, "write") /\ SameAim(p) /\ SameMarks(p) /\ SameReads(p)
    <2>1. run' = [run EXCEPT ![p].pc = "write", ![p].saw = t]
      BY <1>4, <1>3
    <2>2. "write" \in Pcs
      BY DEF Pcs
    <2>3. RunTyped' /\ Moved(p, "write") /\ SameAim(p) /\ SameMarks(p) /\ SameReads(p)
      BY <1>1, <2>1, <1>3, <2>2, SawMoves
    <2>4. QED BY <2>3, <1>3
  <1>5. ASSUME run' = [run EXCEPT ![p].pc = "write", ![p].saw = "nothing"]
       PROVE  RunTyped' /\ Moved(p, "write") /\ SameAim(p) /\ SameMarks(p) /\ SameReads(p)
    BY <1>1, <1>5, SawMoves, Named DEF Texts
  <1>6. QED
    BY <1>1, <1>4, <1>5, Ids, Typed DEF ReadNotice, Works, RecIs, RecTyped, Rest,
       RestButDrains, AnswerPostSame, OnlyReturns, Returns

LEMMA WriteNoticeMoves ==
    ASSUME TypeOK, Shaped, NEW p \in Procs, WriteNotice(p)
    PROVE  /\ RunTyped' /\ Rest
           /\ At(p, "write") /\ UNCHANGED rec
           /\ \/ p \in Messages /\ Leaves(p, FALSE)
              \/ /\ Moved(p, IF p \in Messages THEN "post" ELSE After(p))
                 /\ run'[p].job = run[p].job /\ SameMarks(p) /\ SameReads(p)
  <1>1. RunTyped /\ RecTyped /\ At(p, "write")
    BY Typed DEF WriteNotice
  <1>2. run[p].target \in Notices
    BY <1>1, Ids DEF Shaped, SendersShaped, ReadingsShaped, AnswerShaped, Writing, At
  <1>3. p \in Messages => run[p].job \in {"count", "recount"} /\ After(p) = "over"
    BY <1>1 DEF Shaped, SendersShaped, Writing, At, After
  <1>4. p \notin Messages => /\ run[p].job \notin {"count", "recount"}
                            /\ After(p) \in Pcs /\ After(p) # "over"
    <2>1. CASE p \in Readings
      <3>1. run[p].job \in {"reviewing", "note", "clearing", "settle"} /\ p # Answerer
        BY <1>1, <2>1, Ids DEF Shaped, ReadingsShaped, Writing, At
      <3>2. QED BY <3>1 DEF After, Pcs
    <2>2. CASE p = Answerer
      <3>1. run[p].job = "settle"
        BY <1>1, <2>2 DEF Shaped, AnswerShaped, Writing, At
      <3>2. QED BY <2>2, <3>1 DEF After, Pcs
    <2>3. QED BY <2>1, <2>2, Ids
  <1>5. PICK pc \in Pcs : pc = IF p \in Messages THEN "post" ELSE After(p)
    BY <1>4 DEF Pcs
  <1>6. PICK t \in Posts \cup {NoOne} : t = IF pc = "unpoint" THEN run[p].target ELSE NoOne
    BY <1>1 DEF RunTyped, Runs
  <1>7. pc # "over"
    BY <1>4, <1>5
  <1>8. \/ p \in Messages /\ run' = Over(p, FALSE)
        \/ run' = [run EXCEPT ![p].pc = pc, ![p].saw = "nothing", ![p].target = t]
    <2>1. CASE p \in Messages
      BY <1>3, <1>5, <1>6, <1>7, <2>1 DEF WriteNotice, Ends
    <2>2. CASE p \notin Messages
      BY <1>4, <1>5, <1>6, <1>7, <2>2 DEF WriteNotice, Ends
    <2>3. QED BY <2>1, <2>2
  <1>9. ASSUME run' = Over(p, FALSE) PROVE RunTyped' /\ Leaves(p, FALSE)
    BY <1>1, <1>9, OverMoves
  <1>10. ASSUME run' = [run EXCEPT ![p].pc = pc, ![p].saw = "nothing", ![p].target = t]
         PROVE  /\ RunTyped' /\ Moved(p, pc) /\ run'[p].job = run[p].job
                /\ SameMarks(p) /\ SameReads(p)
    BY <1>1, <1>5, <1>6, <1>10, WriteMoves DEF Texts
  <1>11. Rest /\ UNCHANGED rec
    <2>1. AnswerPostSame
      <3>1. UNCHANGED says \/ says' = [says EXCEPT ![run[p].target] = Text(p)]
        BY DEF WriteNotice
      <3>2. run[p].target # AnswerPost
        BY <1>2, Ids
      <3>3. QED BY <3>1, <3>2, Ids, Typed DEF AnswerPostSame, Posts
    <2>2. QED BY <2>1 DEF WriteNotice, Rest, RestButDrains
  <1>12. QED BY <1>1, <1>5, <1>8, <1>9, <1>10, <1>11

-----------------------------------------------------------------------------
(* Types.                                                                   *)

\* The record ...
LEMMA RecTypeKept ==
    ASSUME TypeOK, Shaped, Next
    PROVE  RecTyped'
  <1>1. ASSUME NEW m \in Messages, Enqueue(m) PROVE RecTyped'
    BY <1>1, Typed, Ids DEF Enqueue, RecTyped, Posts, Notices
  <1>2. ASSUME NEW m \in Messages, ClaimDrain(m) PROVE RecTyped'
    BY <1>2, Typed, Ids DEF ClaimDrain, Informs, RecTyped, Posts, Notices
  <1>3. ASSUME NEW m \in Messages, CreateDrain(m) PROVE RecTyped'
    BY <1>3, Typed, Ids DEF CreateDrain, Informs, RecTyped, Posts, Notices
  <1>4. ASSUME NEW m \in Messages, ClaimNotice(m) PROVE RecTyped'
    BY <1>4, Typed, Ids DEF ClaimNotice, RecTyped, Posts, Notices
  <1>5. ASSUME NEW m \in Messages, FindPlaceholder(m) PROVE RecTyped'
    BY <1>5, Typed, Ids DEF FindPlaceholder, RecTyped, Posts, Notices
  <1>6. ASSUME NEW m \in Messages, PlaceNotice(m) PROVE RecTyped'
    BY <1>6, Typed, Ids DEF PlaceNotice, RecTyped, Posts, Notices
  <1>7. ASSUME NEW m \in Messages, PostNotice(m) PROVE RecTyped'
    BY <1>7, Typed, Ids DEF PostNotice, RecTyped, Posts, Notices
  <1>8. ASSUME NEW m \in Messages, RememberNotice(m) PROVE RecTyped'
    <2>1. UNCHANGED rec \/ rec' = [rec EXCEPT !.pointer = run[m].target]
      BY <1>8 DEF RememberNotice
    <2>2. run[m].target \in Posts
      BY <1>8, Ids DEF RememberNotice, At, Shaped, SendersShaped
    <2>3. QED BY <2>1, <2>2, Typed DEF RecTyped
  <1>9. ASSUME NEW m \in Messages, ReleaseNoticeClaim(m) PROVE RecTyped'
    <2>1. UNCHANGED rec \/ rec' = [rec EXCEPT !.pointer = NoOne]
      BY <1>9 DEF ReleaseNoticeClaim
    <2>2. QED BY <2>1, Typed DEF RecTyped
  <1>10. ASSUME NEW m \in Messages, AwaitNotice(m) PROVE RecTyped'
    BY <1>10, Typed, Ids DEF AwaitNotice, RecTyped, Posts, Notices
  <1>11. ASSUME NEW r \in Readings, Begin(r) PROVE RecTyped'
    BY <1>11, Typed, Ids DEF Begin, RecTyped, Posts, Notices
  <1>12. ASSUME NEW r \in Readings, ReadState(r) PROVE RecTyped'
    BY <1>12, Typed, Ids DEF ReadState, RecTyped, Posts, Notices
  <1>13. ASSUME NEW r \in Readings, AdvanceStage(r) PROVE RecTyped'
    BY <1>13, Typed, Ids DEF AdvanceStage, MayFollow, RecTyped, Posts, Notices
  <1>14. ASSUME NEW r \in Readings, Judge(r) PROVE RecTyped'
    BY <1>14, Typed, Ids DEF Judge, RecTyped, Posts, Notices
  <1>15. ASSUME NEW r \in Readings, RecordFollowUps(r) PROVE RecTyped'
    BY <1>15, Typed, Ids DEF RecordFollowUps, Writes, RecTyped, Posts, Notices
  <1>16. ASSUME NEW r \in Readings, BeginNote(r) PROVE RecTyped'
    BY <1>16, Typed, Ids DEF BeginNote, RecTyped, Posts, Notices
  <1>17. ASSUME NEW r \in Readings, ReadBeforeClear(r) PROVE RecTyped'
    BY <1>17, Typed, Ids DEF ReadBeforeClear, RecTyped, Posts, Notices
  <1>18. ASSUME NEW r \in Readings, ClearQueue(r) PROVE RecTyped'
    <2>1. CASE UNCHANGED rec
      BY <2>1, Typed DEF RecTyped
    <2>2. CASE rec' = Cleared(r)
      <3>1. PICK rest \in SUBSET Messages : rest = rec.queued \ run[r].ids
        BY Typed DEF RecTyped
      <3>2. PICK d \in Messages \cup {NoOne} : d = IF rest = {} THEN NoOne ELSE rec.drainId
        BY Typed DEF RecTyped
      <3>3. PICK n \in Posts \cup {NoOne} \cup {Pending(m) : m \in Messages} :
               n = IF rest # {} \/ run[r].folds # "none" THEN rec.pointer ELSE NoOne
        BY Typed DEF RecTyped
      <3>4. rec' = [rec EXCEPT !.queued = rest, !.claim = NoOne, !.stage = "waiting",
                               !.drainId = d, !.pointer = n]
        BY <2>2, <3>1, <3>2, <3>3 DEF Cleared
      <3>5. RecTyped
        BY Typed
      <3>6. QED BY <3>1, <3>2, <3>3, <3>4, <3>5, Zenon DEF RecTyped
    <2>3. QED BY <1>18, <2>1, <2>2 DEF ClearQueue
  <1>19. ASSUME NEW r \in Readings, ReadQueueNow(r) PROVE RecTyped'
    BY <1>19, Typed, Ids DEF ReadQueueNow, RecTyped, Posts, Notices
  <1>20. ASSUME NEW r \in Readings, CloseDrain(r) PROVE RecTyped'
    BY <1>20, Typed, Ids DEF CloseDrain, RecTyped, Posts, Notices
  <1>21. ASSUME NEW r \in Readings, ReadingExit(r) PROVE RecTyped'
    BY <1>21, Typed, Ids DEF ReadingExit, RecTyped, Posts, Notices
  <1>22. ASSUME LookAtPlaceholder PROVE RecTyped'
    BY <1>22, Typed, Ids DEF LookAtPlaceholder, RecTyped, Posts, Notices
  <1>23. ASSUME FoldFollowUps PROVE RecTyped'
    BY <1>23, Typed, Ids DEF FoldFollowUps, RecTyped, Posts, Notices
  <1>24. ASSUME Deliver PROVE RecTyped'
    BY <1>24, Typed, Ids DEF Deliver, RecTyped, Posts, Notices
  <1>25. ASSUME ForgetNotice PROVE RecTyped'
    BY <1>25, Typed, Ids DEF ForgetNotice, Writes, RecTyped, Posts, Notices
  <1>26. ASSUME AnswerExit PROVE RecTyped'
    BY <1>26, Typed, Ids DEF AnswerExit, RecTyped, Posts, Notices
  <1>27. ASSUME ForgetSettled PROVE RecTyped'
    BY <1>27, Typed, Ids DEF ForgetSettled, Writes, RecTyped, Posts, Notices
  <1>28. ASSUME NEW p \in Procs, ReadNotice(p) PROVE RecTyped'
    BY <1>28, Typed, Ids DEF ReadNotice, RecTyped, Posts, Notices
  <1>29. ASSUME NEW p \in Procs, WriteNotice(p) PROVE RecTyped'
    BY <1>29, Typed, Ids DEF WriteNotice, RecTyped, Posts, Notices
  <1>30. QED
    BY <1>1, <1>2, <1>3, <1>4, <1>5, <1>6, <1>7, <1>8, <1>9, <1>10, <1>11, <1>12, <1>13,
       <1>14, <1>15, <1>16, <1>17, <1>18, <1>19, <1>20, <1>21, <1>22, <1>23, <1>24, <1>25,
       <1>26, <1>27, <1>28, <1>29 DEF Next, SenderStep, ReadingStep, AnswerStep

\* ... the runs ...
LEMMA RunTypeKept ==
    ASSUME TypeOK, Shaped, Next
    PROVE  RunTyped'
  <1>1. ASSUME NEW m \in Messages, Enqueue(m) PROVE RunTyped'
    BY <1>1, EnqueueMoves
  <1>2. ASSUME NEW m \in Messages, ClaimDrain(m) PROVE RunTyped'
    BY <1>2, ClaimDrainMoves
  <1>3. ASSUME NEW m \in Messages, CreateDrain(m) PROVE RunTyped'
    BY <1>3, CreateDrainMoves
  <1>4. ASSUME NEW m \in Messages, ClaimNotice(m) PROVE RunTyped'
    BY <1>4, ClaimNoticeMoves
  <1>5. ASSUME NEW m \in Messages, FindPlaceholder(m) PROVE RunTyped'
    BY <1>5, FindPlaceholderMoves
  <1>6. ASSUME NEW m \in Messages, PlaceNotice(m) PROVE RunTyped'
    BY <1>6, PlaceNoticeMoves
  <1>7. ASSUME NEW m \in Messages, PostNotice(m) PROVE RunTyped'
    BY <1>7, PostNoticeMoves
  <1>8. ASSUME NEW m \in Messages, RememberNotice(m) PROVE RunTyped'
    BY <1>8, RememberNoticeMoves
  <1>9. ASSUME NEW m \in Messages, ReleaseNoticeClaim(m) PROVE RunTyped'
    BY <1>9, ReleaseNoticeClaimMoves
  <1>10. ASSUME NEW m \in Messages, AwaitNotice(m) PROVE RunTyped'
    BY <1>10, AwaitNoticeMoves
  <1>11. ASSUME NEW r \in Readings, Begin(r) PROVE RunTyped'
    BY <1>11, BeginMoves
  <1>12. ASSUME NEW r \in Readings, ReadState(r) PROVE RunTyped'
    BY <1>12, ReadStateMoves
  <1>13. ASSUME NEW r \in Readings, AdvanceStage(r) PROVE RunTyped'
    BY <1>13, AdvanceStageMoves
  <1>14. ASSUME NEW r \in Readings, Judge(r) PROVE RunTyped'
    BY <1>14, JudgeMoves
  <1>15. ASSUME NEW r \in Readings, RecordFollowUps(r) PROVE RunTyped'
    BY <1>15, RecordFollowUpsMoves
  <1>16. ASSUME NEW r \in Readings, BeginNote(r) PROVE RunTyped'
    BY <1>16, BeginNoteMoves
  <1>17. ASSUME NEW r \in Readings, ReadBeforeClear(r) PROVE RunTyped'
    BY <1>17, ReadBeforeClearMoves
  <1>18. ASSUME NEW r \in Readings, ClearQueue(r) PROVE RunTyped'
    BY <1>18, ClearQueueMoves
  <1>19. ASSUME NEW r \in Readings, ReadQueueNow(r) PROVE RunTyped'
    BY <1>19, ReadQueueNowMoves
  <1>20. ASSUME NEW r \in Readings, CloseDrain(r) PROVE RunTyped'
    BY <1>20, CloseDrainMoves
  <1>21. ASSUME NEW r \in Readings, ReadingExit(r) PROVE RunTyped'
    BY <1>21, ReadingExitMoves
  <1>22. ASSUME LookAtPlaceholder PROVE RunTyped'
    BY <1>22, LookAtPlaceholderMoves
  <1>23. ASSUME FoldFollowUps PROVE RunTyped'
    BY <1>23, FoldFollowUpsMoves
  <1>24. ASSUME Deliver PROVE RunTyped'
    BY <1>24, DeliverMoves
  <1>25. ASSUME ForgetNotice PROVE RunTyped'
    BY <1>25, ForgetNoticeMoves
  <1>26. ASSUME AnswerExit PROVE RunTyped'
    BY <1>26, AnswerExitMoves
  <1>27. ASSUME ForgetSettled PROVE RunTyped'
    BY <1>27, ForgetSettledMoves
  <1>28. ASSUME NEW p \in Procs, ReadNotice(p) PROVE RunTyped'
    BY <1>28, ReadNoticeMoves
  <1>29. ASSUME NEW p \in Procs, WriteNotice(p) PROVE RunTyped'
    BY <1>29, WriteNoticeMoves
  <1>30. QED
    BY <1>1, <1>2, <1>3, <1>4, <1>5, <1>6, <1>7, <1>8, <1>9, <1>10, <1>11, <1>12, <1>13,
       <1>14, <1>15, <1>16, <1>17, <1>18, <1>19, <1>20, <1>21, <1>22, <1>23, <1>24, <1>25,
       <1>26, <1>27, <1>28, <1>29 DEF Next, SenderStep, ReadingStep, AnswerStep

\* ... the failures left ...
LEMMA FaultsKept ==
    ASSUME TypeOK, Shaped, Next
    PROVE  faults' \in 0..MaxFaults
  <1>1. ASSUME NEW m \in Messages, Enqueue(m) PROVE faults' \in 0..MaxFaults
    BY <1>1, Typed, NoticeAssumption DEF Enqueue, Works, Fails
  <1>2. ASSUME NEW m \in Messages, ClaimDrain(m) PROVE faults' \in 0..MaxFaults
    BY <1>2, Typed, NoticeAssumption DEF ClaimDrain, Informs, Works, Fails
  <1>3. ASSUME NEW m \in Messages, CreateDrain(m) PROVE faults' \in 0..MaxFaults
    BY <1>3, Typed, NoticeAssumption DEF CreateDrain, Informs, Works, Fails
  <1>4. ASSUME NEW m \in Messages, ClaimNotice(m) PROVE faults' \in 0..MaxFaults
    BY <1>4, Typed, NoticeAssumption DEF ClaimNotice, Works, Fails
  <1>5. ASSUME NEW m \in Messages, FindPlaceholder(m) PROVE faults' \in 0..MaxFaults
    BY <1>5, Typed, NoticeAssumption DEF FindPlaceholder, Works, Fails
  <1>6. ASSUME NEW m \in Messages, PlaceNotice(m) PROVE faults' \in 0..MaxFaults
    BY <1>6, Typed, NoticeAssumption DEF PlaceNotice, Works, Fails
  <1>7. ASSUME NEW m \in Messages, PostNotice(m) PROVE faults' \in 0..MaxFaults
    BY <1>7, Typed, NoticeAssumption DEF PostNotice, Works, Fails
  <1>8. ASSUME NEW m \in Messages, RememberNotice(m) PROVE faults' \in 0..MaxFaults
    <2>1. Works \/ Fails("write")
      BY <1>8 DEF RememberNotice
    <2>2. QED BY <2>1, Typed, NoticeAssumption DEF Works, Fails
  <1>9. ASSUME NEW m \in Messages, ReleaseNoticeClaim(m) PROVE faults' \in 0..MaxFaults
    <2>1. Works \/ Fails("write")
      BY <1>9 DEF ReleaseNoticeClaim
    <2>2. QED BY <2>1, Typed, NoticeAssumption DEF Works, Fails
  <1>10. ASSUME NEW m \in Messages, AwaitNotice(m) PROVE faults' \in 0..MaxFaults
    BY <1>10, Typed, NoticeAssumption DEF AwaitNotice, Works, Fails
  <1>11. ASSUME NEW r \in Readings, Begin(r) PROVE faults' \in 0..MaxFaults
    BY <1>11, Typed, NoticeAssumption DEF Begin, Works, Fails
  <1>12. ASSUME NEW r \in Readings, ReadState(r) PROVE faults' \in 0..MaxFaults
    BY <1>12, Typed, NoticeAssumption DEF ReadState, Works, Fails
  <1>13. ASSUME NEW r \in Readings, AdvanceStage(r) PROVE faults' \in 0..MaxFaults
    BY <1>13, Typed, NoticeAssumption DEF AdvanceStage, MayFollow, Works, Fails
  <1>14. ASSUME NEW r \in Readings, Judge(r) PROVE faults' \in 0..MaxFaults
    BY <1>14, Typed, NoticeAssumption DEF Judge, Works, Fails
  <1>15. ASSUME NEW r \in Readings, RecordFollowUps(r) PROVE faults' \in 0..MaxFaults
    BY <1>15, Typed, NoticeAssumption DEF RecordFollowUps, Writes, Works, Fails
  <1>16. ASSUME NEW r \in Readings, BeginNote(r) PROVE faults' \in 0..MaxFaults
    BY <1>16, Typed, NoticeAssumption DEF BeginNote, Works, Fails
  <1>17. ASSUME NEW r \in Readings, ReadBeforeClear(r) PROVE faults' \in 0..MaxFaults
    BY <1>17, Typed, NoticeAssumption DEF ReadBeforeClear, Works, Fails
  <1>18. ASSUME NEW r \in Readings, ClearQueue(r) PROVE faults' \in 0..MaxFaults
    BY <1>18, Typed, NoticeAssumption DEF ClearQueue, Cleared, Works, Fails
  <1>19. ASSUME NEW r \in Readings, ReadQueueNow(r) PROVE faults' \in 0..MaxFaults
    BY <1>19, Typed, NoticeAssumption DEF ReadQueueNow, Works, Fails
  <1>20. ASSUME NEW r \in Readings, CloseDrain(r) PROVE faults' \in 0..MaxFaults
    BY <1>20, Typed, NoticeAssumption DEF CloseDrain, Works, Fails
  <1>21. ASSUME NEW r \in Readings, ReadingExit(r) PROVE faults' \in 0..MaxFaults
    BY <1>21, Typed, NoticeAssumption DEF ReadingExit, Works, Fails
  <1>22. ASSUME LookAtPlaceholder PROVE faults' \in 0..MaxFaults
    BY <1>22, Typed, NoticeAssumption DEF LookAtPlaceholder, Works, Fails
  <1>23. ASSUME FoldFollowUps PROVE faults' \in 0..MaxFaults
    BY <1>23, Typed, NoticeAssumption DEF FoldFollowUps, Works, Fails
  <1>24. ASSUME Deliver PROVE faults' \in 0..MaxFaults
    BY <1>24, Typed, NoticeAssumption DEF Deliver, Works, Fails
  <1>25. ASSUME ForgetNotice PROVE faults' \in 0..MaxFaults
    BY <1>25, Typed, NoticeAssumption DEF ForgetNotice, Writes, Works, Fails
  <1>26. ASSUME AnswerExit PROVE faults' \in 0..MaxFaults
    BY <1>26, Typed, NoticeAssumption DEF AnswerExit, Works, Fails
  <1>27. ASSUME ForgetSettled PROVE faults' \in 0..MaxFaults
    BY <1>27, Typed, NoticeAssumption DEF ForgetSettled, Writes, Works, Fails
  <1>28. ASSUME NEW p \in Procs, ReadNotice(p) PROVE faults' \in 0..MaxFaults
    BY <1>28, Typed, NoticeAssumption DEF ReadNotice, Works, Fails
  <1>29. ASSUME NEW p \in Procs, WriteNotice(p) PROVE faults' \in 0..MaxFaults
    BY <1>29, Typed, NoticeAssumption DEF WriteNotice, Works, Fails
  <1>30. QED
    BY <1>1, <1>2, <1>3, <1>4, <1>5, <1>6, <1>7, <1>8, <1>9, <1>10, <1>11, <1>12, <1>13,
       <1>14, <1>15, <1>16, <1>17, <1>18, <1>19, <1>20, <1>21, <1>22, <1>23, <1>24, <1>25,
       <1>26, <1>27, <1>28, <1>29 DEF Next, SenderStep, ReadingStep, AnswerStep

\* ... and the rest.
LEMMA RestTypeKept ==
    ASSUME TypeOK, Shaped, Next
    PROVE  /\ says' \in [Posts -> Texts] /\ drains' \in [Messages -> {"none", "open", "closed"}]
           /\ told' \subseteq Messages /\ returned' \subseteq Messages /\ emptied' \subseteq Messages
  <1> DEFINE Goal == /\ says' \in [Posts -> Texts] /\ drains' \in [Messages -> {"none", "open", "closed"}]
                    /\ told' \subseteq Messages /\ returned' \subseteq Messages /\ emptied' \subseteq Messages
  <1> SUFFICES Goal
    OBVIOUS
  <1>1. ASSUME NEW m \in Messages, Enqueue(m) PROVE Goal
    BY <1>1, Typed DEF Enqueue, Posts, Texts, RecTyped
  <1>2. ASSUME NEW m \in Messages, ClaimDrain(m) PROVE Goal
    BY <1>2, Typed DEF ClaimDrain, Informs, Posts, Texts, RecTyped
  <1>3. ASSUME NEW m \in Messages, CreateDrain(m) PROVE Goal
    BY <1>3, Typed DEF CreateDrain, Informs, Posts, Texts, RecTyped
  <1>4. ASSUME NEW m \in Messages, ClaimNotice(m) PROVE Goal
    BY <1>4, Typed DEF ClaimNotice, Posts, Texts, RecTyped
  <1>5. ASSUME NEW m \in Messages, FindPlaceholder(m) PROVE Goal
    BY <1>5, Typed DEF FindPlaceholder, Posts, Texts, RecTyped
  <1>6. ASSUME NEW m \in Messages, PlaceNotice(m) PROVE Goal
    BY <1>6, Typed DEF PlaceNotice, Posts, Texts, RecTyped
  <1>7. ASSUME NEW m \in Messages, PostNotice(m) PROVE Goal
    BY <1>7, Typed DEF PostNotice, Posts, Texts, RecTyped
  <1>8. ASSUME NEW m \in Messages, RememberNotice(m) PROVE Goal
    BY <1>8, Typed DEF RememberNotice, Posts, Texts, RecTyped
  <1>9. ASSUME NEW m \in Messages, ReleaseNoticeClaim(m) PROVE Goal
    BY <1>9, Typed DEF ReleaseNoticeClaim, Posts, Texts, RecTyped
  <1>10. ASSUME NEW m \in Messages, AwaitNotice(m) PROVE Goal
    BY <1>10, Typed DEF AwaitNotice, Posts, Texts, RecTyped
  <1>11. ASSUME NEW r \in Readings, Begin(r) PROVE Goal
    BY <1>11, Typed DEF Begin, Posts, Texts, RecTyped
  <1>12. ASSUME NEW r \in Readings, ReadState(r) PROVE Goal
    BY <1>12, Typed DEF ReadState, Posts, Texts, RecTyped
  <1>13. ASSUME NEW r \in Readings, AdvanceStage(r) PROVE Goal
    BY <1>13, Typed DEF AdvanceStage, MayFollow, Posts, Texts, RecTyped
  <1>14. ASSUME NEW r \in Readings, Judge(r) PROVE Goal
    BY <1>14, Typed DEF Judge, Posts, Texts, RecTyped
  <1>15. ASSUME NEW r \in Readings, RecordFollowUps(r) PROVE Goal
    BY <1>15, Typed DEF RecordFollowUps, Writes, Posts, Texts, RecTyped
  <1>16. ASSUME NEW r \in Readings, BeginNote(r) PROVE Goal
    BY <1>16, Typed DEF BeginNote, Posts, Texts, RecTyped
  <1>17. ASSUME NEW r \in Readings, ReadBeforeClear(r) PROVE Goal
    BY <1>17, Typed DEF ReadBeforeClear, Posts, Texts, RecTyped
  <1>18. ASSUME NEW r \in Readings, ClearQueue(r) PROVE Goal
    BY <1>18, Typed DEF ClearQueue, Cleared, Posts, Texts, RecTyped
  <1>19. ASSUME NEW r \in Readings, ReadQueueNow(r) PROVE Goal
    BY <1>19, Typed DEF ReadQueueNow, Posts, Texts, RecTyped
  <1>20. ASSUME NEW r \in Readings, CloseDrain(r) PROVE Goal
    BY <1>20, Typed DEF CloseDrain, Posts, Texts, RecTyped
  <1>21. ASSUME NEW r \in Readings, ReadingExit(r) PROVE Goal
    BY <1>21, Typed DEF ReadingExit, Posts, Texts, RecTyped
  <1>22. ASSUME LookAtPlaceholder PROVE Goal
    BY <1>22, Typed DEF LookAtPlaceholder, Posts, Texts, RecTyped
  <1>23. ASSUME FoldFollowUps PROVE Goal
    BY <1>23, Typed DEF FoldFollowUps, Posts, Texts, RecTyped
  <1>24. ASSUME Deliver PROVE Goal
    BY <1>24, Typed DEF Deliver, Posts, Texts, RecTyped
  <1>25. ASSUME ForgetNotice PROVE Goal
    BY <1>25, Typed DEF ForgetNotice, Writes, Posts, Texts, RecTyped
  <1>26. ASSUME AnswerExit PROVE Goal
    BY <1>26, Typed DEF AnswerExit, Posts, Texts, RecTyped
  <1>27. ASSUME ForgetSettled PROVE Goal
    BY <1>27, Typed DEF ForgetSettled, Writes, Posts, Texts, RecTyped
  <1>28. ASSUME NEW p \in Procs, ReadNotice(p) PROVE Goal
    BY <1>28, Typed DEF ReadNotice, Posts, Texts, RecTyped
  <1>29. ASSUME NEW p \in Procs, WriteNotice(p) PROVE Goal
    <2>1. UNCHANGED says \/ says' = [says EXCEPT ![run[p].target] = Text(p)]
      BY <1>29 DEF WriteNotice
    <2>2. Text(p) \in Texts
      BY Typed DEF Text, Texts
    <2>3. says' \in [Posts -> Texts]
      BY <2>1, <2>2, Typed
    <2>4. UNCHANGED <<drains, told, returned, emptied>>
      BY <1>29 DEF WriteNotice
    <2>5. QED BY <2>3, <2>4, Typed
  <1>30. QED
    BY <1>1, <1>2, <1>3, <1>4, <1>5, <1>6, <1>7, <1>8, <1>9, <1>10, <1>11, <1>12, <1>13,
       <1>14, <1>15, <1>16, <1>17, <1>18, <1>19, <1>20, <1>21, <1>22, <1>23, <1>24, <1>25,
       <1>26, <1>27, <1>28, <1>29 DEF Next, SenderStep, ReadingStep, AnswerStep

-----------------------------------------------------------------------------
(* The parts of the invariant.                                              *)

\* A sender that posts has the mark and counts itself, and writes notices only.
LEMMA SendersKept ==
    ASSUME TypeOK, Shaped, Next
    PROVE  SendersShaped'
  <1>1. ASSUME NEW m \in Messages, Enqueue(m) PROVE SendersShaped'
    <2>1. Shown(rec.pointer) \in Notices \cup {NoOne}
      BY ShownIs DEF Shaped
    <2>2. SendersShaped
      BY DEF Shaped
    <2>3. CASE /\ Moved(m, "drain") /\ SameAim(m) /\ SameMarks(m)
               /\ run'[m].notice = Shown(rec.pointer)
      BY <1>1, <2>1, <2>2, <2>3, Ids
         DEF Enqueue, At, Moved, SameAim, SameMarks, SendersShaped, SenderPcs, Writing, Posting
    <2>4. CASE Leaves(m, FALSE)
      BY <2>2, <2>4, Ids DEF Moved, Leaves, SendersShaped, SenderPcs, Writing, Posting
    <2>5. QED BY <1>1, <2>3, <2>4, EnqueueMoves
  <1>2. ASSUME NEW m \in Messages, ClaimDrain(m) PROVE SendersShaped'
    BY <1>2, ClaimDrainMoves, Ids, ShownIs DEF Moved, SameAim, SameMarks, SameReads, Aims,
       Leaves, GoesOn, At, Shaped, SendersShaped, SenderPcs, Writing, Posting, Notices
  <1>3. ASSUME NEW m \in Messages, CreateDrain(m) PROVE SendersShaped'
    BY <1>3, CreateDrainMoves, Ids, ShownIs DEF Moved, SameAim, SameMarks, SameReads, Aims,
       Leaves, GoesOn, At, Shaped, SendersShaped, SenderPcs, Writing, Posting, Notices
  <1>4. ASSUME NEW m \in Messages, ClaimNotice(m) PROVE SendersShaped'
    BY <1>4, ClaimNoticeMoves, Ids, ShownIs DEF Moved, SameAim, SameMarks, SameReads, Aims,
       Leaves, GoesOn, At, Shaped, SendersShaped, SenderPcs, Writing, Posting, Notices
  <1>5. ASSUME NEW m \in Messages, FindPlaceholder(m) PROVE SendersShaped'
    BY <1>5, FindPlaceholderMoves, Ids, ShownIs DEF Moved, SameAim, SameMarks, SameReads,
       Aims, Leaves, GoesOn, At, Shaped, SendersShaped, SenderPcs, Writing, Posting, Notices
  <1>6. ASSUME NEW m \in Messages, PlaceNotice(m) PROVE SendersShaped'
    BY <1>6, PlaceNoticeMoves, Ids, ShownIs DEF Moved, SameAim, SameMarks, SameReads, Aims,
       Leaves, GoesOn, At, Shaped, SendersShaped, SenderPcs, Writing, Posting, Notices
  <1>7. ASSUME NEW m \in Messages, PostNotice(m) PROVE SendersShaped'
    BY <1>7, PostNoticeMoves, Ids, ShownIs DEF Moved, SameAim, SameMarks, SameReads, Aims,
       Leaves, GoesOn, At, Shaped, SendersShaped, SenderPcs, Writing, Posting, Notices
  <1>8. ASSUME NEW m \in Messages, RememberNotice(m) PROVE SendersShaped'
    BY <1>8, RememberNoticeMoves, Ids, ShownIs DEF Moved, SameAim, SameMarks, SameReads,
       Aims, Leaves, GoesOn, At, Shaped, SendersShaped, SenderPcs, Writing, Posting, Notices
  <1>9. ASSUME NEW m \in Messages, ReleaseNoticeClaim(m) PROVE SendersShaped'
    BY <1>9, ReleaseNoticeClaimMoves, Ids, ShownIs DEF Moved, SameAim, SameMarks, SameReads,
       Aims, Leaves, GoesOn, At, Shaped, SendersShaped, SenderPcs, Writing, Posting, Notices
  <1>10. ASSUME NEW m \in Messages, AwaitNotice(m) PROVE SendersShaped'
    BY <1>10, AwaitNoticeMoves, Ids, ShownIs DEF Moved, SameAim, SameMarks, SameReads, Aims,
       Leaves, GoesOn, At, Shaped, SendersShaped, SenderPcs, Writing, Posting, Notices
  <1>11. ASSUME NEW r \in Readings, Begin(r) PROVE SendersShaped'
    BY <1>11, BeginMoves, Ids, ShownIs DEF Moved, SameAim, SameMarks, SameReads, Aims,
       Leaves, GoesOn, At, Shaped, SendersShaped, SenderPcs, Writing, Posting, Notices
  <1>12. ASSUME NEW r \in Readings, ReadState(r) PROVE SendersShaped'
    BY <1>12, ReadStateMoves, Ids, ShownIs DEF Moved, SameAim, SameMarks, SameReads, Aims,
       Leaves, GoesOn, At, Shaped, SendersShaped, SenderPcs, Writing, Posting, Notices
  <1>13. ASSUME NEW r \in Readings, AdvanceStage(r) PROVE SendersShaped'
    BY <1>13, AdvanceStageMoves, Ids, ShownIs DEF Moved, SameAim, SameMarks, SameReads,
       Aims, Leaves, GoesOn, At, Shaped, SendersShaped, SenderPcs, Writing, Posting, Notices
  <1>14. ASSUME NEW r \in Readings, Judge(r) PROVE SendersShaped'
    BY <1>14, JudgeMoves, Ids, ShownIs DEF Moved, SameAim, SameMarks, SameReads, Aims,
       Leaves, GoesOn, At, Shaped, SendersShaped, SenderPcs, Writing, Posting, Notices
  <1>15. ASSUME NEW r \in Readings, RecordFollowUps(r) PROVE SendersShaped'
    BY <1>15, RecordFollowUpsMoves, Ids, ShownIs DEF Moved, SameAim, SameMarks, SameReads,
       Aims, Leaves, GoesOn, At, Shaped, SendersShaped, SenderPcs, Writing, Posting, Notices
  <1>16. ASSUME NEW r \in Readings, BeginNote(r) PROVE SendersShaped'
    BY <1>16, BeginNoteMoves, Ids, ShownIs DEF Moved, SameAim, SameMarks, SameReads, Aims,
       Leaves, GoesOn, At, Shaped, SendersShaped, SenderPcs, Writing, Posting, Notices
  <1>17. ASSUME NEW r \in Readings, ReadBeforeClear(r) PROVE SendersShaped'
    BY <1>17, ReadBeforeClearMoves, Ids, ShownIs DEF Moved, SameAim, SameMarks, SameReads,
       Aims, Leaves, GoesOn, At, Shaped, SendersShaped, SenderPcs, Writing, Posting, Notices
  <1>18. ASSUME NEW r \in Readings, ClearQueue(r) PROVE SendersShaped'
    BY <1>18, ClearQueueMoves, Ids, ShownIs DEF Moved, SameAim, SameMarks, SameReads, Aims,
       Leaves, GoesOn, At, Shaped, SendersShaped, SenderPcs, Writing, Posting, Notices
  <1>19. ASSUME NEW r \in Readings, ReadQueueNow(r) PROVE SendersShaped'
    BY <1>19, ReadQueueNowMoves, Ids, ShownIs DEF Moved, SameAim, SameMarks, SameReads,
       Aims, Leaves, GoesOn, At, Shaped, SendersShaped, SenderPcs, Writing, Posting, Notices
  <1>20. ASSUME NEW r \in Readings, CloseDrain(r) PROVE SendersShaped'
    BY <1>20, CloseDrainMoves, Ids, ShownIs DEF Moved, SameAim, SameMarks, SameReads, Aims,
       Leaves, GoesOn, At, Shaped, SendersShaped, SenderPcs, Writing, Posting, Notices
  <1>21. ASSUME NEW r \in Readings, ReadingExit(r) PROVE SendersShaped'
    BY <1>21, ReadingExitMoves, Ids, ShownIs DEF Moved, SameAim, SameMarks, SameReads, Aims,
       Leaves, GoesOn, At, Shaped, SendersShaped, SenderPcs, Writing, Posting, Notices
  <1>22. ASSUME LookAtPlaceholder PROVE SendersShaped'
    BY <1>22, LookAtPlaceholderMoves, Ids, ShownIs DEF Moved, SameAim, SameMarks, SameReads,
       Aims, Leaves, GoesOn, At, Shaped, SendersShaped, SenderPcs, Writing, Posting, Notices
  <1>23. ASSUME FoldFollowUps PROVE SendersShaped'
    BY <1>23, FoldFollowUpsMoves, Ids, ShownIs DEF Moved, SameAim, SameMarks, SameReads,
       Aims, Leaves, GoesOn, At, Shaped, SendersShaped, SenderPcs, Writing, Posting, Notices
  <1>24. ASSUME Deliver PROVE SendersShaped'
    BY <1>24, DeliverMoves, Ids, ShownIs DEF Moved, SameAim, SameMarks, SameReads, Aims,
       Leaves, GoesOn, At, Shaped, SendersShaped, SenderPcs, Writing, Posting, Notices
  <1>25. ASSUME ForgetNotice PROVE SendersShaped'
    BY <1>25, ForgetNoticeMoves, Ids, ShownIs DEF Moved, SameAim, SameMarks, SameReads,
       Aims, Leaves, GoesOn, At, Shaped, SendersShaped, SenderPcs, Writing, Posting, Notices
  <1>26. ASSUME AnswerExit PROVE SendersShaped'
    BY <1>26, AnswerExitMoves, Ids, ShownIs DEF Moved, SameAim, SameMarks, SameReads, Aims,
       Leaves, GoesOn, At, Shaped, SendersShaped, SenderPcs, Writing, Posting, Notices
  <1>27. ASSUME ForgetSettled PROVE SendersShaped'
    BY <1>27, ForgetSettledMoves, Ids, ShownIs DEF Moved, SameAim, SameMarks, SameReads,
       Aims, Leaves, GoesOn, At, Shaped, SendersShaped, SenderPcs, Writing, Posting, Notices
  <1>28. ASSUME NEW p \in Procs, ReadNotice(p) PROVE SendersShaped'
    BY <1>28, ReadNoticeMoves, Ids, ShownIs DEF Moved, SameAim, SameMarks, SameReads, Aims,
       Leaves, GoesOn, At, Shaped, SendersShaped, SenderPcs, Writing, Posting, Notices
  <1>29. ASSUME NEW p \in Procs, WriteNotice(p) PROVE SendersShaped'
    BY <1>29, WriteNoticeMoves, Ids, ShownIs DEF Moved, SameAim, SameMarks, SameReads, Aims,
       Leaves, GoesOn, At, Shaped, SendersShaped, SenderPcs, Writing, Posting, Notices
  <1>30. QED
    BY <1>1, <1>2, <1>3, <1>4, <1>5, <1>6, <1>7, <1>8, <1>9, <1>10, <1>11, <1>12, <1>13,
       <1>14, <1>15, <1>16, <1>17, <1>18, <1>19, <1>20, <1>21, <1>22, <1>23, <1>24, <1>25,
       <1>26, <1>27, <1>28, <1>29 DEF Next, SenderStep, ReadingStep, AnswerStep

\* A reading writes notices only.
LEMMA ReadingsKept ==
    ASSUME TypeOK, Shaped, Next
    PROVE  ReadingsShaped'
  <1>1. ASSUME NEW m \in Messages, Enqueue(m) PROVE ReadingsShaped'
    BY <1>1, EnqueueMoves, Ids, ShownIs DEF Moved, SameAim, SameMarks, SameReads, Aims,
       Leaves, GoesOn, At, Shaped, ReadingsShaped, ReadingPcs, Writing
  <1>2. ASSUME NEW m \in Messages, ClaimDrain(m) PROVE ReadingsShaped'
    BY <1>2, ClaimDrainMoves, Ids, ShownIs DEF Moved, SameAim, SameMarks, SameReads, Aims,
       Leaves, GoesOn, At, Shaped, ReadingsShaped, ReadingPcs, Writing
  <1>3. ASSUME NEW m \in Messages, CreateDrain(m) PROVE ReadingsShaped'
    BY <1>3, CreateDrainMoves, Ids, ShownIs DEF Moved, SameAim, SameMarks, SameReads, Aims,
       Leaves, GoesOn, At, Shaped, ReadingsShaped, ReadingPcs, Writing
  <1>4. ASSUME NEW m \in Messages, ClaimNotice(m) PROVE ReadingsShaped'
    BY <1>4, ClaimNoticeMoves, Ids, ShownIs DEF Moved, SameAim, SameMarks, SameReads, Aims,
       Leaves, GoesOn, At, Shaped, ReadingsShaped, ReadingPcs, Writing
  <1>5. ASSUME NEW m \in Messages, FindPlaceholder(m) PROVE ReadingsShaped'
    BY <1>5, FindPlaceholderMoves, Ids, ShownIs DEF Moved, SameAim, SameMarks, SameReads,
       Aims, Leaves, GoesOn, At, Shaped, ReadingsShaped, ReadingPcs, Writing
  <1>6. ASSUME NEW m \in Messages, PlaceNotice(m) PROVE ReadingsShaped'
    BY <1>6, PlaceNoticeMoves, Ids, ShownIs DEF Moved, SameAim, SameMarks, SameReads, Aims,
       Leaves, GoesOn, At, Shaped, ReadingsShaped, ReadingPcs, Writing
  <1>7. ASSUME NEW m \in Messages, PostNotice(m) PROVE ReadingsShaped'
    BY <1>7, PostNoticeMoves, Ids, ShownIs DEF Moved, SameAim, SameMarks, SameReads, Aims,
       Leaves, GoesOn, At, Shaped, ReadingsShaped, ReadingPcs, Writing
  <1>8. ASSUME NEW m \in Messages, RememberNotice(m) PROVE ReadingsShaped'
    BY <1>8, RememberNoticeMoves, Ids, ShownIs DEF Moved, SameAim, SameMarks, SameReads,
       Aims, Leaves, GoesOn, At, Shaped, ReadingsShaped, ReadingPcs, Writing
  <1>9. ASSUME NEW m \in Messages, ReleaseNoticeClaim(m) PROVE ReadingsShaped'
    BY <1>9, ReleaseNoticeClaimMoves, Ids, ShownIs DEF Moved, SameAim, SameMarks, SameReads,
       Aims, Leaves, GoesOn, At, Shaped, ReadingsShaped, ReadingPcs, Writing
  <1>10. ASSUME NEW m \in Messages, AwaitNotice(m) PROVE ReadingsShaped'
    BY <1>10, AwaitNoticeMoves, Ids, ShownIs DEF Moved, SameAim, SameMarks, SameReads, Aims,
       Leaves, GoesOn, At, Shaped, ReadingsShaped, ReadingPcs, Writing
  <1>11. ASSUME NEW r \in Readings, Begin(r) PROVE ReadingsShaped'
    BY <1>11, BeginMoves, Ids, ShownIs DEF Moved, SameAim, SameMarks, SameReads, Aims,
       Leaves, GoesOn, At, Shaped, ReadingsShaped, ReadingPcs, Writing
  <1>12. ASSUME NEW r \in Readings, ReadState(r) PROVE ReadingsShaped'
    BY <1>12, ReadStateMoves, Ids, ShownIs DEF Moved, SameAim, SameMarks, SameReads, Aims,
       Leaves, GoesOn, At, Shaped, ReadingsShaped, ReadingPcs, Writing
  <1>13. ASSUME NEW r \in Readings, AdvanceStage(r) PROVE ReadingsShaped'
    BY <1>13, AdvanceStageMoves, Ids, ShownIs DEF Moved, SameAim, SameMarks, SameReads,
       Aims, Leaves, GoesOn, At, Shaped, ReadingsShaped, ReadingPcs, Writing
  <1>14. ASSUME NEW r \in Readings, Judge(r) PROVE ReadingsShaped'
    BY <1>14, JudgeMoves, Ids, ShownIs DEF Moved, SameAim, SameMarks, SameReads, Aims,
       Leaves, GoesOn, At, Shaped, ReadingsShaped, ReadingPcs, Writing
  <1>15. ASSUME NEW r \in Readings, RecordFollowUps(r) PROVE ReadingsShaped'
    BY <1>15, RecordFollowUpsMoves, Ids, ShownIs DEF Moved, SameAim, SameMarks, SameReads,
       Aims, Leaves, GoesOn, At, Shaped, ReadingsShaped, ReadingPcs, Writing
  <1>16. ASSUME NEW r \in Readings, BeginNote(r) PROVE ReadingsShaped'
    BY <1>16, BeginNoteMoves, Ids, ShownIs DEF Moved, SameAim, SameMarks, SameReads, Aims,
       Leaves, GoesOn, At, Shaped, ReadingsShaped, ReadingPcs, Writing
  <1>17. ASSUME NEW r \in Readings, ReadBeforeClear(r) PROVE ReadingsShaped'
    BY <1>17, ReadBeforeClearMoves, Ids, ShownIs DEF Moved, SameAim, SameMarks, SameReads,
       Aims, Leaves, GoesOn, At, Shaped, ReadingsShaped, ReadingPcs, Writing
  <1>18. ASSUME NEW r \in Readings, ClearQueue(r) PROVE ReadingsShaped'
    BY <1>18, ClearQueueMoves, Ids, ShownIs DEF Moved, SameAim, SameMarks, SameReads, Aims,
       Leaves, GoesOn, At, Shaped, ReadingsShaped, ReadingPcs, Writing
  <1>19. ASSUME NEW r \in Readings, ReadQueueNow(r) PROVE ReadingsShaped'
    BY <1>19, ReadQueueNowMoves, Ids, ShownIs DEF Moved, SameAim, SameMarks, SameReads,
       Aims, Leaves, GoesOn, At, Shaped, ReadingsShaped, ReadingPcs, Writing
  <1>20. ASSUME NEW r \in Readings, CloseDrain(r) PROVE ReadingsShaped'
    BY <1>20, CloseDrainMoves, Ids, ShownIs DEF Moved, SameAim, SameMarks, SameReads, Aims,
       Leaves, GoesOn, At, Shaped, ReadingsShaped, ReadingPcs, Writing
  <1>21. ASSUME NEW r \in Readings, ReadingExit(r) PROVE ReadingsShaped'
    BY <1>21, ReadingExitMoves, Ids, ShownIs DEF Moved, SameAim, SameMarks, SameReads, Aims,
       Leaves, GoesOn, At, Shaped, ReadingsShaped, ReadingPcs, Writing
  <1>22. ASSUME LookAtPlaceholder PROVE ReadingsShaped'
    BY <1>22, LookAtPlaceholderMoves, Ids, ShownIs DEF Moved, SameAim, SameMarks, SameReads,
       Aims, Leaves, GoesOn, At, Shaped, ReadingsShaped, ReadingPcs, Writing
  <1>23. ASSUME FoldFollowUps PROVE ReadingsShaped'
    BY <1>23, FoldFollowUpsMoves, Ids, ShownIs DEF Moved, SameAim, SameMarks, SameReads,
       Aims, Leaves, GoesOn, At, Shaped, ReadingsShaped, ReadingPcs, Writing
  <1>24. ASSUME Deliver PROVE ReadingsShaped'
    BY <1>24, DeliverMoves, Ids, ShownIs DEF Moved, SameAim, SameMarks, SameReads, Aims,
       Leaves, GoesOn, At, Shaped, ReadingsShaped, ReadingPcs, Writing
  <1>25. ASSUME ForgetNotice PROVE ReadingsShaped'
    BY <1>25, ForgetNoticeMoves, Ids, ShownIs DEF Moved, SameAim, SameMarks, SameReads,
       Aims, Leaves, GoesOn, At, Shaped, ReadingsShaped, ReadingPcs, Writing
  <1>26. ASSUME AnswerExit PROVE ReadingsShaped'
    BY <1>26, AnswerExitMoves, Ids, ShownIs DEF Moved, SameAim, SameMarks, SameReads, Aims,
       Leaves, GoesOn, At, Shaped, ReadingsShaped, ReadingPcs, Writing
  <1>27. ASSUME ForgetSettled PROVE ReadingsShaped'
    BY <1>27, ForgetSettledMoves, Ids, ShownIs DEF Moved, SameAim, SameMarks, SameReads,
       Aims, Leaves, GoesOn, At, Shaped, ReadingsShaped, ReadingPcs, Writing
  <1>28. ASSUME NEW p \in Procs, ReadNotice(p) PROVE ReadingsShaped'
    BY <1>28, ReadNoticeMoves, Ids, ShownIs DEF Moved, SameAim, SameMarks, SameReads, Aims,
       Leaves, GoesOn, At, Shaped, ReadingsShaped, ReadingPcs, Writing
  <1>29. ASSUME NEW p \in Procs, WriteNotice(p) PROVE ReadingsShaped'
    BY <1>29, WriteNoticeMoves, Ids, ShownIs DEF Moved, SameAim, SameMarks, SameReads, Aims,
       Leaves, GoesOn, At, Shaped, ReadingsShaped, ReadingPcs, Writing, After
  <1>30. QED
    BY <1>1, <1>2, <1>3, <1>4, <1>5, <1>6, <1>7, <1>8, <1>9, <1>10, <1>11, <1>12, <1>13,
       <1>14, <1>15, <1>16, <1>17, <1>18, <1>19, <1>20, <1>21, <1>22, <1>23, <1>24, <1>25,
       <1>26, <1>27, <1>28, <1>29 DEF Next, SenderStep, ReadingStep, AnswerStep

\* The answer writes a notice only to settle it.
LEMMA AnswersKept ==
    ASSUME TypeOK, Shaped, Next
    PROVE  AnswerShaped'
  <1>1. ASSUME NEW m \in Messages, Enqueue(m) PROVE AnswerShaped'
    BY <1>1, EnqueueMoves, Ids, ShownIs DEF Moved, SameAim, SameMarks, SameReads, Aims,
       Leaves, GoesOn, At, Shaped, AnswerShaped, AnswerPcs, Writing
  <1>2. ASSUME NEW m \in Messages, ClaimDrain(m) PROVE AnswerShaped'
    BY <1>2, ClaimDrainMoves, Ids, ShownIs DEF Moved, SameAim, SameMarks, SameReads, Aims,
       Leaves, GoesOn, At, Shaped, AnswerShaped, AnswerPcs, Writing
  <1>3. ASSUME NEW m \in Messages, CreateDrain(m) PROVE AnswerShaped'
    BY <1>3, CreateDrainMoves, Ids, ShownIs DEF Moved, SameAim, SameMarks, SameReads, Aims,
       Leaves, GoesOn, At, Shaped, AnswerShaped, AnswerPcs, Writing
  <1>4. ASSUME NEW m \in Messages, ClaimNotice(m) PROVE AnswerShaped'
    BY <1>4, ClaimNoticeMoves, Ids, ShownIs DEF Moved, SameAim, SameMarks, SameReads, Aims,
       Leaves, GoesOn, At, Shaped, AnswerShaped, AnswerPcs, Writing
  <1>5. ASSUME NEW m \in Messages, FindPlaceholder(m) PROVE AnswerShaped'
    BY <1>5, FindPlaceholderMoves, Ids, ShownIs DEF Moved, SameAim, SameMarks, SameReads,
       Aims, Leaves, GoesOn, At, Shaped, AnswerShaped, AnswerPcs, Writing
  <1>6. ASSUME NEW m \in Messages, PlaceNotice(m) PROVE AnswerShaped'
    BY <1>6, PlaceNoticeMoves, Ids, ShownIs DEF Moved, SameAim, SameMarks, SameReads, Aims,
       Leaves, GoesOn, At, Shaped, AnswerShaped, AnswerPcs, Writing
  <1>7. ASSUME NEW m \in Messages, PostNotice(m) PROVE AnswerShaped'
    BY <1>7, PostNoticeMoves, Ids, ShownIs DEF Moved, SameAim, SameMarks, SameReads, Aims,
       Leaves, GoesOn, At, Shaped, AnswerShaped, AnswerPcs, Writing
  <1>8. ASSUME NEW m \in Messages, RememberNotice(m) PROVE AnswerShaped'
    BY <1>8, RememberNoticeMoves, Ids, ShownIs DEF Moved, SameAim, SameMarks, SameReads,
       Aims, Leaves, GoesOn, At, Shaped, AnswerShaped, AnswerPcs, Writing
  <1>9. ASSUME NEW m \in Messages, ReleaseNoticeClaim(m) PROVE AnswerShaped'
    BY <1>9, ReleaseNoticeClaimMoves, Ids, ShownIs DEF Moved, SameAim, SameMarks, SameReads,
       Aims, Leaves, GoesOn, At, Shaped, AnswerShaped, AnswerPcs, Writing
  <1>10. ASSUME NEW m \in Messages, AwaitNotice(m) PROVE AnswerShaped'
    BY <1>10, AwaitNoticeMoves, Ids, ShownIs DEF Moved, SameAim, SameMarks, SameReads, Aims,
       Leaves, GoesOn, At, Shaped, AnswerShaped, AnswerPcs, Writing
  <1>11. ASSUME NEW r \in Readings, Begin(r) PROVE AnswerShaped'
    BY <1>11, BeginMoves, Ids, ShownIs DEF Moved, SameAim, SameMarks, SameReads, Aims,
       Leaves, GoesOn, At, Shaped, AnswerShaped, AnswerPcs, Writing
  <1>12. ASSUME NEW r \in Readings, ReadState(r) PROVE AnswerShaped'
    BY <1>12, ReadStateMoves, Ids, ShownIs DEF Moved, SameAim, SameMarks, SameReads, Aims,
       Leaves, GoesOn, At, Shaped, AnswerShaped, AnswerPcs, Writing
  <1>13. ASSUME NEW r \in Readings, AdvanceStage(r) PROVE AnswerShaped'
    BY <1>13, AdvanceStageMoves, Ids, ShownIs DEF Moved, SameAim, SameMarks, SameReads,
       Aims, Leaves, GoesOn, At, Shaped, AnswerShaped, AnswerPcs, Writing
  <1>14. ASSUME NEW r \in Readings, Judge(r) PROVE AnswerShaped'
    BY <1>14, JudgeMoves, Ids, ShownIs DEF Moved, SameAim, SameMarks, SameReads, Aims,
       Leaves, GoesOn, At, Shaped, AnswerShaped, AnswerPcs, Writing
  <1>15. ASSUME NEW r \in Readings, RecordFollowUps(r) PROVE AnswerShaped'
    BY <1>15, RecordFollowUpsMoves, Ids, ShownIs DEF Moved, SameAim, SameMarks, SameReads,
       Aims, Leaves, GoesOn, At, Shaped, AnswerShaped, AnswerPcs, Writing
  <1>16. ASSUME NEW r \in Readings, BeginNote(r) PROVE AnswerShaped'
    BY <1>16, BeginNoteMoves, Ids, ShownIs DEF Moved, SameAim, SameMarks, SameReads, Aims,
       Leaves, GoesOn, At, Shaped, AnswerShaped, AnswerPcs, Writing
  <1>17. ASSUME NEW r \in Readings, ReadBeforeClear(r) PROVE AnswerShaped'
    BY <1>17, ReadBeforeClearMoves, Ids, ShownIs DEF Moved, SameAim, SameMarks, SameReads,
       Aims, Leaves, GoesOn, At, Shaped, AnswerShaped, AnswerPcs, Writing
  <1>18. ASSUME NEW r \in Readings, ClearQueue(r) PROVE AnswerShaped'
    BY <1>18, ClearQueueMoves, Ids, ShownIs DEF Moved, SameAim, SameMarks, SameReads, Aims,
       Leaves, GoesOn, At, Shaped, AnswerShaped, AnswerPcs, Writing
  <1>19. ASSUME NEW r \in Readings, ReadQueueNow(r) PROVE AnswerShaped'
    BY <1>19, ReadQueueNowMoves, Ids, ShownIs DEF Moved, SameAim, SameMarks, SameReads,
       Aims, Leaves, GoesOn, At, Shaped, AnswerShaped, AnswerPcs, Writing
  <1>20. ASSUME NEW r \in Readings, CloseDrain(r) PROVE AnswerShaped'
    BY <1>20, CloseDrainMoves, Ids, ShownIs DEF Moved, SameAim, SameMarks, SameReads, Aims,
       Leaves, GoesOn, At, Shaped, AnswerShaped, AnswerPcs, Writing
  <1>21. ASSUME NEW r \in Readings, ReadingExit(r) PROVE AnswerShaped'
    BY <1>21, ReadingExitMoves, Ids, ShownIs DEF Moved, SameAim, SameMarks, SameReads, Aims,
       Leaves, GoesOn, At, Shaped, AnswerShaped, AnswerPcs, Writing
  <1>22. ASSUME LookAtPlaceholder PROVE AnswerShaped'
    BY <1>22, LookAtPlaceholderMoves, Ids, ShownIs DEF Moved, SameAim, SameMarks, SameReads,
       Aims, Leaves, GoesOn, At, Shaped, AnswerShaped, AnswerPcs, Writing
  <1>23. ASSUME FoldFollowUps PROVE AnswerShaped'
    BY <1>23, FoldFollowUpsMoves, Ids, ShownIs DEF Moved, SameAim, SameMarks, SameReads,
       Aims, Leaves, GoesOn, At, Shaped, AnswerShaped, AnswerPcs, Writing
  <1>24. ASSUME Deliver PROVE AnswerShaped'
    BY <1>24, DeliverMoves, Ids, ShownIs DEF Moved, SameAim, SameMarks, SameReads, Aims,
       Leaves, GoesOn, At, Shaped, AnswerShaped, AnswerPcs, Writing
  <1>25. ASSUME ForgetNotice PROVE AnswerShaped'
    BY <1>25, ForgetNoticeMoves, Ids, ShownIs DEF Moved, SameAim, SameMarks, SameReads,
       Aims, Leaves, GoesOn, At, Shaped, AnswerShaped, AnswerPcs, Writing
  <1>26. ASSUME AnswerExit PROVE AnswerShaped'
    BY <1>26, AnswerExitMoves, Ids, ShownIs DEF Moved, SameAim, SameMarks, SameReads, Aims,
       Leaves, GoesOn, At, Shaped, AnswerShaped, AnswerPcs, Writing
  <1>27. ASSUME ForgetSettled PROVE AnswerShaped'
    BY <1>27, ForgetSettledMoves, Ids, ShownIs DEF Moved, SameAim, SameMarks, SameReads,
       Aims, Leaves, GoesOn, At, Shaped, AnswerShaped, AnswerPcs, Writing
  <1>28. ASSUME NEW p \in Procs, ReadNotice(p) PROVE AnswerShaped'
    BY <1>28, ReadNoticeMoves, Ids, ShownIs DEF Moved, SameAim, SameMarks, SameReads, Aims,
       Leaves, GoesOn, At, Shaped, AnswerShaped, AnswerPcs, Writing
  <1>29. ASSUME NEW p \in Procs, WriteNotice(p) PROVE AnswerShaped'
    BY <1>29, WriteNoticeMoves, Ids, ShownIs DEF Moved, SameAim, SameMarks, SameReads, Aims,
       Leaves, GoesOn, At, Shaped, AnswerShaped, AnswerPcs, Writing, After
  <1>30. QED
    BY <1>1, <1>2, <1>3, <1>4, <1>5, <1>6, <1>7, <1>8, <1>9, <1>10, <1>11, <1>12, <1>13,
       <1>14, <1>15, <1>16, <1>17, <1>18, <1>19, <1>20, <1>21, <1>22, <1>23, <1>24, <1>25,
       <1>26, <1>27, <1>28, <1>29 DEF Next, SenderStep, ReadingStep, AnswerStep

\* The pointer names a notice, or a mark.
LEMMA PointerKept ==
    ASSUME TypeOK, Shaped, Next
    PROVE  PointerShaped'
  <1>1. ASSUME NEW m \in Messages, Enqueue(m) PROVE PointerShaped'
    BY <1>1, EnqueueMoves, Ids DEF At, Shaped, PointerShaped, RecIs, Returns
  <1>2. ASSUME NEW m \in Messages, ClaimDrain(m) PROVE PointerShaped'
    BY <1>2, ClaimDrainMoves, Ids DEF At, Shaped, PointerShaped, RecIs, Returns
  <1>3. ASSUME NEW m \in Messages, CreateDrain(m) PROVE PointerShaped'
    BY <1>3, CreateDrainMoves, Ids DEF At, Shaped, PointerShaped, RecIs, Returns
  <1>4. ASSUME NEW m \in Messages, ClaimNotice(m) PROVE PointerShaped'
    BY <1>4, ClaimNoticeMoves, Ids DEF At, Shaped, PointerShaped, RecIs, Returns
  <1>5. ASSUME NEW m \in Messages, FindPlaceholder(m) PROVE PointerShaped'
    BY <1>5, FindPlaceholderMoves, Ids DEF At, Shaped, PointerShaped, RecIs, Returns
  <1>6. ASSUME NEW m \in Messages, PlaceNotice(m) PROVE PointerShaped'
    BY <1>6, PlaceNoticeMoves, Ids DEF At, Shaped, PointerShaped, RecIs, Returns
  <1>7. ASSUME NEW m \in Messages, PostNotice(m) PROVE PointerShaped'
    BY <1>7, PostNoticeMoves, Ids DEF At, Shaped, PointerShaped, RecIs, Returns
  <1>8. ASSUME NEW m \in Messages, RememberNotice(m) PROVE PointerShaped'
    BY <1>8, RememberNoticeMoves, Ids DEF At, Shaped, PointerShaped, RecIs, Returns,
       SendersShaped
  <1>9. ASSUME NEW m \in Messages, ReleaseNoticeClaim(m) PROVE PointerShaped'
    BY <1>9, ReleaseNoticeClaimMoves, Ids DEF At, Shaped, PointerShaped, RecIs, Returns
  <1>10. ASSUME NEW m \in Messages, AwaitNotice(m) PROVE PointerShaped'
    BY <1>10, AwaitNoticeMoves, Ids DEF At, Shaped, PointerShaped, RecIs, Returns
  <1>11. ASSUME NEW r \in Readings, Begin(r) PROVE PointerShaped'
    BY <1>11, BeginMoves, Ids DEF At, Shaped, PointerShaped, RecIs, Returns
  <1>12. ASSUME NEW r \in Readings, ReadState(r) PROVE PointerShaped'
    BY <1>12, ReadStateMoves, Ids DEF At, Shaped, PointerShaped, RecIs, Returns
  <1>13. ASSUME NEW r \in Readings, AdvanceStage(r) PROVE PointerShaped'
    BY <1>13, AdvanceStageMoves, Ids DEF At, Shaped, PointerShaped, RecIs, Returns
  <1>14. ASSUME NEW r \in Readings, Judge(r) PROVE PointerShaped'
    BY <1>14, JudgeMoves, Ids DEF At, Shaped, PointerShaped, RecIs, Returns
  <1>15. ASSUME NEW r \in Readings, RecordFollowUps(r) PROVE PointerShaped'
    BY <1>15, RecordFollowUpsMoves, Ids DEF At, Shaped, PointerShaped, RecIs, Returns
  <1>16. ASSUME NEW r \in Readings, BeginNote(r) PROVE PointerShaped'
    BY <1>16, BeginNoteMoves, Ids DEF At, Shaped, PointerShaped, RecIs, Returns
  <1>17. ASSUME NEW r \in Readings, ReadBeforeClear(r) PROVE PointerShaped'
    BY <1>17, ReadBeforeClearMoves, Ids DEF At, Shaped, PointerShaped, RecIs, Returns
  <1>18. ASSUME NEW r \in Readings, ClearQueue(r) PROVE PointerShaped'
    BY <1>18, ClearQueueMoves, Ids DEF At, Shaped, PointerShaped, RecIs, Returns
  <1>19. ASSUME NEW r \in Readings, ReadQueueNow(r) PROVE PointerShaped'
    BY <1>19, ReadQueueNowMoves, Ids DEF At, Shaped, PointerShaped, RecIs, Returns
  <1>20. ASSUME NEW r \in Readings, CloseDrain(r) PROVE PointerShaped'
    BY <1>20, CloseDrainMoves, Ids DEF At, Shaped, PointerShaped, RecIs, Returns
  <1>21. ASSUME NEW r \in Readings, ReadingExit(r) PROVE PointerShaped'
    BY <1>21, ReadingExitMoves, Ids DEF At, Shaped, PointerShaped, RecIs, Returns
  <1>22. ASSUME LookAtPlaceholder PROVE PointerShaped'
    BY <1>22, LookAtPlaceholderMoves, Ids DEF At, Shaped, PointerShaped, RecIs, Returns
  <1>23. ASSUME FoldFollowUps PROVE PointerShaped'
    BY <1>23, FoldFollowUpsMoves, Ids DEF At, Shaped, PointerShaped, RecIs, Returns
  <1>24. ASSUME Deliver PROVE PointerShaped'
    BY <1>24, DeliverMoves, Ids DEF At, Shaped, PointerShaped, RecIs, Returns
  <1>25. ASSUME ForgetNotice PROVE PointerShaped'
    BY <1>25, ForgetNoticeMoves, Ids DEF At, Shaped, PointerShaped, RecIs, Returns
  <1>26. ASSUME AnswerExit PROVE PointerShaped'
    BY <1>26, AnswerExitMoves, Ids DEF At, Shaped, PointerShaped, RecIs, Returns
  <1>27. ASSUME ForgetSettled PROVE PointerShaped'
    BY <1>27, ForgetSettledMoves, Ids DEF At, Shaped, PointerShaped, RecIs, Returns
  <1>28. ASSUME NEW p \in Procs, ReadNotice(p) PROVE PointerShaped'
    BY <1>28, ReadNoticeMoves, Ids DEF At, Shaped, PointerShaped, RecIs, Returns
  <1>29. ASSUME NEW p \in Procs, WriteNotice(p) PROVE PointerShaped'
    BY <1>29, WriteNoticeMoves, Ids DEF At, Shaped, PointerShaped, RecIs, Returns
  <1>30. QED
    BY <1>1, <1>2, <1>3, <1>4, <1>5, <1>6, <1>7, <1>8, <1>9, <1>10, <1>11, <1>12, <1>13,
       <1>14, <1>15, <1>16, <1>17, <1>18, <1>19, <1>20, <1>21, <1>22, <1>23, <1>24, <1>25,
       <1>26, <1>27, <1>28, <1>29 DEF Next, SenderStep, ReadingStep, AnswerStep

\* Only a reading that begins takes the claim, and only its own clear gives it up.
LEMMA ClaimKept ==
    ASSUME TypeOK, Shaped, ClaimHeld, Next
    PROVE  ClaimHeld'
  <1>1. ASSUME NEW m \in Messages, Enqueue(m) PROVE ClaimHeld'
    BY <1>1, EnqueueMoves, Ids DEF Moved, SameAim, SameMarks, SameReads, Aims, Leaves,
       GoesOn, At, ClaimHeld, UnderClaim, Writing, RecIs, Returns
  <1>2. ASSUME NEW m \in Messages, ClaimDrain(m) PROVE ClaimHeld'
    BY <1>2, ClaimDrainMoves, Ids DEF Moved, SameAim, SameMarks, SameReads, Aims, Leaves,
       GoesOn, At, ClaimHeld, UnderClaim, Writing, RecIs, Returns
  <1>3. ASSUME NEW m \in Messages, CreateDrain(m) PROVE ClaimHeld'
    BY <1>3, CreateDrainMoves, Ids DEF Moved, SameAim, SameMarks, SameReads, Aims, Leaves,
       GoesOn, At, ClaimHeld, UnderClaim, Writing, RecIs, Returns
  <1>4. ASSUME NEW m \in Messages, ClaimNotice(m) PROVE ClaimHeld'
    BY <1>4, ClaimNoticeMoves, Ids DEF Moved, SameAim, SameMarks, SameReads, Aims, Leaves,
       GoesOn, At, ClaimHeld, UnderClaim, Writing, RecIs, Returns
  <1>5. ASSUME NEW m \in Messages, FindPlaceholder(m) PROVE ClaimHeld'
    BY <1>5, FindPlaceholderMoves, Ids DEF Moved, SameAim, SameMarks, SameReads, Aims,
       Leaves, GoesOn, At, ClaimHeld, UnderClaim, Writing, RecIs, Returns
  <1>6. ASSUME NEW m \in Messages, PlaceNotice(m) PROVE ClaimHeld'
    BY <1>6, PlaceNoticeMoves, Ids DEF Moved, SameAim, SameMarks, SameReads, Aims, Leaves,
       GoesOn, At, ClaimHeld, UnderClaim, Writing, RecIs, Returns
  <1>7. ASSUME NEW m \in Messages, PostNotice(m) PROVE ClaimHeld'
    BY <1>7, PostNoticeMoves, Ids DEF Moved, SameAim, SameMarks, SameReads, Aims, Leaves,
       GoesOn, At, ClaimHeld, UnderClaim, Writing, RecIs, Returns
  <1>8. ASSUME NEW m \in Messages, RememberNotice(m) PROVE ClaimHeld'
    BY <1>8, RememberNoticeMoves, Ids DEF Moved, SameAim, SameMarks, SameReads, Aims,
       Leaves, GoesOn, At, ClaimHeld, UnderClaim, Writing, RecIs, Returns
  <1>9. ASSUME NEW m \in Messages, ReleaseNoticeClaim(m) PROVE ClaimHeld'
    BY <1>9, ReleaseNoticeClaimMoves, Ids DEF Moved, SameAim, SameMarks, SameReads, Aims,
       Leaves, GoesOn, At, ClaimHeld, UnderClaim, Writing, RecIs, Returns
  <1>10. ASSUME NEW m \in Messages, AwaitNotice(m) PROVE ClaimHeld'
    BY <1>10, AwaitNoticeMoves, Ids DEF Moved, SameAim, SameMarks, SameReads, Aims, Leaves,
       GoesOn, At, ClaimHeld, UnderClaim, Writing, RecIs, Returns
  <1>11. ASSUME NEW r \in Readings, Begin(r) PROVE ClaimHeld'
    BY <1>11, BeginMoves, Ids DEF Moved, SameAim, SameMarks, SameReads, Aims, Leaves,
       GoesOn, At, ClaimHeld, UnderClaim, Writing, RecIs, Returns
  <1>12. ASSUME NEW r \in Readings, ReadState(r) PROVE ClaimHeld'
    BY <1>12, ReadStateMoves, Ids DEF Moved, SameAim, SameMarks, SameReads, Aims, Leaves,
       GoesOn, At, ClaimHeld, UnderClaim, Writing, RecIs, Returns
  <1>13. ASSUME NEW r \in Readings, AdvanceStage(r) PROVE ClaimHeld'
    BY <1>13, AdvanceStageMoves, Ids DEF Moved, SameAim, SameMarks, SameReads, Aims, Leaves,
       GoesOn, At, ClaimHeld, UnderClaim, Writing, RecIs, Returns
  <1>14. ASSUME NEW r \in Readings, Judge(r) PROVE ClaimHeld'
    BY <1>14, JudgeMoves, Ids DEF Moved, SameAim, SameMarks, SameReads, Aims, Leaves,
       GoesOn, At, ClaimHeld, UnderClaim, Writing, RecIs, Returns
  <1>15. ASSUME NEW r \in Readings, RecordFollowUps(r) PROVE ClaimHeld'
    BY <1>15, RecordFollowUpsMoves, Ids DEF Moved, SameAim, SameMarks, SameReads, Aims,
       Leaves, GoesOn, At, ClaimHeld, UnderClaim, Writing, RecIs, Returns
  <1>16. ASSUME NEW r \in Readings, BeginNote(r) PROVE ClaimHeld'
    BY <1>16, BeginNoteMoves, Ids DEF Moved, SameAim, SameMarks, SameReads, Aims, Leaves,
       GoesOn, At, ClaimHeld, UnderClaim, Writing, RecIs, Returns
  <1>17. ASSUME NEW r \in Readings, ReadBeforeClear(r) PROVE ClaimHeld'
    BY <1>17, ReadBeforeClearMoves, Ids DEF Moved, SameAim, SameMarks, SameReads, Aims,
       Leaves, GoesOn, At, ClaimHeld, UnderClaim, Writing, RecIs, Returns
  <1>18. ASSUME NEW r \in Readings, ClearQueue(r) PROVE ClaimHeld'
    BY <1>18, ClearQueueMoves, Ids DEF Moved, SameAim, SameMarks, SameReads, Aims, Leaves,
       GoesOn, At, ClaimHeld, UnderClaim, Writing, RecIs, Returns
  <1>19. ASSUME NEW r \in Readings, ReadQueueNow(r) PROVE ClaimHeld'
    BY <1>19, ReadQueueNowMoves, Ids DEF Moved, SameAim, SameMarks, SameReads, Aims, Leaves,
       GoesOn, At, ClaimHeld, UnderClaim, Writing, RecIs, Returns
  <1>20. ASSUME NEW r \in Readings, CloseDrain(r) PROVE ClaimHeld'
    BY <1>20, CloseDrainMoves, Ids DEF Moved, SameAim, SameMarks, SameReads, Aims, Leaves,
       GoesOn, At, ClaimHeld, UnderClaim, Writing, RecIs, Returns
  <1>21. ASSUME NEW r \in Readings, ReadingExit(r) PROVE ClaimHeld'
    BY <1>21, ReadingExitMoves, Ids DEF Moved, SameAim, SameMarks, SameReads, Aims, Leaves,
       GoesOn, At, ClaimHeld, UnderClaim, Writing, RecIs, Returns
  <1>22. ASSUME LookAtPlaceholder PROVE ClaimHeld'
    BY <1>22, LookAtPlaceholderMoves, Ids DEF Moved, SameAim, SameMarks, SameReads, Aims,
       Leaves, GoesOn, At, ClaimHeld, UnderClaim, Writing, RecIs, Returns
  <1>23. ASSUME FoldFollowUps PROVE ClaimHeld'
    BY <1>23, FoldFollowUpsMoves, Ids DEF Moved, SameAim, SameMarks, SameReads, Aims,
       Leaves, GoesOn, At, ClaimHeld, UnderClaim, Writing, RecIs, Returns
  <1>24. ASSUME Deliver PROVE ClaimHeld'
    BY <1>24, DeliverMoves, Ids DEF Moved, SameAim, SameMarks, SameReads, Aims, Leaves,
       GoesOn, At, ClaimHeld, UnderClaim, Writing, RecIs, Returns
  <1>25. ASSUME ForgetNotice PROVE ClaimHeld'
    BY <1>25, ForgetNoticeMoves, Ids DEF Moved, SameAim, SameMarks, SameReads, Aims, Leaves,
       GoesOn, At, ClaimHeld, UnderClaim, Writing, RecIs, Returns
  <1>26. ASSUME AnswerExit PROVE ClaimHeld'
    BY <1>26, AnswerExitMoves, Ids DEF Moved, SameAim, SameMarks, SameReads, Aims, Leaves,
       GoesOn, At, ClaimHeld, UnderClaim, Writing, RecIs, Returns
  <1>27. ASSUME ForgetSettled PROVE ClaimHeld'
    BY <1>27, ForgetSettledMoves, Ids DEF Moved, SameAim, SameMarks, SameReads, Aims,
       Leaves, GoesOn, At, ClaimHeld, UnderClaim, Writing, RecIs, Returns
  <1>28. ASSUME NEW p \in Procs, ReadNotice(p) PROVE ClaimHeld'
    BY <1>28, ReadNoticeMoves, Ids DEF Moved, SameAim, SameMarks, SameReads, Aims, Leaves,
       GoesOn, At, ClaimHeld, UnderClaim, Writing, RecIs, Returns
  <1>29. ASSUME NEW p \in Procs, WriteNotice(p) PROVE ClaimHeld'
    BY <1>29, WriteNoticeMoves, Ids DEF Moved, SameAim, SameMarks, SameReads, Aims, Leaves,
       GoesOn, At, ClaimHeld, UnderClaim, Writing, RecIs, Returns, After, Shaped,
       ReadingsShaped
  <1>30. QED
    BY <1>1, <1>2, <1>3, <1>4, <1>5, <1>6, <1>7, <1>8, <1>9, <1>10, <1>11, <1>12, <1>13,
       <1>14, <1>15, <1>16, <1>17, <1>18, <1>19, <1>20, <1>21, <1>22, <1>23, <1>24, <1>25,
       <1>26, <1>27, <1>28, <1>29 DEF Next, SenderStep, ReadingStep, AnswerStep

\* A stage is written under a claim, and goes with it.
LEMMA StageKept ==
    ASSUME TypeOK, Shaped, ClaimHeld, StageOfReading, Next
    PROVE  StageOfReading'
  <1>1. ASSUME NEW m \in Messages, Enqueue(m) PROVE StageOfReading'
    BY <1>1, EnqueueMoves, Ids DEF StageOfReading, RecIs, Returns
  <1>2. ASSUME NEW m \in Messages, ClaimDrain(m) PROVE StageOfReading'
    BY <1>2, ClaimDrainMoves, Ids DEF StageOfReading, RecIs, Returns
  <1>3. ASSUME NEW m \in Messages, CreateDrain(m) PROVE StageOfReading'
    BY <1>3, CreateDrainMoves, Ids DEF StageOfReading, RecIs, Returns
  <1>4. ASSUME NEW m \in Messages, ClaimNotice(m) PROVE StageOfReading'
    BY <1>4, ClaimNoticeMoves, Ids DEF StageOfReading, RecIs, Returns
  <1>5. ASSUME NEW m \in Messages, FindPlaceholder(m) PROVE StageOfReading'
    BY <1>5, FindPlaceholderMoves, Ids DEF StageOfReading, RecIs, Returns
  <1>6. ASSUME NEW m \in Messages, PlaceNotice(m) PROVE StageOfReading'
    BY <1>6, PlaceNoticeMoves, Ids DEF StageOfReading, RecIs, Returns
  <1>7. ASSUME NEW m \in Messages, PostNotice(m) PROVE StageOfReading'
    BY <1>7, PostNoticeMoves, Ids DEF StageOfReading, RecIs, Returns
  <1>8. ASSUME NEW m \in Messages, RememberNotice(m) PROVE StageOfReading'
    BY <1>8, RememberNoticeMoves, Ids DEF StageOfReading, RecIs, Returns
  <1>9. ASSUME NEW m \in Messages, ReleaseNoticeClaim(m) PROVE StageOfReading'
    BY <1>9, ReleaseNoticeClaimMoves, Ids DEF StageOfReading, RecIs, Returns
  <1>10. ASSUME NEW m \in Messages, AwaitNotice(m) PROVE StageOfReading'
    BY <1>10, AwaitNoticeMoves, Ids DEF StageOfReading, RecIs, Returns
  <1>11. ASSUME NEW r \in Readings, Begin(r) PROVE StageOfReading'
    BY <1>11, BeginMoves, Ids DEF StageOfReading, RecIs, Returns
  <1>12. ASSUME NEW r \in Readings, ReadState(r) PROVE StageOfReading'
    BY <1>12, ReadStateMoves, Ids DEF StageOfReading, RecIs, Returns
  <1>13. ASSUME NEW r \in Readings, AdvanceStage(r) PROVE StageOfReading'
    BY <1>13, AdvanceStageMoves, Ids DEF StageOfReading, RecIs, Returns, ClaimHeld,
       UnderClaim, At
  <1>14. ASSUME NEW r \in Readings, Judge(r) PROVE StageOfReading'
    BY <1>14, JudgeMoves, Ids DEF StageOfReading, RecIs, Returns
  <1>15. ASSUME NEW r \in Readings, RecordFollowUps(r) PROVE StageOfReading'
    BY <1>15, RecordFollowUpsMoves, Ids DEF StageOfReading, RecIs, Returns
  <1>16. ASSUME NEW r \in Readings, BeginNote(r) PROVE StageOfReading'
    BY <1>16, BeginNoteMoves, Ids DEF StageOfReading, RecIs, Returns
  <1>17. ASSUME NEW r \in Readings, ReadBeforeClear(r) PROVE StageOfReading'
    BY <1>17, ReadBeforeClearMoves, Ids DEF StageOfReading, RecIs, Returns
  <1>18. ASSUME NEW r \in Readings, ClearQueue(r) PROVE StageOfReading'
    BY <1>18, ClearQueueMoves, Ids DEF StageOfReading, RecIs, Returns
  <1>19. ASSUME NEW r \in Readings, ReadQueueNow(r) PROVE StageOfReading'
    BY <1>19, ReadQueueNowMoves, Ids DEF StageOfReading, RecIs, Returns
  <1>20. ASSUME NEW r \in Readings, CloseDrain(r) PROVE StageOfReading'
    BY <1>20, CloseDrainMoves, Ids DEF StageOfReading, RecIs, Returns
  <1>21. ASSUME NEW r \in Readings, ReadingExit(r) PROVE StageOfReading'
    BY <1>21, ReadingExitMoves, Ids DEF StageOfReading, RecIs, Returns
  <1>22. ASSUME LookAtPlaceholder PROVE StageOfReading'
    BY <1>22, LookAtPlaceholderMoves, Ids DEF StageOfReading, RecIs, Returns
  <1>23. ASSUME FoldFollowUps PROVE StageOfReading'
    BY <1>23, FoldFollowUpsMoves, Ids DEF StageOfReading, RecIs, Returns
  <1>24. ASSUME Deliver PROVE StageOfReading'
    BY <1>24, DeliverMoves, Ids DEF StageOfReading, RecIs, Returns
  <1>25. ASSUME ForgetNotice PROVE StageOfReading'
    BY <1>25, ForgetNoticeMoves, Ids DEF StageOfReading, RecIs, Returns
  <1>26. ASSUME AnswerExit PROVE StageOfReading'
    BY <1>26, AnswerExitMoves, Ids DEF StageOfReading, RecIs, Returns
  <1>27. ASSUME ForgetSettled PROVE StageOfReading'
    BY <1>27, ForgetSettledMoves, Ids DEF StageOfReading, RecIs, Returns
  <1>28. ASSUME NEW p \in Procs, ReadNotice(p) PROVE StageOfReading'
    BY <1>28, ReadNoticeMoves, Ids DEF StageOfReading, RecIs, Returns
  <1>29. ASSUME NEW p \in Procs, WriteNotice(p) PROVE StageOfReading'
    BY <1>29, WriteNoticeMoves, Ids DEF StageOfReading, RecIs, Returns
  <1>30. QED
    BY <1>1, <1>2, <1>3, <1>4, <1>5, <1>6, <1>7, <1>8, <1>9, <1>10, <1>11, <1>12, <1>13,
       <1>14, <1>15, <1>16, <1>17, <1>18, <1>19, <1>20, <1>21, <1>22, <1>23, <1>24, <1>25,
       <1>26, <1>27, <1>28, <1>29 DEF Next, SenderStep, ReadingStep, AnswerStep

\* A mark is written by its sender and goes with it, unless a write of it failed.
LEMMA MarkedKept ==
    ASSUME TypeOK, Shaped, Marked, Next
    PROVE  Marked'
  <1>1. ASSUME NEW m \in Messages, Enqueue(m) PROVE Marked'
    BY <1>1, EnqueueMoves, Ids DEF Moved, SameAim, SameMarks, SameReads, Aims, Leaves,
       GoesOn, At, Marked, RecIs, Returns, Shaped, SendersShaped, Posting, Writing
  <1>2. ASSUME NEW m \in Messages, ClaimDrain(m) PROVE Marked'
    BY <1>2, ClaimDrainMoves, Ids DEF Moved, SameAim, SameMarks, SameReads, Aims, Leaves,
       GoesOn, At, Marked, RecIs, Returns, Shaped, SendersShaped, Posting, Writing
  <1>3. ASSUME NEW m \in Messages, CreateDrain(m) PROVE Marked'
    BY <1>3, CreateDrainMoves, Ids DEF Moved, SameAim, SameMarks, SameReads, Aims, Leaves,
       GoesOn, At, Marked, RecIs, Returns, Shaped, SendersShaped, Posting, Writing
  <1>4. ASSUME NEW m \in Messages, ClaimNotice(m) PROVE Marked'
    BY <1>4, ClaimNoticeMoves, Ids DEF Moved, SameAim, SameMarks, SameReads, Aims, Leaves,
       GoesOn, At, Marked, RecIs, Returns, Shaped, SendersShaped, Posting, Writing
  <1>5. ASSUME NEW m \in Messages, FindPlaceholder(m) PROVE Marked'
    BY <1>5, FindPlaceholderMoves, Ids DEF Moved, SameAim, SameMarks, SameReads, Aims,
       Leaves, GoesOn, At, Marked, RecIs, Returns, Shaped, SendersShaped, Posting, Writing
  <1>6. ASSUME NEW m \in Messages, PlaceNotice(m) PROVE Marked'
    BY <1>6, PlaceNoticeMoves, Ids DEF Moved, SameAim, SameMarks, SameReads, Aims, Leaves,
       GoesOn, At, Marked, RecIs, Returns, Shaped, SendersShaped, Posting, Writing
  <1>7. ASSUME NEW m \in Messages, PostNotice(m) PROVE Marked'
    BY <1>7, PostNoticeMoves, Ids DEF Moved, SameAim, SameMarks, SameReads, Aims, Leaves,
       GoesOn, At, Marked, RecIs, Returns, Shaped, SendersShaped, Posting, Writing
  <1>8. ASSUME NEW m \in Messages, RememberNotice(m) PROVE Marked'
    <2>1. CASE rec'.pointer = run[m].target /\ Leaves(m, FALSE)
      <3>1. run[m].target \in Notices
        BY <1>8 DEF RememberNotice, At, Shaped, SendersShaped
      <3>2. QED BY <2>1, <3>1, Ids DEF Marked
    <2>2. CASE UNCHANGED rec /\ Leaves(m, TRUE)
      BY <2>2, Ids DEF Marked, Leaves, Moved
    <2>3. QED BY <1>8, <2>1, <2>2, RememberNoticeMoves DEF RecIs
  <1>9. ASSUME NEW m \in Messages, ReleaseNoticeClaim(m) PROVE Marked'
    <2>1. CASE rec'.pointer = NoOne
      BY <2>1, Ids DEF Marked
    <2>2. CASE rec.pointer # Pending(m) /\ UNCHANGED rec /\ Leaves(m, FALSE)
      BY <2>2, Ids DEF Marked, Leaves, Moved
    <2>3. CASE UNCHANGED rec /\ Leaves(m, TRUE)
      BY <2>3, Ids DEF Marked, Leaves, Moved
    <2>4. QED BY <1>9, <2>1, <2>2, <2>3, ReleaseNoticeClaimMoves DEF RecIs
  <1>10. ASSUME NEW m \in Messages, AwaitNotice(m) PROVE Marked'
    BY <1>10, AwaitNoticeMoves, Ids DEF Moved, SameAim, SameMarks, SameReads, Aims, Leaves,
       GoesOn, At, Marked, RecIs, Returns, Shaped, SendersShaped, Posting, Writing
  <1>11. ASSUME NEW r \in Readings, Begin(r) PROVE Marked'
    BY <1>11, BeginMoves, Ids DEF Moved, SameAim, SameMarks, SameReads, Aims, Leaves,
       GoesOn, At, Marked, RecIs, Returns, Shaped, SendersShaped, Posting, Writing
  <1>12. ASSUME NEW r \in Readings, ReadState(r) PROVE Marked'
    BY <1>12, ReadStateMoves, Ids DEF Moved, SameAim, SameMarks, SameReads, Aims, Leaves,
       GoesOn, At, Marked, RecIs, Returns, Shaped, SendersShaped, Posting, Writing
  <1>13. ASSUME NEW r \in Readings, AdvanceStage(r) PROVE Marked'
    BY <1>13, AdvanceStageMoves, Ids DEF Moved, SameAim, SameMarks, SameReads, Aims, Leaves,
       GoesOn, At, Marked, RecIs, Returns, Shaped, SendersShaped, Posting, Writing
  <1>14. ASSUME NEW r \in Readings, Judge(r) PROVE Marked'
    BY <1>14, JudgeMoves, Ids DEF Moved, SameAim, SameMarks, SameReads, Aims, Leaves,
       GoesOn, At, Marked, RecIs, Returns, Shaped, SendersShaped, Posting, Writing
  <1>15. ASSUME NEW r \in Readings, RecordFollowUps(r) PROVE Marked'
    BY <1>15, RecordFollowUpsMoves, Ids DEF Moved, SameAim, SameMarks, SameReads, Aims,
       Leaves, GoesOn, At, Marked, RecIs, Returns, Shaped, SendersShaped, Posting, Writing
  <1>16. ASSUME NEW r \in Readings, BeginNote(r) PROVE Marked'
    BY <1>16, BeginNoteMoves, Ids DEF Moved, SameAim, SameMarks, SameReads, Aims, Leaves,
       GoesOn, At, Marked, RecIs, Returns, Shaped, SendersShaped, Posting, Writing
  <1>17. ASSUME NEW r \in Readings, ReadBeforeClear(r) PROVE Marked'
    BY <1>17, ReadBeforeClearMoves, Ids DEF Moved, SameAim, SameMarks, SameReads, Aims,
       Leaves, GoesOn, At, Marked, RecIs, Returns, Shaped, SendersShaped, Posting, Writing
  <1>18. ASSUME NEW r \in Readings, ClearQueue(r) PROVE Marked'
    BY <1>18, ClearQueueMoves, Ids DEF Moved, SameAim, SameMarks, SameReads, Aims, Leaves,
       GoesOn, At, Marked, RecIs, Returns, Shaped, SendersShaped, Posting, Writing
  <1>19. ASSUME NEW r \in Readings, ReadQueueNow(r) PROVE Marked'
    BY <1>19, ReadQueueNowMoves, Ids DEF Moved, SameAim, SameMarks, SameReads, Aims, Leaves,
       GoesOn, At, Marked, RecIs, Returns, Shaped, SendersShaped, Posting, Writing
  <1>20. ASSUME NEW r \in Readings, CloseDrain(r) PROVE Marked'
    BY <1>20, CloseDrainMoves, Ids DEF Moved, SameAim, SameMarks, SameReads, Aims, Leaves,
       GoesOn, At, Marked, RecIs, Returns, Shaped, SendersShaped, Posting, Writing
  <1>21. ASSUME NEW r \in Readings, ReadingExit(r) PROVE Marked'
    BY <1>21, ReadingExitMoves, Ids DEF Moved, SameAim, SameMarks, SameReads, Aims, Leaves,
       GoesOn, At, Marked, RecIs, Returns, Shaped, SendersShaped, Posting, Writing
  <1>22. ASSUME LookAtPlaceholder PROVE Marked'
    BY <1>22, LookAtPlaceholderMoves, Ids DEF Moved, SameAim, SameMarks, SameReads, Aims,
       Leaves, GoesOn, At, Marked, RecIs, Returns, Shaped, SendersShaped, Posting, Writing
  <1>23. ASSUME FoldFollowUps PROVE Marked'
    BY <1>23, FoldFollowUpsMoves, Ids DEF Moved, SameAim, SameMarks, SameReads, Aims,
       Leaves, GoesOn, At, Marked, RecIs, Returns, Shaped, SendersShaped, Posting, Writing
  <1>24. ASSUME Deliver PROVE Marked'
    BY <1>24, DeliverMoves, Ids DEF Moved, SameAim, SameMarks, SameReads, Aims, Leaves,
       GoesOn, At, Marked, RecIs, Returns, Shaped, SendersShaped, Posting, Writing
  <1>25. ASSUME ForgetNotice PROVE Marked'
    BY <1>25, ForgetNoticeMoves, Ids DEF Moved, SameAim, SameMarks, SameReads, Aims, Leaves,
       GoesOn, At, Marked, RecIs, Returns, Shaped, SendersShaped, Posting, Writing
  <1>26. ASSUME AnswerExit PROVE Marked'
    BY <1>26, AnswerExitMoves, Ids DEF Moved, SameAim, SameMarks, SameReads, Aims, Leaves,
       GoesOn, At, Marked, RecIs, Returns, Shaped, SendersShaped, Posting, Writing
  <1>27. ASSUME ForgetSettled PROVE Marked'
    BY <1>27, ForgetSettledMoves, Ids DEF Moved, SameAim, SameMarks, SameReads, Aims,
       Leaves, GoesOn, At, Marked, RecIs, Returns, Shaped, SendersShaped, Posting, Writing
  <1>28. ASSUME NEW p \in Procs, ReadNotice(p) PROVE Marked'
    BY <1>28, ReadNoticeMoves, Ids DEF Moved, SameAim, SameMarks, SameReads, Aims, Leaves,
       GoesOn, At, Marked, RecIs, Returns, Shaped, SendersShaped, Posting, Writing
  <1>29. ASSUME NEW p \in Procs, WriteNotice(p) PROVE Marked'
    <2>1. \A m \in Messages : run[m].mine => m # p
      BY <1>29 DEF WriteNotice, At, Shaped, SendersShaped, Posting
    <2>2. \A m \in Messages : m # p => run'[m] = run[m]
      BY <1>29, WriteNoticeMoves, Ids DEF Moved, Leaves
    <2>3. p \in Messages => (run[p].blind => run'[p].blind)
      BY <1>29, WriteNoticeMoves DEF Leaves, SameMarks
    <2>4. rec' = rec
      BY <1>29, WriteNoticeMoves
    <2>5. QED BY <2>1, <2>2, <2>3, <2>4 DEF Marked
  <1>30. QED
    BY <1>1, <1>2, <1>3, <1>4, <1>5, <1>6, <1>7, <1>8, <1>9, <1>10, <1>11, <1>12, <1>13,
       <1>14, <1>15, <1>16, <1>17, <1>18, <1>19, <1>20, <1>21, <1>22, <1>23, <1>24, <1>25,
       <1>26, <1>27, <1>28, <1>29 DEF Next, SenderStep, ReadingStep, AnswerStep

\* The answer is in one place.
LEMMA PlacedKept ==
    ASSUME TypeOK, Shaped, AnswerPlaced, Next
    PROVE  AnswerPlaced'
  <1>1. ASSUME NEW m \in Messages, Enqueue(m) PROVE AnswerPlaced'
    BY <1>1, EnqueueMoves, Ids DEF Moved, SameAim, SameMarks, SameReads, Aims, Leaves,
       GoesOn, At, AnswerPlaced, RestButDrains, Rest, OnlyReturns, AnswerPostSame, Shaped,
       AnswerShaped, AnswerPcs
  <1>2. ASSUME NEW m \in Messages, ClaimDrain(m) PROVE AnswerPlaced'
    BY <1>2, ClaimDrainMoves, Ids DEF Moved, SameAim, SameMarks, SameReads, Aims, Leaves,
       GoesOn, At, AnswerPlaced, RestButDrains, Rest, OnlyReturns, AnswerPostSame, Shaped,
       AnswerShaped, AnswerPcs
  <1>3. ASSUME NEW m \in Messages, CreateDrain(m) PROVE AnswerPlaced'
    BY <1>3, CreateDrainMoves, Ids DEF Moved, SameAim, SameMarks, SameReads, Aims, Leaves,
       GoesOn, At, AnswerPlaced, RestButDrains, Rest, OnlyReturns, AnswerPostSame, Shaped,
       AnswerShaped, AnswerPcs
  <1>4. ASSUME NEW m \in Messages, ClaimNotice(m) PROVE AnswerPlaced'
    BY <1>4, ClaimNoticeMoves, Ids DEF Moved, SameAim, SameMarks, SameReads, Aims, Leaves,
       GoesOn, At, AnswerPlaced, RestButDrains, Rest, OnlyReturns, AnswerPostSame, Shaped,
       AnswerShaped, AnswerPcs
  <1>5. ASSUME NEW m \in Messages, FindPlaceholder(m) PROVE AnswerPlaced'
    BY <1>5, FindPlaceholderMoves, Ids DEF Moved, SameAim, SameMarks, SameReads, Aims,
       Leaves, GoesOn, At, AnswerPlaced, RestButDrains, Rest, OnlyReturns, AnswerPostSame,
       Shaped, AnswerShaped, AnswerPcs
  <1>6. ASSUME NEW m \in Messages, PlaceNotice(m) PROVE AnswerPlaced'
    BY <1>6, PlaceNoticeMoves, Ids DEF Moved, SameAim, SameMarks, SameReads, Aims, Leaves,
       GoesOn, At, AnswerPlaced, RestButDrains, Rest, OnlyReturns, AnswerPostSame, Shaped,
       AnswerShaped, AnswerPcs
  <1>7. ASSUME NEW m \in Messages, PostNotice(m) PROVE AnswerPlaced'
    BY <1>7, PostNoticeMoves, Ids DEF Moved, SameAim, SameMarks, SameReads, Aims, Leaves,
       GoesOn, At, AnswerPlaced, RestButDrains, Rest, OnlyReturns, AnswerPostSame, Shaped,
       AnswerShaped, AnswerPcs
  <1>8. ASSUME NEW m \in Messages, RememberNotice(m) PROVE AnswerPlaced'
    BY <1>8, RememberNoticeMoves, Ids DEF Moved, SameAim, SameMarks, SameReads, Aims,
       Leaves, GoesOn, At, AnswerPlaced, RestButDrains, Rest, OnlyReturns, AnswerPostSame,
       Shaped, AnswerShaped, AnswerPcs
  <1>9. ASSUME NEW m \in Messages, ReleaseNoticeClaim(m) PROVE AnswerPlaced'
    BY <1>9, ReleaseNoticeClaimMoves, Ids DEF Moved, SameAim, SameMarks, SameReads, Aims,
       Leaves, GoesOn, At, AnswerPlaced, RestButDrains, Rest, OnlyReturns, AnswerPostSame,
       Shaped, AnswerShaped, AnswerPcs
  <1>10. ASSUME NEW m \in Messages, AwaitNotice(m) PROVE AnswerPlaced'
    BY <1>10, AwaitNoticeMoves, Ids DEF Moved, SameAim, SameMarks, SameReads, Aims, Leaves,
       GoesOn, At, AnswerPlaced, RestButDrains, Rest, OnlyReturns, AnswerPostSame, Shaped,
       AnswerShaped, AnswerPcs
  <1>11. ASSUME NEW r \in Readings, Begin(r) PROVE AnswerPlaced'
    BY <1>11, BeginMoves, Ids DEF Moved, SameAim, SameMarks, SameReads, Aims, Leaves,
       GoesOn, At, AnswerPlaced, RestButDrains, Rest, OnlyReturns, AnswerPostSame, Shaped,
       AnswerShaped, AnswerPcs
  <1>12. ASSUME NEW r \in Readings, ReadState(r) PROVE AnswerPlaced'
    BY <1>12, ReadStateMoves, Ids DEF Moved, SameAim, SameMarks, SameReads, Aims, Leaves,
       GoesOn, At, AnswerPlaced, RestButDrains, Rest, OnlyReturns, AnswerPostSame, Shaped,
       AnswerShaped, AnswerPcs
  <1>13. ASSUME NEW r \in Readings, AdvanceStage(r) PROVE AnswerPlaced'
    BY <1>13, AdvanceStageMoves, Ids DEF Moved, SameAim, SameMarks, SameReads, Aims, Leaves,
       GoesOn, At, AnswerPlaced, RestButDrains, Rest, OnlyReturns, AnswerPostSame, Shaped,
       AnswerShaped, AnswerPcs
  <1>14. ASSUME NEW r \in Readings, Judge(r) PROVE AnswerPlaced'
    BY <1>14, JudgeMoves, Ids DEF Moved, SameAim, SameMarks, SameReads, Aims, Leaves,
       GoesOn, At, AnswerPlaced, RestButDrains, Rest, OnlyReturns, AnswerPostSame, Shaped,
       AnswerShaped, AnswerPcs
  <1>15. ASSUME NEW r \in Readings, RecordFollowUps(r) PROVE AnswerPlaced'
    BY <1>15, RecordFollowUpsMoves, Ids DEF Moved, SameAim, SameMarks, SameReads, Aims,
       Leaves, GoesOn, At, AnswerPlaced, RestButDrains, Rest, OnlyReturns, AnswerPostSame,
       Shaped, AnswerShaped, AnswerPcs
  <1>16. ASSUME NEW r \in Readings, BeginNote(r) PROVE AnswerPlaced'
    BY <1>16, BeginNoteMoves, Ids DEF Moved, SameAim, SameMarks, SameReads, Aims, Leaves,
       GoesOn, At, AnswerPlaced, RestButDrains, Rest, OnlyReturns, AnswerPostSame, Shaped,
       AnswerShaped, AnswerPcs
  <1>17. ASSUME NEW r \in Readings, ReadBeforeClear(r) PROVE AnswerPlaced'
    BY <1>17, ReadBeforeClearMoves, Ids DEF Moved, SameAim, SameMarks, SameReads, Aims,
       Leaves, GoesOn, At, AnswerPlaced, RestButDrains, Rest, OnlyReturns, AnswerPostSame,
       Shaped, AnswerShaped, AnswerPcs
  <1>18. ASSUME NEW r \in Readings, ClearQueue(r) PROVE AnswerPlaced'
    BY <1>18, ClearQueueMoves, Ids DEF Moved, SameAim, SameMarks, SameReads, Aims, Leaves,
       GoesOn, At, AnswerPlaced, RestButDrains, Rest, OnlyReturns, AnswerPostSame, Shaped,
       AnswerShaped, AnswerPcs
  <1>19. ASSUME NEW r \in Readings, ReadQueueNow(r) PROVE AnswerPlaced'
    BY <1>19, ReadQueueNowMoves, Ids DEF Moved, SameAim, SameMarks, SameReads, Aims, Leaves,
       GoesOn, At, AnswerPlaced, RestButDrains, Rest, OnlyReturns, AnswerPostSame, Shaped,
       AnswerShaped, AnswerPcs
  <1>20. ASSUME NEW r \in Readings, CloseDrain(r) PROVE AnswerPlaced'
    BY <1>20, CloseDrainMoves, Ids DEF Moved, SameAim, SameMarks, SameReads, Aims, Leaves,
       GoesOn, At, AnswerPlaced, RestButDrains, Rest, OnlyReturns, AnswerPostSame, Shaped,
       AnswerShaped, AnswerPcs
  <1>21. ASSUME NEW r \in Readings, ReadingExit(r) PROVE AnswerPlaced'
    BY <1>21, ReadingExitMoves, Ids DEF Moved, SameAim, SameMarks, SameReads, Aims, Leaves,
       GoesOn, At, AnswerPlaced, RestButDrains, Rest, OnlyReturns, AnswerPostSame, Shaped,
       AnswerShaped, AnswerPcs
  <1>22. ASSUME LookAtPlaceholder PROVE AnswerPlaced'
    BY <1>22, LookAtPlaceholderMoves, Ids DEF Moved, SameAim, SameMarks, SameReads, Aims,
       Leaves, GoesOn, At, AnswerPlaced, RestButDrains, Rest, OnlyReturns, AnswerPostSame,
       Shaped, AnswerShaped, AnswerPcs
  <1>23. ASSUME FoldFollowUps PROVE AnswerPlaced'
    BY <1>23, FoldFollowUpsMoves, Ids DEF Moved, SameAim, SameMarks, SameReads, Aims,
       Leaves, GoesOn, At, AnswerPlaced, RestButDrains, Rest, OnlyReturns, AnswerPostSame,
       Shaped, AnswerShaped, AnswerPcs
  <1>24. ASSUME Deliver PROVE AnswerPlaced'
    BY <1>24, DeliverMoves, Ids DEF Moved, SameAim, SameMarks, SameReads, Aims, Leaves,
       GoesOn, At, AnswerPlaced, RestButDrains, Rest, OnlyReturns, AnswerPostSame, Shaped,
       AnswerShaped, AnswerPcs
  <1>25. ASSUME ForgetNotice PROVE AnswerPlaced'
    BY <1>25, ForgetNoticeMoves, Ids DEF Moved, SameAim, SameMarks, SameReads, Aims, Leaves,
       GoesOn, At, AnswerPlaced, RestButDrains, Rest, OnlyReturns, AnswerPostSame, Shaped,
       AnswerShaped, AnswerPcs
  <1>26. ASSUME AnswerExit PROVE AnswerPlaced'
    BY <1>26, AnswerExitMoves, Ids DEF Moved, SameAim, SameMarks, SameReads, Aims, Leaves,
       GoesOn, At, AnswerPlaced, RestButDrains, Rest, OnlyReturns, AnswerPostSame, Shaped,
       AnswerShaped, AnswerPcs
  <1>27. ASSUME ForgetSettled PROVE AnswerPlaced'
    BY <1>27, ForgetSettledMoves, Ids DEF Moved, SameAim, SameMarks, SameReads, Aims,
       Leaves, GoesOn, At, AnswerPlaced, RestButDrains, Rest, OnlyReturns, AnswerPostSame,
       Shaped, AnswerShaped, AnswerPcs
  <1>28. ASSUME NEW p \in Procs, ReadNotice(p) PROVE AnswerPlaced'
    BY <1>28, ReadNoticeMoves, Ids DEF Moved, SameAim, SameMarks, SameReads, Aims, Leaves,
       GoesOn, At, AnswerPlaced, RestButDrains, Rest, OnlyReturns, AnswerPostSame, Shaped,
       AnswerShaped, AnswerPcs
  <1>29. ASSUME NEW p \in Procs, WriteNotice(p) PROVE AnswerPlaced'
    <2>1. AnswerPostSame
      BY <1>29, WriteNoticeMoves DEF Rest, RestButDrains
    <2>2. CASE p = Answerer
      <3>1. run[p].job = "settle" /\ After(p) = "unpoint"
        BY <1>29, <2>2 DEF WriteNotice, At, Shaped, AnswerShaped, Writing, After
      <3>2. Moved(p, "unpoint")
        BY <1>29, <2>2, <3>1, Ids, WriteNoticeMoves
      <3>3. QED BY <2>2, <3>2 DEF Moved, AnswerPlaced, At
    <2>3. CASE p # Answerer
      <3>1. run'[Answerer] = run[Answerer]
        BY <1>29, <2>3, Ids, WriteNoticeMoves DEF Moved, Leaves
      <3>2. QED BY <2>1, <3>1 DEF AnswerPlaced, At, AnswerPostSame
    <2>4. QED BY <2>2, <2>3
  <1>30. QED
    BY <1>1, <1>2, <1>3, <1>4, <1>5, <1>6, <1>7, <1>8, <1>9, <1>10, <1>11, <1>12, <1>13,
       <1>14, <1>15, <1>16, <1>17, <1>18, <1>19, <1>20, <1>21, <1>22, <1>23, <1>24, <1>25,
       <1>26, <1>27, <1>28, <1>29 DEF Next, SenderStep, ReadingStep, AnswerStep

\* A sender that posted nothing was told.
LEMMA ReleaseKept ==
    ASSUME TypeOK, Shaped, ReleaseTold, Next
    PROVE  ReleaseTold'
  <1>1. ASSUME NEW m \in Messages, Enqueue(m) PROVE ReleaseTold'
    <2>1. told \subseteq told'
      BY <1>1, EnqueueMoves DEF Rest, RestButDrains
    <2>2. Moved(m, "drain") \/ Moved(m, "over")
      BY <1>1, EnqueueMoves DEF Leaves
    <2>3. QED BY <2>1, <2>2, Ids DEF ReleaseTold, Moved, At
  <1>2. ASSUME NEW m \in Messages, ClaimDrain(m) PROVE ReleaseTold'
    BY <1>2, ClaimDrainMoves, Ids DEF Moved, SameAim, SameMarks, SameReads, Aims, Leaves,
       GoesOn, At, ReleaseTold, RestButDrains, Rest, OnlyReturns
  <1>3. ASSUME NEW m \in Messages, CreateDrain(m) PROVE ReleaseTold'
    BY <1>3, CreateDrainMoves, Ids DEF Moved, SameAim, SameMarks, SameReads, Aims, Leaves,
       GoesOn, At, ReleaseTold, RestButDrains, Rest, OnlyReturns
  <1>4. ASSUME NEW m \in Messages, ClaimNotice(m) PROVE ReleaseTold'
    BY <1>4, ClaimNoticeMoves, Ids DEF Moved, SameAim, SameMarks, SameReads, Aims, Leaves,
       GoesOn, At, ReleaseTold, RestButDrains, Rest, OnlyReturns
  <1>5. ASSUME NEW m \in Messages, FindPlaceholder(m) PROVE ReleaseTold'
    BY <1>5, FindPlaceholderMoves, Ids DEF Moved, SameAim, SameMarks, SameReads, Aims,
       Leaves, GoesOn, At, ReleaseTold, RestButDrains, Rest, OnlyReturns
  <1>6. ASSUME NEW m \in Messages, PlaceNotice(m) PROVE ReleaseTold'
    BY <1>6, PlaceNoticeMoves, Ids DEF Moved, SameAim, SameMarks, SameReads, Aims, Leaves,
       GoesOn, At, ReleaseTold, RestButDrains, Rest, OnlyReturns
  <1>7. ASSUME NEW m \in Messages, PostNotice(m) PROVE ReleaseTold'
    BY <1>7, PostNoticeMoves, Ids DEF Moved, SameAim, SameMarks, SameReads, Aims, Leaves,
       GoesOn, At, ReleaseTold, RestButDrains, Rest, OnlyReturns
  <1>8. ASSUME NEW m \in Messages, RememberNotice(m) PROVE ReleaseTold'
    BY <1>8, RememberNoticeMoves, Ids DEF Moved, SameAim, SameMarks, SameReads, Aims,
       Leaves, GoesOn, At, ReleaseTold, RestButDrains, Rest, OnlyReturns
  <1>9. ASSUME NEW m \in Messages, ReleaseNoticeClaim(m) PROVE ReleaseTold'
    BY <1>9, ReleaseNoticeClaimMoves, Ids DEF Moved, SameAim, SameMarks, SameReads, Aims,
       Leaves, GoesOn, At, ReleaseTold, RestButDrains, Rest, OnlyReturns
  <1>10. ASSUME NEW m \in Messages, AwaitNotice(m) PROVE ReleaseTold'
    BY <1>10, AwaitNoticeMoves, Ids DEF Moved, SameAim, SameMarks, SameReads, Aims, Leaves,
       GoesOn, At, ReleaseTold, RestButDrains, Rest, OnlyReturns
  <1>11. ASSUME NEW r \in Readings, Begin(r) PROVE ReleaseTold'
    BY <1>11, BeginMoves, Ids DEF Moved, SameAim, SameMarks, SameReads, Aims, Leaves,
       GoesOn, At, ReleaseTold, RestButDrains, Rest, OnlyReturns
  <1>12. ASSUME NEW r \in Readings, ReadState(r) PROVE ReleaseTold'
    BY <1>12, ReadStateMoves, Ids DEF Moved, SameAim, SameMarks, SameReads, Aims, Leaves,
       GoesOn, At, ReleaseTold, RestButDrains, Rest, OnlyReturns
  <1>13. ASSUME NEW r \in Readings, AdvanceStage(r) PROVE ReleaseTold'
    BY <1>13, AdvanceStageMoves, Ids DEF Moved, SameAim, SameMarks, SameReads, Aims, Leaves,
       GoesOn, At, ReleaseTold, RestButDrains, Rest, OnlyReturns
  <1>14. ASSUME NEW r \in Readings, Judge(r) PROVE ReleaseTold'
    BY <1>14, JudgeMoves, Ids DEF Moved, SameAim, SameMarks, SameReads, Aims, Leaves,
       GoesOn, At, ReleaseTold, RestButDrains, Rest, OnlyReturns
  <1>15. ASSUME NEW r \in Readings, RecordFollowUps(r) PROVE ReleaseTold'
    BY <1>15, RecordFollowUpsMoves, Ids DEF Moved, SameAim, SameMarks, SameReads, Aims,
       Leaves, GoesOn, At, ReleaseTold, RestButDrains, Rest, OnlyReturns
  <1>16. ASSUME NEW r \in Readings, BeginNote(r) PROVE ReleaseTold'
    BY <1>16, BeginNoteMoves, Ids DEF Moved, SameAim, SameMarks, SameReads, Aims, Leaves,
       GoesOn, At, ReleaseTold, RestButDrains, Rest, OnlyReturns
  <1>17. ASSUME NEW r \in Readings, ReadBeforeClear(r) PROVE ReleaseTold'
    BY <1>17, ReadBeforeClearMoves, Ids DEF Moved, SameAim, SameMarks, SameReads, Aims,
       Leaves, GoesOn, At, ReleaseTold, RestButDrains, Rest, OnlyReturns
  <1>18. ASSUME NEW r \in Readings, ClearQueue(r) PROVE ReleaseTold'
    BY <1>18, ClearQueueMoves, Ids DEF Moved, SameAim, SameMarks, SameReads, Aims, Leaves,
       GoesOn, At, ReleaseTold, RestButDrains, Rest, OnlyReturns
  <1>19. ASSUME NEW r \in Readings, ReadQueueNow(r) PROVE ReleaseTold'
    BY <1>19, ReadQueueNowMoves, Ids DEF Moved, SameAim, SameMarks, SameReads, Aims, Leaves,
       GoesOn, At, ReleaseTold, RestButDrains, Rest, OnlyReturns
  <1>20. ASSUME NEW r \in Readings, CloseDrain(r) PROVE ReleaseTold'
    BY <1>20, CloseDrainMoves, Ids DEF Moved, SameAim, SameMarks, SameReads, Aims, Leaves,
       GoesOn, At, ReleaseTold, RestButDrains, Rest, OnlyReturns
  <1>21. ASSUME NEW r \in Readings, ReadingExit(r) PROVE ReleaseTold'
    BY <1>21, ReadingExitMoves, Ids DEF Moved, SameAim, SameMarks, SameReads, Aims, Leaves,
       GoesOn, At, ReleaseTold, RestButDrains, Rest, OnlyReturns
  <1>22. ASSUME LookAtPlaceholder PROVE ReleaseTold'
    BY <1>22, LookAtPlaceholderMoves, Ids DEF Moved, SameAim, SameMarks, SameReads, Aims,
       Leaves, GoesOn, At, ReleaseTold, RestButDrains, Rest, OnlyReturns
  <1>23. ASSUME FoldFollowUps PROVE ReleaseTold'
    BY <1>23, FoldFollowUpsMoves, Ids DEF Moved, SameAim, SameMarks, SameReads, Aims,
       Leaves, GoesOn, At, ReleaseTold, RestButDrains, Rest, OnlyReturns
  <1>24. ASSUME Deliver PROVE ReleaseTold'
    BY <1>24, DeliverMoves, Ids DEF Moved, SameAim, SameMarks, SameReads, Aims, Leaves,
       GoesOn, At, ReleaseTold, RestButDrains, Rest, OnlyReturns
  <1>25. ASSUME ForgetNotice PROVE ReleaseTold'
    BY <1>25, ForgetNoticeMoves, Ids DEF Moved, SameAim, SameMarks, SameReads, Aims, Leaves,
       GoesOn, At, ReleaseTold, RestButDrains, Rest, OnlyReturns
  <1>26. ASSUME AnswerExit PROVE ReleaseTold'
    BY <1>26, AnswerExitMoves, Ids DEF Moved, SameAim, SameMarks, SameReads, Aims, Leaves,
       GoesOn, At, ReleaseTold, RestButDrains, Rest, OnlyReturns
  <1>27. ASSUME ForgetSettled PROVE ReleaseTold'
    BY <1>27, ForgetSettledMoves, Ids DEF Moved, SameAim, SameMarks, SameReads, Aims,
       Leaves, GoesOn, At, ReleaseTold, RestButDrains, Rest, OnlyReturns
  <1>28. ASSUME NEW p \in Procs, ReadNotice(p) PROVE ReleaseTold'
    BY <1>28, ReadNoticeMoves, Ids DEF Moved, SameAim, SameMarks, SameReads, Aims, Leaves,
       GoesOn, At, ReleaseTold, RestButDrains, Rest, OnlyReturns
  <1>29. ASSUME NEW p \in Procs, WriteNotice(p) PROVE ReleaseTold'
    BY <1>29, WriteNoticeMoves, Ids DEF Moved, SameAim, SameMarks, SameReads, Aims, Leaves,
       GoesOn, At, ReleaseTold, RestButDrains, Rest, OnlyReturns, After, Shaped, SendersShaped,
       Writing, ReadingsShaped, AnswerShaped
  <1>30. QED
    BY <1>1, <1>2, <1>3, <1>4, <1>5, <1>6, <1>7, <1>8, <1>9, <1>10, <1>11, <1>12, <1>13,
       <1>14, <1>15, <1>16, <1>17, <1>18, <1>19, <1>20, <1>21, <1>22, <1>23, <1>24, <1>25,
       <1>26, <1>27, <1>28, <1>29 DEF Next, SenderStep, ReadingStep, AnswerStep

\* An excuse stays one.
LEMMA ExcusedKept ==
    ASSUME TypeOK, Shaped, AnswerPlaced, Excused, Next
    PROVE  Excused'
  <1>1. ASSUME NEW m \in Messages, Enqueue(m) PROVE Excused'
    BY <1>1, EnqueueMoves, Ids DEF Moved, SameAim, SameMarks, SameReads, Aims, Leaves,
       GoesOn, At, Excused, AnsweredInNotice, RestButDrains, Rest, OnlyReturns, AnswerPostSame
  <1>2. ASSUME NEW m \in Messages, ClaimDrain(m) PROVE Excused'
    BY <1>2, ClaimDrainMoves, Ids DEF Moved, SameAim, SameMarks, SameReads, Aims, Leaves,
       GoesOn, At, Excused, AnsweredInNotice, RestButDrains, Rest, OnlyReturns, AnswerPostSame
  <1>3. ASSUME NEW m \in Messages, CreateDrain(m) PROVE Excused'
    BY <1>3, CreateDrainMoves, Ids DEF Moved, SameAim, SameMarks, SameReads, Aims, Leaves,
       GoesOn, At, Excused, AnsweredInNotice, RestButDrains, Rest, OnlyReturns, AnswerPostSame
  <1>4. ASSUME NEW m \in Messages, ClaimNotice(m) PROVE Excused'
    BY <1>4, ClaimNoticeMoves, Ids DEF Moved, SameAim, SameMarks, SameReads, Aims, Leaves,
       GoesOn, At, Excused, AnsweredInNotice, RestButDrains, Rest, OnlyReturns, AnswerPostSame
  <1>5. ASSUME NEW m \in Messages, FindPlaceholder(m) PROVE Excused'
    BY <1>5, FindPlaceholderMoves, Ids DEF Moved, SameAim, SameMarks, SameReads, Aims,
       Leaves, GoesOn, At, Excused, AnsweredInNotice, RestButDrains, Rest, OnlyReturns,
       AnswerPostSame
  <1>6. ASSUME NEW m \in Messages, PlaceNotice(m) PROVE Excused'
    BY <1>6, PlaceNoticeMoves, Ids DEF Moved, SameAim, SameMarks, SameReads, Aims, Leaves,
       GoesOn, At, Excused, AnsweredInNotice, RestButDrains, Rest, OnlyReturns, AnswerPostSame
  <1>7. ASSUME NEW m \in Messages, PostNotice(m) PROVE Excused'
    BY <1>7, PostNoticeMoves, Ids DEF Moved, SameAim, SameMarks, SameReads, Aims, Leaves,
       GoesOn, At, Excused, AnsweredInNotice, RestButDrains, Rest, OnlyReturns, AnswerPostSame
  <1>8. ASSUME NEW m \in Messages, RememberNotice(m) PROVE Excused'
    BY <1>8, RememberNoticeMoves, Ids DEF Moved, SameAim, SameMarks, SameReads, Aims,
       Leaves, GoesOn, At, Excused, AnsweredInNotice, RestButDrains, Rest, OnlyReturns,
       AnswerPostSame
  <1>9. ASSUME NEW m \in Messages, ReleaseNoticeClaim(m) PROVE Excused'
    BY <1>9, ReleaseNoticeClaimMoves, Ids DEF Moved, SameAim, SameMarks, SameReads, Aims,
       Leaves, GoesOn, At, Excused, AnsweredInNotice, RestButDrains, Rest, OnlyReturns,
       AnswerPostSame
  <1>10. ASSUME NEW m \in Messages, AwaitNotice(m) PROVE Excused'
    BY <1>10, AwaitNoticeMoves, Ids DEF Moved, SameAim, SameMarks, SameReads, Aims, Leaves,
       GoesOn, At, Excused, AnsweredInNotice, RestButDrains, Rest, OnlyReturns, AnswerPostSame
  <1>11. ASSUME NEW r \in Readings, Begin(r) PROVE Excused'
    BY <1>11, BeginMoves, Ids DEF Moved, SameAim, SameMarks, SameReads, Aims, Leaves,
       GoesOn, At, Excused, AnsweredInNotice, RestButDrains, Rest, OnlyReturns, AnswerPostSame
  <1>12. ASSUME NEW r \in Readings, ReadState(r) PROVE Excused'
    BY <1>12, ReadStateMoves, Ids DEF Moved, SameAim, SameMarks, SameReads, Aims, Leaves,
       GoesOn, At, Excused, AnsweredInNotice, RestButDrains, Rest, OnlyReturns, AnswerPostSame
  <1>13. ASSUME NEW r \in Readings, AdvanceStage(r) PROVE Excused'
    BY <1>13, AdvanceStageMoves, Ids DEF Moved, SameAim, SameMarks, SameReads, Aims, Leaves,
       GoesOn, At, Excused, AnsweredInNotice, RestButDrains, Rest, OnlyReturns, AnswerPostSame
  <1>14. ASSUME NEW r \in Readings, Judge(r) PROVE Excused'
    BY <1>14, JudgeMoves, Ids DEF Moved, SameAim, SameMarks, SameReads, Aims, Leaves,
       GoesOn, At, Excused, AnsweredInNotice, RestButDrains, Rest, OnlyReturns, AnswerPostSame
  <1>15. ASSUME NEW r \in Readings, RecordFollowUps(r) PROVE Excused'
    BY <1>15, RecordFollowUpsMoves, Ids DEF Moved, SameAim, SameMarks, SameReads, Aims,
       Leaves, GoesOn, At, Excused, AnsweredInNotice, RestButDrains, Rest, OnlyReturns,
       AnswerPostSame
  <1>16. ASSUME NEW r \in Readings, BeginNote(r) PROVE Excused'
    BY <1>16, BeginNoteMoves, Ids DEF Moved, SameAim, SameMarks, SameReads, Aims, Leaves,
       GoesOn, At, Excused, AnsweredInNotice, RestButDrains, Rest, OnlyReturns, AnswerPostSame
  <1>17. ASSUME NEW r \in Readings, ReadBeforeClear(r) PROVE Excused'
    BY <1>17, ReadBeforeClearMoves, Ids DEF Moved, SameAim, SameMarks, SameReads, Aims,
       Leaves, GoesOn, At, Excused, AnsweredInNotice, RestButDrains, Rest, OnlyReturns,
       AnswerPostSame
  <1>18. ASSUME NEW r \in Readings, ClearQueue(r) PROVE Excused'
    BY <1>18, ClearQueueMoves, Ids DEF Moved, SameAim, SameMarks, SameReads, Aims, Leaves,
       GoesOn, At, Excused, AnsweredInNotice, RestButDrains, Rest, OnlyReturns, AnswerPostSame
  <1>19. ASSUME NEW r \in Readings, ReadQueueNow(r) PROVE Excused'
    BY <1>19, ReadQueueNowMoves, Ids DEF Moved, SameAim, SameMarks, SameReads, Aims, Leaves,
       GoesOn, At, Excused, AnsweredInNotice, RestButDrains, Rest, OnlyReturns, AnswerPostSame
  <1>20. ASSUME NEW r \in Readings, CloseDrain(r) PROVE Excused'
    BY <1>20, CloseDrainMoves, Ids DEF Moved, SameAim, SameMarks, SameReads, Aims, Leaves,
       GoesOn, At, Excused, AnsweredInNotice, RestButDrains, Rest, OnlyReturns, AnswerPostSame
  <1>21. ASSUME NEW r \in Readings, ReadingExit(r) PROVE Excused'
    BY <1>21, ReadingExitMoves, Ids DEF Moved, SameAim, SameMarks, SameReads, Aims, Leaves,
       GoesOn, At, Excused, AnsweredInNotice, RestButDrains, Rest, OnlyReturns, AnswerPostSame,
       Returns
  <1>22. ASSUME LookAtPlaceholder PROVE Excused'
    BY <1>22, LookAtPlaceholderMoves, Ids DEF Moved, SameAim, SameMarks, SameReads, Aims,
       Leaves, GoesOn, At, Excused, AnsweredInNotice, RestButDrains, Rest, OnlyReturns,
       AnswerPostSame, AnswerPlaced
  <1>23. ASSUME FoldFollowUps PROVE Excused'
    BY <1>23, FoldFollowUpsMoves, Ids DEF Moved, SameAim, SameMarks, SameReads, Aims,
       Leaves, GoesOn, At, Excused, AnsweredInNotice, RestButDrains, Rest, OnlyReturns,
       AnswerPostSame
  <1>24. ASSUME Deliver PROVE Excused'
    BY <1>24, DeliverMoves, Ids DEF Moved, SameAim, SameMarks, SameReads, Aims, Leaves,
       GoesOn, At, Excused, AnsweredInNotice, RestButDrains, Rest, OnlyReturns, AnswerPostSame
  <1>25. ASSUME ForgetNotice PROVE Excused'
    BY <1>25, ForgetNoticeMoves, Ids DEF Moved, SameAim, SameMarks, SameReads, Aims, Leaves,
       GoesOn, At, Excused, AnsweredInNotice, RestButDrains, Rest, OnlyReturns, AnswerPostSame
  <1>26. ASSUME AnswerExit PROVE Excused'
    BY <1>26, AnswerExitMoves, Ids DEF Moved, SameAim, SameMarks, SameReads, Aims, Leaves,
       GoesOn, At, Excused, AnsweredInNotice, RestButDrains, Rest, OnlyReturns, AnswerPostSame,
       Returns
  <1>27. ASSUME ForgetSettled PROVE Excused'
    BY <1>27, ForgetSettledMoves, Ids DEF Moved, SameAim, SameMarks, SameReads, Aims,
       Leaves, GoesOn, At, Excused, AnsweredInNotice, RestButDrains, Rest, OnlyReturns,
       AnswerPostSame
  <1>28. ASSUME NEW p \in Procs, ReadNotice(p) PROVE Excused'
    BY <1>28, ReadNoticeMoves, Ids DEF Moved, SameAim, SameMarks, SameReads, Aims, Leaves,
       GoesOn, At, Excused, AnsweredInNotice, RestButDrains, Rest, OnlyReturns, AnswerPostSame
  <1>29. ASSUME NEW p \in Procs, WriteNotice(p) PROVE Excused'
    <2>1. told \subseteq told' /\ says'[AnswerPost] = says[AnswerPost]
      BY <1>29, WriteNoticeMoves DEF Rest, RestButDrains, AnswerPostSame
    <2>2. \A m \in Messages : run[m].blind => run'[m].blind
      BY <1>29, WriteNoticeMoves, Ids DEF Leaves, Moved, SameMarks
    <2>3. AnsweredInNotice => AnsweredInNotice'
      <3>1. CASE p = Answerer
        <4>1. run[p].job = "settle" /\ p \notin Messages
          BY <1>29, <3>1, WriteNoticeMoves, Ids DEF Shaped, AnswerShaped, Writing, At
        <4>2. Moved(p, "unpoint")
          BY <1>29, <3>1, <4>1, WriteNoticeMoves DEF After
        <4>3. QED BY <2>1, <3>1, <4>2 DEF AnsweredInNotice, Moved
      <3>2. CASE p # Answerer
        <4>1. run'[Answerer] = run[Answerer]
          BY <1>29, <3>2, WriteNoticeMoves, Ids DEF Leaves, Moved
        <4>2. QED BY <2>1, <4>1 DEF AnsweredInNotice
      <3>3. QED BY <3>1, <3>2
    <2>4. QED BY <2>1, <2>2, <2>3 DEF Excused
  <1>30. QED
    BY <1>1, <1>2, <1>3, <1>4, <1>5, <1>6, <1>7, <1>8, <1>9, <1>10, <1>11, <1>12, <1>13,
       <1>14, <1>15, <1>16, <1>17, <1>18, <1>19, <1>20, <1>21, <1>22, <1>23, <1>24, <1>25,
       <1>26, <1>27, <1>28, <1>29 DEF Next, SenderStep, ReadingStep, AnswerStep

\* The pointer goes with the last queued message, or with an excuse.
LEMMA InformedKept ==
    ASSUME TypeOK, Shaped, AnswerPlaced, ReleaseTold, InformedOwned, Next
    PROVE  InformedOwned'
  <1>0. rec.queued \subseteq Messages /\ (Excused => Excused')
    BY ExcusedKept, Typed DEF RecTyped
  <1>1. ASSUME NEW m \in Messages, Enqueue(m) PROVE InformedOwned'
    <2>1. CASE /\ Moved(m, "drain") /\ run'[m].notice = Shown(rec.pointer)
               /\ rec'.queued = rec.queued \cup {m} /\ rec'.pointer = rec.pointer
      <3>1. rec.pointer = NoOne => Shown(rec.pointer) = NoOne
        BY ShownIs DEF Shaped
      <3>2. \A n \in Messages : n # m => run'[n] = run[n]
        BY <2>1, Ids DEF Moved
      <3>3. returned' = returned
        BY <1>1, EnqueueMoves DEF Rest, RestButDrains
      <3>4. QED BY <1>0, <2>1, <3>1, <3>2, <3>3 DEF InformedOwned, Informed, Moved
    <2>2. CASE told' # {}
      <3>1. told' # {}
        BY <2>2
      <3>2. QED BY <3>1 DEF InformedOwned, Excused
    <2>3. QED BY <1>1, <2>1, <2>2, EnqueueMoves DEF RecIs
  <1>2. ASSUME NEW m \in Messages, ClaimDrain(m) PROVE InformedOwned'
    BY <1>2, ClaimDrainMoves, Ids, <1>0 DEF Moved, SameAim, SameMarks, SameReads, Aims,
       Leaves, GoesOn, At, InformedOwned, ReleaseTold, Informed, RestButDrains, Rest,
       OnlyReturns, RecIs, Returns
  <1>3. ASSUME NEW m \in Messages, CreateDrain(m) PROVE InformedOwned'
    BY <1>3, CreateDrainMoves, Ids, <1>0 DEF Moved, SameAim, SameMarks, SameReads, Aims,
       Leaves, GoesOn, At, InformedOwned, ReleaseTold, Informed, RestButDrains, Rest,
       OnlyReturns, RecIs, Returns
  <1>4. ASSUME NEW m \in Messages, ClaimNotice(m) PROVE InformedOwned'
    BY <1>4, ClaimNoticeMoves, Ids, <1>0 DEF Moved, SameAim, SameMarks, SameReads, Aims,
       Leaves, GoesOn, At, InformedOwned, ReleaseTold, Informed, RestButDrains, Rest,
       OnlyReturns, RecIs, Returns, Excused
  <1>5. ASSUME NEW m \in Messages, FindPlaceholder(m) PROVE InformedOwned'
    BY <1>5, FindPlaceholderMoves, Ids, <1>0 DEF Moved, SameAim, SameMarks, SameReads, Aims,
       Leaves, GoesOn, At, InformedOwned, ReleaseTold, Informed, RestButDrains, Rest,
       OnlyReturns, RecIs, Returns
  <1>6. ASSUME NEW m \in Messages, PlaceNotice(m) PROVE InformedOwned'
    BY <1>6, PlaceNoticeMoves, Ids, <1>0 DEF Moved, SameAim, SameMarks, SameReads, Aims,
       Leaves, GoesOn, At, InformedOwned, ReleaseTold, Informed, RestButDrains, Rest,
       OnlyReturns, RecIs, Returns
  <1>7. ASSUME NEW m \in Messages, PostNotice(m) PROVE InformedOwned'
    BY <1>7, PostNoticeMoves, Ids, <1>0 DEF Moved, SameAim, SameMarks, SameReads, Aims,
       Leaves, GoesOn, At, InformedOwned, ReleaseTold, Informed, RestButDrains, Rest,
       OnlyReturns, RecIs, Returns
  <1>8. ASSUME NEW m \in Messages, RememberNotice(m) PROVE InformedOwned'
    <2>1. \A n \in Messages : n # m => run'[n] = run[n]
      BY <1>8, RememberNoticeMoves, Ids DEF Leaves, Moved
    <2>2. rec'.queued = rec.queued /\ returned' = returned /\ Informed(m)
      BY <1>8, RememberNoticeMoves DEF RecIs, Rest, RestButDrains, At, Informed
    <2>3. rec'.pointer = rec.pointer \/ rec'.pointer # NoOne
      <3>1. run[m].target # NoOne
        BY <1>8, Ids DEF RememberNotice, At, Shaped, SendersShaped
      <3>2. QED BY <1>8, <3>1, RememberNoticeMoves DEF RecIs
    <2>4. QED BY <1>0, <2>1, <2>2, <2>3 DEF InformedOwned, Informed
  <1>9. ASSUME NEW m \in Messages, ReleaseNoticeClaim(m) PROVE InformedOwned'
    <2>1. told' # {}
      BY <1>9, ReleaseNoticeClaimMoves DEF At, ReleaseTold, Rest, RestButDrains
    <2>2. QED BY <2>1 DEF InformedOwned, Excused
  <1>10. ASSUME NEW m \in Messages, AwaitNotice(m) PROVE InformedOwned'
    BY <1>10, AwaitNoticeMoves, Ids, <1>0 DEF Moved, SameAim, SameMarks, SameReads, Aims,
       Leaves, GoesOn, At, InformedOwned, ReleaseTold, Informed, RestButDrains, Rest,
       OnlyReturns, RecIs, Returns
  <1>11. ASSUME NEW r \in Readings, Begin(r) PROVE InformedOwned'
    BY <1>11, BeginMoves, Ids, <1>0 DEF Moved, SameAim, SameMarks, SameReads, Aims, Leaves,
       GoesOn, At, InformedOwned, ReleaseTold, Informed, RestButDrains, Rest, OnlyReturns,
       RecIs, Returns
  <1>12. ASSUME NEW r \in Readings, ReadState(r) PROVE InformedOwned'
    BY <1>12, ReadStateMoves, Ids, <1>0 DEF Moved, SameAim, SameMarks, SameReads, Aims,
       Leaves, GoesOn, At, InformedOwned, ReleaseTold, Informed, RestButDrains, Rest,
       OnlyReturns, RecIs, Returns
  <1>13. ASSUME NEW r \in Readings, AdvanceStage(r) PROVE InformedOwned'
    BY <1>13, AdvanceStageMoves, Ids, <1>0 DEF Moved, SameAim, SameMarks, SameReads, Aims,
       Leaves, GoesOn, At, InformedOwned, ReleaseTold, Informed, RestButDrains, Rest,
       OnlyReturns, RecIs, Returns
  <1>14. ASSUME NEW r \in Readings, Judge(r) PROVE InformedOwned'
    BY <1>14, JudgeMoves, Ids, <1>0 DEF Moved, SameAim, SameMarks, SameReads, Aims, Leaves,
       GoesOn, At, InformedOwned, ReleaseTold, Informed, RestButDrains, Rest, OnlyReturns,
       RecIs, Returns
  <1>15. ASSUME NEW r \in Readings, RecordFollowUps(r) PROVE InformedOwned'
    BY <1>15, RecordFollowUpsMoves, Ids, <1>0 DEF Moved, SameAim, SameMarks, SameReads,
       Aims, Leaves, GoesOn, At, InformedOwned, ReleaseTold, Informed, RestButDrains, Rest,
       OnlyReturns, RecIs, Returns
  <1>16. ASSUME NEW r \in Readings, BeginNote(r) PROVE InformedOwned'
    BY <1>16, BeginNoteMoves, Ids, <1>0 DEF Moved, SameAim, SameMarks, SameReads, Aims,
       Leaves, GoesOn, At, InformedOwned, ReleaseTold, Informed, RestButDrains, Rest,
       OnlyReturns, RecIs, Returns
  <1>17. ASSUME NEW r \in Readings, ReadBeforeClear(r) PROVE InformedOwned'
    BY <1>17, ReadBeforeClearMoves, Ids, <1>0 DEF Moved, SameAim, SameMarks, SameReads,
       Aims, Leaves, GoesOn, At, InformedOwned, ReleaseTold, Informed, RestButDrains, Rest,
       OnlyReturns, RecIs, Returns
  <1>18. ASSUME NEW r \in Readings, ClearQueue(r) PROVE InformedOwned'
    BY <1>18, ClearQueueMoves, Ids, <1>0 DEF Moved, SameAim, SameMarks, SameReads, Aims,
       Leaves, GoesOn, At, InformedOwned, ReleaseTold, Informed, RestButDrains, Rest,
       OnlyReturns, RecIs, Returns
  <1>19. ASSUME NEW r \in Readings, ReadQueueNow(r) PROVE InformedOwned'
    BY <1>19, ReadQueueNowMoves, Ids, <1>0 DEF Moved, SameAim, SameMarks, SameReads, Aims,
       Leaves, GoesOn, At, InformedOwned, ReleaseTold, Informed, RestButDrains, Rest,
       OnlyReturns, RecIs, Returns
  <1>20. ASSUME NEW r \in Readings, CloseDrain(r) PROVE InformedOwned'
    BY <1>20, CloseDrainMoves, Ids, <1>0 DEF Moved, SameAim, SameMarks, SameReads, Aims,
       Leaves, GoesOn, At, InformedOwned, ReleaseTold, Informed, RestButDrains, Rest,
       OnlyReturns, RecIs, Returns
  <1>21. ASSUME NEW r \in Readings, ReadingExit(r) PROVE InformedOwned'
    BY <1>21, ReadingExitMoves, Ids, <1>0 DEF Moved, SameAim, SameMarks, SameReads, Aims,
       Leaves, GoesOn, At, InformedOwned, ReleaseTold, Informed, RestButDrains, Rest,
       OnlyReturns, RecIs, Returns
  <1>22. ASSUME LookAtPlaceholder PROVE InformedOwned'
    BY <1>22, LookAtPlaceholderMoves, Ids, <1>0 DEF Moved, SameAim, SameMarks, SameReads,
       Aims, Leaves, GoesOn, At, InformedOwned, ReleaseTold, Informed, RestButDrains, Rest,
       OnlyReturns, RecIs, Returns
  <1>23. ASSUME FoldFollowUps PROVE InformedOwned'
    BY <1>23, FoldFollowUpsMoves, Ids, <1>0 DEF Moved, SameAim, SameMarks, SameReads, Aims,
       Leaves, GoesOn, At, InformedOwned, ReleaseTold, Informed, RestButDrains, Rest,
       OnlyReturns, RecIs, Returns
  <1>24. ASSUME Deliver PROVE InformedOwned'
    BY <1>24, DeliverMoves, Ids, <1>0 DEF Moved, SameAim, SameMarks, SameReads, Aims,
       Leaves, GoesOn, At, InformedOwned, ReleaseTold, Informed, RestButDrains, Rest,
       OnlyReturns, RecIs, Returns
  <1>25. ASSUME ForgetNotice PROVE InformedOwned'
    <2>1. AnsweredInNotice'
      BY <1>25, ForgetNoticeMoves DEF AnswerPlaced, AnsweredInNotice, Moved, Rest,
         RestButDrains, AnswerPostSame, At
    <2>2. Excused'
      BY <2>1 DEF Excused
    <2>3. QED BY <2>2 DEF InformedOwned
  <1>26. ASSUME AnswerExit PROVE InformedOwned'
    BY <1>26, AnswerExitMoves, Ids, <1>0 DEF Moved, SameAim, SameMarks, SameReads, Aims,
       Leaves, GoesOn, At, InformedOwned, ReleaseTold, Informed, RestButDrains, Rest,
       OnlyReturns, RecIs, Returns
  <1>27. ASSUME ForgetSettled PROVE InformedOwned'
    BY <1>27, ForgetSettledMoves, Ids, <1>0 DEF Moved, SameAim, SameMarks, SameReads, Aims,
       Leaves, GoesOn, At, InformedOwned, ReleaseTold, Informed, RestButDrains, Rest,
       OnlyReturns, RecIs, Returns
  <1>28. ASSUME NEW p \in Procs, ReadNotice(p) PROVE InformedOwned'
    BY <1>28, ReadNoticeMoves, Ids, <1>0 DEF Moved, SameAim, SameMarks, SameReads, Aims,
       Leaves, GoesOn, At, InformedOwned, ReleaseTold, Informed, RestButDrains, Rest,
       OnlyReturns, RecIs, Returns
  <1>29. ASSUME NEW p \in Procs, WriteNotice(p) PROVE InformedOwned'
    BY <1>29, WriteNoticeMoves, Ids, <1>0 DEF Moved, SameAim, SameMarks, SameReads, Aims,
       Leaves, GoesOn, At, InformedOwned, ReleaseTold, Informed, RestButDrains, Rest,
       OnlyReturns, RecIs, Returns
  <1>30. QED
    BY <1>1, <1>2, <1>3, <1>4, <1>5, <1>6, <1>7, <1>8, <1>9, <1>10, <1>11, <1>12, <1>13,
       <1>14, <1>15, <1>16, <1>17, <1>18, <1>19, <1>20, <1>21, <1>22, <1>23, <1>24, <1>25,
       <1>26, <1>27, <1>28, <1>29 DEF Next, SenderStep, ReadingStep, AnswerStep

\* A drain id is written by its sender only.
LEMMA OpenedKept ==
    ASSUME TypeOK, Shaped, DrainsOpened, Next
    PROVE  DrainsOpened'
  <1>0. rec.queued \subseteq Messages /\ rec.followUps \subseteq Messages
       /\ drains \in [Messages -> {"none", "open", "closed"}]
       /\ rec.drainId \in Messages \cup {NoOne}
    BY Typed DEF RecTyped
  <1>1. ASSUME NEW m \in Messages, Enqueue(m) PROVE DrainsOpened'
    BY <1>1, EnqueueMoves, Ids, <1>0 DEF Moved, SameAim, SameMarks, SameReads, Aims, Leaves,
       GoesOn, At, DrainsOpened, RestButDrains, Rest, OnlyReturns, RecIs, Returns
  <1>2. ASSUME NEW m \in Messages, ClaimDrain(m) PROVE DrainsOpened'
    BY <1>2, ClaimDrainMoves, Ids, <1>0 DEF Moved, SameAim, SameMarks, SameReads, Aims,
       Leaves, GoesOn, At, DrainsOpened, RestButDrains, Rest, OnlyReturns, RecIs, Returns
  <1>3. ASSUME NEW m \in Messages, CreateDrain(m) PROVE DrainsOpened'
    BY <1>3, CreateDrainMoves, Ids, <1>0 DEF Moved, SameAim, SameMarks, SameReads, Aims,
       Leaves, GoesOn, At, DrainsOpened, RestButDrains, Rest, OnlyReturns, RecIs, Returns
  <1>4. ASSUME NEW m \in Messages, ClaimNotice(m) PROVE DrainsOpened'
    BY <1>4, ClaimNoticeMoves, Ids, <1>0 DEF Moved, SameAim, SameMarks, SameReads, Aims,
       Leaves, GoesOn, At, DrainsOpened, RestButDrains, Rest, OnlyReturns, RecIs, Returns
  <1>5. ASSUME NEW m \in Messages, FindPlaceholder(m) PROVE DrainsOpened'
    BY <1>5, FindPlaceholderMoves, Ids, <1>0 DEF Moved, SameAim, SameMarks, SameReads, Aims,
       Leaves, GoesOn, At, DrainsOpened, RestButDrains, Rest, OnlyReturns, RecIs, Returns
  <1>6. ASSUME NEW m \in Messages, PlaceNotice(m) PROVE DrainsOpened'
    BY <1>6, PlaceNoticeMoves, Ids, <1>0 DEF Moved, SameAim, SameMarks, SameReads, Aims,
       Leaves, GoesOn, At, DrainsOpened, RestButDrains, Rest, OnlyReturns, RecIs, Returns
  <1>7. ASSUME NEW m \in Messages, PostNotice(m) PROVE DrainsOpened'
    BY <1>7, PostNoticeMoves, Ids, <1>0 DEF Moved, SameAim, SameMarks, SameReads, Aims,
       Leaves, GoesOn, At, DrainsOpened, RestButDrains, Rest, OnlyReturns, RecIs, Returns
  <1>8. ASSUME NEW m \in Messages, RememberNotice(m) PROVE DrainsOpened'
    BY <1>8, RememberNoticeMoves, Ids, <1>0 DEF Moved, SameAim, SameMarks, SameReads, Aims,
       Leaves, GoesOn, At, DrainsOpened, RestButDrains, Rest, OnlyReturns, RecIs, Returns
  <1>9. ASSUME NEW m \in Messages, ReleaseNoticeClaim(m) PROVE DrainsOpened'
    BY <1>9, ReleaseNoticeClaimMoves, Ids, <1>0 DEF Moved, SameAim, SameMarks, SameReads,
       Aims, Leaves, GoesOn, At, DrainsOpened, RestButDrains, Rest, OnlyReturns, RecIs, Returns
  <1>10. ASSUME NEW m \in Messages, AwaitNotice(m) PROVE DrainsOpened'
    BY <1>10, AwaitNoticeMoves, Ids, <1>0 DEF Moved, SameAim, SameMarks, SameReads, Aims,
       Leaves, GoesOn, At, DrainsOpened, RestButDrains, Rest, OnlyReturns, RecIs, Returns
  <1>11. ASSUME NEW r \in Readings, Begin(r) PROVE DrainsOpened'
    BY <1>11, BeginMoves, Ids, <1>0 DEF Moved, SameAim, SameMarks, SameReads, Aims, Leaves,
       GoesOn, At, DrainsOpened, RestButDrains, Rest, OnlyReturns, RecIs, Returns
  <1>12. ASSUME NEW r \in Readings, ReadState(r) PROVE DrainsOpened'
    BY <1>12, ReadStateMoves, Ids, <1>0 DEF Moved, SameAim, SameMarks, SameReads, Aims,
       Leaves, GoesOn, At, DrainsOpened, RestButDrains, Rest, OnlyReturns, RecIs, Returns
  <1>13. ASSUME NEW r \in Readings, AdvanceStage(r) PROVE DrainsOpened'
    BY <1>13, AdvanceStageMoves, Ids, <1>0 DEF Moved, SameAim, SameMarks, SameReads, Aims,
       Leaves, GoesOn, At, DrainsOpened, RestButDrains, Rest, OnlyReturns, RecIs, Returns
  <1>14. ASSUME NEW r \in Readings, Judge(r) PROVE DrainsOpened'
    BY <1>14, JudgeMoves, Ids, <1>0 DEF Moved, SameAim, SameMarks, SameReads, Aims, Leaves,
       GoesOn, At, DrainsOpened, RestButDrains, Rest, OnlyReturns, RecIs, Returns
  <1>15. ASSUME NEW r \in Readings, RecordFollowUps(r) PROVE DrainsOpened'
    BY <1>15, RecordFollowUpsMoves, Ids, <1>0 DEF Moved, SameAim, SameMarks, SameReads,
       Aims, Leaves, GoesOn, At, DrainsOpened, RestButDrains, Rest, OnlyReturns, RecIs, Returns
  <1>16. ASSUME NEW r \in Readings, BeginNote(r) PROVE DrainsOpened'
    BY <1>16, BeginNoteMoves, Ids, <1>0 DEF Moved, SameAim, SameMarks, SameReads, Aims,
       Leaves, GoesOn, At, DrainsOpened, RestButDrains, Rest, OnlyReturns, RecIs, Returns
  <1>17. ASSUME NEW r \in Readings, ReadBeforeClear(r) PROVE DrainsOpened'
    BY <1>17, ReadBeforeClearMoves, Ids, <1>0 DEF Moved, SameAim, SameMarks, SameReads,
       Aims, Leaves, GoesOn, At, DrainsOpened, RestButDrains, Rest, OnlyReturns, RecIs, Returns
  <1>18. ASSUME NEW r \in Readings, ClearQueue(r) PROVE DrainsOpened'
    BY <1>18, ClearQueueMoves, Ids, <1>0 DEF Moved, SameAim, SameMarks, SameReads, Aims,
       Leaves, GoesOn, At, DrainsOpened, RestButDrains, Rest, OnlyReturns, RecIs, Returns
  <1>19. ASSUME NEW r \in Readings, ReadQueueNow(r) PROVE DrainsOpened'
    BY <1>19, ReadQueueNowMoves, Ids, <1>0 DEF Moved, SameAim, SameMarks, SameReads, Aims,
       Leaves, GoesOn, At, DrainsOpened, RestButDrains, Rest, OnlyReturns, RecIs, Returns
  <1>20. ASSUME NEW r \in Readings, CloseDrain(r) PROVE DrainsOpened'
    BY <1>20, CloseDrainMoves, Ids, <1>0 DEF Moved, SameAim, SameMarks, SameReads, Aims,
       Leaves, GoesOn, At, DrainsOpened, RestButDrains, Rest, OnlyReturns, RecIs, Returns
  <1>21. ASSUME NEW r \in Readings, ReadingExit(r) PROVE DrainsOpened'
    BY <1>21, ReadingExitMoves, Ids, <1>0 DEF Moved, SameAim, SameMarks, SameReads, Aims,
       Leaves, GoesOn, At, DrainsOpened, RestButDrains, Rest, OnlyReturns, RecIs, Returns
  <1>22. ASSUME LookAtPlaceholder PROVE DrainsOpened'
    BY <1>22, LookAtPlaceholderMoves, Ids, <1>0 DEF Moved, SameAim, SameMarks, SameReads,
       Aims, Leaves, GoesOn, At, DrainsOpened, RestButDrains, Rest, OnlyReturns, RecIs, Returns
  <1>23. ASSUME FoldFollowUps PROVE DrainsOpened'
    BY <1>23, FoldFollowUpsMoves, Ids, <1>0 DEF Moved, SameAim, SameMarks, SameReads, Aims,
       Leaves, GoesOn, At, DrainsOpened, RestButDrains, Rest, OnlyReturns, RecIs, Returns
  <1>24. ASSUME Deliver PROVE DrainsOpened'
    BY <1>24, DeliverMoves, Ids, <1>0 DEF Moved, SameAim, SameMarks, SameReads, Aims,
       Leaves, GoesOn, At, DrainsOpened, RestButDrains, Rest, OnlyReturns, RecIs, Returns
  <1>25. ASSUME ForgetNotice PROVE DrainsOpened'
    BY <1>25, ForgetNoticeMoves, Ids, <1>0 DEF Moved, SameAim, SameMarks, SameReads, Aims,
       Leaves, GoesOn, At, DrainsOpened, RestButDrains, Rest, OnlyReturns, RecIs, Returns
  <1>26. ASSUME AnswerExit PROVE DrainsOpened'
    BY <1>26, AnswerExitMoves, Ids, <1>0 DEF Moved, SameAim, SameMarks, SameReads, Aims,
       Leaves, GoesOn, At, DrainsOpened, RestButDrains, Rest, OnlyReturns, RecIs, Returns
  <1>27. ASSUME ForgetSettled PROVE DrainsOpened'
    BY <1>27, ForgetSettledMoves, Ids, <1>0 DEF Moved, SameAim, SameMarks, SameReads, Aims,
       Leaves, GoesOn, At, DrainsOpened, RestButDrains, Rest, OnlyReturns, RecIs, Returns
  <1>28. ASSUME NEW p \in Procs, ReadNotice(p) PROVE DrainsOpened'
    BY <1>28, ReadNoticeMoves, Ids, <1>0 DEF Moved, SameAim, SameMarks, SameReads, Aims,
       Leaves, GoesOn, At, DrainsOpened, RestButDrains, Rest, OnlyReturns, RecIs, Returns
  <1>29. ASSUME NEW p \in Procs, WriteNotice(p) PROVE DrainsOpened'
    BY <1>29, WriteNoticeMoves, Ids, <1>0 DEF Moved, SameAim, SameMarks, SameReads, Aims,
       Leaves, GoesOn, At, DrainsOpened, RestButDrains, Rest, OnlyReturns, RecIs, Returns,
       After
  <1>30. QED
    BY <1>1, <1>2, <1>3, <1>4, <1>5, <1>6, <1>7, <1>8, <1>9, <1>10, <1>11, <1>12, <1>13,
       <1>14, <1>15, <1>16, <1>17, <1>18, <1>19, <1>20, <1>21, <1>22, <1>23, <1>24, <1>25,
       <1>26, <1>27, <1>28, <1>29 DEF Next, SenderStep, ReadingStep, AnswerStep

\* A drain ends when nothing is queued.
LEMMA JoinedKept ==
    ASSUME TypeOK, Shaped, DrainsOpened, DrainJoined, Next
    PROVE  DrainJoined'
  <1>0. rec.queued \subseteq Messages /\ rec.followUps \subseteq Messages
       /\ drains \in [Messages -> {"none", "open", "closed"}]
       /\ rec.drainId \in Messages \cup {NoOne}
    BY Typed DEF RecTyped
  <1>1. ASSUME NEW m \in Messages, Enqueue(m) PROVE DrainJoined'
    BY <1>1, EnqueueMoves, Ids, <1>0 DEF Moved, SameAim, SameMarks, SameReads, Aims, Leaves,
       GoesOn, At, DrainJoined, RestButDrains, Rest, OnlyReturns, RecIs, Returns, DrainsOpened
  <1>2. ASSUME NEW m \in Messages, ClaimDrain(m) PROVE DrainJoined'
    BY <1>2, ClaimDrainMoves, Ids, <1>0 DEF Moved, SameAim, SameMarks, SameReads, Aims,
       Leaves, GoesOn, At, DrainJoined, RestButDrains, Rest, OnlyReturns, RecIs, Returns,
       DrainsOpened
  <1>3. ASSUME NEW m \in Messages, CreateDrain(m) PROVE DrainJoined'
    BY <1>3, CreateDrainMoves, Ids, <1>0 DEF Moved, SameAim, SameMarks, SameReads, Aims,
       Leaves, GoesOn, At, DrainJoined, RestButDrains, Rest, OnlyReturns, RecIs, Returns
  <1>4. ASSUME NEW m \in Messages, ClaimNotice(m) PROVE DrainJoined'
    BY <1>4, ClaimNoticeMoves, Ids, <1>0 DEF Moved, SameAim, SameMarks, SameReads, Aims,
       Leaves, GoesOn, At, DrainJoined, RestButDrains, Rest, OnlyReturns, RecIs, Returns
  <1>5. ASSUME NEW m \in Messages, FindPlaceholder(m) PROVE DrainJoined'
    BY <1>5, FindPlaceholderMoves, Ids, <1>0 DEF Moved, SameAim, SameMarks, SameReads, Aims,
       Leaves, GoesOn, At, DrainJoined, RestButDrains, Rest, OnlyReturns, RecIs, Returns
  <1>6. ASSUME NEW m \in Messages, PlaceNotice(m) PROVE DrainJoined'
    BY <1>6, PlaceNoticeMoves, Ids, <1>0 DEF Moved, SameAim, SameMarks, SameReads, Aims,
       Leaves, GoesOn, At, DrainJoined, RestButDrains, Rest, OnlyReturns, RecIs, Returns
  <1>7. ASSUME NEW m \in Messages, PostNotice(m) PROVE DrainJoined'
    BY <1>7, PostNoticeMoves, Ids, <1>0 DEF Moved, SameAim, SameMarks, SameReads, Aims,
       Leaves, GoesOn, At, DrainJoined, RestButDrains, Rest, OnlyReturns, RecIs, Returns
  <1>8. ASSUME NEW m \in Messages, RememberNotice(m) PROVE DrainJoined'
    BY <1>8, RememberNoticeMoves, Ids, <1>0 DEF Moved, SameAim, SameMarks, SameReads, Aims,
       Leaves, GoesOn, At, DrainJoined, RestButDrains, Rest, OnlyReturns, RecIs, Returns
  <1>9. ASSUME NEW m \in Messages, ReleaseNoticeClaim(m) PROVE DrainJoined'
    BY <1>9, ReleaseNoticeClaimMoves, Ids, <1>0 DEF Moved, SameAim, SameMarks, SameReads,
       Aims, Leaves, GoesOn, At, DrainJoined, RestButDrains, Rest, OnlyReturns, RecIs, Returns
  <1>10. ASSUME NEW m \in Messages, AwaitNotice(m) PROVE DrainJoined'
    BY <1>10, AwaitNoticeMoves, Ids, <1>0 DEF Moved, SameAim, SameMarks, SameReads, Aims,
       Leaves, GoesOn, At, DrainJoined, RestButDrains, Rest, OnlyReturns, RecIs, Returns
  <1>11. ASSUME NEW r \in Readings, Begin(r) PROVE DrainJoined'
    BY <1>11, BeginMoves, Ids, <1>0 DEF Moved, SameAim, SameMarks, SameReads, Aims, Leaves,
       GoesOn, At, DrainJoined, RestButDrains, Rest, OnlyReturns, RecIs, Returns
  <1>12. ASSUME NEW r \in Readings, ReadState(r) PROVE DrainJoined'
    BY <1>12, ReadStateMoves, Ids, <1>0 DEF Moved, SameAim, SameMarks, SameReads, Aims,
       Leaves, GoesOn, At, DrainJoined, RestButDrains, Rest, OnlyReturns, RecIs, Returns
  <1>13. ASSUME NEW r \in Readings, AdvanceStage(r) PROVE DrainJoined'
    BY <1>13, AdvanceStageMoves, Ids, <1>0 DEF Moved, SameAim, SameMarks, SameReads, Aims,
       Leaves, GoesOn, At, DrainJoined, RestButDrains, Rest, OnlyReturns, RecIs, Returns
  <1>14. ASSUME NEW r \in Readings, Judge(r) PROVE DrainJoined'
    BY <1>14, JudgeMoves, Ids, <1>0 DEF Moved, SameAim, SameMarks, SameReads, Aims, Leaves,
       GoesOn, At, DrainJoined, RestButDrains, Rest, OnlyReturns, RecIs, Returns
  <1>15. ASSUME NEW r \in Readings, RecordFollowUps(r) PROVE DrainJoined'
    BY <1>15, RecordFollowUpsMoves, Ids, <1>0 DEF Moved, SameAim, SameMarks, SameReads,
       Aims, Leaves, GoesOn, At, DrainJoined, RestButDrains, Rest, OnlyReturns, RecIs, Returns
  <1>16. ASSUME NEW r \in Readings, BeginNote(r) PROVE DrainJoined'
    BY <1>16, BeginNoteMoves, Ids, <1>0 DEF Moved, SameAim, SameMarks, SameReads, Aims,
       Leaves, GoesOn, At, DrainJoined, RestButDrains, Rest, OnlyReturns, RecIs, Returns
  <1>17. ASSUME NEW r \in Readings, ReadBeforeClear(r) PROVE DrainJoined'
    BY <1>17, ReadBeforeClearMoves, Ids, <1>0 DEF Moved, SameAim, SameMarks, SameReads,
       Aims, Leaves, GoesOn, At, DrainJoined, RestButDrains, Rest, OnlyReturns, RecIs, Returns
  <1>18. ASSUME NEW r \in Readings, ClearQueue(r) PROVE DrainJoined'
    BY <1>18, ClearQueueMoves, Ids, <1>0 DEF Moved, SameAim, SameMarks, SameReads, Aims,
       Leaves, GoesOn, At, DrainJoined, RestButDrains, Rest, OnlyReturns, RecIs, Returns
  <1>19. ASSUME NEW r \in Readings, ReadQueueNow(r) PROVE DrainJoined'
    BY <1>19, ReadQueueNowMoves, Ids, <1>0 DEF Moved, SameAim, SameMarks, SameReads, Aims,
       Leaves, GoesOn, At, DrainJoined, RestButDrains, Rest, OnlyReturns, RecIs, Returns
  <1>20. ASSUME NEW r \in Readings, CloseDrain(r) PROVE DrainJoined'
    BY <1>20, CloseDrainMoves, Ids, <1>0 DEF Moved, SameAim, SameMarks, SameReads, Aims,
       Leaves, GoesOn, At, DrainJoined, RestButDrains, Rest, OnlyReturns, RecIs, Returns
  <1>21. ASSUME NEW r \in Readings, ReadingExit(r) PROVE DrainJoined'
    BY <1>21, ReadingExitMoves, Ids, <1>0 DEF Moved, SameAim, SameMarks, SameReads, Aims,
       Leaves, GoesOn, At, DrainJoined, RestButDrains, Rest, OnlyReturns, RecIs, Returns
  <1>22. ASSUME LookAtPlaceholder PROVE DrainJoined'
    BY <1>22, LookAtPlaceholderMoves, Ids, <1>0 DEF Moved, SameAim, SameMarks, SameReads,
       Aims, Leaves, GoesOn, At, DrainJoined, RestButDrains, Rest, OnlyReturns, RecIs, Returns
  <1>23. ASSUME FoldFollowUps PROVE DrainJoined'
    BY <1>23, FoldFollowUpsMoves, Ids, <1>0 DEF Moved, SameAim, SameMarks, SameReads, Aims,
       Leaves, GoesOn, At, DrainJoined, RestButDrains, Rest, OnlyReturns, RecIs, Returns
  <1>24. ASSUME Deliver PROVE DrainJoined'
    BY <1>24, DeliverMoves, Ids, <1>0 DEF Moved, SameAim, SameMarks, SameReads, Aims,
       Leaves, GoesOn, At, DrainJoined, RestButDrains, Rest, OnlyReturns, RecIs, Returns
  <1>25. ASSUME ForgetNotice PROVE DrainJoined'
    BY <1>25, ForgetNoticeMoves, Ids, <1>0 DEF Moved, SameAim, SameMarks, SameReads, Aims,
       Leaves, GoesOn, At, DrainJoined, RestButDrains, Rest, OnlyReturns, RecIs, Returns
  <1>26. ASSUME AnswerExit PROVE DrainJoined'
    BY <1>26, AnswerExitMoves, Ids, <1>0 DEF Moved, SameAim, SameMarks, SameReads, Aims,
       Leaves, GoesOn, At, DrainJoined, RestButDrains, Rest, OnlyReturns, RecIs, Returns
  <1>27. ASSUME ForgetSettled PROVE DrainJoined'
    BY <1>27, ForgetSettledMoves, Ids, <1>0 DEF Moved, SameAim, SameMarks, SameReads, Aims,
       Leaves, GoesOn, At, DrainJoined, RestButDrains, Rest, OnlyReturns, RecIs, Returns
  <1>28. ASSUME NEW p \in Procs, ReadNotice(p) PROVE DrainJoined'
    BY <1>28, ReadNoticeMoves, Ids, <1>0 DEF Moved, SameAim, SameMarks, SameReads, Aims,
       Leaves, GoesOn, At, DrainJoined, RestButDrains, Rest, OnlyReturns, RecIs, Returns
  <1>29. ASSUME NEW p \in Procs, WriteNotice(p) PROVE DrainJoined'
    BY <1>29, WriteNoticeMoves, Ids, <1>0 DEF Moved, SameAim, SameMarks, SameReads, Aims,
       Leaves, GoesOn, At, DrainJoined, RestButDrains, Rest, OnlyReturns, RecIs, Returns
  <1>30. QED
    BY <1>1, <1>2, <1>3, <1>4, <1>5, <1>6, <1>7, <1>8, <1>9, <1>10, <1>11, <1>12, <1>13,
       <1>14, <1>15, <1>16, <1>17, <1>18, <1>19, <1>20, <1>21, <1>22, <1>23, <1>24, <1>25,
       <1>26, <1>27, <1>28, <1>29 DEF Next, SenderStep, ReadingStep, AnswerStep

\* A drain is closed when it has ended.
LEMMA ClosedKept ==
    ASSUME TypeOK, Shaped, ClaimHeld, DrainsOpened, ClosedLate, Next
    PROVE  ClosedLate'
  <1>0. rec.queued \subseteq Messages /\ rec.followUps \subseteq Messages
       /\ drains \in [Messages -> {"none", "open", "closed"}]
       /\ rec.drainId \in Messages \cup {NoOne}
    BY Typed DEF RecTyped
  <1>1. ASSUME NEW m \in Messages, Enqueue(m) PROVE ClosedLate'
    BY <1>1, EnqueueMoves, Ids, <1>0 DEF Moved, SameAim, SameMarks, SameReads, Aims, Leaves,
       GoesOn, At, ClosedLate, Closing, Writing, RestButDrains, Rest, OnlyReturns, RecIs,
       Returns
  <1>2. ASSUME NEW m \in Messages, ClaimDrain(m) PROVE ClosedLate'
    BY <1>2, ClaimDrainMoves, Ids, <1>0 DEF Moved, SameAim, SameMarks, SameReads, Aims,
       Leaves, GoesOn, At, ClosedLate, Closing, Writing, RestButDrains, Rest, OnlyReturns,
       RecIs, Returns, DrainsOpened
  <1>3. ASSUME NEW m \in Messages, CreateDrain(m) PROVE ClosedLate'
    BY <1>3, CreateDrainMoves, Ids, <1>0 DEF Moved, SameAim, SameMarks, SameReads, Aims,
       Leaves, GoesOn, At, ClosedLate, Closing, Writing, RestButDrains, Rest, OnlyReturns,
       RecIs, Returns
  <1>4. ASSUME NEW m \in Messages, ClaimNotice(m) PROVE ClosedLate'
    BY <1>4, ClaimNoticeMoves, Ids, <1>0 DEF Moved, SameAim, SameMarks, SameReads, Aims,
       Leaves, GoesOn, At, ClosedLate, Closing, Writing, RestButDrains, Rest, OnlyReturns,
       RecIs, Returns
  <1>5. ASSUME NEW m \in Messages, FindPlaceholder(m) PROVE ClosedLate'
    BY <1>5, FindPlaceholderMoves, Ids, <1>0 DEF Moved, SameAim, SameMarks, SameReads, Aims,
       Leaves, GoesOn, At, ClosedLate, Closing, Writing, RestButDrains, Rest, OnlyReturns,
       RecIs, Returns
  <1>6. ASSUME NEW m \in Messages, PlaceNotice(m) PROVE ClosedLate'
    BY <1>6, PlaceNoticeMoves, Ids, <1>0 DEF Moved, SameAim, SameMarks, SameReads, Aims,
       Leaves, GoesOn, At, ClosedLate, Closing, Writing, RestButDrains, Rest, OnlyReturns,
       RecIs, Returns
  <1>7. ASSUME NEW m \in Messages, PostNotice(m) PROVE ClosedLate'
    BY <1>7, PostNoticeMoves, Ids, <1>0 DEF Moved, SameAim, SameMarks, SameReads, Aims,
       Leaves, GoesOn, At, ClosedLate, Closing, Writing, RestButDrains, Rest, OnlyReturns,
       RecIs, Returns
  <1>8. ASSUME NEW m \in Messages, RememberNotice(m) PROVE ClosedLate'
    BY <1>8, RememberNoticeMoves, Ids, <1>0 DEF Moved, SameAim, SameMarks, SameReads, Aims,
       Leaves, GoesOn, At, ClosedLate, Closing, Writing, RestButDrains, Rest, OnlyReturns,
       RecIs, Returns
  <1>9. ASSUME NEW m \in Messages, ReleaseNoticeClaim(m) PROVE ClosedLate'
    BY <1>9, ReleaseNoticeClaimMoves, Ids, <1>0 DEF Moved, SameAim, SameMarks, SameReads,
       Aims, Leaves, GoesOn, At, ClosedLate, Closing, Writing, RestButDrains, Rest,
       OnlyReturns, RecIs, Returns
  <1>10. ASSUME NEW m \in Messages, AwaitNotice(m) PROVE ClosedLate'
    BY <1>10, AwaitNoticeMoves, Ids, <1>0 DEF Moved, SameAim, SameMarks, SameReads, Aims,
       Leaves, GoesOn, At, ClosedLate, Closing, Writing, RestButDrains, Rest, OnlyReturns,
       RecIs, Returns
  <1>11. ASSUME NEW r \in Readings, Begin(r) PROVE ClosedLate'
    BY <1>11, BeginMoves, Ids, <1>0 DEF Moved, SameAim, SameMarks, SameReads, Aims, Leaves,
       GoesOn, At, ClosedLate, Closing, Writing, RestButDrains, Rest, OnlyReturns, RecIs,
       Returns
  <1>12. ASSUME NEW r \in Readings, ReadState(r) PROVE ClosedLate'
    BY <1>12, ReadStateMoves, Ids, <1>0 DEF Moved, SameAim, SameMarks, SameReads, Aims,
       Leaves, GoesOn, At, ClosedLate, Closing, Writing, RestButDrains, Rest, OnlyReturns,
       RecIs, Returns
  <1>13. ASSUME NEW r \in Readings, AdvanceStage(r) PROVE ClosedLate'
    BY <1>13, AdvanceStageMoves, Ids, <1>0 DEF Moved, SameAim, SameMarks, SameReads, Aims,
       Leaves, GoesOn, At, ClosedLate, Closing, Writing, RestButDrains, Rest, OnlyReturns,
       RecIs, Returns
  <1>14. ASSUME NEW r \in Readings, Judge(r) PROVE ClosedLate'
    BY <1>14, JudgeMoves, Ids, <1>0 DEF Moved, SameAim, SameMarks, SameReads, Aims, Leaves,
       GoesOn, At, ClosedLate, Closing, Writing, RestButDrains, Rest, OnlyReturns, RecIs,
       Returns
  <1>15. ASSUME NEW r \in Readings, RecordFollowUps(r) PROVE ClosedLate'
    BY <1>15, RecordFollowUpsMoves, Ids, <1>0 DEF Moved, SameAim, SameMarks, SameReads,
       Aims, Leaves, GoesOn, At, ClosedLate, Closing, Writing, RestButDrains, Rest,
       OnlyReturns, RecIs, Returns
  <1>16. ASSUME NEW r \in Readings, BeginNote(r) PROVE ClosedLate'
    BY <1>16, BeginNoteMoves, Ids, <1>0 DEF Moved, SameAim, SameMarks, SameReads, Aims,
       Leaves, GoesOn, At, ClosedLate, Closing, Writing, RestButDrains, Rest, OnlyReturns,
       RecIs, Returns
  <1>17. ASSUME NEW r \in Readings, ReadBeforeClear(r) PROVE ClosedLate'
    BY <1>17, ReadBeforeClearMoves, Ids, <1>0 DEF Moved, SameAim, SameMarks, SameReads,
       Aims, Leaves, GoesOn, At, ClosedLate, Closing, Writing, RestButDrains, Rest,
       OnlyReturns, RecIs, Returns
  <1>18. ASSUME NEW r \in Readings, ClearQueue(r) PROVE ClosedLate'
    BY <1>18, ClearQueueMoves, Ids, <1>0 DEF Moved, SameAim, SameMarks, SameReads, Aims,
       Leaves, GoesOn, At, ClosedLate, Closing, Writing, RestButDrains, Rest, OnlyReturns,
       RecIs, Returns, ClaimHeld, UnderClaim
  <1>19. ASSUME NEW r \in Readings, ReadQueueNow(r) PROVE ClosedLate'
    BY <1>19, ReadQueueNowMoves, Ids, <1>0 DEF Moved, SameAim, SameMarks, SameReads, Aims,
       Leaves, GoesOn, At, ClosedLate, Closing, Writing, RestButDrains, Rest, OnlyReturns,
       RecIs, Returns
  <1>20. ASSUME NEW r \in Readings, CloseDrain(r) PROVE ClosedLate'
    BY <1>20, CloseDrainMoves, Ids, <1>0 DEF Moved, SameAim, SameMarks, SameReads, Aims,
       Leaves, GoesOn, At, ClosedLate, Closing, Writing, RestButDrains, Rest, OnlyReturns,
       RecIs, Returns
  <1>21. ASSUME NEW r \in Readings, ReadingExit(r) PROVE ClosedLate'
    <2>1. PICK back \in SUBSET Messages :
             RecIs(rec.queued \cup back, rec.pointer, rec.drainId, rec.stage, rec.claim)
      BY <1>21, ReadingExitMoves DEF Returns
    <2>2. Leaves(r, FALSE) /\ UNCHANGED <<drains, emptied>>
      BY <1>21, ReadingExitMoves DEF OnlyReturns
    <2>3. /\ \A q \in Readings : q # r => run'[q] = run[q]
          /\ run'[r].pc = "over" /\ run'[r].drain = NoOne /\ (run[r].blind => run'[r].blind)
      BY <2>2, Ids DEF Leaves, Moved
    <2>4. QED BY <1>21, <2>1, <2>2, <2>3, Ids DEF ClosedLate, Closing, Writing, RecIs, At
  <1>22. ASSUME LookAtPlaceholder PROVE ClosedLate'
    BY <1>22, LookAtPlaceholderMoves, Ids, <1>0 DEF Moved, SameAim, SameMarks, SameReads,
       Aims, Leaves, GoesOn, At, ClosedLate, Closing, Writing, RestButDrains, Rest,
       OnlyReturns, RecIs, Returns
  <1>23. ASSUME FoldFollowUps PROVE ClosedLate'
    BY <1>23, FoldFollowUpsMoves, Ids, <1>0 DEF Moved, SameAim, SameMarks, SameReads, Aims,
       Leaves, GoesOn, At, ClosedLate, Closing, Writing, RestButDrains, Rest, OnlyReturns,
       RecIs, Returns
  <1>24. ASSUME Deliver PROVE ClosedLate'
    BY <1>24, DeliverMoves, Ids, <1>0 DEF Moved, SameAim, SameMarks, SameReads, Aims,
       Leaves, GoesOn, At, ClosedLate, Closing, Writing, RestButDrains, Rest, OnlyReturns,
       RecIs, Returns
  <1>25. ASSUME ForgetNotice PROVE ClosedLate'
    BY <1>25, ForgetNoticeMoves, Ids, <1>0 DEF Moved, SameAim, SameMarks, SameReads, Aims,
       Leaves, GoesOn, At, ClosedLate, Closing, Writing, RestButDrains, Rest, OnlyReturns,
       RecIs, Returns
  <1>26. ASSUME AnswerExit PROVE ClosedLate'
    BY <1>26, AnswerExitMoves, Ids, <1>0 DEF Moved, SameAim, SameMarks, SameReads, Aims,
       Leaves, GoesOn, At, ClosedLate, Closing, Writing, RestButDrains, Rest, OnlyReturns,
       RecIs, Returns
  <1>27. ASSUME ForgetSettled PROVE ClosedLate'
    BY <1>27, ForgetSettledMoves, Ids, <1>0 DEF Moved, SameAim, SameMarks, SameReads, Aims,
       Leaves, GoesOn, At, ClosedLate, Closing, Writing, RestButDrains, Rest, OnlyReturns,
       RecIs, Returns
  <1>28. ASSUME NEW p \in Procs, ReadNotice(p) PROVE ClosedLate'
    BY <1>28, ReadNoticeMoves, Ids, <1>0 DEF Moved, SameAim, SameMarks, SameReads, Aims,
       Leaves, GoesOn, At, ClosedLate, Closing, Writing, RestButDrains, Rest, OnlyReturns,
       RecIs, Returns
  <1>29. ASSUME NEW p \in Procs, WriteNotice(p) PROVE ClosedLate'
    BY <1>29, WriteNoticeMoves, Ids, <1>0 DEF Moved, SameAim, SameMarks, SameReads, Aims,
       Leaves, GoesOn, At, ClosedLate, Closing, Writing, RestButDrains, Rest, OnlyReturns,
       RecIs, Returns, After, Shaped, ReadingsShaped
  <1>30. QED
    BY <1>1, <1>2, <1>3, <1>4, <1>5, <1>6, <1>7, <1>8, <1>9, <1>10, <1>11, <1>12, <1>13,
       <1>14, <1>15, <1>16, <1>17, <1>18, <1>19, <1>20, <1>21, <1>22, <1>23, <1>24, <1>25,
       <1>26, <1>27, <1>28, <1>29 DEF Next, SenderStep, ReadingStep, AnswerStep

-----------------------------------------------------------------------------
(* The invariant, and what follows from it.                                 *)

LEMMA InitHolds == Init => IInv
  <1> SUFFICES ASSUME Init PROVE IInv
    OBVIOUS
  <1>1. \A p \in Procs : run[p] = Blank
    BY DEF Init
  <1>2. /\ rec.queued = {} /\ rec.followUps = {} /\ rec.pointer = NoOne /\ rec.drainId = NoOne
        /\ rec.stage = "waiting" /\ rec.claim = NoOne /\ RecTyped
    BY DEF Init, RecTyped
  <1>3. TypeOK
    <2>1. RunTyped
      BY BlankIs DEF Init, RunTyped
    <2>2. says \in [Posts -> Texts] /\ drains \in [Messages -> {"none", "open", "closed"}]
      BY DEF Init, Texts
    <2>3. QED BY <1>2, <2>1, <2>2, NoticeAssumption, Typed DEF Init
  <1>4. Shaped
    BY <1>1, <1>2, BlankIs, Ids
       DEF Shaped, SendersShaped, ReadingsShaped, AnswerShaped, PointerShaped, Writing, Posting,
           SenderPcs, ReadingPcs, AnswerPcs
  <1>5. ClaimHeld /\ StageOfReading /\ Marked
    BY <1>1, <1>2, BlankIs, Ids DEF ClaimHeld, StageOfReading, Marked, UnderClaim, Writing
  <1>6. AnswerPlaced
    BY <1>1, BlankIs, Ids, NoticeAssumption DEF AnswerPlaced, Init, At, Posts
  <1>7. InformedOwned /\ ReleaseTold /\ DrainJoined
    BY <1>1, <1>2, BlankIs, Ids DEF InformedOwned, ReleaseTold, DrainJoined, At
  <1>8. DrainsOpened
    BY <1>1, <1>2, BlankIs, Ids DEF DrainsOpened, Init
  <1>9. ClosedLate
    BY <1>1, <1>2, BlankIs, Ids DEF ClosedLate, Init
  <1>10. QED BY <1>3, <1>4, <1>5, <1>6, <1>7, <1>8, <1>9 DEF IInv

LEMMA NextKeeps == IInv /\ Next => IInv'
  <1> SUFFICES ASSUME IInv, Next PROVE IInv'
    OBVIOUS
  <1> USE DEF IInv
  <1>1. TypeOK'
    <2>1. /\ RecTyped' /\ RunTyped' /\ faults' \in 0..MaxFaults
          /\ says' \in [Posts -> Texts] /\ drains' \in [Messages -> {"none", "open", "closed"}]
          /\ told' \subseteq Messages /\ returned' \subseteq Messages /\ emptied' \subseteq Messages
      BY RecTypeKept, RunTypeKept, FaultsKept, RestTypeKept
    <2>2. QED BY <2>1 DEF TypeOK, RecTyped, RunTyped
  <1>2. Shaped'
    BY SendersKept, ReadingsKept, AnswersKept, PointerKept DEF Shaped
  <1>3. ClaimHeld' /\ StageOfReading' /\ Marked'
    BY ClaimKept, StageKept, MarkedKept
  <1>4. AnswerPlaced' /\ InformedOwned' /\ ReleaseTold'
    BY PlacedKept, InformedKept, ReleaseKept
  <1>5. DrainsOpened' /\ DrainJoined' /\ ClosedLate'
    BY OpenedKept, JoinedKept, ClosedKept
  <1>6. QED BY <1>1, <1>2, <1>3, <1>4, <1>5

LEMMA StutterKeeps == IInv /\ UNCHANGED vars => IInv'
  BY DEF vars, IInv, TypeOK, Shaped, SendersShaped, ReadingsShaped, AnswerShaped, PointerShaped,
         ClaimHeld, UnderClaim, StageOfReading, Marked, AnswerPlaced, InformedOwned, Informed,
         Excused, AnsweredInNotice, ReleaseTold, DrainsOpened, DrainJoined, ClosedLate, Closing,
         Writing, Posting, At

\* The invariant holds of every behaviour of the record, its senders, its readings and the
\* answer (turn-lock.ts, turn-notice.ts).
THEOREM IInvHolds == Spec => []IInv
  <1>1. IInv /\ [Next]_vars => IInv'
    BY NextKeeps, StutterKeeps
  <1>2. QED BY InitHolds, <1>1, PTL DEF Spec

\* Every attribute keeps its type.
THEOREM TypeCorrect == Spec => []TypeOK
  <1>1. IInv => TypeOK
    BY DEF IInv
  <1>2. QED BY <1>1, IInvHolds, PTL

\* A queued message stays the work of its drain, which is not over.
THEOREM KeepsDrain == Spec => []DrainTracked
  <1>1. IInv => DrainTracked
    <2> SUFFICES ASSUME IInv, \A r \in Readings : ~run[r].blind,
                        NEW m \in rec.queued \ returned, run[m].drain # NoOne
                 PROVE  /\ rec.drainId = run[m].drain
                        /\ drains[rec.drainId] # "closed" \/ rec.drainId \in emptied
      BY DEF DrainTracked
    <2>1. rec.drainId = run[m].drain
      BY DEF IInv, DrainJoined
    <2>2. rec.drainId \in Messages
      BY <2>1, Typed DEF IInv, RecTyped
    <2>3. QED BY <2>1, <2>2 DEF IInv, ClosedLate
  <1>2. QED BY <1>1, IInvHolds, PTL

\* A message whose sender is done waits under a notice, or the sender was told otherwise.
THEOREM KeepsNotice == Spec => []NoticeOwned
  <1>1. IInv => NoticeOwned
    BY DEF IInv, NoticeOwned, InformedOwned, Informed, Excused, At
  <1>2. QED BY <1>1, IInvHolds, PTL

\* The mark of a notice goes when its sender stops posting it.
THEOREM KeepsPoster == Spec => []PendingHasPoster
  <1>1. IInv => PendingHasPoster
    BY DEF IInv, PendingHasPoster, Marked, Shaped, SendersShaped, Posting
  <1>2. QED BY <1>1, IInvHolds, PTL

\* A stage goes with the reading it was shown for.
THEOREM KeepsStage == Spec => []StageOfReading
  <1>1. IInv => StageOfReading
    BY DEF IInv
  <1>2. QED BY <1>1, IInvHolds, PTL

=============================================================================
