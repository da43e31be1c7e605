----------------------------- MODULE TurnNotice -----------------------------
(***************************************************************************)
(* The queue notice and the drain task of one (conversation, assistant).   *)
(*                                                                         *)
(* Messages queue behind an answer.  One notice says so: it is written     *)
(* into the placeholder of the running answer, or posted, and then updated *)
(* in place by every sender, by the stages of a reading, by the note of a  *)
(* reading that only folded follow-ups in, and by the settling at the end. *)
(* The answer itself goes to the end of the conversation, or into the      *)
(* notice when it cannot be posted there.  One drain task stands for the   *)
(* reading of one queue.                                                   *)
(*                                                                         *)
(* Who writes where is decided by attributes of the turn record (pointer,  *)
(* drainId, stage), each written on its own condition, and every write of  *)
(* a message is decided by a read of it that is one step old.  The lock,   *)
(* the passes and the parking of an answer are in TurnQueue.tla: here a    *)
(* reading takes the queue and its claim in one step, whenever a queue is  *)
(* unread, which is at the event of a notice or at the end of a run.       *)
(***************************************************************************)
EXTENDS Naturals, FiniteSets

CONSTANTS
    Messages,     \* queued messages; the message a sender posts and the task it opens bear its id
    Readings,
    Answerer,     \* the answering turn the messages queue behind
    Placeholder,  \* the message that turn holds its place with
    AnswerPost,   \* the message it posts its answer as when the placeholder is the notice
    NoOne,        \* an absent attribute
    Faults,       \* the kinds of failure that may happen
    MaxFaults     \* bound: how many failures in all

Procs == Messages \cup Readings \cup {Answerer}
Posts == Messages \cup {Placeholder, AnswerPost}

\* The marker `pending:<id>` of a notice that is being posted.
Pending(m) == <<"pending", m>>

\* Ids differ; an absent attribute is none, and no message bears a marker for an id.
ASSUME NoticeAssumption ==
    /\ Messages \cap Readings = {} /\ MaxFaults \in Nat
    /\ \A x \in {Answerer, Placeholder, AnswerPost, NoOne} : x \notin Messages \cup Readings
    /\ Placeholder # AnswerPost /\ NoOne \notin {Answerer, Placeholder, AnswerPost}
    /\ \A m \in Messages : Pending(m) \notin Posts \cup {NoOne}

VARIABLES
    rec,       \* the record: queue, follow-ups, notice pointer, drain id, stage, claim
    says,      \* what each message in the conversation says
    drains,    \* the drain tasks
    run,       \* senders, readings and the answering turn
    told,      \* senders answered through Lex: not queued, or no notice could be posted
    returned,  \* follow-ups that went back on the queue
    emptied,   \* drains whose queue an answer folded away under a reading that had cleared it
    faults     \* failures left

vars == <<rec, says, drains, run, told, returned, emptied, faults>>

Texts == {"nothing", "thinking", "waiting", "note", "settled", "answer"}

NoticeTexts == {"waiting", "note", "settled"}

Pcs == { "idle", "over", "peek", "write",                              \* anyone
         "drain", "create", "notice", "find", "place", "post",         \* a sender
         "remember", "release", "wait",
         "state", "stage", "judge", "record", "note", "before",        \* a reading
         "clear", "now", "close", "exit",
         "fold", "deliver", "forget", "unpoint" }                      \* the answer

Jobs == {"count", "recount", "reviewing", "note", "clearing", "settle"}

Runs == [ pc     : Pcs,
          job    : Jobs,                    \* what the message being written is to say
          ids    : SUBSET Messages,         \* the messages a reading read
          notice : Posts \cup {NoOne},      \* the notice as last read from the record
          target : Posts \cup {NoOne},      \* the message being written
          saw    : Texts,                   \* what it said when last read
          drain  : Messages \cup {NoOne},   \* the drain as last read
          mine   : BOOLEAN,                 \* this sender claimed the notice
          blind  : BOOLEAN,                 \* a write of the pointer, or the clear, failed
          folds  : {"none", "some", "all"}, \* of what was read, the follow-ups of a running answer
          moved  : BOOLEAN ]                \* the placeholder of the answer has become the notice

TypeOK ==
    /\ rec \in [ queued    : SUBSET Messages,
                 followUps : SUBSET Messages,
                 pointer   : Posts \cup {NoOne} \cup {Pending(m) : m \in Messages},
                 drainId   : Messages \cup {NoOne},
                 stage     : {"waiting", "reviewing", "clearing"},
                 claim     : Readings \cup {NoOne} ]
    /\ says \in [Posts -> Texts]
    /\ drains \in [Messages -> {"none", "open", "closed"}]
    /\ run \in [Procs -> Runs]
    /\ told \subseteq Messages /\ returned \subseteq Messages /\ emptied \subseteq Messages
    /\ faults \in 0..MaxFaults

Blank == [pc |-> "idle", job |-> "count", ids |-> {}, notice |-> NoOne, target |-> NoOne,
          saw |-> "nothing", drain |-> NoOne, mine |-> FALSE, blind |-> FALSE,
          folds |-> "none", moved |-> FALSE]

Init ==
    /\ rec = [queued |-> {}, followUps |-> {}, pointer |-> NoOne, drainId |-> NoOne,
              stage |-> "waiting", claim |-> NoOne]
    /\ says = [i \in Posts |-> IF i = Placeholder THEN "thinking" ELSE "nothing"]
    /\ drains = [m \in Messages |-> "none"]
    /\ run = [p \in Procs |-> Blank]
    /\ told = {} /\ returned = {} /\ emptied = {} /\ faults = MaxFaults

-----------------------------------------------------------------------------
(* Helpers.                                                                 *)

Fails(kind) == kind \in Faults /\ faults > 0 /\ faults' = faults - 1
Works       == UNCHANGED faults

At(p, pc)   == run[p].pc = pc
Goes(p, pc) == run' = [run EXCEPT ![p].pc = pc]

Answering == ~At(Answerer, "over")

\* A run that is over keeps only what a property asks of it.
Over(p, failed) ==
    [run EXCEPT ![p] = [Blank EXCEPT !.pc = "over", !.blind = run[p].blind \/ failed,
                          !.drain = IF p \in Messages THEN run[p].drain ELSE NoOne,
                          !.moved = run[p].moved]]
Ends(p) == run' = Over(p, FALSE)

\* Mutant: the marker is taken for a notice.
ShownMarker(pointer) == pointer

\* noticeIdOrUndefined: the marker of a notice being posted is not a notice.
Shown(pointer) == IF pointer \in Posts THEN pointer ELSE NoOne

\* A write to the record that may be refused by its condition or fail; a caller that does
\* not ask which goes on either way.
Writes(ok, new) ==
    \/ rec' = (IF ok THEN new ELSE rec) /\ Works
    \/ ok /\ Fails("write") /\ UNCHANGED rec

\* Where a run goes on after it has written a notice, or found that it should not.
After(p) ==
    CASE run[p].job \in {"count", "recount"} -> "over"
      [] run[p].job = "reviewing" -> "judge"
      [] run[p].job = "note"      -> "stage"
      [] run[p].job = "clearing"  -> "before"
      [] run[p].job = "settle"    -> IF p = Answerer THEN "unpoint" ELSE "close"

-----------------------------------------------------------------------------
(* Writing a notice that exists: read the message, then update it.          *)

\* A message that cannot be read does not count as holding an answer or a note.
ReadNotice(p) ==
    /\ At(p, "peek")
    /\ \/ run' = [run EXCEPT ![p].pc = "write", ![p].saw = says[run[p].target]] /\ Works
       \/ run' = [run EXCEPT ![p].pc = "write", ![p].saw = "nothing"] /\ Fails("read")
    /\ UNCHANGED <<rec, says, drains, told, returned, emptied>>

\* No notice text goes over an answer, no stage over a note; settling keeps the note.
Refuses(p) == \/ run[p].saw = "answer"
              \/ run[p].saw = "note" /\ run[p].job \in {"reviewing", "clearing"}

Text(p) ==
    CASE run[p].job = "note" -> "note"
      [] run[p].job = "settle" -> IF run[p].saw = "note" THEN "note" ELSE "settled"
      [] OTHER -> "waiting"

\* A sender that may not update the notice, or fails to, posts a fresh one.
WriteNotice(p) ==
    LET next(pc) == IF pc = "over" THEN Ends(p)
                    ELSE run' = [run EXCEPT ![p].pc = pc, ![p].saw = "nothing",
                                            ![p].target = IF pc = "unpoint" THEN @ ELSE NoOne]
        otherwise == IF run[p].job \in {"count", "recount"} THEN "post" ELSE After(p)
    IN
    /\ At(p, "write")
    /\ \/ /\ Refuses(p)
          /\ next(otherwise) /\ Works /\ UNCHANGED says
       \/ /\ ~Refuses(p)
          /\ says' = [says EXCEPT ![run[p].target] = Text(p)]
          /\ next(After(p)) /\ Works
       \/ /\ ~Refuses(p) /\ Fails("update")
          /\ next(otherwise) /\ UNCHANGED says
    /\ UNCHANGED <<rec, drains, told, returned, emptied>>

-----------------------------------------------------------------------------
(* A sender, whose claim of the turn was refused.                           *)

Enqueue(m) ==
    /\ At(m, "idle")
    /\ \/ /\ rec' = [rec EXCEPT !.queued = @ \cup {m}]
          /\ run' = [run EXCEPT ![m].pc = "drain", ![m].notice = Shown(rec.pointer)]
          /\ Works /\ UNCHANGED told
       \/ /\ Fails("enqueue")
          /\ told' = told \cup {m}
          /\ Ends(m) /\ UNCHANGED rec
    /\ UNCHANGED <<says, drains, returned, emptied>>

\* With a notice there already, the sender goes on to update it; otherwise to claim one.
Informs(m) ==
    IF run[m].notice = NoOne THEN [run[m] EXCEPT !.pc = "notice"]
    ELSE [run[m] EXCEPT !.pc = "peek", !.notice = NoOne, !.target = run[m].notice]

\* openDrainTask: the first to write the id opens the task; the others take it as it is.
ClaimDrain(m) ==
    /\ At(m, "drain")
    /\ \/ /\ rec.drainId = NoOne
          /\ rec' = [rec EXCEPT !.drainId = m]
          /\ run' = [run EXCEPT ![m].pc = "create", ![m].drain = m] /\ Works
       \/ /\ rec.drainId # NoOne
          /\ run' = [run EXCEPT ![m] = [Informs(m) EXCEPT !.drain = rec.drainId]] /\ Works
          /\ UNCHANGED rec
       \/ /\ rec.drainId = NoOne /\ Fails("write")
          /\ run' = [run EXCEPT ![m] = Informs(m)] /\ UNCHANGED rec
    /\ UNCHANGED <<says, drains, told, returned, emptied>>

CreateDrain(m) ==
    /\ At(m, "create")
    /\ \/ drains' = [drains EXCEPT ![m] = "open"] /\ Works
       \/ Fails("create") /\ UNCHANGED drains
    /\ run' = [run EXCEPT ![m] = Informs(m)]
    /\ UNCHANGED <<rec, says, told, returned, emptied>>

\* One sender claims the right to post a notice; the others wait for it.
ClaimNotice(m) ==
    /\ At(m, "notice")
    /\ \/ /\ rec.pointer = NoOne
          /\ rec' = [rec EXCEPT !.pointer = Pending(m)]
          /\ run' = [run EXCEPT ![m].pc = "find", ![m].mine = TRUE] /\ Works
       \/ /\ rec.pointer # NoOne
          /\ Goes(m, "wait") /\ Works /\ UNCHANGED rec
       \/ /\ Fails("write")
          /\ run' = [run EXCEPT ![m].pc = "wait", ![m].blind = TRUE] /\ UNCHANGED rec
    /\ UNCHANGED <<says, drains, told, returned, emptied>>

\* findHolderPlaceholder: while it is a placeholder still.  A message queued behind a
\* reading finds none.
FindPlaceholder(m) ==
    /\ At(m, "find")
    /\ \/ says[Placeholder] = "thinking" /\ Goes(m, "place")
       \/ Goes(m, "post")
    /\ UNCHANGED <<rec, says, drains, told, returned, emptied, faults>>

PlaceNotice(m) ==
    /\ At(m, "place")
    /\ \/ /\ says' = [says EXCEPT ![Placeholder] = "waiting"]
          /\ run' = [run EXCEPT ![m].pc = "remember", ![m].target = Placeholder]
          /\ Works
       \/ Fails("update") /\ Goes(m, "post") /\ UNCHANGED says
    /\ UNCHANGED <<rec, drains, told, returned, emptied>>

\* Mutant: a claim is kept although nothing was posted.
PostNoticeAndKeepClaim(m) ==
    /\ At(m, "post")
    /\ \/ /\ says' = [says EXCEPT ![m] = "waiting"]
          /\ run' = [run EXCEPT ![m].pc = "remember", ![m].target = m]
          /\ Works /\ UNCHANGED told
       \/ /\ Fails("post")
          /\ told' = IF run[m].job = "count" THEN told \cup {m} ELSE told
          /\ Ends(m) /\ UNCHANGED says
    /\ UNCHANGED <<rec, drains, returned, emptied>>

\* With no notice to show the sender answers through Lex, and gives up its claim.  A sender
\* that lost the claim and found the notice later says nothing.
PostNotice(m) ==
    /\ At(m, "post")
    /\ \/ /\ says' = [says EXCEPT ![m] = "waiting"]
          /\ run' = [run EXCEPT ![m].pc = "remember", ![m].target = m]
          /\ Works /\ UNCHANGED told
       \/ /\ Fails("post")
          /\ told' = IF run[m].job = "count" THEN told \cup {m} ELSE told
          /\ IF run[m].mine THEN Goes(m, "release") ELSE Ends(m)
          /\ UNCHANGED says
    /\ UNCHANGED <<rec, drains, returned, emptied>>

RememberNotice(m) ==
    /\ At(m, "remember")
    /\ \/ /\ rec' = [rec EXCEPT !.pointer = run[m].target]
          /\ Ends(m) /\ Works
       \/ /\ Fails("write")
          /\ run' = Over(m, TRUE) /\ UNCHANGED rec
    /\ UNCHANGED <<says, drains, told, returned, emptied>>

ReleaseNoticeClaim(m) ==
    /\ At(m, "release")
    /\ \/ /\ rec' = IF rec.pointer = Pending(m) THEN [rec EXCEPT !.pointer = NoOne] ELSE rec
          /\ Ends(m) /\ Works
       \/ /\ Fails("write")
          /\ run' = Over(m, TRUE) /\ UNCHANGED rec
    /\ UNCHANGED <<says, drains, told, returned, emptied>>

\* The loser waits for the notice of the winner, to update it, and gives up after a while.
AwaitNotice(m) ==
    /\ At(m, "wait")
    /\ \/ /\ Shown(rec.pointer) # NoOne
          /\ run' = [run EXCEPT ![m].pc = "peek", ![m].job = "recount",
                            ![m].target = rec.pointer]
       \/ Ends(m)
    /\ UNCHANGED <<rec, says, drains, told, returned, emptied, faults>>

-----------------------------------------------------------------------------
(* A reading of the queue.                                                  *)

\* A claim that was not cleared expires, once its reading is over.
Begin(r) ==
    /\ At(r, "idle")
    /\ rec.queued # {}
    /\ rec.claim # NoOne => At(rec.claim, "over")
    /\ rec' = [rec EXCEPT !.claim = r]
    /\ run' = [run EXCEPT ![r].pc = "state", ![r].ids = rec.queued]
    /\ UNCHANGED <<says, drains, told, returned, emptied, faults>>

ReadState(r) ==
    /\ At(r, "state")
    /\ \/ run' = [run EXCEPT ![r].pc = "stage", ![r].job = "reviewing",
                            ![r].notice = Shown(rec.pointer)] /\ Works
       \/ run' = [run EXCEPT ![r].pc = "stage", ![r].job = "reviewing"] /\ Fails("read")
    /\ UNCHANGED <<rec, says, drains, told, returned, emptied>>

\* statesThatMayPrecede, for the stages of a drain that asks nothing.  The initial stage is
\* the absence of one.
MayFollow(stage, from) ==
    \/ stage = "reviewing" /\ from = "waiting"
    \/ stage = "clearing" /\ from = "reviewing"

\* The record decides whether a stage happens; then the notice shows it.
AdvanceStage(r) ==
    LET stage == IF run[r].job = "reviewing" THEN "reviewing" ELSE "clearing"
        ok    == run[r].notice # NoOne /\ MayFollow(stage, rec.stage)
        shows == [run EXCEPT ![r].pc = "peek", ![r].job = stage, ![r].target = run[r].notice]
        skips == [run EXCEPT ![r].pc = IF stage = "reviewing" THEN "judge" ELSE "before",
                             ![r].job = stage]
    IN  /\ At(r, "stage")
        /\ \/ ok /\ rec' = [rec EXCEPT !.stage = stage] /\ run' = shows /\ Works
           \/ ~ok /\ run' = skips /\ Works /\ UNCHANGED rec
           \/ ok /\ Fails("write") /\ run' = skips /\ UNCHANGED rec
        /\ UNCHANGED <<says, drains, told, returned, emptied>>

\* Some of what was read amends the answer being written, if one still is.
Judge(r) ==
    /\ At(r, "judge")
    /\ \E amend \in IF Answering THEN SUBSET run[r].ids ELSE {{}} :
          run' = [run EXCEPT ![r].pc = IF amend = {} THEN "stage" ELSE "record",
                             ![r].job = "clearing",
                             ![r].folds = IF amend = {} THEN "none"
                                          ELSE IF amend = run[r].ids THEN "all" ELSE "some"]
    /\ UNCHANGED <<rec, says, drains, told, returned, emptied, faults>>

\* Which of them it is does not matter to the notice, when it is not all of them.
RecordFollowUps(r) ==
    /\ At(r, "record")
    /\ \E amend \in SUBSET run[r].ids :
          /\ amend # {} /\ (amend = run[r].ids <=> run[r].folds = "all")
          /\ Writes(TRUE, [rec EXCEPT !.followUps = @ \cup (amend \cap rec.queued)])
    /\ Goes(r, IF run[r].folds = "all" THEN "note" ELSE "stage")
    /\ UNCHANGED <<says, drains, told, returned, emptied>>

\* A reading that asks nothing says so in the notice, as the record has it now.
BeginNote(r) ==
    LET notice == Shown(rec.pointer) IN
    /\ At(r, "note")
    /\ \/ notice # NoOne /\ Works
          /\ run' = [run EXCEPT ![r].pc = "peek", ![r].job = "note", ![r].target = notice]
       \/ notice = NoOne /\ Goes(r, "stage") /\ Works
       \/ Fails("read") /\ Goes(r, "stage")
    /\ UNCHANGED <<rec, says, drains, told, returned, emptied>>

\* The clear removes the pointer and the drain id, so they are read before it.
ReadBeforeClear(r) ==
    /\ At(r, "before")
    /\ \/ run' = [run EXCEPT ![r].pc = "clear", ![r].notice = Shown(rec.pointer),
                            ![r].drain = rec.drainId] /\ Works
       \/ run' = [run EXCEPT ![r].pc = "clear", ![r].notice = NoOne,
                            ![r].drain = NoOne] /\ Fails("read")
    /\ UNCHANGED <<rec, says, drains, told, returned, emptied>>

\* Mutants: with a remainder the drain ends too; the stage is left.
ClearedEndsDrain(r) ==
    LET rest == rec.queued \ run[r].ids IN
    [rec EXCEPT !.queued = rest, !.claim = NoOne, !.stage = "waiting", !.drainId = NoOne,
                !.pointer = IF rest # {} \/ run[r].folds # "none" THEN @ ELSE NoOne]
ClearedLeavesStage(r) ==
    LET rest == rec.queued \ run[r].ids IN
    [rec EXCEPT !.queued = rest, !.claim = NoOne,
                !.drainId = IF rest = {} THEN NoOne ELSE @,
                !.pointer = IF rest # {} \/ run[r].folds # "none" THEN @ ELSE NoOne]

\* What was read leaves the queue, and the claim and the stage end.  When nothing is left
\* the drain ends, and the notice with it unless the answer is to settle it.
Cleared(r) ==
    LET rest == rec.queued \ run[r].ids IN
    [rec EXCEPT !.queued = rest, !.claim = NoOne, !.stage = "waiting",
                !.drainId = IF rest = {} THEN NoOne ELSE @,
                !.pointer = IF rest # {} \/ run[r].folds # "none" THEN @ ELSE NoOne]

ClearQueue(r) ==
    /\ At(r, "clear")
    /\ \/ /\ rec' = IF rec.claim = r THEN Cleared(r) ELSE rec
          /\ Goes(r, "now") /\ Works
       \/ /\ Fails("write")
          /\ run' = [run EXCEPT ![r].pc = "now", ![r].blind = TRUE] /\ UNCHANGED rec
    /\ UNCHANGED <<says, drains, told, returned, emptied>>

\* The notice settles and the drain closes when nothing waits any more: nothing queued,
\* no follow-up without an answer to fold it, and the record could be read.
ReadQueueNow(r) ==
    LET waiting == rec.queued # {} \/ (~Answering /\ rec.followUps # {})
        settles == run[r].notice # NoOne /\ run[r].folds = "none"
        rest    == [run[r] EXCEPT !.ids = {}, !.notice = NoOne, !.folds = "none"]
    IN  /\ At(r, "now")
        /\ \/ /\ run' = [run EXCEPT ![r] =
                     IF waiting THEN [rest EXCEPT !.pc = "exit", !.drain = NoOne]
                     ELSE IF ~settles THEN [rest EXCEPT !.pc = "close"]
                     ELSE [rest EXCEPT !.pc = "peek", !.job = "settle", !.target = run[r].notice]]
              /\ Works
           \/ /\ run' = [run EXCEPT ![r] = [rest EXCEPT !.pc = "exit", !.drain = NoOne]]
              /\ Fails("read")
        /\ UNCHANGED <<rec, says, drains, told, returned, emptied>>

\* settleDrainTask: a task that was never created, or is over, is left alone.
CloseDrain(r) ==
    LET d == run[r].drain IN
    /\ At(r, "close")
    /\ drains' = IF d # NoOne /\ drains[d] = "open" THEN [drains EXCEPT ![d] = "closed"]
                 ELSE drains
    /\ Goes(r, "exit")
    /\ UNCHANGED <<rec, says, told, returned, emptied, faults>>

\* The end of a reading: follow-ups go back on the queue when nobody is answering.
ReadingExit(r) ==
    LET back == IF Answering THEN {} ELSE rec.followUps IN
    /\ At(r, "exit")
    /\ rec' = [rec EXCEPT !.queued = @ \cup back, !.followUps = @ \ back]
    /\ returned' = returned \cup back
    /\ Ends(r)
    /\ UNCHANGED <<says, drains, told, emptied, faults>>

-----------------------------------------------------------------------------
(* The answering turn.                                                      *)

\* The answer is ready: has its placeholder become the notice?
LookAtPlaceholder ==
    /\ At(Answerer, "idle")
    /\ run' = [run EXCEPT ![Answerer].pc = "fold",
                          ![Answerer].moved = (says[Placeholder] \in NoticeTexts)]
    /\ UNCHANGED <<rec, says, drains, told, returned, emptied, faults>>

\* Recorded follow-ups go into the answer, and off the queue.
FoldFollowUps ==
    /\ At(Answerer, "fold")
    /\ rec' = [rec EXCEPT !.queued = @ \ rec.followUps, !.followUps = {}]
    /\ emptied' = emptied \cup {d \in Messages :
                                /\ d = rec.drainId /\ rec.queued \subseteq rec.followUps
                                /\ \E r \in Readings : At(r, "now") /\ run[r].drain = d}
    /\ \/ /\ run[Answerer].moved
          /\ says' = [says EXCEPT ![AnswerPost] = "thinking"]
          /\ run' = [run EXCEPT ![Answerer].pc = "deliver", ![Answerer].target = AnswerPost]
          /\ Works
       \/ /\ run[Answerer].moved => Fails("answer")
          /\ ~run[Answerer].moved => Works
          /\ run' = [run EXCEPT ![Answerer].pc = "deliver", ![Answerer].target = Placeholder]
          /\ UNCHANGED says
    /\ UNCHANGED <<drains, told, returned>>

Deliver ==
    LET target == run[Answerer].target IN
    /\ At(Answerer, "deliver")
    /\ says' = [says EXCEPT ![target] = "answer"]
    /\ Goes(Answerer, IF run[Answerer].moved /\ target = Placeholder THEN "forget" ELSE "exit")
    /\ UNCHANGED <<rec, drains, told, returned, emptied, faults>>

\* forgetNoticeHoldingAnswer: the message that is the answer now is no longer the notice.
ForgetNotice ==
    /\ At(Answerer, "forget")
    /\ Writes(rec.pointer = Placeholder, [rec EXCEPT !.pointer = NoOne])
    /\ Goes(Answerer, "exit")
    /\ UNCHANGED <<says, drains, told, returned, emptied>>

\* At its exit the answer returns what it did not fold, and settles a notice nobody else
\* will: with nothing queued and no reading under way.
AnswerExit ==
    LET settles == /\ Shown(rec.pointer) # NoOne /\ rec.claim = NoOne
                   /\ rec.queued \cup rec.followUps = {}
    IN  /\ At(Answerer, "exit")
        /\ rec' = [rec EXCEPT !.queued = @ \cup rec.followUps, !.followUps = {}]
        /\ returned' = returned \cup rec.followUps
        /\ run' = IF settles
                  THEN [run EXCEPT ![Answerer].pc = "peek", ![Answerer].job = "settle",
                                   ![Answerer].target = rec.pointer]
                  ELSE Over(Answerer, FALSE)
        /\ UNCHANGED <<says, drains, told, emptied, faults>>

\* Mutant: the settled notice is forgotten whatever was queued meanwhile.
ForgetWhateverIsQueued ==
    /\ At(Answerer, "unpoint")
    /\ Writes(rec.pointer = run[Answerer].target, [rec EXCEPT !.pointer = NoOne])
    /\ Ends(Answerer)
    /\ UNCHANGED <<says, drains, told, returned, emptied>>

\* forgetSettledNotice: a message queued meanwhile owns the notice again.
ForgetSettled ==
    /\ At(Answerer, "unpoint")
    /\ Writes(rec.pointer = run[Answerer].target /\ rec.queued = {},
              [rec EXCEPT !.pointer = NoOne])
    /\ Ends(Answerer)
    /\ UNCHANGED <<says, drains, told, returned, emptied>>

-----------------------------------------------------------------------------
SenderStep(m) ==
    \/ ClaimDrain(m) \/ CreateDrain(m) \/ ClaimNotice(m)
    \/ FindPlaceholder(m) \/ PlaceNotice(m) \/ PostNotice(m)
    \/ RememberNotice(m) \/ ReleaseNoticeClaim(m) \/ AwaitNotice(m)

ReadingStep(r) ==
    \/ ReadState(r) \/ AdvanceStage(r) \/ Judge(r) \/ RecordFollowUps(r) \/ BeginNote(r)
    \/ ReadBeforeClear(r) \/ ClearQueue(r) \/ ReadQueueNow(r) \/ CloseDrain(r)
    \/ ReadingExit(r)

AnswerStep ==
    \/ LookAtPlaceholder \/ FoldFollowUps \/ Deliver \/ ForgetNotice
    \/ AnswerExit \/ ForgetSettled

Next ==
    \/ \E m \in Messages : Enqueue(m) \/ SenderStep(m)
    \/ \E r \in Readings : Begin(r) \/ ReadingStep(r)
    \/ AnswerStep
    \/ \E p \in Procs : ReadNotice(p) \/ WriteNotice(p)

Spec == Init /\ [][Next]_vars

-----------------------------------------------------------------------------
(* Properties.                                                              *)

\* A message stays the work of the drain it opened or joined as long as it is queued: no
\* clear with a remainder drops that drain, and none that is over is joined or closed
\* under a queue.  (A follow-up that comes back on the queue after a clear has none, and
\* a clear that could not be written leaves the drain to be closed under the next queue; so
\* does an answer that folds the whole queue before the reading that cleared it looks again.)
DrainTracked ==
    (\A r \in Readings : ~run[r].blind) => \A m \in rec.queued \ returned : run[m].drain # NoOne =>
        /\ rec.drainId = run[m].drain
        /\ drains[rec.drainId] # "closed" \/ rec.drainId \in emptied

\* The answer could not be posted, and went into the notice.
AnsweredInNotice ==
    /\ run[Answerer].moved /\ says[AnswerPost] = "nothing"
    /\ run[Answerer].pc \notin {"fold", "deliver"}

\* A message that waits has a notice, or someone on the way to post one, or its sender was
\* told otherwise: no clear, no settling and no failed post leaves a queue without one.
NoticeOwned ==
    (\E m \in rec.queued \ returned : At(m, "over")) =>
        \/ rec.pointer # NoOne
        \/ told # {} \/ AnsweredInNotice \/ \E m \in Messages : run[m].blind

\* The mark of a notice that is being posted is there only while its sender is posting it:
\* a mark left behind would silence every later sender.
PendingHasPoster ==
    \A m \in Messages : rec.pointer = Pending(m) =>
        run[m].pc \in {"find", "place", "post", "remember", "release"} \/ run[m].blind

\* A stage is shown for a reading under way, and is gone with it: one left behind would
\* refuse every stage of every later reading.
StageOfReading == rec.stage # "waiting" => rec.claim # NoOne

\* A message that holds the answer keeps it.
AnswerKept ==
    [][\A i \in Posts : says[i] = "answer" => says'[i] = "answer"]_says

=============================================================================
