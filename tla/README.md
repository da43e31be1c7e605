# AgentEchelon in TLA+

AgentEchelon answers people in chat conversations through assistants that run
as serverless functions. Nothing in it runs under a lock of its own: independent
invocations meet in conditional writes to a few DynamoDB items and in calls to the
messaging service. Four such protocols are modelled here:

- the **turn**: "A conversation answers one turn at a time, and says so when it
  cannot" (ADR-033). While an assistant answers, further messages wait in a queue,
  are read together, become follow-ups of the answer under way or requests of their
  own, and the next run takes over;
- the **recovery** of a turn whose invocation fails;
- the **duel** (`/battle`) of the assistants of one channel, in two rounds;
- the **invitation** of a person into a conversation, by link or by sign-in.

Paths are relative to `src/backend/lambda/src/` unless they begin with `src/`.

## 1. Inventory

| part | state it keeps | operations | interacts with |
|---|---|---|---|
| turn record (`lib/turn-lock.ts`) | one item per (conversation, assistant): holder, queue, triage claim, follow-ups, parked answer, notice, stage, drain task, split offer, stop marker | one conditional update or one read-then-write loop per function | every part of the turn |
| router (`router-agent-handler.ts`) | none of its own | claims the lock, or queues the message, opens the drain task and posts a notice; dispatches the processor; releases in its `finally`; dispatches rebuttals; resumes a waiting side of a duel | record, processor, channel, duel |
| assistant processor (`assistant-async-processor.ts`, `lib/async-processor-core.ts`) | one invocation per run | answers; folds follow-ups; parks a finished answer; reads the queue; delivers a parked answer; records the end of a side's round; settles the lock at its exit | record, router, model, channel, duel |
| arrival triage (`lib/triage-on-arrival.ts`, `lib/turn-triage.ts`) | none | a posted notice starts a reading of the queue under a claim | record, processor |
| exit (`lib/turn-handover.ts`, `lib/parked-turn.ts`) | none | returns follow-ups, yields or hands the lock to a reading or a pickup turn, settles the notice, releases | record, processor, tasks |
| failure recovery (`turn-lock-release-on-failure.ts`) | none | after the last try of an invocation: dispatches the turn again, asks for an apology, or releases | record, processor |
| notice and drain (`lib/turn-queue-notice.ts`, `lib/queue-drain-task.ts`) | notice id, stage, drain task id | post once, advance, note, settle, close | record, channel, tasks |
| duel (`lib/battle-state.ts`, `lib/battle-end.ts`, `channel-battle.ts`, `battle-orchestrator.ts`, `battle-outcome-api.ts`, fan-out in `channel-flow-processor.ts`) | a row per side and up to four marker rows per duel; the channel's pointer | start, answer, ask and resume, fire round 2, resolve, end, enable and disable, take a pick | channel flow, processor, router |
| invitation (`invitations.ts`, `lib/invitations.ts`, `lib/invitation-redemption.ts`, `lib/person-identity.ts`, `lib/participant-roles.ts`, `lib/tokens.ts`) | the token record and its alias; Identities rows; holder of a participant role; the invitee's expiration and membership at the messaging service | create with undo, redeem by link or sign-in, remind, revoke, expire | credential exchange, messaging service |
| task state machines (`lib/task-state-machines.ts`, `lib/task-tracking.ts`, `lib/workflow-task.ts`) | task items, steps, chain | advance, block, unblock, pick up | processor, exit |
| stop (`lib/stop-evaluation.ts`, `lib/stop-target.ts`) | stop marker | write, look before delivery | processor |
| abuse controls (`lib/abuse-controls.ts`, `lib/bedrock-resilience.ts`) | correlation claims, hourly counters, breaker | claim, count, trip | processor |
| event workflows, profiles, experiments, membership, analytics, infrastructure | their own items | see the components of `PROJECT.json` | mostly independent of the above |

What is hard, and the properties for it:

- **Interleaving.** Invocations act on what they read earlier. One reading reads a
  queue (`OneReadingAtATime`), a run answers its message once (`AnsweredOnce`), a request
  is not lost (`NoRequestLost`); one notice is posted and belongs to somebody
  (`NoticeOwned`, `PendingHasPoster`); round 2 of a duel is fired once, after every side
  (`RebuttedOnce`, `Round2WaitsForSides`); an invitation admits once (`AdmittedOnce`).
- **Several writes of one run,** each of which may be the one that fails: claim,
  hand-over, dispatch (`NoClaimLeft`, `LockGivenUp`, `ImplementsTurnLock`); the clear of
  the queue and the close of its drain (`DrainTracked`, `StageOfReading`); the creation
  of an invitation and its undo (`HolderInvited`); the end of a duel in five writes
  (`EndedSidesStop`, `EndedTakesNoPick`).
- **Retries and duplicates.** The platform tries an invocation three times and may
  deliver it twice, and the failure handler dispatches the turn again (`SpokenOnce`,
  `NotSilent`, `HeldWhileAnswering`, `LockSettled`); the channel delivers `/battle` twice
  (`OneTurnPerSide`); a write whose answer is lost is taken for a failure (`BoundSpent`,
  `RemindedOnce`).
- **A finished answer that waits** for a reading: four writes by different runs
  (`ParkedAnswerKept`).
- **Late effects.** A release after another duel has started (`LateReleaseHarmless`), a
  restoring after another redemption committed (`RefusedStillLapses`,
  `BoundNeverExpires`), a notice over an answer (`AnswerKept`).
- **Optimistic loops on lists.** Read, compute, write on condition, three attempts
  (`AtomicWrites`, `WaitingOnce`).

`PROJECT.json` lists every component, also the ones that are not modelled, and the
hazards at their lines.

## 2. Modules

| module | what it is | code |
|---|---|---|
| `TurnRecord` | the item and each conditional write as a pair `XOk` / `X`; no variables | `lib/turn-lock.ts` |
| `TurnLock` | abstract: who may answer and how the lock moves, with one phase per turn | what the writes promise |
| `TurnQueue` | detailed: every run with its program counter and its stale reads, one read or write per step | router, triage, processor, exit |
| `TurnQueue_proofs` | the theorems about `TurnQueue`, and that it implements `TurnLock` | |
| `QueueList` | the lists as sequences with the loops of `turn-lock.ts` spelled out | the seven list functions |
| `QueueList_proofs` | the theorems about `QueueList` | |
| `TurnLock_proofs` | the theorems about `TurnLock` | |
| `TurnRecovery` | the invocations of a turn, their tries and copies, the claim on a delivery, the failure handler, minutes | processor entry and exit, failure handler |
| `TurnRecovery_proofs` | the theorems about `TurnRecovery` | |
| `TurnNotice` | the notice, its stage and the drain task, between senders, readings and the answer | notice, drain, reading, router |
| `TurnNotice_proofs` | the theorems about `TurnNotice` | |
| `Battle` | the duels of one channel | duel, channel flow, orchestrator, router |
| `Battle_proofs` | the theorems about `Battle` | |
| `Invitation` | the invitations into one conversation | invitation, tokens, identities, roles |
| `Invitation_proofs` | the theorems about `Invitation` | |
| `MC...` | the instances TLC checks | |

`TurnLock`, `TurnQueue` and `QueueList` all EXTEND `TurnRecord`, so the same
operators are proved about, interleaved and refined:

    QueueList  --AtomicWrites-->  TurnRecord  <--  TurnQueue  --ImplementsTurnLock-->  TurnLock  <--  TurnLock_proofs
        ^                                         ^
    QueueList_proofs                     TurnQueue_proofs

**TurnRecord.** `holder`, `queued`, `amendments`, `triagedBy` are the attributes of
those names; `parked` and `resumedBy` stand for the parked parameters and the mark of
the reading that resumed them. An expiry is a Boolean argument of the condition; the
modules decide when it may be true. Queue and follow-ups are sets.

**TurnLock.** `lock` is the record without its queue. `phase` says how far each turn
has come. *working* is a run that was admitted while the record named it, *alone* one
that was admitted although the record did not: the code lets it run (a claim fails
open, admission does not ask), so the protocol has to say what holds of each.

**TurnQueue.** `ask[m]` is the router's invocation for message `m`; `run[p]` the
processor's run of each turn, with what it has read (`seen`, `other`, `busy`, `amend`);
`tail[m]` the clean-up left to a run that has folded; `events` the notices on their
way. `answered`, `tasked`, `judged`, `told` are a ledger kept for the properties.
One action is one remote call with the local code that follows it, e.g. the exit is
`ReadAtExit`, `ReturnFollowUps`, `ClaimFollowUp`, `YieldToReading`, `FetchFollowUp`,
`ClearEmptied`, `HandOverToFollowUp`, `DispatchFollowUp`, `FreeFollowUp`,
`GiveUpClaim`, `ReleaseAtExit`, in the order of `handOverToFollowUpTriage`. A failure
is a disjunct of the call that fails, taken only for a kind in `Faults` and at most
`MaxFaults` times. A run that ended, or was ended, without the write that would have settled
its lock or claim is at `dead`. The other detailed modules have the same form.

**QueueList.** `call[c]` is the call each caller is in: what it read (`view`), how
often it was refused (`tries`). The order of a run's calls is the code's: a reading
records, clears, and returns what is left; the run that folded clears the follow-up
list (one attempt) and then the queue.

**TurnRecovery.** An event is a payload: turn, resume or not, `turnAttempt`,
`announceFailure`. `job` holds two copies of each, since an event may be delivered
twice; a copy waits, runs, or has failed every try. `Admit` is `claimCorrelation` on
`deliveryCorrelationId`: the delivery that loses it ends as a success, and a claim
that cannot be written admits (`claimCorrelation` fails open). `TakeParked` has the take that
fails with and without its write, and the look at the record behind it. `Recover` is
the whole failure handler. `Tick` is a minute; it ages the hold and shortens waits, and
a message may take over a hold of `StaleAfter` minutes. A ledger is kept for the properties:
`answered`, `told`, `lost` (an admitted run of the turn was ended by the platform), `gaveUp`
(no apology could be made), `overtaken` (the hold was taken over), `unclaimed` (a delivery was
admitted without its claim), `untaken` (a resume could not take the parked answer) and
`unreleased` (a release was not written).

**TurnNotice.** `rec` is the part of the turn record the notice lives in. `says` is what
each message in the conversation shows. A sender goes through `Enqueue`, `ClaimDrain`,
`CreateDrain`, `ClaimNotice`, `FindPlaceholder`, `PlaceNotice`, `PostNotice`,
`RememberNotice`; a reading through its stages, its note, the clear and the settling;
the answer moves to the end of the conversation or into the notice. The read of a
message (`ReadNotice`) and its write (`WriteNotice`) are steps of their own: all the
guards against overwriting an answer are between them. `told`, `returned` (follow-ups put
back on the queue) and `emptied` (drains whose queue an answer folded away between a
reading's clear and its second look) are a ledger kept for the properties.

**Battle.** `rows` and `marks` are the state table, `config` the channel's record.
`flow[f]` is the handling of one delivery of `/battle`, `work` the sides' turns, `fires`
and `orch` the invocations of the orchestrator, `end[p]` the calls of `endBattle`, made by
a command, the toggle, an ended experiment, or a new duel. A pointer is read through a
cache of a minute, so a reader may see any value of `past`.

**Invitation.** `record` is the token record; its two links are the first token and the
one a reminder adds as an alias. `create[i]`, `call[c]`, `remind[n]` and `revoke[v]` are the
four kinds of call. `expiring` and `member` are facts of the messaging service,
`identity` the Identities rows, `holds` and `moderates` the participant role.

## 3. What is checked

| run | instance | shows |
|---|---|---|
| `turn_lock` | 2 messages, 2 readings, 1 task | the inductive invariant of the proofs in every reachable state of the lock protocol |
| `turn_queue` | 3 messages, 2 readings, queue of 1, no failures | no request is lost without its sender told; no claim is left behind |
| `turn_queue_faults` | 2 messages, 2 readings, any 2 failures of any kind | the same of requests; no own answer twice; one reading at a time; every step is a step of `TurnLock`; a lock is given up |
| `queue_list` | 2 messages, 2 readings, 1 displacement | the loops are the atomic writes `TurnRecord` takes them for; no message waits twice |
| `turn_recovery` | 1 turn, 2 attempts, 3 tries of 2 copies each, 1 failure and any number of refused identities | one answer or one apology; a turn that answers holds the conversation; no silence; the lock settled in the end; each with the exceptions below |
| `turn_notice` | 2 messages; 1 reading with 1 failure, or 2 readings without | a queue has its notice and its drain task; no mark or stage is left behind |
| `invitation` | 2 invitations, 2 sign-ins, 2 calls of each kind, 1 failure | admitted once, bound exactly when spent, refused ones lapse, revoked ones are out, reminded once, one invited holder |
| `battle` | 2 duels of 2 sides, 3 deliveries, 1 end by hand, 1 question, 1 failure | one rebuttal round, after every side; an ended duel stays ended to whoever can read its rows; a late release is harmless; nothing is left open |

Four runs check a sentence of the repository that the code does not keep. Each is
listed under "findings" with the sentence and the line; the traces are short enough to
be read as scenarios:

- `follow_up_lost`: an answer ends, puts the recorded follow-ups back on the queue, and
  the reading that recorded them then clears all it read. ADR-033 invariant B.
- `two_answers`: a refused claim finds the holder gone when it reads who it is, and goes
  on without the lock; the next message claims it.
- `answer_overwritten`: a sender finds the answer's placeholder, the answer is delivered
  into it, the sender writes "waiting" over it.
- `bound_expires`: a refused sign-in finds the invitation unspent; another commits; the
  refused one puts the expiration back on the person just bound.

### Observations

Behaviour met while modelling that no run above states, with the words of the code
where it has some. The properties are stated so that they hold beside it; each
exception is named in the property's comment.

Turn queue:
- A reading may record a follow-up for an answer that has already returned what was
  recorded and only releases; it is then recorded for nobody (SPEC-TURN-QUEUE FR6 "never
  left recorded against nothing").
- A notice reads the queue before it claims it and may read again what another reading
  has just cleared (`lib/turn-lock.ts:2273`).
- A fold takes its messages off the follow-up list before it takes them off the queue; a
  second pass of a reading records them again in between (`lib/turn-lock.ts:1397`).
- Two answers at work at once (`two_answers`) read the same follow-ups and both fold them, so
  a follow-up may be answered twice, with four messages also when nothing fails. That is why
  `AnsweredOnce` speaks of the messages no reading took for a follow-up.
- An exit that reads the queue, finds another reading at work and claims the queue only when
  that one is done starts its follow-up on the messages it read before: each is made a task
  twice (`lib/turn-lock.ts:529` has "five tasks for three messages" of an earlier version).
- A reading whose claim was taken over may record a follow-up a second time, and it is
  returned to the queue as often as it was recorded. The queue then holds fewer messages than its
  length says, and the overflow, which looks at the length (`lib/turn-lock.ts:943`), drops
  the oldest of them too early. With three messages: one is dropped of a queue with room for
  all. That is why `AtomicWrites` asks for a true overflow only when no claim was taken over.
- An answer parks for a follow-up reading whose starter then gives it up: the lock stays
  until it is old enough to be taken over.
- Writes whose failure is only logged, and what they leave until it expires or the next message
  takes it over. A release, at an exit or of a hold a follow-up reading was given
  (`lib/turn-handover.ts:647`): the lock. The take of a parked answer (`lib/turn-lock.ts:1599`): the
  lock, with the answer still parked, and a run that ended as a success. The handing back of an
  answer that could not be resumed (`lib/turn-lock.ts:1574`): the same. The clear of what was read
  (`lib/async-processor-core.ts:6341`; the exit then finds the claim its own and only
  releases the lock, `lib/turn-handover.ts:442`) and the giving up of a claim
  (`lib/turn-lock.ts:2350`): the claim on the queue. `LockGivenUp` and `ClaimsEnd` except them.
- A turn-lock claim that cannot be written lets its turn run (it fails open); a claim on the
  queue that cannot be written is refused (`lib/turn-lock.ts:2322` "FAILS CLOSED").
- When two runs end together, each may leave the queue to the other
  (`ADR-033:464`). With the failure "record" a follow-up is cleared though it was not
  recorded.

Recovery:
- When the platform kills an admitted run, its tries are taken for duplicates and
  succeed, so the failure handler never hears of it and the lock stays until it is taken
  over; `lib/turn-handover.ts:88` expects it to be "released by the async-invoke onFailure
  destination once the retries are spent". These runs are `lost`.
- The claim on a delivery fails open (`lib/abuse-controls.ts:70`): a second delivery of the event,
  or a retry of it, is then admitted beside the first or after it. The sender hears twice, and
  the first of them to settle releases the lock under the other. The module's header says as
  much: such claims "are idempotency, not limits: their worst case is one duplicate, so they FAIL
  OPEN" (`lib/abuse-controls.ts:14`). These turns are `unclaimed`.
- A take of the parked answer that fails ends the resume as a success
  (`assistant-async-processor.ts:569`): no try follows, no apology, and the lock stays. With
  the answer of the write lost, the look behind it finds the lock and settles it, but the
  parked answer is gone. These turns are `untaken`; to `NotSilent` they are the third way
  into silence, after `lost` and `gaveUp`.
- The failure handler's last release may fail as well
  (`turn-lock-release-on-failure.ts:216`); then, as after a failed release at an exit, the lock
  waits for a takeover: `unreleased`.
- A hold of five minutes is taken over while the tries of its turn are still waiting, so
  that the retry then answers beside another turn
  (`turn-lock-release-on-failure.ts:134` holds the lock against that). When the turn that took
  over is done, it frees the conversation under that retry. These turns are `overtaken`.
- A run killed after it has answered, whose tries then fail before admission, is
  dispatched again under a new delivery id and answers twice. This is
  `FailedThoughDelivered`.

Notice:
- A notice remembered between a reading's look at the record and its clear stays
  "waiting"; so does the old notice when a message is queued between the clear and the
  second look, and its drain stays open.
- A drain task created after its drain was settled stays open; a clear that could not be
  written lets the drain be closed under the next queue.
- A reading clears with a remainder, the next one starts under the same drain, and an answer
  folds what is left, which empties the queue but leaves `drainId`. The first reading then
  looks again, finds nothing queued and closes the drain
  (`lib/async-processor-core.ts:6377`), which the record still names: the next sender joins a
  drain that is over (`lib/turn-lock.ts:549` keeps the id while something waits). It takes
  three messages. These drains are `emptied`, and `DrainTracked` excepts them.
- If the id of a posted notice cannot be written, the mark stays and later senders wait
  for an id that never comes; if the write of a claim fails, its sender is silent. A
  sender that is killed between the two leaves the mark too (kills are not modelled here).
- The settling at an exit may say "caught up" over a message that has just joined.

Duel:
- Two `/battle` messages close together both find no live duel; the second takes the
  channel and the first is orphaned.
- The rows of the sides are written beside their turns, so a fast side can be the only
  row, take itself for the last, and fire round 2 alone; so can one whose rival's row
  could not be written.
- A side that dies, or whose turn was stopped, writes no last row; the duel waits until a
  new one supersedes it (`battle-orchestrator.ts:176` says so). A killed orchestrator, or a
  claim whose answer was lost, keeps the channel until the backstop of four hours. The rows
  are read eventually consistently: two sides that finish together may each miss the
  other's row, and then neither fires.
- `/battle end` through a stale pointer marks a resolved duel as ended by a person, and its
  picks are refused (`lib/battle-state.ts:1112` "ended by a person rather than finished").
- A pick on an ended duel is accepted when its rows cannot be read
  (`battle-outcome-api.ts:220` "THE FAIL-OPEN IS `rows.length > 0`"). `EndedTakesNoPick` speaks of
  the picks that could read them.
- Enabling again drops the pointer of a running duel. A side that asks its question between
  the end's read and its write keeps its control in the room.

Invitation:
- A revocation between the record and the second write of the holding leaves a revoked
  invitee with the role (`invitations.ts:479` "THE ROLE GOES WITH THE INVITATION").
- An invitation is spent before its session is vended; if vending fails, it is spent and
  nobody is in.
- Offboarding the inviter while a sign-in is refused leaves an invitee who never expires.
- A role that could not be released is logged, and the revocation is answered as done.
- A claim of the one-holder role that was written but reported as failed is not undone
  (`invitations.ts:384`): a refused invitee keeps the role, and nobody else can be invited to
  it. These invitees are among those in `stuck`.

### Bounds

*Turn queue.* The code's limits are `QUEUE_MAX` 5, `AMENDMENT_FOLD_LIMIT` 2,
`TRIAGE_MAX_PASSES` 3, three attempts. The limit of folds is the code's in both runs; that of
passes is the code's with failures and 2 without, where a pass that the model asks for, one that a
moved queue asks for and the last pass are all met. `MCTurnQueue` makes the queue short, so
that a second waiting message overflows it; two messages
still wait at once, since the trim is a later write that may be refused or delayed. Three
messages are one that is answered and two behind it, the least for an overflow, for a
queue that moves under a reading, and for a follow-up beside a new request. Two readings
are one under way and one being claimed for; a reading's id is used again once nothing
refers to it, and an instance whose readings all died has no further one to name
(`Abandoned`). `MaxEvents` bounds notices on their way; a sender that would post one more
waits. `QueueList` has two messages, a queue of one, two attempts and one pass of each of
two readings, so that every loop can lose and give up.

*Recovery.* One turn: all that can go wrong within a turn's own deliveries. A second turn adds
the takeover of a stale hold, which the theorems of section 4 cover for any number of turns.
Two attempts and three tries are the code's
and the platform's numbers; `StaleAfter` is 1, so that every hold can become old while tries
are waiting. Two copies of an event suffice, since the second is already not admitted. Time
passes only while nothing runs: the minutes that matter are those between tries.
`MaxFaults` counts every failure but a refused identity, of which there may be any number. One
failure is enough for each exception and, with the identities, for every path of the failure
handler; a duplicate beside another failure is left to the theorems, which have any number.

*Notice.* `Bound` allows one reading with a failure anywhere, or two readings in a run
without failures, under way at once only while no sender is in the middle of its steps. Two
senders are the race for the notice, and the one that is queued behind a clear. The case of
an `emptied` drain needs a third; the theorems of section 4 hold for any number.

*Duel.* Two sides are the code's number. `Bounded` lets the second `/battle` meet a first
duel that asks no question and that nobody ends by hand, and lets it, and a redelivery,
meet no failure: a duel alone has every failure, the end by hand, and the question. Beside
that a person may enable or disable at any time. `NothingLeftOpen` is the safety form of
"in the end resolved": no state in which nothing is on its way is unresolved; the temporal
form over this state space is too slow to check.

*Invitation.* Two invitations are one each for the one-holder role; two calls of each kind
race. `Bounded` keeps redemptions and reminders until a creation has ended (they need its
record) and takes reminders and revocations beside a redemption only for one invitation and
without failures.

Messages, readings, sides, invitations, calls are interchangeable: symmetry over them,
except in the runs with temporal properties whose steps name them (`turn_queue_faults`,
`turn_recovery`).

### Environment

- A hold and a claim in `TurnQueue` expire only when nothing runs under them (`Gone`,
  `Expired`): `STALE_AFTER_MS` and `TRIAGE_CLAIM_TTL_SECONDS` are five minutes, which the
  code takes for longer than any run. A reading of several passes keeps one claim and may
  in fact outlast it; the clear is conditional on the claim for that case, and `QueueList`
  has it as a takeover (`MaxTakeovers`). `WaitingOnce` is stated for executions without
  one, and so is the overflow in `AtomicWrites`. In `TurnRecovery` a hold expires by its age, whatever is waiting.
- A run the platform ends had been admitted, so its redelivery is a duplicate and does
  nothing (`Die`); `TurnRecovery` has the tries one by one.
- A message is sent once; its model answer is any partition of what was read into
  follow-ups and requests of their own.
- A read is of the item as it is at that step; what is kept from an earlier read is in the
  state of the run. The code asks for consistent reads where it decides, except of the rows
  of a duel: there the model is stronger than the code (section 3, Observations).
- A failure of a write changes nothing, except where it matters that its answer may be lost:
  `Consume`, `Transact`, `RemoveExpiration`, `WriteAlias` and `ClaimRole`, and in `TurnRecovery`
  `Admit` and `TakeParked`, may have been done although they are reported as failed. A
  conditional write that the client library repeats by itself after losing the answer counts as
  one write.
- In `Battle` two kinds of failure are left out of the run: a claim on the fan-out that
  fails open, which starts a side twice, and an end's marker that cannot be written, after
  which a pick is accepted. Both are steps of the module (kinds "claim" and "abandoned").

### Fairness

`TurnQueue!FairSpec` has weak fairness for every step of a run or of a router invocation
that has begun, and for the delivery of a posted notice. The platform runs an invocation to
its end unless it kills it, and each of these steps stays possible until it is taken. There
is none for people's messages, failures or redactions. `LockGivenUp` excepts a lock whose
run was killed, or one of three writes of which was not made: its release, the take of the
parked answer, the handing back of that answer by a reading that could not resume it. That
lock waits for the next message's takeover, which nothing guarantees. `TurnRecovery!FairSpec` has weak fairness for every copy's progress (a
try that is promised is made, and ends by itself or by the platform) and for the passing of
minutes; none for new turns and duplicates. `LockSettled` excepts an admitted run that was
ended, a parked answer that could not be taken, and a release that was not written.

## 4. What is proved

`TurnLock_proofs` proves, for any messages, readings and tasks (assumptions: the three
are disjoint and do not contain `NoOne`):

| theorem | statement |
|---|---|
| `TypeCorrect` | `Spec => []TypeOK` |
| `LockedAnswerHoldsThm` | an answer admitted under the lock holds it as long as it is at work |
| `OneLockedAnswer` | so two such answers are never at work at once |
| `FinishedAnswerHoldsNothingThm` | an answer that is over or parked is not the holder |
| `ParkedAnswerKeptThm` | a parked answer stays in the record until one run takes it |

None of the properties is inductive alone. That the holder is not taken from an answer
at work depends on which phases may write `holder`: a resume writes the parked turn
into it, which is harmless only because a parked turn is in phase parked, resuming or
dead and not over; that depends in turn on `resumedBy` being set exactly while a
resume is under way. `IInv` is the conjunction of `TypeOK` and the three
properties; each action is one lemma-sized step and disturbs at most two conjuncts.
The action that resumes is the long one: it touches `holder`, `resumedBy` and `phase`
together. `turn_lock` checks all conjuncts of `IInv` first.

`Invitation_proofs` proves, for any invitations, sign-ins, calls, reminders and revokers and
any number of failures (assumptions: calls and reminders are finite sets, for the bounds of
the ledger in `TypeOK`; `Own` and `NoOne` are two values and no invitations):

| theorem | statement |
|---|---|
| `TypeCorrect` | `Spec => []TypeOK` |
| `AdmittedOnceThm` | an invitation is spent at most once |
| `BoundSpentThm` | a sign-in invitation is spent exactly when one subject signs in as its invitee |
| `RefusedStillLapsesThm` | an invitee whose sign-ins were refused has its expiration again |
| `RevokedOutThm` | a revocation answered as done left no member |
| `RemindedOnceThm` | at most one reminder goes out |
| `HolderInvitedThm` | one holder of the role, and no failed creation keeps it |

Here too a promise needs the others. `IInv` has these parts:

- `SpentByKey`: the only key ever in `consumed` is the first link's, and `admitted` is 1
  exactly when it is there. Since every spending asks that it is not there, `AdmittedOnce`
  follows; with a record of its own for the second link it would not.
- `Staged`: how far a creation is says what there is of the invitation: no record before it
  is written, an expiration from the minting on, no role before the claim.
- `CallsKnow`: a redemption past its first step is of an invitation that was sent, and a
  sign-in's is of a sign-in invitation; no call of another creation can change that mode.
- `Bindings`: bound implies spent, spent by sign-in implies bound, and two subjects are not
  bound to one invitee. Needs `SpentByKey` at the transaction: unspent means nobody is bound.
- `RefusedStillLapses` itself: a refused sign-in that finds the invitation spent may leave
  the expiration off because, by `Bindings`, somebody is bound; before the redemptions it
  rests on `Staged`.
- `Revocations`: a revocation has a record, so by `Staged` the creation is past adding the
  invitee and a removed member does not come back.
- `Reminding` (the call that mails marked the record, and is the only one), `Holding` (the
  role's one holder; a failed creation has none or is in `stuck`), `Ledger` and `Typed`.

What a step does to the records is said once per kind of write (`MarksOnly`, `AskWrites`,
`StoreWrites`, `SpendWrites`); each part of `IInv` then has a lemma over the steps that touch
its variables. The properties among the parts are what the run `invitation` checks, and the
other parts hold in all of its states too. `BoundNeverExpires` is not among them: it is
false (`bound_expires`).

`Battle_proofs` proves, for any duels, sides, deliveries and enders and any number of faults
(assumptions: the constants are typed, `NoDuel` is no duel, deliveries are no enders):

| theorem | statement | hypothesis |
|---|---|---|
| `IInvHolds` | `Spec => []IInv` | |
| `RoundTwoAskedOnce` | round 2 is asked for once of each side, and not at all once an end took its claim | |
| `RoundTwoWaits` | no side that round 2 was fired for is at work or waiting, then or later | |
| `EndStopsSides` | an end without a fault has stopped each side it found running | |
| `NothingStaysOpen` | a duel at rest, no fault met, is resolved and has given the channel back | |
| `OneTurnOfASide`, `TypeCorrect` | a side has one turn of round 1 at work; the types, with that bound | `"claim" \notin Faults` |
| `NoPickAfterEnd` | a duel ended before round 2 takes no pick that reads its rows | `"abandoned" \notin Faults` |
| `LateReleases` | no release takes the channel from a duel neither resolved nor ended | `"abandoned" \notin Faults` |

The two hypotheses say where the code gives a promise up, and the run `battle` has them too:
the claim of the fan-out fails open (a repeated delivery then starts the sides again), and an
end goes on when its marker could not be written. Every other fault is allowed for. The
parts of `IInv` fall into three groups:

- Who holds round 2. `FireClaimed`: whoever is past the claim has marked the duel, and an end
  that took it finds the orchestrator idle for good. With `AskedOnce` (a side is asked while it
  is in `todo`) that is `RebuttedOnce`. `SeenSettled` and `PassedSettled` need only that
  nothing leaves a settled row (`SettledStays`); `EndRecorded` says that an end past its
  marker has left it.
- How a duel starts. `OneFanOut` and `SentInFan`: one delivery of a duel passes the claim and
  sends a side its turn once; so `WorkBounded` can say, by the row of a side, how many turns it
  has at work. `Untouched`: until a delivery has published the duel, nobody has written a row,
  seen its pointer in the cache, or begun to end it.
- What must still happen. `RoundWatched`: a round that is over is claimed, or fired, or a side is
  still to look at it. `ClaimResolved` and `ClaimReleases`: whoever took the claim is still
  to mark the duel or has, and is still to release the pointer or it is elsewhere. At rest
  nobody is still to do anything, and what remains is `NothingLeftOpen`.

Each part has one lemma (`...Kept`). They share what a step writes: the lemmas named
`...Writers` say which actions touch a variable, `...Own` that an action moves only its own
delivery, duel or call, and `...Moves` what it leaves there.

`TurnQueue_proofs` proves, for any messages and readings, any limits of folds and passes and
any number of failures (assumptions: the ids are disjoint and do not contain `NoOne`, the
limits are numbers, and `Tasks` is empty, since the module has no pickup turns):

| theorem | statement | hypothesis |
|---|---|---|
| `IInvHolds` | `Spec => []IInv` | |
| `TypeCorrect` | the types, with the limits of folds and passes | |
| `ReadsAlone` | a reading that has not cleared what it read has the claim on the queue | |
| `KeepsRequests` | no request is lost without its sender told | |
| `AnswersOnce` | a message that is no follow-up is answered at most once | |
| `ClaimsEnd` | no claim on the queue is left when nothing runs any more | `Faults \cap {"kill", "unusable", "clear", "giveup"} = {}` |
| `KeepsToLock` | `Spec => ImplementsTurnLock`: each step is a step of `TurnLock` or leaves it alone | |
| `KeepsPromises` | the three promises of `TurnLock`, of the runs | |
| `KeepsLock` | no step takes the lock from an answer at work that was admitted under it | |

`ClaimsEnd` needs its hypothesis. A run that is ended leaves its claim; so does a reading that
comes back without a usable answer, which settles at once and clears nothing (`Look`), one
whose clear cannot be written (`ClearQueueRead`, `ClearEmptied`), and a run that cannot write that
it gives a claim up (`GiveUpClaim`). Such a claim waits to expire. The theorem says that of the
failures modelled there are no others. The parts of `IInv`, in the order in which they need one another:

- `Shaped` and `Bounded`: at which points a run of each kind can be, what it has read there,
  and how often it has folded or read. `Asking`: while the router has a message its run has
  not begun, so a re-dispatch (`Fold`) meets no run of its own.
- `Parking`: the parked answer's run waits, is being delivered by the one run invoked for it, or
  was left resumed when a write of its delivery failed; a reading that is resuming is the one named in the record. Without it a resume could
  meet another answer's parameters.
- `Following`: a run that has claimed the queue for a follow-up is the only one to start that
  reading, which waits (or was left with the lock, when the release in its name failed), and the
  claim is the follow-up's. This is what makes expiry harmless:
  a claim under which nothing runs is of no follow-up (`NobodyFollows`) and of no reading
  (`NobodyReads`), so whoever takes it over takes it from nobody.
- `OneReadingAtATime` itself, from `Following` where a follow-up is started and from the
  condition of each clear where a claim ends.
- `HandedAway`: whoever gave the lock to its follow-up gets neither lock nor claim back.
- `ClaimWatched`: while a claim is held, some run is still to clear it, to give it up, or to
  start the reading it is for. At rest there is no such run, which is `NoClaimLeft`.
- `FollowUpsJudged`, `Requests`, `AnsweredAtEnd`: only judged messages are recorded and
  folded; a message leaves the queue only as judged, told, redacted or made a task, and a run
  ends only with its message answered; the count is raised at the end of a run, once.

What an action does is said once, in its lemma `...Step`, with the types it leaves; each part
then has one lemma over the actions (`...Kept`), and a lemma `...Elsewhere` for the many
steps that touch nothing the part speaks of.

The refinement follows from `IInv` as well. A phase of `TurnLock` is a function of the runs'
points and of the record (`PhaseOfAnswer`, `PhaseOfReading`), so a step may change the phase
of a turn that does not move: a claim names a reading, an abandoned resume parks the answer
again. `PhasesHold` says which phase each point stands for, by `IInv`; `PhasesElsewhere`
which turns keep theirs; the lemmas `Lock...` turn what a step writes into an action of
`TurnLock`; and each action of `TurnQueue` has one lemma (`...Implements`), with
`StepImplements` over all of them. Where a run does no more than read, the step is a stutter.
The prover cannot instantiate a theorem of another module, so the promises of `TurnLock` are
proved again, of the runs: `LockProtocol` reduces each of its steps to what the step does to a
lock and phases that are given, `ProtocolKeeps` is the argument of `TurnLock_proofs` about
those, and with `StepImplements` it holds of every step of a run. That an answer *working*
has the lock is part of what that phase means here; `KeepsLock` is the rest of it, that such an
answer is not turned into one that is at work *alone*.

`TurnRecovery_proofs` proves, for any turns, any numbers of attempts and tries, any age of a
stale hold and any kinds and number of failures (assumptions: `NoOne` is no turn, the numbers
are positive). No kind of failure is ruled out; where the code gives a promise up, the property
excepts the turn it happened to:

| theorem | statement |
|---|---|
| `IInvHolds` | `Spec => []IInv` |
| `TypeCorrect` | the types: no event is tried more often than the platform tries it |
| `SpeaksOnce` | a turn is answered or its sender told at most once, unless an event of it was reported failed though it was delivered, or a delivery of it was admitted without its claim |
| `KeepsHold` | a turn that writes its answer holds the conversation, unless its hold was taken over when stale, a resume of it was delivered twice, or as above |
| `EndsInWords` | when nothing is under way, every turn was answered or apologized for, unless an admitted run of it was ended, no apology could be made, or its parked answer could not be taken |

What the properties except is excepted in the parts of `IInv` as well and never comes back:
`Excepted` says that it stays so. The exceptions are facts of single turns: a claim that failed
open for one turn takes nothing from the others.

- `JobsShaped`: a copy whose tries are spent has failed or is over, and one that runs or ended
  well was admitted. `Started`: there is no second copy without a first, and nothing of a turn
  that was not dispatched.
- `OneActive`: of the copies of a turn at most one has more to do than to end unadmitted, or two
  that wait are copies of one delivery (`Twins`), of which the first to be admitted leaves
  the other nothing; and a resume has nothing beside it (`ResumedAfter`). A new copy is active only
  when the failure handler or the parking run has just ended the one before, or when it is such a
  twin: one lemma says who sends (`Appears`), one that a copy sent finds no other (`NewAlone`). `OneAdmitted`: once one was admitted, none that waits can
  still be.
- `SpeaksAdmitted`, `OneSpeaks`: nobody speaks before an admission; then one copy speaks, or its
  answer is parked, or it has spoken. That is `SpokenOnce`; it needs `OneAdmitted` at an
  admission, since the delivery ids of a re-dispatch and of an apology are new ones.
- `Held`: the turn has its hold while any copy is active. The lock is given up by a settling or
  failed copy, which is active, hence the only one.
- `Awaited`, `ParkedSent`: until a turn was spoken for or lost, something is to come: of each
  event sent, one at or after it in the order of the failure handler waits or has failed
  (`ComesOf`), until one is admitted; then the run that was; then the resume of a parked
  answer. When nothing is under way there is nothing to come, which is `NotSilent`.

A step is reduced to where each copy is, whether its tries are spent, and the ledger (`Step`; one
lemma `...Step` per action); each part then has one lemma over those effects (`...Kept`).

`TurnNotice_proofs` proves, for any messages and readings and any kinds and number of failures
(assumptions: the ids are disjoint and different from one another and from `NoOne`, and no
mark `pending:<id>` is the id of a message), and without a further hypothesis:

| theorem | statement |
|---|---|
| `IInvHolds` | `Spec => []IInv` |
| `TypeCorrect` | the types: what the record points at is a message, a mark or nothing |
| `KeepsDrain` | a queued message's drain is the one the record names, and is not over |
| `KeepsNotice` | a message that waits after its sender is done has a notice, or an excuse |
| `KeepsPoster` | the mark of a notice is there only while its sender posts it |
| `KeepsStage` | a stage is shown only under a claim |

- `Shaped`: at which points a sender, a reading and the answer can be, for what and into which
  messages it writes there. `AnswerPlaced`: the answer's post says nothing as long as the
  answer may still go elsewhere.
- `ClaimHeld`: a reading that is not past its clear has the claim. With the conditions on the
  claim in every write of a stage this is `StageOfReading`: the clear that ends the claim
  resets the stage, and no reading behind it writes one.
- `Marked`: the mark is its sender's (`mine`) or a write failed; a sender gives `mine` up only in
  the step that replaces or removes the mark. That is `PendingHasPoster`.
- `InformedOwned`: from where a sender has seen a notice or has claimed one, the record has a
  pointer while its message is queued, or there is an excuse; stated from that point on, and
  not only when the sender is done, it is inductive. The excuses are permanent
  (`ExcusedKept`), for which `AnswerPlaced` is needed: a post that was not made is not made
  later. `ReleaseTold`: who gives its claim on the notice up has told its sender.
- `DrainsOpened`: an id is a drain's only after its sender has opened it. `DrainJoined`: a
  queued message's drain is the record's. `ClosedLate`: a reading that is about to close a drain
  does so when the record names another one, or its drain is `emptied`; it ties what the
  reading read before its clear to what the record says after any number of other steps.
  Together they are `DrainTracked`.

Each `...Moves` says where an action takes its process and what it then knows; each part of
`IInv` has one lemma over the actions (`...Kept`).

`QueueList_proofs` proves, for any messages and readings, any length of the queue, any number of
attempts, passes, folds and takeovers (assumptions: the ids are disjoint and do not contain
`NoOne`, the limits are numbers, attempts and passes are not 0):

| theorem | statement |
|---|---|
| `IInvHolds` | `Spec => []IInv` |
| `TypeCorrect` | the types: sequences of messages, refusals below the attempts |
| `WaitsOnce` | no message waits twice while no claim was taken over |
| `WritesAtOnce` | `Spec => AtomicWrites`: each loop is one write of `TurnRecord` |

`TurnRecord` has sets where the code has lists, and one step where it has a loop;
`WritesAtOnce` is why `TurnQueue` and `TurnNotice` may.
The parts of `IInv`:

- `GotInLoop` and `TrimSeen`: a call that has read is one that reads first; a trim is of a
  queue that was too long.
- `NotYet`: a message that has not arrived is on neither list, so its append cannot repeat it.
- `Claimed`: without a takeover a reading has the claim until its clear, so at most one is between
  its claim and its clear. `RecordSeen` rests on that: only a reading that records adds to the
  follow-ups, so what it has not seen there was not added behind its back (it may have been
  folded or returned).
- `Once`: neither list has a message twice. Recording needs `RecordSeen`; returning leaves out
  what the queue has, and its write is conditional on both lists. The trim needs it as well:
  only then is the length of the queue the number of messages on it.

What `Only` computes (the members it keeps, and each once) is a fact about a recursive
function, proved by induction on the length. The library's induction theorems cannot be
cited, so `LeastNumber` does their work: the lengths for which the fact fails, were there any,
would have a least one. `Only` is written out because the provers cannot look into SelectSeq.

Liveness is model-checked only (`LockGivenUp`, `LockSettled`): fairness and ENABLED are out of
the prover's reach. Every other property of the passing runs has its theorem. The four runs
that expect a violation state what the code does not keep.

## 5. Not modelled

*Turn.* The stop marker and decision, the split offer, follow-ups withheld because they are
private, a fetch that returns only part of the messages, one notice delivered twice under the same claim id, an answer too large to
park, pickup turns in `TurnQueue` (they are in `TurnLock`), the intents recorded beside the
queue. Some writes of `TurnQueue` have no failure of their own. Where a hand-over, a park or the
beginning of a resume fails, the code does what it does where the write is refused, and the
record stays as it was; the model has the refusals only. (A resume that cannot begin, at either of
a reading's two attempts, leaves the answer parked for the next reading.) A trim, a return of
follow-ups or a clean-up after a fold that fails writes nothing, so the messages stay where
they are. A take of the parked answer whose write was made and its answer lost is in
`TurnRecovery` only.

*Recovery.* The router's claim and its dispatch are one step here (they are apart in
`TurnQueue`), and so are a turn's parking and the reading that resumes it. The router's claim
does not fail open here: a turn answering without the lock is `TurnQueue`'s `two_answers`. A third
delivery of one event is not followed.

*Notice.* A reading takes queue and claim in one step (`TurnQueue` has them apart, and
parking and passes too). The stages for clarifying and for private requests, the questions
a reading asks, the drain task's own copy of the stage, and killed runs are left out.

*Duel.* The clearing of the controls of waiting sides, which experiment a duel belongs to,
a side without an assistant to answer, membership, and the worth of a pick. The orchestrator
reads the rows and claims in one step. Its two declines in a deployment that is set up wrongly
(`battle-orchestrator.ts:143`: no declared classification, no published router) are left
out: they release the channel from their own duel and mark it complete without the claim. No code writes FAILED in round 1.

*Invitation.* The inviter's own account and the reach of a clearance are a refusal at any
time in `Check`. A reminder's alias and its record, and the reads of inviter and bound
subjects, are one step each. Guests, upgrades, the peek at a link and the lists are left out.

*Around them.* What the model says, tools, delivery of messages, classification. The rest of
the repository is mostly analytics, administration, the web front end and CDK declarations,
which have no protocol between processes; see `PROJECT.json`, each with its reason. Nearly all
of the implementation's lines are of that kind, so the modules cover a small share of them.

## 6. Plan

1. `TaskChain`: the task state machines, blocked and ready tasks, the one pickup per
   state entry, with pickup turns joined to `TurnLock`; the stop marker against an answer
   about to be delivered; private follow-ups.
2. Event workflows: deadlines, dispatch ids and the run store.
