---------------------------- MODULE TurnRecovery ----------------------------
(***************************************************************************)
(* What becomes of a turn whose invocation fails.                          *)
(*                                                                         *)
(* The processor is invoked asynchronously: the platform tries one event   *)
(* MaxTries times, a minute and then two minutes apart, and hands an event *)
(* that failed every time to turn-lock-release-on-failure.ts.  That        *)
(* handler dispatches the turn again under the same id while attempts are  *)
(* left, then asks for an apology, then releases the lock itself.  Every   *)
(* delivery is admitted once, by a claim on its delivery id; a delivery    *)
(* that is not admitted ends at once, as a success, and settles nothing.   *)
(* A claim that cannot be written admits all the same.                     *)
(*                                                                         *)
(* A conversation is one lock here (TurnQueue.tla has the queue behind it);*)
(* time passes in minutes, because a hold that is old enough is taken over.*)
(***************************************************************************)
EXTENDS Naturals, FiniteSets

CONSTANTS
    Turns,        \* the turns of one conversation, each a correlation id
    NoOne,
    MaxAttempts,  \* MAX_TURN_ATTEMPTS: dispatches of one turn
    MaxTries,     \* invocations of one event by the platform
    StaleAfter,   \* STALE_AFTER_MS, in minutes
    Faults,       \* the kinds of failure that may happen
    MaxFaults     \* bound: failures in all, refused identities apart

ASSUME RecoveryAssumption ==
    /\ NoOne \notin Turns
    /\ MaxAttempts \in Nat \ {0} /\ MaxTries \in Nat \ {0}
    /\ StaleAfter \in Nat \ {0} /\ MaxFaults \in Nat

VARIABLES
    holder,    \* the turn that holds the conversation
    age,       \* minutes since it took the lock or was handed it
    job,       \* the invocations of each copy of each event
    claims,    \* delivery ids claimed (the dedup# rows)
    parked,    \* turns whose finished answer waits in the record
    answered,  \* how often each turn was answered
    told,      \* how often its sender was told that it failed
    lost,      \* turns an admitted run of which the platform ended
    gaveUp,    \* turns the failure handler released without an apology
    overtaken, \* turns whose hold another turn took over, being stale
    unclaimed, \* turns a delivery of which was admitted without its claim
    untaken,   \* turns whose parked answer a resume failed to take
    unreleased,\* turns whose release of the lock was not written
    faults     \* failures left

ledger == <<answered, told, lost, gaveUp, overtaken, unclaimed, untaken, unreleased>>
vars == <<holder, age, job, claims, parked, ledger, faults>>

\* What travels in a payload: the turn, whether it resumes a parked answer, turnAttempt and
\* announceFailure.
Events == [turn : Turns, resume : BOOLEAN, attempt : 1..MaxAttempts, announce : BOOLEAN]

\* The platform may deliver one event twice.
Copies == Events \X {1, 2}

Pcs == {"none", "waiting", "answering", "announcing", "settling", "failed", "over"}

Jobs == [pc : Pcs, tries : 0..MaxTries, wait : 0..MaxTries]

TypeOK ==
    /\ holder \in Turns \cup {NoOne} /\ age \in 0..StaleAfter
    /\ job \in [Copies -> Jobs]
    /\ claims \subseteq Turns \X (1..MaxAttempts) \X BOOLEAN
    /\ parked \subseteq Turns /\ lost \subseteq Turns \X BOOLEAN
    /\ gaveUp \subseteq Turns /\ overtaken \subseteq Turns
    /\ unclaimed \subseteq Turns /\ untaken \subseteq Turns /\ unreleased \subseteq Turns
    /\ answered \in [Turns -> 0..2] /\ told \in [Turns -> 0..2]
    /\ faults \in 0..MaxFaults

NoJob  == [pc |-> "none", tries |-> 0, wait |-> 0]
Queued == [NoJob EXCEPT !.pc = "waiting"]

Init ==
    /\ holder = NoOne /\ age = 0
    /\ job = [c \in Copies |-> NoJob]
    /\ claims = {} /\ parked = {} /\ lost = {} /\ gaveUp = {} /\ overtaken = {}
    /\ unclaimed = {} /\ untaken = {} /\ unreleased = {}
    /\ answered = [t \in Turns |-> 0] /\ told = [t \in Turns |-> 0]
    /\ faults = MaxFaults

-----------------------------------------------------------------------------
(* Helpers.                                                                 *)

Fails(kind) == kind \in Faults /\ faults > 0 /\ faults' = faults - 1
Works       == UNCHANGED faults

Once(f, t) == [f EXCEPT ![t] = IF @ < 2 THEN @ + 1 ELSE @]

Original(t) == [turn |-> t, resume |-> FALSE, attempt |-> 1, announce |-> FALSE]

\* deliveryCorrelationId: a re-dispatch and an apology are deliveries of their own.
DeliveryId(e) == <<e.turn, e.attempt, e.announce>>

At(c, pc)   == job[c].pc = pc
Goes(c, pc) == job' = [job EXCEPT ![c].pc = pc]

\* The jobs after this one has ended well, or its failure was handled.
Ended(c) == [job EXCEPT ![c] = [NoJob EXCEPT !.pc = "over",
                                  !.tries = IF At(c, "failed") THEN MaxTries ELSE 0]]
Starts(c)   == At(c, "waiting") /\ job[c].wait = 0
Running(c)  == job[c].pc \in {"answering", "announcing", "settling"}

\* The jobs after an event is sent: into a copy that is free.  Bound: a third delivery of one
\* event, which takes two duplicates, is not followed.
Sent(jobs, e) ==
    LET free == {n \in {1, 2} : jobs[<<e, n>>].pc = "none"} IN
    IF free = {} THEN jobs
    ELSE [jobs EXCEPT ![<<e, CHOOSE n \in free : \A k \in free : n <= k>>] = Queued]

\* Mutant: one try more.
AfterFailureOneMore(c) ==
    LET n == job[c].tries + 1 IN
    [job EXCEPT ![c] = IF n <= MaxTries THEN [Queued EXCEPT !.tries = n, !.wait = n]
                       ELSE [NoJob EXCEPT !.pc = "failed", !.tries = n]]

\* The platform tries again, a minute later and then two, and then reports the failure.
AfterFailure(c) ==
    LET n == job[c].tries + 1 IN
    [job EXCEPT ![c] = IF n < MaxTries THEN [Queued EXCEPT !.tries = n, !.wait = n]
                       ELSE [NoJob EXCEPT !.pc = "failed", !.tries = n]]

Released(t) == IF holder = t THEN NoOne ELSE holder

-----------------------------------------------------------------------------
(* The router and the platform.                                             *)

\* A message takes a free conversation, or one whose hold is stale; otherwise it is
\* queued.  The processor is dispatched.
ClaimTurn(t) ==
    /\ At(<<Original(t), 1>>, "none")
    /\ holder = NoOne \/ age >= StaleAfter
    /\ holder' = t /\ age' = 0
    /\ overtaken' = overtaken \cup ({holder} \ {NoOne})
    /\ job' = Sent(job, Original(t))
    /\ UNCHANGED <<claims, parked, answered, told, lost, gaveUp, unclaimed, untaken,
                   unreleased, faults>>

\* An event is delivered a second time, wherever its first copy has got to.
Duplicate(e) ==
    /\ Fails("duplicate")
    /\ ~At(<<e, 1>>, "none")
    /\ At(<<e, 2>>, "none")
    /\ job' = [job EXCEPT ![<<e, 2>>] = Queued]
    /\ UNCHANGED <<holder, age, claims, parked, ledger>>

\* The session of the assistant is refused: the handler throws before it is admitted.
IdentityRefused(c) ==
    /\ "identity" \in Faults
    /\ Starts(c)
    /\ job' = AfterFailure(c)
    /\ UNCHANGED <<holder, age, claims, parked, ledger, faults>>

\* The platform ends a run (timeout, out of memory): none of its own code runs any more.
Kill(c) ==
    /\ Fails("kill")
    /\ Starts(c) \/ Running(c)
    /\ job' = AfterFailure(c)
    /\ lost' = IF Running(c) THEN lost \cup {<<c[1].turn, c[1].resume>>} ELSE lost
    /\ UNCHANGED <<holder, age, claims, parked, answered, told, gaveUp, overtaken,
                   unclaimed, untaken, unreleased>>

\* A minute passes.  A run takes less (its timeout is 30 to 90 seconds), so minutes pass
\* between runs.
Tick ==
    /\ \A c \in Copies : ~Running(c)
    /\ (holder # NoOne /\ age < StaleAfter) \/ \E c \in Copies : job[c].wait > 0
    /\ age' = IF holder # NoOne /\ age < StaleAfter THEN age + 1 ELSE age
    /\ job' = [c \in Copies |-> [job[c] EXCEPT !.wait = IF @ > 0 THEN @ - 1 ELSE 0]]
    /\ UNCHANGED <<holder, claims, parked, ledger, faults>>

-----------------------------------------------------------------------------
(* The processor.                                                           *)

\* Mutant: a delivery that is not admitted settles the lock as well.
AdmitOrSettle(c) ==
    LET e == c[1] IN
    /\ Starts(c) /\ ~e.resume
    /\ claims' = claims \cup {DeliveryId(e)}
    /\ Goes(c, IF DeliveryId(e) \in claims THEN "settling"
               ELSE IF e.announce THEN "announcing" ELSE "answering")
    /\ UNCHANGED <<holder, age, parked, ledger, faults>>

\* Mutant: nothing is claimed.
AdmitAlways(c) ==
    /\ Starts(c) /\ ~c[1].resume
    /\ Goes(c, IF c[1].announce THEN "announcing" ELSE "answering")
    /\ UNCHANGED <<holder, age, claims, parked, ledger, faults>>

\* The claim on the delivery id admits one run.  A claim that cannot be written, or whose
\* answer is lost, admits too: claimCorrelation fails open.
Admit(c) ==
    LET e == c[1]
        Begin == Goes(c, IF e.announce THEN "announcing" ELSE "answering")
    IN  /\ Starts(c) /\ ~e.resume
        /\ \/ /\ DeliveryId(e) \notin claims /\ Works
              /\ claims' = claims \cup {DeliveryId(e)}
              /\ Begin /\ UNCHANGED unclaimed
           \/ /\ DeliveryId(e) \in claims /\ Works
              /\ job' = Ended(c)
              /\ UNCHANGED <<claims, unclaimed>>
           \/ /\ Fails("claim")
              /\ \E written \in SUBSET {DeliveryId(e)} : claims' = claims \cup written
              /\ unclaimed' = unclaimed \cup {e.turn}
              /\ Begin
        /\ UNCHANGED <<holder, age, parked, answered, told, lost, gaveUp, overtaken,
                       untaken, unreleased>>

\* A resume takes the parked answer.  Finding none it ends, unless the conversation is
\* still held in its name: then a run that had taken it has died, and it settles the lock.
\* A take that failed finds none: with nothing written, or when the read behind it fails
\* too, it ends as a success; with its answer lost it comes upon a lock to settle.
TakeParked(c) ==
    LET t == c[1].turn
        FindNone == IF holder = t THEN Goes(c, "settling") ELSE job' = Ended(c)
    IN  /\ Starts(c) /\ c[1].resume
        /\ \/ /\ parked' = parked \ {t}
              /\ IF t \in parked THEN Goes(c, "answering") ELSE FindNone
              /\ Works /\ UNCHANGED untaken
           \/ /\ Fails("take")
              /\ untaken' = untaken \cup {t}
              /\ \/ job' = Ended(c) /\ parked' \in {parked, parked \ {t}}
                 \/ t \in parked /\ parked' = parked \ {t} /\ FindNone
        /\ UNCHANGED <<holder, age, claims, answered, told, lost, gaveUp, overtaken,
                       unclaimed, unreleased>>

\* The answer is delivered, or an error is caught and the placeholder says that it failed.
Answer(c) ==
    LET t == c[1].turn IN
    /\ At(c, "answering")
    /\ \/ answered' = Once(answered, t) /\ UNCHANGED told
       \/ told' = Once(told, t) /\ UNCHANGED answered
    /\ Goes(c, "settling")
    /\ UNCHANGED <<holder, age, claims, parked, lost, gaveUp, overtaken, unclaimed,
                   untaken, unreleased, faults>>

\* The answer waits for a reading, which resumes it: the run ends without settling, and
\* the lock comes back to the turn with the event that resumes it.
ParkAndResume(c) ==
    LET t == c[1].turn IN
    /\ At(c, "answering") /\ ~c[1].resume
    /\ holder = t /\ parked = {}
    /\ parked' = {t} /\ age' = 0
    /\ job' = Sent(Ended(c), [Original(t) EXCEPT !.resume = TRUE])
    /\ UNCHANGED <<holder, claims, ledger, faults>>

Announce(c) ==
    /\ At(c, "announcing")
    /\ told' = Once(told, c[1].turn)
    /\ Goes(c, "settling")
    /\ UNCHANGED <<holder, age, claims, parked, answered, lost, gaveUp, overtaken, unclaimed,
                   untaken, unreleased, faults>>

\* The finally of the handler.
Settle(c) ==
    LET t == c[1].turn IN
    /\ At(c, "settling")
    /\ \/ holder' = Released(t) /\ Works /\ UNCHANGED unreleased
       \/ /\ Fails("release")
          /\ unreleased' = unreleased \cup {t}
          /\ UNCHANGED holder
    /\ job' = Ended(c)
    /\ UNCHANGED <<age, claims, parked, answered, told, lost, gaveUp, overtaken, unclaimed,
                   untaken>>

-----------------------------------------------------------------------------
(* The failure handler.                                                     *)

MayRetry(e) == e.attempt < MaxAttempts /\ ~e.announce

\* Mutant: an apology that failed is announced again.
MayAlwaysAnnounce(e) == TRUE
MayAnnounce(e) == ~e.announce

\* Mutant: when the attempts are spent the lock is released and nothing is said.
RecoverSilently(c) ==
    LET e == c[1] IN
    /\ At(c, "failed")
    /\ IF MayRetry(e)
       THEN job' = Sent(Ended(c), [e EXCEPT !.attempt = @ + 1]) /\ UNCHANGED holder
       ELSE job' = Ended(c) /\ holder' = Released(e.turn)
    /\ UNCHANGED <<age, claims, parked, ledger, faults>>

\* Dispatch the turn again; failing that ask for an apology; failing that release, which
\* may fail as well: by itself, or with the sends before it.
Recover(c) ==
    LET e    == c[1]
        Retry == /\ MayRetry(e)
                 /\ job' = Sent(Ended(c), [e EXCEPT !.attempt = @ + 1])
                 /\ UNCHANGED <<holder, gaveUp, unreleased>>
        Apologize == /\ MayAnnounce(e)
                     /\ job' = Sent(Ended(c), [e EXCEPT !.announce = TRUE])
                     /\ UNCHANGED <<holder, gaveUp, unreleased>>
        GiveUp == /\ holder' = Released(e.turn)
                  /\ gaveUp' = gaveUp \cup {e.turn}
                  /\ job' = Ended(c)
                  /\ UNCHANGED unreleased
        GiveUpHolding == /\ gaveUp' = gaveUp \cup {e.turn}
                         /\ unreleased' = unreleased \cup {e.turn}
                         /\ job' = Ended(c)
                         /\ UNCHANGED holder
    IN  /\ At(c, "failed")
        /\ \/ Retry /\ Works
           \/ ~MayRetry(e) /\ Apologize /\ Works
           \/ MayRetry(e) /\ Apologize /\ Fails("send")
           \/ ~MayAnnounce(e) /\ GiveUp /\ Works
           \/ MayAnnounce(e) /\ GiveUp /\ Fails("send")
           \/ ~MayAnnounce(e) /\ GiveUpHolding /\ Fails("release")
           \/ "release" \in Faults /\ MayAnnounce(e) /\ GiveUpHolding /\ Fails("send")
        /\ UNCHANGED <<age, claims, parked, answered, told, lost, overtaken, unclaimed, untaken>>

-----------------------------------------------------------------------------
Handle(c) ==
    \/ Admit(c) \/ TakeParked(c) \/ Answer(c) \/ ParkAndResume(c) \/ Announce(c) \/ Settle(c)

Progress(c) == IdentityRefused(c) \/ Kill(c) \/ Handle(c) \/ Recover(c)

Next ==
    \/ \E t \in Turns : ClaimTurn(t)
    \/ \E c \in Copies : Progress(c)
    \/ \E e \in Events : Duplicate(e)
    \/ Tick

Spec == Init /\ [][Next]_vars

\* The platform makes every try it promises, a run ends or is ended, and time passes.
FairSpec == Spec /\ WF_vars(Tick) /\ \A c \in Copies : WF_vars(Progress(c))

-----------------------------------------------------------------------------
(* Properties.                                                              *)

Quiet == \A c \in Copies : job[c].pc \in {"none", "over"}

Dispatched(t) == ~At(<<Original(t), 1>>, "none")

\* An event is reported as failed although a delivery of it was admitted, or may be: the
\* admitted run was ended and the tries after it failed before the claim was looked at, or
\* the event was delivered twice.
FailedThoughDelivered(t) ==
    \E c \in Copies :
        /\ c[1].turn = t /\ ~c[1].resume /\ job[c].tries = MaxTries
        /\ DeliveryId(c[1]) \in claims \/ ~At(<<c[1], 2>>, "none")

\* A turn is answered or its sender told, never both and never twice: not by a retry of the
\* platform, a re-dispatch, an apology, a resume or a copy of any of them (claimCorrelation,
\* deliveryCorrelationId).  Excepted are an event reported as failed that was delivered, and a
\* turn admitted without a claim, which a second delivery or a retry then passes as well: the
\* claim is "idempotency, not limits: [its] worst case is one duplicate", so it fails open.
SpokenOnce ==
    \A t \in Turns : answered[t] + told[t] <= 1 \/ FailedThoughDelivered(t) \/ t \in unclaimed

\* A turn that took the conversation holds it while it is writing its answer: a copy, a retry
\* or a failure report of that turn does not release the lock under the run that was admitted
\* (settleTurnLockAtExit), with the exceptions above and that of a resume delivered twice.
\* What may take it away is another turn, once the hold is stale.
HeldWhileAnswering ==
    \A c \in Copies : At(c, "answering") =>
        \/ holder = c[1].turn \/ c[1].turn \in overtaken
        \/ FailedThoughDelivered(c[1].turn) \/ c[1].turn \in unclaimed
        \/ \E e \in Events : e.turn = c[1].turn /\ e.resume /\ ~At(<<e, 2>>, "none")

\* "The one thing that must never happen is that they are left with nothing at all": when
\* nothing is under way any more a turn was answered or apologized for, except where an
\* admitted run was ended by the platform, the apology itself could not be made, or the
\* write that takes the parked answer failed and its run ended as a success.
NotSilent ==
    Quiet => \A t \in Turns : Dispatched(t) =>
        \/ answered[t] + told[t] > 0
        \/ t \in gaveUp \cup untaken \/ \E r \in BOOLEAN : <<t, r>> \in lost

\* A turn gives the conversation up, however often its events fail: retries, re-dispatch and
\* apology come to an end.  What keeps the lock is an admitted run the platform ended, a
\* parked answer that could not be taken, and a release that could not be written, at a
\* run's exit or as the last resort of the failure handler.
LockSettled ==
    \A t \in Turns :
        holder = t ~> holder # t \/ <<t, FALSE>> \in lost \/ t \in untaken \cup unreleased

=============================================================================
