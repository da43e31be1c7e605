------------------------ MODULE TurnRecovery_proofs ------------------------
(***************************************************************************)
(* Theorems about TurnRecovery.tla, for any turns, attempts and tries and  *)
(* any number of failures: a turn is answered or its sender told once, an  *)
(* answering turn keeps its hold, and no turn ends in silence.             *)
(*                                                                         *)
(* What matters of a job is where it is and whether its tries are spent;   *)
(* the lemmas ...Step say what each action makes of that.  Each part of    *)
(* the inductive invariant IInv then has a lemma over the actions          *)
(* (...Kept).                                                              *)
(***************************************************************************)
EXTENDS TurnRecovery, TLAPS

-----------------------------------------------------------------------------
(* The inductive invariant.                                                 *)

Pc(c)    == job[c].pc
Spent(c) == job[c].tries = MaxTries

Invoked(e) == Pc(<<e, 1>>) # "none"
Twice(e)   == Pc(<<e, 2>>) # "none"

Admitted(t) == t \in unclaimed \/ \E i \in claims : i[1] = t

\* What SpokenOnce excepts.
Exempt(t) == FailedThoughDelivered(t) \/ t \in unclaimed

\* A copy that is to be admitted still, or was not and failed.
Unheard(c) ==
    ~c[1].resume /\ DeliveryId(c[1]) \notin claims /\ Pc(c) \in {"waiting", "failed"}

\* A copy from which more is to come than the end of a delivery that is not admitted.
Active(c) ==
    \/ Pc(c) \in {"answering", "announcing", "settling", "failed"}
    \/ Pc(c) = "waiting" /\ (c[1].resume \/ DeliveryId(c[1]) \notin claims)

Speaking(c) == Pc(c) \in {"answering", "announcing"}

ResumedTwice(t) == \E e \in Events : e.turn = t /\ e.resume /\ Twice(e)

\* Which points a job whose tries are spent can be at, and one that is not.
JobsShaped ==
    \A c \in Copies :
        /\ Pc(c) = "failed" => Spent(c)
        /\ Spent(c) => Pc(c) \in {"failed", "over"}
        /\ Pc(c) = "announcing" => ~c[1].resume
        /\ ~c[1].resume /\ Pc(c) \in {"answering", "announcing", "settling"} =>
              DeliveryId(c[1]) \in claims \/ c[1].turn \in unclaimed
        /\ ~c[1].resume /\ Pc(c) = "over" =>
              Spent(c) \/ DeliveryId(c[1]) \in claims \/ c[1].turn \in unclaimed

\* Nothing is delivered of a turn that was not dispatched, and no second copy without a first.
Started ==
    /\ \A e \in Events : Twice(e) => Invoked(e)
    /\ \A c \in Copies : Pc(c) # "none" => Dispatched(c[1].turn)
    /\ \A t \in Turns : Admitted(t) => Dispatched(t)

\* f is what the failure handler may send for e.
Follows(f, e) ==
    /\ ~e.announce
    /\ \/ f = [e EXCEPT !.attempt = @ + 1]
       \/ f = [e EXCEPT !.announce = TRUE]

\* Two copies of one delivery wait; the first to be admitted leaves the other nothing.
Twins(c, d) == c[1] = d[1] /\ Pc(c) = "waiting" /\ Pc(d) = "waiting"

\* At most one copy of a turn is active, before it is parked and after, or two twins ...
OneActive ==
    \A c, d \in Copies :
        /\ Active(c) /\ Active(d) /\ c[1].turn = d[1].turn /\ c[1].resume = d[1].resume
        => \/ c = d \/ Twins(c, d) \/ Exempt(c[1].turn)
           \/ c[1].resume /\ ResumedTwice(c[1].turn)

\* ... one is admitted, and then none of the others can be ...
OneAdmitted ==
    \A c \in Copies : Unheard(c) =>
        ~Admitted(c[1].turn) \/ Exempt(c[1].turn)

\* ... and a resume is sent when the run that was has parked its answer.
ResumedAfter ==
    \A c \in Copies : c[1].resume /\ Pc(c) # "none" =>
        /\ Admitted(c[1].turn)
        /\ \A d \in Copies : ~d[1].resume /\ d[1].turn = c[1].turn /\ Active(d) =>
              Exempt(c[1].turn)

\* Nobody speaks for a turn before one of its deliveries was admitted.
SpeaksAdmitted ==
    \A t \in Turns : ~Admitted(t) =>
        /\ answered[t] = 0 /\ told[t] = 0 /\ t \notin parked
        /\ \A c \in Copies : c[1].turn = t => ~Speaking(c)

\* One run speaks for a turn, or its answer is parked, or it was spoken for.
SpokenFor(t) ==
    /\ answered[t] + told[t] <= 1
    /\ answered[t] + told[t] = 1 \/ t \in parked =>
          \A c \in Copies : c[1].turn = t => ~Speaking(c)
    /\ answered[t] + told[t] = 1 => t \notin parked
    /\ \A c, d \in Copies :
          c[1].turn = t /\ d[1].turn = t /\ Speaking(c) /\ Speaking(d) => c = d

OneSpeaks == \A t \in Turns : Exempt(t) \/ SpokenFor(t)

\* A turn has its hold as long as anything is to come from it.
Held ==
    \A c \in Copies : Active(c) =>
        \/ holder = c[1].turn \/ c[1].turn \in overtaken
        \/ Exempt(c[1].turn) \/ ResumedTwice(c[1].turn)

\* The turn was spoken for, or lost where NotSilent allows for it.
Settled(t) ==
    \/ answered[t] + told[t] > 0
    \/ t \in gaveUp \cup untaken \/ \E r \in BOOLEAN : <<t, r>> \in lost

\* g is e or comes after it in what the failure handler sends.
NotBefore(g, e) ==
    /\ g.turn = e.turn /\ g.resume = e.resume
    /\ g.announce \/ (~e.announce /\ g.attempt >= e.attempt)

\* Something is to come of e, or of what was sent after it.
ComesOf(e) ==
    \E d \in Copies : NotBefore(d[1], e) /\ Pc(d) \in {"waiting", "failed"}

Resumes(c, t) == c[1].turn = t /\ c[1].resume

\* Of every event sent for t, resumes or not, something is to come.
AllCome(t, resume) ==
    \A e \in Events : e.turn = t /\ e.resume = resume /\ Invoked(e) => ComesOf(e)

\* Until a turn is settled something is to come: of every event sent, as long as none was
\* admitted; from the run that was; and of every resume, as long as the answer is parked.
AwaitedOf(t) ==
    /\ ~Admitted(t) => AllCome(t, FALSE)
    /\ Admitted(t) /\ t \notin parked => \E c \in Copies : c[1].turn = t /\ Speaking(c)
    /\ \/ \E c \in Copies : Resumes(c, t) /\ Speaking(c)
       \/ IF t \in parked THEN AllCome(t, TRUE)
          ELSE \A c \in Copies : Resumes(c, t) => Pc(c) = "none"

Awaited == \A t \in Turns : Settled(t) \/ AwaitedOf(t)

\* A parked answer was sent its resume.
ParkedSent == \A t \in parked : Invoked([Original(t) EXCEPT !.resume = TRUE])

IInv ==
    /\ TypeOK /\ JobsShaped /\ Started
    /\ OneActive /\ OneAdmitted /\ ResumedAfter
    /\ SpeaksAdmitted /\ OneSpeaks /\ Held
    /\ Awaited /\ ParkedSent

-----------------------------------------------------------------------------
(* Events, copies and jobs.                                                 *)

LEMMA EventsAre ==
    /\ \A c \in Copies : c[1] \in Events /\ c[2] \in {1, 2} /\ c = <<c[1], c[2]>>
    /\ \A e \in Events, n \in {1, 2} : <<e, n>> \in Copies /\ <<e, n>>[1] = e /\ <<e, n>>[2] = n
    /\ \A t \in Turns : Original(t) \in Events /\ [Original(t) EXCEPT !.resume = TRUE] \in Events
    /\ \A e \in Events : e.turn \in Turns /\ e.resume \in BOOLEAN
                         /\ e.attempt \in 1..MaxAttempts /\ e.announce \in BOOLEAN
  <1>1. 1 \in 1..MaxAttempts
    BY RecoveryAssumption
  <1>2. \A t \in Turns : Original(t) \in Events /\ [Original(t) EXCEPT !.resume = TRUE] \in Events
    BY <1>1 DEF Events, Original
  <1>3. \A c \in Copies : c[1] \in Events /\ c[2] \in {1, 2} /\ c = <<c[1], c[2]>>
    BY DEF Copies
  <1>4. \A e \in Events, n \in {1, 2} : <<e, n>> \in Copies /\ <<e, n>>[1] = e /\ <<e, n>>[2] = n
    BY DEF Copies
  <1>5. \A e \in Events : e.turn \in Turns /\ e.resume \in BOOLEAN
                         /\ e.attempt \in 1..MaxAttempts /\ e.announce \in BOOLEAN
    BY DEF Events
  <1>6. QED BY <1>2, <1>3, <1>4, <1>5

\* A delivery id stands for one event, resumes apart.
LEMMA IdsDiffer ==
    ASSUME NEW e \in Events, NEW f \in Events, e.resume = f.resume,
           DeliveryId(e) = DeliveryId(f)
    PROVE  e = f
  <1>1. e.turn = f.turn /\ e.attempt = f.attempt /\ e.announce = f.announce
    BY DEF DeliveryId
  <1>2. QED BY <1>1 DEF Events

\* The same points and tries spent, but for a copy c.
OthersKept(c) == \A d \in Copies : d # c => Pc(d)' = Pc(d) /\ (Spent(d)' <=> Spent(d))

Moved(c, pc, spent) == Pc(c)' = pc /\ (Spent(c)' <=> spent) /\ OthersKept(c)

\* c is over, and a copy d of another event may have been sent.
Sends(c, spent, f) ==
    \/ Moved(c, "over", spent) /\ Pc(<<f, 1>>) # "none" /\ Pc(<<f, 2>>) # "none"
    \/ \E n \in {1, 2} :
          /\ Pc(<<f, n>>) = "none" /\ (n = 2 => Pc(<<f, 1>>) # "none")
          /\ Pc(c)' = "over" /\ (Spent(c)' <=> spent)
          /\ Pc(<<f, n>>)' = "waiting" /\ ~Spent(<<f, n>>)'
          /\ \A d \in Copies : d # c /\ d # <<f, n>> => Pc(d)' = Pc(d) /\ (Spent(d)' <=> Spent(d))

\* The jobs are typed, as TypeOK has them.
JobsTyped == job \in [Copies -> Jobs]

LEMMA JobWritten ==
    ASSUME JobsTyped, NEW c \in Copies, NEW j \in Jobs, job' = [job EXCEPT ![c] = j]
    PROVE  JobsTyped' /\ Moved(c, j.pc, j.tries = MaxTries)
  BY DEF JobsTyped, Moved, OthersKept, Pc, Spent, Jobs

LEMMA NewJobs ==
    /\ NoJob \in Jobs /\ NoJob.pc = "none" /\ NoJob.tries # MaxTries
    /\ Queued \in Jobs /\ Queued.pc = "waiting" /\ Queued.tries # MaxTries
  BY RecoveryAssumption DEF NoJob, Queued, Jobs, Pcs

\* A point is written and the tries are kept.
LEMMA GoesMoves ==
    ASSUME JobsTyped, NEW c \in Copies, NEW pc \in Pcs, Goes(c, pc)
    PROVE  JobsTyped' /\ Moved(c, pc, Spent(c))
  <1>1. job[c] \in Jobs
    BY DEF JobsTyped
  <1> DEFINE j == [job[c] EXCEPT !.pc = pc]
  <1>2. j \in Jobs /\ j.pc = pc /\ j.tries = job[c].tries
    BY <1>1 DEF Jobs
  <1>3. job' = [job EXCEPT ![c] = j]
    BY DEF Goes
  <1> HIDE DEF j
  <1>4. QED BY <1>2, <1>3, JobWritten DEF Spent

\* An ended job is over, and has its tries spent when it had failed.
OverJob(c) == [NoJob EXCEPT !.pc = "over", !.tries = IF At(c, "failed") THEN MaxTries ELSE 0]

LEMMA OverJobIs ==
    ASSUME NEW c
    PROVE  OverJob(c) \in Jobs /\ OverJob(c).pc = "over"
           /\ (OverJob(c).tries = MaxTries <=> Pc(c) = "failed")
  <1>1. CASE Pc(c) = "failed"
    <2>1. OverJob(c) = [NoJob EXCEPT !.pc = "over", !.tries = MaxTries]
      BY <1>1 DEF OverJob, At, Pc
    <2>2. MaxTries \in 0..MaxTries /\ "over" \in Pcs
      BY RecoveryAssumption DEF Pcs
    <2>3. QED BY <1>1, <2>1, <2>2, NewJobs DEF Jobs
  <1>2. CASE Pc(c) # "failed"
    <2>1. OverJob(c) = [NoJob EXCEPT !.pc = "over", !.tries = 0]
      BY <1>2 DEF OverJob, At, Pc
    <2>2. 0 \in 0..MaxTries /\ 0 # MaxTries /\ "over" \in Pcs
      BY RecoveryAssumption DEF Pcs
    <2>3. QED BY <1>2, <2>1, <2>2, NewJobs DEF Jobs
  <1>3. QED BY <1>1, <1>2

LEMMA EndedMoves ==
    ASSUME JobsTyped, NEW c \in Copies, job' = Ended(c)
    PROVE  JobsTyped' /\ Moved(c, "over", Pc(c) = "failed")
  <1>1. PICK o \in Jobs : o = OverJob(c)
    BY OverJobIs
  <1>2. job' = [job EXCEPT ![c] = o]
    BY <1>1 DEF Ended, OverJob
  <1>3. QED BY <1>1, <1>2, OverJobIs, JobWritten DEF Moved

\* The next try waits, or the tries are spent and the event is reported.
LEMMA FailureMoves ==
    ASSUME JobsTyped, JobsShaped, NEW c \in Copies, Pc(c) \notin {"failed", "over"},
           job' = AfterFailure(c)
    PROVE  /\ JobsTyped'
           /\ Moved(c, "waiting", FALSE) \/ Moved(c, "failed", TRUE)
  <1>1. job[c] \in Jobs /\ job[c].tries # MaxTries
    BY DEF JobsTyped, JobsShaped, Spent
  <1>2. job[c].tries \in 0..MaxTries
    BY <1>1 DEF Jobs
  <1>3. PICK n \in 0..MaxTries : n = job[c].tries + 1
    BY <1>1, <1>2, RecoveryAssumption
  <1> DEFINE w == [Queued EXCEPT !.tries = n, !.wait = n]
  <1> DEFINE f == [NoJob EXCEPT !.pc = "failed", !.tries = n]
  <1>4. w \in Jobs /\ w.pc = "waiting" /\ w.tries = n
    BY NewJobs DEF Jobs
  <1>5. f \in Jobs /\ f.pc = "failed" /\ f.tries = n
    BY NewJobs DEF Jobs, Pcs
  <1>6. job' = [job EXCEPT ![c] = IF n < MaxTries THEN w ELSE f]
    BY <1>3 DEF AfterFailure
  <1> HIDE DEF w, f
  <1>7. CASE n < MaxTries
    <2>1. job' = [job EXCEPT ![c] = w]
      BY <1>6, <1>7
    <2>2. n # MaxTries
      BY <1>7, <1>3, RecoveryAssumption
    <2>3. QED BY <2>1, <2>2, <1>4, JobWritten DEF Moved
  <1>8. CASE ~(n < MaxTries)
    <2>1. job' = [job EXCEPT ![c] = f]
      BY <1>6, <1>8
    <2>2. n = MaxTries
      BY <1>8, <1>3, RecoveryAssumption
    <2>3. QED BY <2>1, <2>2, <1>5, JobWritten DEF Moved
  <1>9. QED BY <1>7, <1>8

\* An event is sent into the first copy that is free.
LEMMA SentIs ==
    ASSUME NEW jobs, NEW e
    PROVE  \/ jobs[<<e, 1>>].pc # "none" /\ jobs[<<e, 2>>].pc # "none" /\ Sent(jobs, e) = jobs
           \/ /\ jobs[<<e, 1>>].pc = "none"
              /\ Sent(jobs, e) = [jobs EXCEPT ![<<e, 1>>] = Queued]
           \/ /\ jobs[<<e, 1>>].pc # "none" /\ jobs[<<e, 2>>].pc = "none"
              /\ Sent(jobs, e) = [jobs EXCEPT ![<<e, 2>>] = Queued]
  <1> DEFINE free == {n \in {1, 2} : jobs[<<e, n>>].pc = "none"}
  <1> DEFINE first == CHOOSE n \in free : \A k \in free : n <= k
  <1>1. Sent(jobs, e) = IF free = {} THEN jobs ELSE [jobs EXCEPT ![<<e, first>>] = Queued]
    BY DEF Sent
  <1>2. CASE jobs[<<e, 1>>].pc = "none"
    <2>1. 1 \in free /\ \A k \in free : 1 <= k
      BY <1>2
    <2>2. first \in free /\ \A k \in free : first <= k
      BY <2>1
    <2>3. first = 1
      BY <2>1, <2>2
    <2>4. QED BY <1>1, <1>2, <2>1, <2>3
  <1>3. CASE jobs[<<e, 1>>].pc # "none" /\ jobs[<<e, 2>>].pc = "none"
    <2>1. free = {2}
      BY <1>3
    <2>2. first \in free
      BY <2>1
    <2>3. first = 2
      BY <2>1, <2>2
    <2>4. QED BY <1>1, <1>3, <2>1, <2>3
  <1>4. CASE jobs[<<e, 1>>].pc # "none" /\ jobs[<<e, 2>>].pc # "none"
    BY <1>1, <1>4
  <1>5. QED BY <1>2, <1>3, <1>4

LEMMA SentMoves ==
    ASSUME JobsTyped, NEW c \in Copies, Pc(c) # "none", NEW f \in Events,
           job' = Sent(Ended(c), f)
    PROVE  JobsTyped' /\ Sends(c, Pc(c) = "failed", f)
  <1>0. PICK o \in Jobs : o = OverJob(c)
    BY OverJobIs
  <1> DEFINE over == [job EXCEPT ![c] = o]
  <1>1. job' = Sent(over, f)
    BY <1>0 DEF Ended, OverJob
  <1>2. o \in Jobs /\ o.pc = "over" /\ (o.tries = MaxTries <=> Pc(c) = "failed")
    BY <1>0, OverJobIs
  <1>3. Queued \in Jobs /\ Queued.pc = "waiting" /\ Queued.tries # MaxTries
    BY NewJobs
  <1>4. over \in [Copies -> Jobs] /\ over[c] = o /\ \A d \in Copies : d # c => over[d] = job[d]
    BY <1>2 DEF JobsTyped
  <1>5. \A n \in {1, 2} : <<f, n>> \in Copies
    BY EventsAre
  <1> HIDE DEF over
  <1>6. \A n \in {1, 2} : over[<<f, n>>].pc = "none" => <<f, n>> # c /\ Pc(<<f, n>>) = "none"
    BY <1>2, <1>4, <1>5 DEF Pc
  <1>7. \A n \in {1, 2} : over[<<f, n>>].pc # "none" => Pc(<<f, n>>) # "none"
    BY <1>4, <1>5 DEF Pc
  <1>8. CASE job' = over /\ over[<<f, 1>>].pc # "none" /\ over[<<f, 2>>].pc # "none"
    <2>1. Pc(<<f, 1>>) # "none" /\ Pc(<<f, 2>>) # "none"
      BY <1>7, <1>8
    <2>2. Moved(c, "over", Pc(c) = "failed")
      BY <1>2, <1>4, <1>8 DEF Moved, OthersKept, Pc, Spent
    <2>3. QED BY <2>1, <2>2, <1>4, <1>8 DEF Sends, JobsTyped
  <1>9. ASSUME NEW n \in {1, 2}, over[<<f, n>>].pc = "none",
               n = 2 => over[<<f, 1>>].pc # "none",
               job' = [over EXCEPT ![<<f, n>>] = Queued]
        PROVE  JobsTyped' /\ Sends(c, Pc(c) = "failed", f)
    <2>1. <<f, n>> # c /\ Pc(<<f, n>>) = "none" /\ (n = 2 => Pc(<<f, 1>>) # "none")
      BY <1>6, <1>7, <1>9
    <2>2. job' \in [Copies -> Jobs]
      BY <1>3, <1>4, <1>5, <1>9
    <2>3. job'[c] = o /\ job'[<<f, n>>] = Queued
          /\ \A d \in Copies : d # c /\ d # <<f, n>> => job'[d] = job[d]
      BY <1>4, <1>5, <1>9, <2>1
    <2>4. Pc(c)' = "over" /\ (Spent(c)' <=> Pc(c) = "failed")
      BY <2>3, <1>2 DEF Pc, Spent
    <2>5. Pc(<<f, n>>)' = "waiting" /\ ~Spent(<<f, n>>)'
      BY <2>3, <1>3 DEF Pc, Spent
    <2>6. \A d \in Copies : d # c /\ d # <<f, n>> => Pc(d)' = Pc(d) /\ (Spent(d)' <=> Spent(d))
      BY <2>3 DEF Pc, Spent
    <2>7. QED BY <2>1, <2>2, <2>4, <2>5, <2>6 DEF Sends, JobsTyped
  <1>10. QED BY <1>1, <1>8, <1>9, SentIs

-----------------------------------------------------------------------------
(* What a step does, as far as the invariant is concerned.                  *)

SpeechKept == UNCHANGED <<answered, told, lost, gaveUp, untaken>>
HoldKept   == UNCHANGED <<holder, overtaken>>

\* ClaimTurn
Begins(t) ==
    /\ Pc(<<Original(t), 1>>) = "none" /\ Moved(<<Original(t), 1>>, "waiting", FALSE)
    /\ holder' = t /\ overtaken' = overtaken \cup ({holder} \ {NoOne})
    /\ UNCHANGED <<claims, unclaimed, parked>> /\ SpeechKept

\* Duplicate
Repeats(e) ==
    /\ Pc(<<e, 1>>) # "none"
    /\ Pc(<<e, 2>>) = "none" /\ Moved(<<e, 2>>, "waiting", FALSE)
    /\ UNCHANGED <<claims, unclaimed, parked>> /\ SpeechKept /\ HoldKept

\* IdentityRefused, Kill
Breaks(c) ==
    /\ Pc(c) \in {"waiting", "answering", "announcing", "settling"}
    /\ Moved(c, "waiting", FALSE) \/ Moved(c, "failed", TRUE)
    /\ \/ Pc(c) = "waiting" /\ UNCHANGED lost
       \/ lost' = lost \cup {<<c[1].turn, c[1].resume>>}
    /\ UNCHANGED <<claims, unclaimed, parked, answered, told, gaveUp, untaken>> /\ HoldKept

\* Admit
Admits(c) ==
    /\ Pc(c) = "waiting" /\ ~c[1].resume
    /\ \/ /\ DeliveryId(c[1]) \notin claims /\ claims' = claims \cup {DeliveryId(c[1])}
          /\ UNCHANGED unclaimed
       \/ /\ claims' \in {claims, claims \cup {DeliveryId(c[1])}}
          /\ unclaimed' = unclaimed \cup {c[1].turn}
    /\ Moved(c, "answering", FALSE) \/ Moved(c, "announcing", FALSE)
    /\ UNCHANGED parked /\ SpeechKept /\ HoldKept

\* Admit, TakeParked
Drops(c) ==
    /\ Pc(c) = "waiting" /\ Moved(c, "over", FALSE)
    /\ IF c[1].resume THEN c[1].turn \notin parked ELSE DeliveryId(c[1]) \in claims
    /\ UNCHANGED <<claims, unclaimed, parked>> /\ SpeechKept /\ HoldKept

\* TakeParked
Takes(c) ==
    /\ Pc(c) = "waiting" /\ c[1].resume /\ c[1].turn \in parked
    /\ Moved(c, "answering", FALSE) /\ parked' = parked \ {c[1].turn}
    /\ UNCHANGED <<claims, unclaimed>> /\ SpeechKept /\ HoldKept

TakesLock(c) ==
    /\ Pc(c) = "waiting" /\ c[1].resume /\ c[1].turn \notin parked
    /\ Moved(c, "settling", FALSE)
    /\ UNCHANGED <<claims, unclaimed, parked>> /\ SpeechKept /\ HoldKept

\* TakeParked, failing
Misses(c) ==
    /\ Pc(c) = "waiting" /\ c[1].resume
    /\ Moved(c, "over", FALSE) \/ Moved(c, "settling", FALSE)
    /\ parked' \in {parked, parked \ {c[1].turn}}
    /\ untaken' = untaken \cup {c[1].turn}
    /\ UNCHANGED <<claims, unclaimed, answered, told, lost, gaveUp>> /\ HoldKept

\* Answer, Announce
Speaks(c) ==
    /\ Speaking(c) /\ Moved(c, "settling", FALSE)
    /\ \/ answered' = Once(answered, c[1].turn) /\ UNCHANGED told
       \/ told' = Once(told, c[1].turn) /\ UNCHANGED answered
    /\ UNCHANGED <<claims, unclaimed, parked, lost, gaveUp, untaken>> /\ HoldKept

\* ParkAndResume
Parks(c) ==
    /\ Pc(c) = "answering" /\ ~c[1].resume /\ holder = c[1].turn
    /\ parked = {} /\ parked' = {c[1].turn}
    /\ Sends(c, FALSE, [Original(c[1].turn) EXCEPT !.resume = TRUE])
    /\ UNCHANGED <<claims, unclaimed>> /\ SpeechKept /\ HoldKept

\* Settle
Settles(c) ==
    /\ Pc(c) = "settling" /\ Moved(c, "over", FALSE)
    /\ holder' \in {holder, Released(c[1].turn)}
    /\ UNCHANGED <<claims, unclaimed, parked, overtaken>> /\ SpeechKept

\* Recover
Recovers(c, f) ==
    /\ Pc(c) = "failed" /\ Follows(f, c[1]) /\ Sends(c, TRUE, f)
    /\ UNCHANGED <<claims, unclaimed, parked>> /\ SpeechKept /\ HoldKept

GivesUp(c) ==
    /\ Pc(c) = "failed" /\ Moved(c, "over", TRUE)
    /\ holder' \in {holder, Released(c[1].turn)} /\ gaveUp' = gaveUp \cup {c[1].turn}
    /\ UNCHANGED <<claims, unclaimed, parked, answered, told, lost, untaken, overtaken>>

\* Tick, and a step that changes nothing
Passes ==
    /\ \A d \in Copies : Pc(d)' = Pc(d) /\ (Spent(d)' <=> Spent(d))
    /\ UNCHANGED <<claims, unclaimed, parked>> /\ SpeechKept /\ HoldKept

Step ==
    \/ \E t \in Turns : Begins(t)
    \/ \E e \in Events : Repeats(e)
    \/ \E c \in Copies : \/ Breaks(c) \/ Admits(c) \/ Drops(c) \/ Takes(c) \/ TakesLock(c)
                         \/ Misses(c)
                         \/ Speaks(c) \/ Parks(c) \/ Settles(c) \/ GivesUp(c)
                         \/ \E f \in Events : Recovers(c, f)
    \/ Passes

\* The number of times a turn is answered or told stays within its bound.
LEMMA OnceTyped ==
    ASSUME NEW f \in [Turns -> 0..2], NEW t \in Turns
    PROVE  /\ Once(f, t) \in [Turns -> 0..2]
           /\ \A u \in Turns : u # t => Once(f, t)[u] = f[u]
           /\ f[t] < 2 => Once(f, t)[t] = f[t] + 1
           /\ Once(f, t)[t] > 0
  BY DEF Once

\* What TypeOK says of everything but the jobs.
RestTyped ==
    /\ holder \in Turns \cup {NoOne} /\ age \in 0..StaleAfter
    /\ claims \subseteq Turns \X (1..MaxAttempts) \X BOOLEAN
    /\ parked \subseteq Turns /\ lost \subseteq Turns \X BOOLEAN
    /\ gaveUp \subseteq Turns /\ overtaken \subseteq Turns
    /\ unclaimed \subseteq Turns /\ untaken \subseteq Turns /\ unreleased \subseteq Turns
    /\ answered \in [Turns -> 0..2] /\ told \in [Turns -> 0..2]
    /\ faults \in 0..MaxFaults

LEMMA TypesAre == TypeOK <=> JobsTyped /\ RestTyped
  BY DEF TypeOK, JobsTyped, RestTyped

LEMMA FaultsTyped ==
    ASSUME faults \in 0..MaxFaults, NEW kind, Fails(kind) \/ Works
    PROVE  faults' \in 0..MaxFaults
  BY RecoveryAssumption DEF Fails, Works

LEMMA ClaimTurnStep ==
    ASSUME JobsTyped, RestTyped, NEW t \in Turns, ClaimTurn(t)
    PROVE  JobsTyped' /\ RestTyped' /\ Begins(t)
  <1>1. <<Original(t), 1>> \in Copies
    BY EventsAre
  <1>2. Pc(<<Original(t), 1>>) = "none"
    BY DEF ClaimTurn, At, Pc
  <1>3. job' = [job EXCEPT ![<<Original(t), 1>>] = Queued]
    BY <1>2, SentIs DEF ClaimTurn, Pc
  <1>4. JobsTyped' /\ Moved(<<Original(t), 1>>, "waiting", FALSE)
    BY <1>1, <1>3, NewJobs, JobWritten DEF Moved
  <1>5. RestTyped'
    BY RecoveryAssumption DEF ClaimTurn, RestTyped
  <1>6. QED BY <1>2, <1>4, <1>5 DEF ClaimTurn, Begins, SpeechKept

LEMMA DuplicateStep ==
    ASSUME JobsTyped, RestTyped, NEW e \in Events, Duplicate(e)
    PROVE  JobsTyped' /\ RestTyped' /\ Repeats(e)
  <1>1. <<e, 2>> \in Copies
    BY EventsAre
  <1>2. JobsTyped' /\ Moved(<<e, 2>>, "waiting", FALSE)
    BY <1>1, NewJobs, JobWritten DEF Moved, Duplicate
  <1>3. RestTyped'
    BY FaultsTyped DEF Duplicate, RestTyped, ledger
  <1>4. QED BY <1>2, <1>3 DEF Duplicate, Repeats, At, Pc, SpeechKept, HoldKept, ledger

LEMMA IdentityRefusedStep ==
    ASSUME JobsTyped, RestTyped, JobsShaped, NEW c \in Copies, IdentityRefused(c)
    PROVE  JobsTyped' /\ RestTyped' /\ Breaks(c)
  <1>1. Pc(c) = "waiting" /\ job' = AfterFailure(c)
    BY DEF IdentityRefused, Starts, At, Pc
  <1>2. JobsTyped' /\ (Moved(c, "waiting", FALSE) \/ Moved(c, "failed", TRUE))
    BY <1>1, FailureMoves
  <1>3. RestTyped'
    BY DEF IdentityRefused, RestTyped, ledger
  <1>4. QED BY <1>1, <1>2, <1>3 DEF IdentityRefused, Breaks, HoldKept, ledger

LEMMA KillStep ==
    ASSUME JobsTyped, RestTyped, JobsShaped, NEW c \in Copies, Kill(c)
    PROVE  JobsTyped' /\ RestTyped' /\ Breaks(c)
  <1>1. Pc(c) \in {"waiting", "answering", "announcing", "settling"} /\ job' = AfterFailure(c)
    BY DEF Kill, Starts, Running, At, Pc
  <1>2. JobsTyped' /\ (Moved(c, "waiting", FALSE) \/ Moved(c, "failed", TRUE))
    BY <1>1, FailureMoves
  <1>3. <<c[1].turn, c[1].resume>> \in Turns \X BOOLEAN
    BY EventsAre
  <1>4. RestTyped'
    BY <1>3, FaultsTyped DEF Kill, RestTyped
  <1>5. \/ Pc(c) = "waiting" /\ UNCHANGED lost
        \/ lost' = lost \cup {<<c[1].turn, c[1].resume>>}
    BY <1>1 DEF Kill, Running, Pc
  <1>6. QED BY <1>1, <1>2, <1>4, <1>5 DEF Kill, Breaks, HoldKept

LEMMA AdmitStep ==
    ASSUME JobsTyped, RestTyped, JobsShaped, NEW c \in Copies, Admit(c)
    PROVE  JobsTyped' /\ RestTyped' /\ (Admits(c) \/ Drops(c))
  <1>1. Pc(c) = "waiting" /\ ~Spent(c) /\ ~c[1].resume
    BY DEF Admit, Starts, At, Pc, JobsShaped
  <1>2. c[1].turn \in Turns /\ DeliveryId(c[1]) \in Turns \X (1..MaxAttempts) \X BOOLEAN
    BY EventsAre DEF DeliveryId
  <1>3. UNCHANGED <<holder, age, parked, answered, told, lost, gaveUp, overtaken, untaken,
                    unreleased>>
    BY DEF Admit
  <1>4. ASSUME Goes(c, IF c[1].announce THEN "announcing" ELSE "answering")
        PROVE  JobsTyped' /\ (Moved(c, "answering", FALSE) \/ Moved(c, "announcing", FALSE))
    <2>1. CASE c[1].announce
      <3>1. Goes(c, "announcing")
        BY <1>4, <2>1
      <3>2. QED BY <1>1, <3>1, GoesMoves DEF Pcs, Moved
    <2>2. CASE ~c[1].announce
      <3>1. Goes(c, "answering")
        BY <1>4, <2>2
      <3>2. QED BY <1>1, <3>1, GoesMoves DEF Pcs, Moved
    <2>3. QED BY <2>1, <2>2
  <1>5. CASE /\ DeliveryId(c[1]) \notin claims /\ claims' = claims \cup {DeliveryId(c[1])}
             /\ Goes(c, IF c[1].announce THEN "announcing" ELSE "answering")
             /\ Works /\ UNCHANGED unclaimed
    <2>1. RestTyped'
      BY <1>2, <1>3, <1>5 DEF RestTyped, Works
    <2>2. QED BY <1>1, <1>3, <1>4, <1>5, <2>1 DEF Admits, SpeechKept, HoldKept
  <1>6. CASE DeliveryId(c[1]) \in claims /\ job' = Ended(c) /\ Works /\ UNCHANGED <<claims, unclaimed>>
    <2>1. JobsTyped' /\ Moved(c, "over", FALSE)
      BY <1>1, <1>6, EndedMoves DEF Moved
    <2>2. RestTyped'
      BY <1>3, <1>6 DEF RestTyped, Works
    <2>3. QED BY <1>1, <1>3, <1>6, <2>1, <2>2 DEF Drops, SpeechKept, HoldKept
  <1>7. ASSUME NEW written \in SUBSET {DeliveryId(c[1])}, claims' = claims \cup written,
               unclaimed' = unclaimed \cup {c[1].turn}, Fails("claim"),
               Goes(c, IF c[1].announce THEN "announcing" ELSE "answering")
        PROVE  JobsTyped' /\ RestTyped' /\ Admits(c)
    <2>1. claims' \in {claims, claims \cup {DeliveryId(c[1])}}
      BY <1>7
    <2>2. faults' \in 0..MaxFaults
      BY <1>7, FaultsTyped DEF RestTyped
    <2>3. RestTyped'
      BY <1>2, <1>3, <1>7, <2>1, <2>2 DEF RestTyped
    <2>4. QED BY <1>1, <1>3, <1>4, <1>7, <2>1, <2>3 DEF Admits, SpeechKept, HoldKept
  <1>8. QED BY <1>5, <1>6, <1>7 DEF Admit

LEMMA TakeParkedStep ==
    ASSUME JobsTyped, RestTyped, JobsShaped, NEW c \in Copies, TakeParked(c)
    PROVE  JobsTyped' /\ RestTyped' /\ (Takes(c) \/ TakesLock(c) \/ Drops(c) \/ Misses(c))
  <1>1. Pc(c) = "waiting" /\ ~Spent(c) /\ c[1].resume /\ c[1].turn \in Turns
    BY EventsAre DEF TakeParked, Starts, At, Pc, JobsShaped
  <1>2. UNCHANGED <<holder, age, claims, answered, told, lost, gaveUp, overtaken, unclaimed,
                    unreleased>>
    BY DEF TakeParked
  <1>3. RestTyped'
    <2>1. faults' \in 0..MaxFaults
      BY FaultsTyped DEF TakeParked, RestTyped
    <2>2. parked' \subseteq parked /\ untaken' \subseteq untaken \cup {c[1].turn}
      BY DEF TakeParked
    <2>3. QED BY <1>1, <1>2, <2>1, <2>2 DEF RestTyped
  <1>4. ASSUME Goes(c, "answering") PROVE JobsTyped' /\ Moved(c, "answering", FALSE)
    BY <1>1, <1>4, GoesMoves DEF Pcs, Moved
  <1>5. ASSUME Goes(c, "settling") PROVE JobsTyped' /\ Moved(c, "settling", FALSE)
    BY <1>1, <1>5, GoesMoves DEF Pcs, Moved
  <1>6. ASSUME job' = Ended(c) PROVE JobsTyped' /\ Moved(c, "over", FALSE)
    BY <1>1, <1>6, EndedMoves DEF Moved
  <1>7. CASE /\ parked' = parked \ {c[1].turn} /\ UNCHANGED untaken
             /\ IF c[1].turn \in parked THEN Goes(c, "answering")
                ELSE IF holder = c[1].turn THEN Goes(c, "settling") ELSE job' = Ended(c)
    <2>1. CASE c[1].turn \in parked
      BY <1>1, <1>2, <1>3, <1>4, <1>7, <2>1 DEF Takes, SpeechKept, HoldKept
    <2>2. CASE c[1].turn \notin parked /\ holder = c[1].turn
      BY <1>1, <1>2, <1>3, <1>5, <1>7, <2>2 DEF TakesLock, SpeechKept, HoldKept
    <2>3. CASE c[1].turn \notin parked /\ holder # c[1].turn
      BY <1>1, <1>2, <1>3, <1>6, <1>7, <2>3 DEF Drops, SpeechKept, HoldKept
    <2>4. QED BY <2>1, <2>2, <2>3
  <1>8. CASE /\ untaken' = untaken \cup {c[1].turn} /\ parked' \in {parked, parked \ {c[1].turn}}
             /\ job' = Ended(c) \/ Goes(c, "settling")
    BY <1>1, <1>2, <1>3, <1>5, <1>6, <1>8 DEF Misses, HoldKept
  <1>9. QED BY <1>7, <1>8 DEF TakeParked

LEMMA AnswerStep ==
    ASSUME JobsTyped, RestTyped, JobsShaped, NEW c \in Copies, Answer(c) \/ Announce(c)
    PROVE  JobsTyped' /\ RestTyped' /\ Speaks(c)
  <1>1. Speaking(c) /\ ~Spent(c) /\ Goes(c, "settling")
    BY DEF Answer, Announce, At, Pc, Speaking, JobsShaped
  <1>2. JobsTyped' /\ Moved(c, "settling", FALSE)
    BY <1>1, GoesMoves DEF Pcs, Moved
  <1>3. c[1].turn \in Turns
    BY EventsAre
  <1>4. \/ answered' = Once(answered, c[1].turn) /\ UNCHANGED told
        \/ told' = Once(told, c[1].turn) /\ UNCHANGED answered
    BY DEF Answer, Announce
  <1>5. UNCHANGED <<holder, age, claims, parked, lost, gaveUp, overtaken, unclaimed, untaken,
                    unreleased, faults>>
    BY DEF Answer, Announce
  <1>6. RestTyped'
    BY <1>3, <1>4, <1>5, OnceTyped DEF RestTyped
  <1>7. QED BY <1>1, <1>2, <1>4, <1>5, <1>6 DEF Speaks, HoldKept

LEMMA ParkAndResumeStep ==
    ASSUME JobsTyped, RestTyped, JobsShaped, NEW c \in Copies, ParkAndResume(c)
    PROVE  JobsTyped' /\ RestTyped' /\ Parks(c)
  <1>1. Pc(c) = "answering" /\ ~c[1].resume
    BY DEF ParkAndResume, At, Pc
  <1>2. c[1].turn \in Turns /\ [Original(c[1].turn) EXCEPT !.resume = TRUE] \in Events
    BY EventsAre
  <1>3. JobsTyped' /\ Sends(c, FALSE, [Original(c[1].turn) EXCEPT !.resume = TRUE])
    <2>1. PICK f \in Events : f = [Original(c[1].turn) EXCEPT !.resume = TRUE]
      BY <1>2
    <2>2. job' = Sent(Ended(c), f)
      BY <2>1 DEF ParkAndResume
    <2>3. QED BY <1>1, <2>1, <2>2, SentMoves DEF Sends, Moved
  <1>4. RestTyped'
    BY <1>2, RecoveryAssumption DEF ParkAndResume, RestTyped, ledger
  <1>5. QED BY <1>1, <1>3, <1>4 DEF ParkAndResume, Parks, SpeechKept, HoldKept, ledger

LEMMA SettleStep ==
    ASSUME JobsTyped, RestTyped, JobsShaped, NEW c \in Copies, Settle(c)
    PROVE  JobsTyped' /\ RestTyped' /\ Settles(c)
  <1>1. Pc(c) = "settling" /\ job' = Ended(c)
    BY DEF Settle, At, Pc
  <1>2. JobsTyped' /\ Moved(c, "over", FALSE)
    BY <1>1, EndedMoves DEF Moved
  <1>3. c[1].turn \in Turns
    BY EventsAre
  <1>4. RestTyped'
    <2>1. faults' \in 0..MaxFaults
      BY FaultsTyped DEF Settle, RestTyped
    <2>2. holder' \in Turns \cup {NoOne}
      BY <1>3 DEF Settle, RestTyped, Released
    <2>3. unreleased' \subseteq Turns
      BY <1>3 DEF Settle, RestTyped
    <2>4. QED BY <2>1, <2>2, <2>3 DEF Settle, RestTyped
  <1>5. QED BY <1>1, <1>2, <1>4 DEF Settle, Settles, SpeechKept

LEMMA RecoverStep ==
    ASSUME JobsTyped, RestTyped, JobsShaped, NEW c \in Copies, Recover(c)
    PROVE  JobsTyped' /\ RestTyped' /\ (GivesUp(c) \/ \E f \in Events : Recovers(c, f))
  <1>1. Pc(c) = "failed"
    BY DEF Recover, At, Pc
  <1>2. c[1] \in Events /\ c[1].turn \in Turns
    BY EventsAre
  <1>3. UNCHANGED <<age, claims, parked, answered, told, lost, overtaken, unclaimed, untaken>>
    BY DEF Recover
  <1>4. faults' \in 0..MaxFaults
    BY FaultsTyped DEF Recover, RestTyped
  <1>5. ASSUME NEW f \in Events, Follows(f, c[1]), job' = Sent(Ended(c), f),
               UNCHANGED <<holder, gaveUp, unreleased>>
        PROVE  JobsTyped' /\ RestTyped' /\ Recovers(c, f)
    <2>1. JobsTyped' /\ Sends(c, TRUE, f)
      BY <1>1, <1>5, SentMoves DEF Sends, Moved
    <2>2. RestTyped'
      BY <1>3, <1>4, <1>5 DEF RestTyped
    <2>3. QED BY <1>1, <1>3, <1>5, <2>1, <2>2 DEF Recovers, SpeechKept, HoldKept
  <1>6. CASE MayRetry(c[1]) /\ job' = Sent(Ended(c), [c[1] EXCEPT !.attempt = @ + 1])
             /\ UNCHANGED <<holder, gaveUp, unreleased>>
    <2>1. c[1].attempt + 1 \in 1..MaxAttempts /\ ~c[1].announce
      BY <1>2, <1>6, EventsAre, RecoveryAssumption DEF MayRetry
    <2>2. PICK f \in Events : f = [c[1] EXCEPT !.attempt = @ + 1]
      BY <1>2, <2>1 DEF Events
    <2>3. Follows(f, c[1])
      BY <2>1, <2>2 DEF Follows
    <2>4. QED BY <1>5, <1>6, <2>2, <2>3
  <1>7. CASE MayAnnounce(c[1]) /\ job' = Sent(Ended(c), [c[1] EXCEPT !.announce = TRUE])
             /\ UNCHANGED <<holder, gaveUp, unreleased>>
    <2>1. PICK f \in Events : f = [c[1] EXCEPT !.announce = TRUE]
      BY <1>2 DEF Events
    <2>2. Follows(f, c[1])
      BY <1>7, <2>1 DEF Follows, MayAnnounce
    <2>3. QED BY <1>5, <1>7, <2>1, <2>2
  <1>8. CASE /\ holder' \in {holder, Released(c[1].turn)} /\ gaveUp' = gaveUp \cup {c[1].turn}
             /\ unreleased' \in {unreleased, unreleased \cup {c[1].turn}} /\ job' = Ended(c)
    <2>1. JobsTyped' /\ Moved(c, "over", TRUE)
      BY <1>1, <1>8, EndedMoves DEF Moved
    <2>2. holder' \in Turns \cup {NoOne} /\ gaveUp' \subseteq Turns /\ unreleased' \subseteq Turns
      BY <1>2, <1>8 DEF RestTyped, Released
    <2>3. RestTyped'
      BY <1>3, <1>4, <2>2 DEF RestTyped
    <2>4. QED BY <1>1, <1>3, <1>8, <2>1, <2>3 DEF GivesUp
  <1>9. QED BY <1>6, <1>7, <1>8 DEF Recover

LEMMA TickStep ==
    ASSUME JobsTyped, RestTyped, Tick
    PROVE  JobsTyped' /\ RestTyped' /\ Passes
  <1>1. \A c \in Copies : job[c] \in Jobs
    BY DEF JobsTyped
  <1>2. \A c \in Copies : (IF job[c].wait > 0 THEN job[c].wait - 1 ELSE 0) \in 0..MaxTries
    BY <1>1, RecoveryAssumption DEF Jobs
  <1> DEFINE later(c) == [job[c] EXCEPT !.wait = IF @ > 0 THEN @ - 1 ELSE 0]
  <1>3. \A c \in Copies : later(c) \in Jobs /\ later(c).pc = job[c].pc
                          /\ later(c).tries = job[c].tries
    BY <1>1, <1>2 DEF Jobs
  <1>4. job' = [c \in Copies |-> later(c)]
    BY DEF Tick
  <1> HIDE DEF later
  <1>5. JobsTyped'
    BY <1>3, <1>4 DEF JobsTyped
  <1>6. \A d \in Copies : Pc(d)' = Pc(d) /\ (Spent(d)' <=> Spent(d))
    BY <1>3, <1>4 DEF Pc, Spent
  <1>7. RestTyped'
    BY RecoveryAssumption DEF Tick, RestTyped, ledger
  <1>8. QED BY <1>5, <1>6, <1>7 DEF Tick, Passes, SpeechKept, HoldKept, ledger

LEMMA StepIs == TypeOK /\ JobsShaped /\ [Next]_vars => TypeOK' /\ Step
  <1> SUFFICES ASSUME TypeOK, JobsShaped, [Next]_vars PROVE TypeOK' /\ Step
    OBVIOUS
  <1>1. JobsTyped /\ RestTyped
    BY TypesAre
  <1>2. CASE Next
    <2>1. ASSUME NEW t \in Turns, ClaimTurn(t) PROVE JobsTyped' /\ RestTyped' /\ Step
      BY <1>1, <2>1, ClaimTurnStep DEF Step
    <2>2. ASSUME NEW e \in Events, Duplicate(e) PROVE JobsTyped' /\ RestTyped' /\ Step
      BY <1>1, <2>2, DuplicateStep DEF Step
    <2>3. ASSUME NEW c \in Copies, Progress(c) PROVE JobsTyped' /\ RestTyped' /\ Step
      <3>1. CASE IdentityRefused(c) \/ Kill(c)
        BY <1>1, <3>1, IdentityRefusedStep, KillStep DEF Step
      <3>2. CASE Admit(c)
        BY <1>1, <3>2, AdmitStep DEF Step
      <3>3. CASE TakeParked(c)
        BY <1>1, <3>3, TakeParkedStep DEF Step
      <3>4. CASE Answer(c) \/ Announce(c)
        BY <1>1, <3>4, AnswerStep DEF Step
      <3>5. CASE ParkAndResume(c)
        BY <1>1, <3>5, ParkAndResumeStep DEF Step
      <3>6. CASE Settle(c)
        BY <1>1, <3>6, SettleStep DEF Step
      <3>7. CASE Recover(c)
        BY <1>1, <3>7, RecoverStep DEF Step
      <3>8. QED BY <2>3, <3>1, <3>2, <3>3, <3>4, <3>5, <3>6, <3>7 DEF Progress, Handle
    <2>4. ASSUME Tick PROVE JobsTyped' /\ RestTyped' /\ Step
      BY <1>1, <2>4, TickStep DEF Step
    <2>5. JobsTyped' /\ RestTyped' /\ Step
      BY <1>2, <2>1, <2>2, <2>3, <2>4 DEF Next
    <2>6. (JobsTyped /\ RestTyped)' => TypeOK'
      BY DEF TypeOK, JobsTyped, RestTyped
    <2>7. QED BY <2>5, <2>6
  <1>3. CASE UNCHANGED vars
    <2>1. /\ UNCHANGED <<holder, age, job, claims, parked, answered, told, lost, gaveUp>>
          /\ UNCHANGED <<overtaken, unclaimed, untaken, unreleased, faults>>
      BY <1>3 DEF vars, ledger
    <2>2. TypeOK'
      BY <2>1 DEF TypeOK, Copies
    <2>3. Passes
      BY <2>1 DEF Passes, Pc, Spent, SpeechKept, HoldKept
    <2>4. QED BY <2>2, <2>3 DEF Step
  <1>4. QED BY <1>2, <1>3

-----------------------------------------------------------------------------
(* Each part of the invariant is kept.                                      *)

\* Where a job can be once its tries are spent, and where it cannot.
LEMMA JobsShapedKept == TypeOK /\ JobsShaped /\ Step => JobsShaped'
  <1> SUFFICES ASSUME TypeOK, JobsShaped, Step PROVE JobsShaped'
    OBVIOUS
  <1>1. ASSUME NEW t \in Turns, Begins(t) PROVE JobsShaped'
    BY <1>1, EventsAre DEF Begins, Moved, OthersKept, JobsShaped, SpeechKept, HoldKept
  <1>2. ASSUME NEW e \in Events, Repeats(e) PROVE JobsShaped'
    BY <1>2, EventsAre DEF Repeats, Moved, OthersKept, JobsShaped, SpeechKept, HoldKept
  <1>3. ASSUME NEW c \in Copies, Breaks(c) PROVE JobsShaped'
    BY <1>3, EventsAre DEF Breaks, Moved, OthersKept, JobsShaped, SpeechKept, HoldKept
  <1>4. ASSUME NEW c \in Copies, Admits(c) PROVE JobsShaped'
    BY <1>4, EventsAre DEF Admits, Moved, OthersKept, JobsShaped, SpeechKept, HoldKept
  <1>5. ASSUME NEW c \in Copies, Drops(c) PROVE JobsShaped'
    BY <1>5, EventsAre DEF Drops, Moved, OthersKept, JobsShaped, SpeechKept, HoldKept
  <1>6. ASSUME NEW c \in Copies, Takes(c) PROVE JobsShaped'
    BY <1>6, EventsAre DEF Takes, Moved, OthersKept, JobsShaped, SpeechKept, HoldKept
  <1>7. ASSUME NEW c \in Copies, TakesLock(c) PROVE JobsShaped'
    BY <1>7, EventsAre DEF TakesLock, Moved, OthersKept, JobsShaped, SpeechKept, HoldKept
  <1>8. ASSUME NEW c \in Copies, Speaks(c) PROVE JobsShaped'
    BY <1>8, EventsAre DEF Speaks, Speaking, Moved, OthersKept, JobsShaped, SpeechKept, HoldKept
  <1>9. ASSUME NEW c \in Copies, Parks(c) PROVE JobsShaped'
    BY <1>9, EventsAre DEF Parks, Sends, Moved, OthersKept, JobsShaped, SpeechKept, HoldKept
  <1>10. ASSUME NEW c \in Copies, Settles(c) PROVE JobsShaped'
    BY <1>10, EventsAre DEF Settles, Moved, OthersKept, JobsShaped, SpeechKept, HoldKept
  <1>11. ASSUME NEW c \in Copies, NEW f \in Events, Recovers(c, f) PROVE JobsShaped'
    BY <1>11, EventsAre DEF Recovers, Sends, Moved, OthersKept, JobsShaped, SpeechKept, HoldKept
  <1>12. ASSUME NEW c \in Copies, GivesUp(c) PROVE JobsShaped'
    BY <1>12, EventsAre DEF GivesUp, Moved, OthersKept, JobsShaped, SpeechKept, HoldKept
  <1>13. ASSUME Passes PROVE JobsShaped'
    BY <1>13, EventsAre DEF Passes, JobsShaped, SpeechKept, HoldKept
  <1>14. ASSUME NEW c \in Copies, Misses(c) PROVE JobsShaped'
    BY <1>14, EventsAre DEF Misses, Moved, OthersKept, JobsShaped, SpeechKept, HoldKept
  <1>15. QED
    BY <1>1, <1>2, <1>3, <1>4, <1>5, <1>6, <1>7, <1>8, <1>9, <1>10, <1>11, <1>12, <1>13,
       <1>14 DEF Step

\* Claims stay, a copy that was sent is not unsent, and spent tries stay spent.
LEMMA Grows == TypeOK /\ JobsShaped /\ Step =>
    /\ claims \subseteq claims' /\ unclaimed \subseteq unclaimed'
    /\ \A d \in Copies : (Pc(d) # "none" => Pc(d)' # "none") /\ (Spent(d) => Spent(d)')
  <1> DEFINE Goal == /\ claims \subseteq claims' /\ unclaimed \subseteq unclaimed'
                    /\ \A d \in Copies : (Pc(d) # "none" => Pc(d)' # "none") /\ (Spent(d) => Spent(d)')
  <1> SUFFICES ASSUME TypeOK, JobsShaped, Step PROVE Goal
    OBVIOUS
  <1>1. ASSUME NEW t \in Turns, Begins(t) PROVE Goal
    BY <1>1, EventsAre DEF Begins, Moved, OthersKept, JobsShaped
  <1>2. ASSUME NEW e \in Events, Repeats(e) PROVE Goal
    BY <1>2, EventsAre DEF Repeats, Moved, OthersKept, JobsShaped
  <1>3. ASSUME NEW c \in Copies, Breaks(c) PROVE Goal
    BY <1>3, EventsAre DEF Breaks, Moved, OthersKept, JobsShaped
  <1>4. ASSUME NEW c \in Copies, Admits(c) PROVE Goal
    BY <1>4, EventsAre DEF Admits, Moved, OthersKept, JobsShaped
  <1>5. ASSUME NEW c \in Copies, Drops(c) PROVE Goal
    BY <1>5, EventsAre DEF Drops, Moved, OthersKept, JobsShaped
  <1>6. ASSUME NEW c \in Copies, Takes(c) PROVE Goal
    BY <1>6, EventsAre DEF Takes, Moved, OthersKept, JobsShaped
  <1>7. ASSUME NEW c \in Copies, TakesLock(c) PROVE Goal
    BY <1>7, EventsAre DEF TakesLock, Moved, OthersKept, JobsShaped
  <1>8. ASSUME NEW c \in Copies, Speaks(c) PROVE Goal
    BY <1>8, EventsAre DEF Speaks, Speaking, Moved, OthersKept, JobsShaped
  <1>9. ASSUME NEW c \in Copies, Parks(c) PROVE Goal
    BY <1>9, EventsAre DEF Parks, Sends, Moved, OthersKept, JobsShaped
  <1>10. ASSUME NEW c \in Copies, Settles(c) PROVE Goal
    BY <1>10, EventsAre DEF Settles, Moved, OthersKept, JobsShaped
  <1>11. ASSUME NEW c \in Copies, NEW f \in Events, Recovers(c, f) PROVE Goal
    BY <1>11, EventsAre DEF Recovers, Sends, Moved, OthersKept, JobsShaped
  <1>12. ASSUME NEW c \in Copies, GivesUp(c) PROVE Goal
    BY <1>12, EventsAre DEF GivesUp, Moved, OthersKept, JobsShaped
  <1>13. ASSUME Passes PROVE Goal
    BY <1>13, EventsAre DEF Passes, JobsShaped
  <1>14. ASSUME NEW c \in Copies, Misses(c) PROVE Goal
    BY <1>14, EventsAre DEF Misses, Moved, OthersKept, JobsShaped
  <1>15. QED
    BY <1>1, <1>2, <1>3, <1>4, <1>5, <1>6, <1>7, <1>8, <1>9, <1>10, <1>11, <1>12, <1>13,
       <1>14 DEF Step

\* A copy is sent, and by whom.
New(d) == Pc(d) = "none" /\ Pc(d)' # "none"

SentBy(d) ==
    /\ Pc(d)' = "waiting" /\ ~Spent(d)' /\ (d[2] = 2 => Invoked(d[1]))
    /\ \/ \E t \in Turns : Begins(t) /\ d = <<Original(t), 1>>
       \/ \E e \in Events : Repeats(e) /\ d = <<e, 2>>
       \/ \E b \in Copies :
             Parks(b) /\ d[1] = [Original(b[1].turn) EXCEPT !.resume = TRUE]
       \/ \E b \in Copies : Recovers(b, d[1])

LEMMA FailedThough ==
    \A c \in Copies :
       \/ c[1].turn \in unclaimed
       \/ ~c[1].resume /\ Spent(c) /\ (DeliveryId(c[1]) \in claims \/ Twice(c[1]))
       => Exempt(c[1].turn)
  BY DEF Exempt, FailedThoughDelivered, Spent, Twice, At, Pc

LEMMA FailedThoughAfter ==
    \A c \in Copies :
       \/ c[1].turn \in unclaimed'
       \/ ~c[1].resume /\ Spent(c)' /\ (DeliveryId(c[1]) \in claims' \/ Twice(c[1])')
       => Exempt(c[1].turn)'
  BY DEF Exempt, FailedThoughDelivered, Spent, Twice, At, Pc

\* What is excepted stays excepted, and a turn that was admitted stays so.
LEMMA Excepted == TypeOK /\ JobsShaped /\ Step =>
    /\ \A t : Admitted(t) => Admitted(t)'
    /\ \A t : Exempt(t) => Exempt(t)'
    /\ \A t : ResumedTwice(t) => ResumedTwice(t)'
  <1> SUFFICES ASSUME TypeOK, JobsShaped, Step
               PROVE  /\ \A t : Admitted(t) => Admitted(t)'
                      /\ \A t : Exempt(t) => Exempt(t)'
                      /\ \A t : ResumedTwice(t) => ResumedTwice(t)'
    OBVIOUS
  <1>1. /\ claims \subseteq claims' /\ unclaimed \subseteq unclaimed'
        /\ \A d \in Copies : (Pc(d) # "none" => Pc(d)' # "none") /\ (Spent(d) => Spent(d)')
    BY Grows
  <1>2. \A t : Admitted(t) => Admitted(t)'
    BY <1>1 DEF Admitted
  <1>3. \A e \in Events : Twice(e) => Twice(e)'
    BY <1>1, EventsAre DEF Twice
  <1>4. \A t : ResumedTwice(t) => ResumedTwice(t)'
    BY <1>3 DEF ResumedTwice
  <1>5. ASSUME NEW t, Exempt(t) PROVE Exempt(t)'
    <2>1. CASE t \in unclaimed
      BY <1>1, <2>1 DEF Exempt
    <2>2. CASE FailedThoughDelivered(t)
      <3>1. PICK c \in Copies :
               /\ c[1].turn = t /\ ~c[1].resume /\ Spent(c)
               /\ DeliveryId(c[1]) \in claims \/ Twice(c[1])
        BY <2>2 DEF FailedThoughDelivered, Spent, Twice, At, Pc
      <3>2. Spent(c)' /\ (DeliveryId(c[1]) \in claims' \/ Twice(c[1])')
        BY <3>1, <1>1, <1>3, EventsAre
      <3>3. QED BY <3>1, <3>2, FailedThoughAfter
    <2>3. QED BY <1>5, <2>1, <2>2 DEF Exempt
  <1>6. QED BY <1>2, <1>4, <1>5

LEMMA FollowsSame ==
    \A e, g \in Events : Follows(g, e) => g.turn = e.turn /\ g.resume = e.resume
  BY DEF Follows, Events

LEMMA OriginalIs ==
    \A t \in Turns :
        /\ Original(t).turn = t /\ ~Original(t).resume
        /\ [Original(t) EXCEPT !.resume = TRUE].turn = t
        /\ [Original(t) EXCEPT !.resume = TRUE].resume
  BY DEF Original

\* A copy that is sent waits, and this is who sends it.
LEMMA Appears == TypeOK /\ JobsShaped /\ Step =>
    \A d \in Copies : New(d) => SentBy(d)
  <1> DEFINE Goal == \A d \in Copies : New(d) => SentBy(d)
  <1> SUFFICES ASSUME TypeOK, JobsShaped, Step PROVE Goal
    OBVIOUS
  <1>1. ASSUME NEW t \in Turns, Begins(t) PROVE Goal
    <2> SUFFICES ASSUME NEW d \in Copies, New(d) PROVE SentBy(d)
      OBVIOUS
    <2>8. d = <<Original(t), 1>> /\ Pc(d)' = "waiting" /\ ~Spent(d)' /\ (d[2] = 2 => Invoked(d[1]))
      BY <1>1, EventsAre DEF New, Invoked, Begins, Moved, OthersKept
    <2>9. QED BY <1>1, <2>8, EventsAre DEF SentBy
  <1>2. ASSUME NEW e \in Events, Repeats(e) PROVE Goal
    <2> SUFFICES ASSUME NEW d \in Copies, New(d) PROVE SentBy(d)
      OBVIOUS
    <2>8. d = <<e, 2>> /\ Pc(d)' = "waiting" /\ ~Spent(d)' /\ (d[2] = 2 => Invoked(d[1]))
      BY <1>2, EventsAre DEF New, Invoked, Repeats, Moved, OthersKept
    <2>9. QED BY <1>2, <2>8, EventsAre DEF SentBy
  <1>3. ASSUME NEW c \in Copies, Breaks(c) PROVE Goal
    BY <1>3, EventsAre DEF Breaks, Moved, OthersKept, New
  <1>4. ASSUME NEW c \in Copies, Admits(c) PROVE Goal
    BY <1>4, EventsAre DEF Admits, Moved, OthersKept, New
  <1>5. ASSUME NEW c \in Copies, Drops(c) PROVE Goal
    BY <1>5, EventsAre DEF Drops, Moved, OthersKept, New
  <1>6. ASSUME NEW c \in Copies, Takes(c) PROVE Goal
    BY <1>6, EventsAre DEF Takes, Moved, OthersKept, New
  <1>7. ASSUME NEW c \in Copies, TakesLock(c) PROVE Goal
    BY <1>7, EventsAre DEF TakesLock, Moved, OthersKept, New
  <1>8. ASSUME NEW c \in Copies, Speaks(c) PROVE Goal
    BY <1>8, EventsAre DEF Speaks, Speaking, Moved, OthersKept, New
  <1>9. ASSUME NEW c \in Copies, Parks(c) PROVE Goal
    <2>1. PICK f \in Events : f = [Original(c[1].turn) EXCEPT !.resume = TRUE]
      BY <1>9, EventsAre
    <2>2. f.turn = c[1].turn /\ f.resume /\ f.attempt = 1 /\ ~f.announce /\ c[1].turn \in Turns
      BY <2>1, EventsAre DEF Original
    <2>3. Sends(c, FALSE, f)
      BY <1>9, <2>1 DEF Parks
    <2> SUFFICES ASSUME NEW d \in Copies, New(d) PROVE SentBy(d)
      OBVIOUS
    <2>8. d[1] = f /\ Pc(d)' = "waiting" /\ ~Spent(d)' /\ (d[2] = 2 => Invoked(d[1]))
      BY <1>9, EventsAre, <2>1, <2>2, <2>3 DEF New, Invoked, Sends, Parks, Moved, OthersKept
    <2>9. QED BY <1>9, <2>8, EventsAre, <2>1 DEF SentBy
  <1>10. ASSUME NEW c \in Copies, Settles(c) PROVE Goal
    BY <1>10, EventsAre DEF Settles, Moved, OthersKept, New
  <1>11. ASSUME NEW c \in Copies, NEW f \in Events, Recovers(c, f) PROVE Goal
    <2> SUFFICES ASSUME NEW d \in Copies, New(d) PROVE SentBy(d)
      OBVIOUS
    <2>8. d[1] = f /\ Pc(d)' = "waiting" /\ ~Spent(d)' /\ (d[2] = 2 => Invoked(d[1]))
      BY <1>11, EventsAre DEF New, Invoked, Recovers, Sends, Moved, OthersKept
    <2>9. QED BY <1>11, <2>8, EventsAre DEF SentBy
  <1>12. ASSUME NEW c \in Copies, GivesUp(c) PROVE Goal
    BY <1>12, EventsAre DEF GivesUp, Moved, OthersKept, New
  <1>13. ASSUME Passes PROVE Goal
    BY <1>13, EventsAre DEF Passes, New
  <1>14. ASSUME NEW c \in Copies, Misses(c) PROVE Goal
    BY <1>14, EventsAre DEF Misses, Moved, OthersKept, New
  <1>15. QED
    BY <1>1, <1>2, <1>3, <1>4, <1>5, <1>6, <1>7, <1>8, <1>9, <1>10, <1>11, <1>12, <1>13,
       <1>14 DEF Step

\* No step sends two copies.
LEMMA OneNew == TypeOK /\ JobsShaped /\ Step =>
    \A u, v \in Copies : New(u) /\ New(v) => u = v
  <1> DEFINE Goal == \A u, v \in Copies : New(u) /\ New(v) => u = v
  <1> SUFFICES ASSUME TypeOK, JobsShaped, Step PROVE Goal
    OBVIOUS
  <1>1. ASSUME NEW t \in Turns, Begins(t) PROVE Goal
    BY <1>1, EventsAre DEF Begins, Moved, OthersKept, New
  <1>2. ASSUME NEW e \in Events, Repeats(e) PROVE Goal
    BY <1>2, EventsAre DEF Repeats, Moved, OthersKept, New
  <1>3. ASSUME NEW c \in Copies, Breaks(c) PROVE Goal
    BY <1>3, EventsAre DEF Breaks, Moved, OthersKept, New
  <1>4. ASSUME NEW c \in Copies, Admits(c) PROVE Goal
    BY <1>4, EventsAre DEF Admits, Moved, OthersKept, New
  <1>5. ASSUME NEW c \in Copies, Drops(c) PROVE Goal
    BY <1>5, EventsAre DEF Drops, Moved, OthersKept, New
  <1>6. ASSUME NEW c \in Copies, Takes(c) PROVE Goal
    BY <1>6, EventsAre DEF Takes, Moved, OthersKept, New
  <1>7. ASSUME NEW c \in Copies, TakesLock(c) PROVE Goal
    BY <1>7, EventsAre DEF TakesLock, Moved, OthersKept, New
  <1>8. ASSUME NEW c \in Copies, Speaks(c) PROVE Goal
    BY <1>8, EventsAre DEF Speaks, Speaking, Moved, OthersKept, New
  <1>9. ASSUME NEW c \in Copies, Parks(c) PROVE Goal
    <2>1. PICK f \in Events : f = [Original(c[1].turn) EXCEPT !.resume = TRUE]
      BY <1>9, EventsAre
    <2>2. f.turn = c[1].turn /\ f.resume /\ f.attempt = 1 /\ ~f.announce /\ c[1].turn \in Turns
      BY <2>1, EventsAre DEF Original
    <2>3. Sends(c, FALSE, f)
      BY <1>9, <2>1 DEF Parks
    <2>4. QED BY <1>9, <2>1, <2>2, <2>3, EventsAre DEF Sends, Moved, OthersKept, New, Parks
  <1>10. ASSUME NEW c \in Copies, Settles(c) PROVE Goal
    BY <1>10, EventsAre DEF Settles, Moved, OthersKept, New
  <1>11. ASSUME NEW c \in Copies, NEW f \in Events, Recovers(c, f) PROVE Goal
    BY <1>11, EventsAre DEF Recovers, Sends, Moved, OthersKept, New
  <1>12. ASSUME NEW c \in Copies, GivesUp(c) PROVE Goal
    BY <1>12, EventsAre DEF GivesUp, Moved, OthersKept, New
  <1>13. ASSUME Passes PROVE Goal
    BY <1>13, EventsAre DEF Passes, New
  <1>14. ASSUME NEW c \in Copies, Misses(c) PROVE Goal
    BY <1>14, EventsAre DEF Misses, Moved, OthersKept, New
  <1>15. QED
    BY <1>1, <1>2, <1>3, <1>4, <1>5, <1>6, <1>7, <1>8, <1>9, <1>10, <1>11, <1>12, <1>13,
       <1>14 DEF Step

LEMMA StartedKept == TypeOK /\ JobsShaped /\ Started /\ Step => Started'
  <1> SUFFICES ASSUME TypeOK, JobsShaped, Started, Step PROVE Started'
    OBVIOUS
  <1>1. ASSUME NEW d \in Copies, New(d)
        PROVE  /\ d[2] = 2 => Invoked(d[1])
               /\ \/ d = <<Original(d[1].turn), 1>>
                  \/ \E b \in Copies : Pc(b) # "none" /\ b[1].turn = d[1].turn
    <2>1. SentBy(d)
      BY <1>1, Appears
    <2>2. ASSUME NEW t \in Turns, d = <<Original(t), 1>> PROVE d = <<Original(d[1].turn), 1>>
      BY <2>2, OriginalIs
    <2>3. ASSUME NEW e \in Events, Repeats(e), d = <<e, 2>>
          PROVE  Pc(<<e, 1>>) # "none" /\ <<e, 1>>[1].turn = d[1].turn
      BY <2>3 DEF Repeats
    <2>4. ASSUME NEW b \in Copies, Parks(b), d[1] = [Original(b[1].turn) EXCEPT !.resume = TRUE]
          PROVE  Pc(b) # "none" /\ b[1].turn = d[1].turn
      BY <2>4, EventsAre, OriginalIs DEF Parks
    <2>5. ASSUME NEW b \in Copies, Recovers(b, d[1])
          PROVE  Pc(b) # "none" /\ b[1].turn = d[1].turn
      BY <2>5, EventsAre, FollowsSame DEF Recovers
    <2>6. ASSUME NEW e \in Events, Repeats(e), d = <<e, 2>>
          PROVE  \E b \in Copies : Pc(b) # "none" /\ b[1].turn = d[1].turn
      BY <2>3, <2>6, EventsAre
    <2>7. d[2] = 2 => Invoked(d[1])
      BY <2>1 DEF SentBy
    <2>8. QED BY <2>1, <2>2, <2>4, <2>5, <2>6, <2>7 DEF SentBy
  <1>2. \A d \in Copies : Pc(d) # "none" => Pc(d)' # "none"
    BY Grows
  <1>3. \A e \in Events : Invoked(e) => Invoked(e)'
    BY <1>2, EventsAre DEF Invoked
  <1>4. ASSUME NEW t \in Turns, Dispatched(t) PROVE Dispatched(t)'
    BY <1>2, <1>4, EventsAre DEF Dispatched, At, Pc
  <1>5. ASSUME NEW e \in Events, Twice(e)' PROVE Invoked(e)'
    BY <1>1, <1>3, <1>5, EventsAre DEF Twice, Started, New
  <1>6. ASSUME NEW d \in Copies, Pc(d)' # "none" PROVE Dispatched(d[1].turn)'
    <2>1. CASE d = <<Original(d[1].turn), 1>>
      BY <2>1, <1>6 DEF Dispatched, At, Pc
    <2>2. CASE d # <<Original(d[1].turn), 1>>
      <3>1. Dispatched(d[1].turn)
        BY <1>1, <1>6, <2>2 DEF Started, New
      <3>2. QED BY <3>1, <1>4, EventsAre
    <2>3. QED BY <2>1, <2>2
  <1>7. ASSUME NEW t \in Turns, Admitted(t)' PROVE Dispatched(t)'
    <2>1. Dispatched(t)
      <3>1. CASE Admitted(t)
        BY <3>1 DEF Started
      <3>2. CASE ~Admitted(t)
        <4>1. PICK c \in Copies : Admits(c)
          BY <1>7, <3>2 DEF Step, Begins, Repeats, Breaks, Drops, Takes, TakesLock, Misses, Speaks, Parks,
                            Settles, GivesUp, Recovers, Passes, Admitted
        <4>2. c[1].turn = t /\ Pc(c) # "none"
          BY <4>1, <1>7, <3>2 DEF Admits, Admitted, DeliveryId
        <4>3. QED BY <4>2 DEF Started
      <3>3. QED BY <3>1, <3>2
    <2>2. QED BY <2>1, <1>4
  <1>8. QED BY <1>5, <1>6, <1>7 DEF Started

-----------------------------------------------------------------------------
(* One copy of a turn is active, and one is admitted.                       *)

\* A copy that is active was so before, or is sent, or failed though it was delivered.
LEMMA ActiveBefore == TypeOK /\ JobsShaped /\ Step =>
    \A d \in Copies : Active(d)' => Active(d) \/ New(d) \/ Exempt(d[1].turn)'
  <1> DEFINE Goal == \A d \in Copies : Active(d)' => Active(d) \/ New(d) \/ Exempt(d[1].turn)'
  <1> SUFFICES ASSUME TypeOK, JobsShaped, Step PROVE Goal
    OBVIOUS
  <1>1. ASSUME NEW t \in Turns, Begins(t) PROVE Goal
    BY <1>1, EventsAre, FailedThoughAfter DEF Begins, Moved, OthersKept, Active, New, JobsShaped
  <1>2. ASSUME NEW e \in Events, Repeats(e) PROVE Goal
    BY <1>2, EventsAre, FailedThoughAfter DEF Repeats, Moved, OthersKept, Active, New, JobsShaped
  <1>3. ASSUME NEW c \in Copies, Breaks(c) PROVE Goal
    BY <1>3, EventsAre, FailedThoughAfter DEF Breaks, Moved, OthersKept, Active, New, JobsShaped
  <1>4. ASSUME NEW c \in Copies, Admits(c) PROVE Goal
    BY <1>4, EventsAre, FailedThoughAfter DEF Admits, Moved, OthersKept, Active, New, JobsShaped
  <1>5. ASSUME NEW c \in Copies, Drops(c) PROVE Goal
    BY <1>5, EventsAre, FailedThoughAfter DEF Drops, Moved, OthersKept, Active, New, JobsShaped
  <1>6. ASSUME NEW c \in Copies, Takes(c) PROVE Goal
    BY <1>6, EventsAre, FailedThoughAfter DEF Takes, Moved, OthersKept, Active, New, JobsShaped
  <1>7. ASSUME NEW c \in Copies, TakesLock(c) PROVE Goal
    BY <1>7, EventsAre, FailedThoughAfter DEF TakesLock, Moved, OthersKept, Active, New, JobsShaped
  <1>8. ASSUME NEW c \in Copies, Speaks(c) PROVE Goal
    BY <1>8, EventsAre, FailedThoughAfter DEF Speaks, Speaking, Moved, OthersKept, Active, New, JobsShaped
  <1>9. ASSUME NEW c \in Copies, Parks(c) PROVE Goal
    <2>1. PICK f \in Events : f = [Original(c[1].turn) EXCEPT !.resume = TRUE]
      BY <1>9, EventsAre
    <2>2. f.turn = c[1].turn /\ f.resume /\ f.attempt = 1 /\ ~f.announce /\ c[1].turn \in Turns
      BY <2>1, EventsAre DEF Original
    <2>3. Sends(c, FALSE, f)
      BY <1>9, <2>1 DEF Parks
    <2>4. QED BY <1>9, <2>1, <2>2, <2>3, EventsAre DEF Sends, Moved, OthersKept, New, Parks, Active
  <1>10. ASSUME NEW c \in Copies, Settles(c) PROVE Goal
    BY <1>10, EventsAre, FailedThoughAfter DEF Settles, Moved, OthersKept, Active, New, JobsShaped
  <1>11. ASSUME NEW c \in Copies, NEW f \in Events, Recovers(c, f) PROVE Goal
    BY <1>11, EventsAre, FailedThoughAfter DEF Recovers, Sends, Moved, OthersKept, Active, New, JobsShaped
  <1>12. ASSUME NEW c \in Copies, GivesUp(c) PROVE Goal
    BY <1>12, EventsAre, FailedThoughAfter DEF GivesUp, Moved, OthersKept, Active, New, JobsShaped
  <1>13. ASSUME Passes PROVE Goal
    BY <1>13, EventsAre, FailedThoughAfter DEF Passes, Active, New, JobsShaped
  <1>14. ASSUME NEW c \in Copies, Misses(c) PROVE Goal
    BY <1>14, EventsAre, FailedThoughAfter DEF Misses, Moved, OthersKept, Active, New, JobsShaped
  <1>15. QED
    BY <1>1, <1>2, <1>3, <1>4, <1>5, <1>6, <1>7, <1>8, <1>9, <1>10, <1>11, <1>12, <1>13,
       <1>14 DEF Step

\* So was a copy that is to be admitted.
LEMMA UnheardBefore == TypeOK /\ JobsShaped /\ Step =>
    \A d \in Copies : Unheard(d)' => Unheard(d) \/ New(d) \/ Exempt(d[1].turn)'
  <1> DEFINE Goal == \A d \in Copies : Unheard(d)' => Unheard(d) \/ New(d) \/ Exempt(d[1].turn)'
  <1> SUFFICES ASSUME TypeOK, JobsShaped, Step PROVE Goal
    OBVIOUS
  <1>1. ASSUME NEW t \in Turns, Begins(t) PROVE Goal
    BY <1>1, EventsAre, FailedThoughAfter DEF Begins, Moved, OthersKept, Unheard, New, JobsShaped
  <1>2. ASSUME NEW e \in Events, Repeats(e) PROVE Goal
    BY <1>2, EventsAre, FailedThoughAfter DEF Repeats, Moved, OthersKept, Unheard, New, JobsShaped
  <1>3. ASSUME NEW c \in Copies, Breaks(c) PROVE Goal
    BY <1>3, EventsAre, FailedThoughAfter DEF Breaks, Moved, OthersKept, Unheard, New, JobsShaped
  <1>4. ASSUME NEW c \in Copies, Admits(c) PROVE Goal
    BY <1>4, EventsAre, FailedThoughAfter DEF Admits, Moved, OthersKept, Unheard, New, JobsShaped
  <1>5. ASSUME NEW c \in Copies, Drops(c) PROVE Goal
    BY <1>5, EventsAre, FailedThoughAfter DEF Drops, Moved, OthersKept, Unheard, New, JobsShaped
  <1>6. ASSUME NEW c \in Copies, Takes(c) PROVE Goal
    BY <1>6, EventsAre, FailedThoughAfter DEF Takes, Moved, OthersKept, Unheard, New, JobsShaped
  <1>7. ASSUME NEW c \in Copies, TakesLock(c) PROVE Goal
    BY <1>7, EventsAre, FailedThoughAfter DEF TakesLock, Moved, OthersKept, Unheard, New, JobsShaped
  <1>8. ASSUME NEW c \in Copies, Speaks(c) PROVE Goal
    BY <1>8, EventsAre, FailedThoughAfter DEF Speaks, Speaking, Moved, OthersKept, Unheard, New, JobsShaped
  <1>9. ASSUME NEW c \in Copies, Parks(c) PROVE Goal
    <2>1. PICK f \in Events : f = [Original(c[1].turn) EXCEPT !.resume = TRUE]
      BY <1>9, EventsAre
    <2>2. f.turn = c[1].turn /\ f.resume /\ f.attempt = 1 /\ ~f.announce /\ c[1].turn \in Turns
      BY <2>1, EventsAre, FailedThoughAfter DEF Original
    <2>3. Sends(c, FALSE, f)
      BY <1>9, <2>1 DEF Parks
    <2>4. QED BY <1>9, <2>1, <2>2, <2>3, EventsAre, FailedThoughAfter DEF Sends, Moved, OthersKept, New, Parks, Unheard
  <1>10. ASSUME NEW c \in Copies, Settles(c) PROVE Goal
    BY <1>10, EventsAre, FailedThoughAfter DEF Settles, Moved, OthersKept, Unheard, New, JobsShaped
  <1>11. ASSUME NEW c \in Copies, NEW f \in Events, Recovers(c, f) PROVE Goal
    BY <1>11, EventsAre, FailedThoughAfter DEF Recovers, Sends, Moved, OthersKept, Unheard, New, JobsShaped
  <1>12. ASSUME NEW c \in Copies, GivesUp(c) PROVE Goal
    BY <1>12, EventsAre, FailedThoughAfter DEF GivesUp, Moved, OthersKept, Unheard, New, JobsShaped
  <1>13. ASSUME Passes PROVE Goal
    BY <1>13, EventsAre, FailedThoughAfter DEF Passes, Unheard, New, JobsShaped
  <1>14. ASSUME NEW c \in Copies, Misses(c) PROVE Goal
    BY <1>14, EventsAre, FailedThoughAfter DEF Misses, Moved, OthersKept, Unheard, New, JobsShaped
  <1>15. QED
    BY <1>1, <1>2, <1>3, <1>4, <1>5, <1>6, <1>7, <1>8, <1>9, <1>10, <1>11, <1>12, <1>13,
       <1>14 DEF Step

LEMMA UnheardActive == \A c \in Copies : Unheard(c) => Active(c)
  BY DEF Unheard, Active

LEMMA FirstDispatch ==
    ASSUME Started, NEW t \in Turns, Begins(t), NEW c \in Copies, Pc(c) # "none"
    PROVE  c[1].turn # t
  BY DEF Started, Begins, Dispatched, At, Pc

\* A second copy of a delivery: of a resume, of one that was admitted, that failed, or that is
\* active itself.
LEMMA RepeatedCopy ==
    ASSUME TypeOK, JobsShaped, Step, NEW e \in Events, Repeats(e)
    PROVE  /\ e.resume => ResumedTwice(e.turn)'
           /\ ~e.resume => \/ Exempt(e.turn)'
                           \/ DeliveryId(e) \in claims
                           \/ Pc(<<e, 1>>) = "waiting" /\ Active(<<e, 1>>) /\ Unheard(<<e, 1>>)
  <1>1. <<e, 1>> \in Copies /\ <<e, 2>> \in Copies /\ <<e, 1>>[1] = e
    BY EventsAre
  <1>2. Twice(e)'
    BY <1>1 DEF Repeats, Moved, Twice
  <1>3. e.resume => ResumedTwice(e.turn)'
    BY <1>2 DEF ResumedTwice
  <1>4. ASSUME ~e.resume, DeliveryId(e) \notin claims, Pc(<<e, 1>>) # "waiting"
        PROVE  Exempt(e.turn)'
    <2>1. CASE e.turn \in unclaimed
      BY <1>1, <2>1, Grows, FailedThoughAfter
    <2>2. CASE e.turn \notin unclaimed
      <3>1. Pc(<<e, 1>>) \in Pcs
        BY <1>1 DEF TypeOK, Jobs, Pc
      <3>2. Spent(<<e, 1>>)
        BY <1>1, <1>4, <2>2, <3>1 DEF Repeats, JobsShaped, Pcs
      <3>3. Spent(<<e, 1>>)'
        BY <3>2, <1>1, Grows
      <3>4. QED BY <1>1, <1>2, <1>4, <3>3, FailedThoughAfter
    <2>3. QED BY <2>1, <2>2
  <1>5. ASSUME ~e.resume, DeliveryId(e) \notin claims, Pc(<<e, 1>>) = "waiting"
        PROVE  Active(<<e, 1>>) /\ Unheard(<<e, 1>>)
    BY <1>1, <1>5 DEF Active, Unheard
  <1>6. QED BY <1>3, <1>4, <1>5

\* A new copy of a turn is not sent while another copy of its kind is active.
LEMMA NewAlone ==
    ASSUME TypeOK, JobsShaped, Started, OneActive, ResumedAfter, Step,
           NEW c \in Copies, NEW d \in Copies, c # d, Active(c)', New(d), Active(d)',
           c[1].turn = d[1].turn, c[1].resume = d[1].resume
    PROVE  \/ Exempt(c[1].turn)' \/ Twins(c, d)'
           \/ c[1].resume /\ ResumedTwice(c[1].turn)'
  <1>1. ~New(c)
    BY OneNew
  <1>2. SentBy(d)
    BY Appears
  <1>3. Pc(c) # "none" /\ (Active(c) \/ Exempt(c[1].turn)')
    BY <1>1, ActiveBefore DEF Active, New
  <1>4. ASSUME NEW t \in Turns, Begins(t), d = <<Original(t), 1>> PROVE FALSE
    BY <1>3, <1>4, FirstDispatch, OriginalIs
  <1>5. ASSUME NEW e \in Events, Repeats(e), d = <<e, 2>>
        PROVE  \/ Exempt(c[1].turn)' \/ Twins(c, d)'
               \/ c[1].resume /\ ResumedTwice(c[1].turn)'
    <2>1. d[1] = e /\ Pc(d)' = "waiting" /\ <<e, 1>> \in Copies /\ <<e, 1>>[1] = e
      BY <1>5, <1>2, EventsAre DEF SentBy
    <2>2. e.resume \/ DeliveryId(e) \notin claims
      BY <2>1, Grows DEF Active
    <2>3. CASE ~e.resume /\ Pc(<<e, 1>>) = "waiting" /\ Active(<<e, 1>>) /\ Active(c)
      <3>1. c = <<e, 1>> \/ c[1] = e \/ Exempt(c[1].turn)
        BY <2>1, <2>3 DEF OneActive, Twins
      <3>2. c[1] = e /\ Pc(c) = "waiting" => Twins(c, d)'
        BY <1>5, <2>1 DEF Repeats, Moved, OthersKept, Twins
      <3>3. c[1] = e => c = <<e, 1>>
        BY <1>1, <1>3, <1>5, EventsAre DEF Repeats, New
      <3>4. QED BY <2>3, <3>1, <3>2, <3>3, Excepted
    <2>4. QED BY <1>3, <1>5, <2>1, <2>2, <2>3, RepeatedCopy
  <1>6. ASSUME NEW b \in Copies, Parks(b), d[1] = [Original(b[1].turn) EXCEPT !.resume = TRUE]
        PROVE  Exempt(c[1].turn)'
    <2>1. d[1].turn = b[1].turn /\ d[1].resume
      BY <1>6, OriginalIs, EventsAre
    <2>2. Active(b) /\ ~b[1].resume
      BY <1>6 DEF Parks, Active
    <2>3. Exempt(c[1].turn)
      BY <1>3, <2>1, <2>2, Excepted DEF ResumedAfter
    <2>4. QED BY <2>3, Excepted
  <1>7. ASSUME NEW b \in Copies, Recovers(b, d[1])
        PROVE  Exempt(c[1].turn)' \/ (c[1].resume /\ ResumedTwice(c[1].turn)')
    <2>1. d[1].turn = b[1].turn /\ d[1].resume = b[1].resume /\ Active(b) /\ Pc(b)' = "over"
      BY <1>7, FollowsSame, EventsAre DEF Recovers, Sends, Moved, Active
    <2>2. c # b
      BY <2>1 DEF Active
    <2>3. CASE Active(c)
      BY <1>7, <2>1, <2>2, <2>3, Excepted DEF OneActive, Twins, Recovers
    <2>4. QED BY <1>3, <2>3
  <1>8. QED BY <1>2, <1>4, <1>5, <1>6, <1>7 DEF SentBy

GoesOn(d) ==
    \/ Pc(d)' \in {"waiting", "failed"} \/ \E g \in Events : Recovers(d, g)
    \/ Admits(d) \/ Drops(d) \/ Takes(d) \/ TakesLock(d)
    \/ Misses(d) \/ GivesUp(d)

\* A copy that waits or failed goes on doing so, is begun, ends, or is followed by another.
LEMMA WaitingAfter == TypeOK /\ JobsShaped /\ Step =>
    \A d \in Copies : Pc(d) \in {"waiting", "failed"} => GoesOn(d)
  <1> DEFINE Goal == \A d \in Copies : Pc(d) \in {"waiting", "failed"} => GoesOn(d)
  <1> SUFFICES ASSUME TypeOK, JobsShaped, Step PROVE Goal
    OBVIOUS
  <1>1. ASSUME NEW t \in Turns, Begins(t) PROVE Goal
    BY <1>1, EventsAre DEF Begins, Moved, OthersKept, GoesOn
  <1>2. ASSUME NEW e \in Events, Repeats(e) PROVE Goal
    BY <1>2, EventsAre DEF Repeats, Moved, OthersKept, GoesOn
  <1>3. ASSUME NEW c \in Copies, Breaks(c) PROVE Goal
    BY <1>3, EventsAre DEF Breaks, Moved, OthersKept, GoesOn
  <1>4. ASSUME NEW c \in Copies, Admits(c) PROVE Goal
    <2>1. OthersKept(c)
      BY <1>4 DEF Admits, Moved
    <2>2. QED BY <1>4, <2>1 DEF OthersKept, GoesOn
  <1>5. ASSUME NEW c \in Copies, Drops(c) PROVE Goal
    <2>1. OthersKept(c)
      BY <1>5 DEF Drops, Moved
    <2>2. QED BY <1>5, <2>1 DEF OthersKept, GoesOn
  <1>6. ASSUME NEW c \in Copies, Takes(c) PROVE Goal
    <2>1. OthersKept(c)
      BY <1>6 DEF Takes, Moved
    <2>2. QED BY <1>6, <2>1 DEF OthersKept, GoesOn
  <1>7. ASSUME NEW c \in Copies, TakesLock(c) PROVE Goal
    <2>1. OthersKept(c)
      BY <1>7 DEF TakesLock, Moved
    <2>2. QED BY <1>7, <2>1 DEF OthersKept, GoesOn
  <1>8. ASSUME NEW c \in Copies, Speaks(c) PROVE Goal
    BY <1>8, EventsAre DEF Speaks, Speaking, Moved, OthersKept, GoesOn
  <1>9. ASSUME NEW c \in Copies, Parks(c) PROVE Goal
    <2>1. PICK f \in Events : f = [Original(c[1].turn) EXCEPT !.resume = TRUE]
      BY <1>9, EventsAre
    <2>2. f.turn = c[1].turn /\ f.resume /\ f.attempt = 1 /\ ~f.announce /\ c[1].turn \in Turns
      BY <2>1, EventsAre DEF Original
    <2>3. Sends(c, FALSE, f)
      BY <1>9, <2>1 DEF Parks
    <2>4. QED BY <1>9, <2>1, <2>2, <2>3, EventsAre DEF Sends, Moved, OthersKept, Parks, GoesOn
  <1>10. ASSUME NEW c \in Copies, Settles(c) PROVE Goal
    BY <1>10, EventsAre DEF Settles, Moved, OthersKept, GoesOn
  <1>11. ASSUME NEW c \in Copies, NEW f \in Events, Recovers(c, f) PROVE Goal
    <2>1. \A d \in Copies : d # c /\ Pc(d) # "none" => Pc(d)' = Pc(d)
      BY <1>11, EventsAre DEF Recovers, Sends, Moved, OthersKept
    <2>2. QED BY <1>11, <2>1 DEF GoesOn
  <1>12. ASSUME NEW c \in Copies, GivesUp(c) PROVE Goal
    <2>1. OthersKept(c)
      BY <1>12 DEF GivesUp, Moved
    <2>2. QED BY <1>12, <2>1 DEF OthersKept, GoesOn
  <1>13. ASSUME Passes PROVE Goal
    BY <1>13, EventsAre DEF Passes, GoesOn
  <1>14. ASSUME NEW c \in Copies, Misses(c) PROVE Goal
    <2>1. OthersKept(c)
      BY <1>14 DEF Misses, Moved
    <2>2. QED BY <1>14, <2>1 DEF OthersKept, GoesOn
  <1>15. QED
    BY <1>1, <1>2, <1>3, <1>4, <1>5, <1>6, <1>7, <1>8, <1>9, <1>10, <1>11, <1>12, <1>13,
       <1>14 DEF Step

\* Twins go on waiting, or one fails and the turn is excepted; or one is admitted and the
\* other is not active any more.
LEMMA TwinsKept ==
    ASSUME TypeOK, JobsShaped, Started, Step, NEW c \in Copies, NEW d \in Copies, c # d,
           Twins(c, d), ~c[1].resume, Active(c)', Active(d)'
    PROVE  Exempt(c[1].turn)' \/ Twins(c, d)'
  <1>1. c[1] \in Events /\ d[1] = c[1] /\ Twice(c[1])
    BY EventsAre DEF Twins, Twice
  <1>2. Twice(c[1])'
    BY <1>1, Grows, EventsAre DEF Twice
  <1>3. ASSUME NEW b \in {c, d} PROVE Pc(b)' = "waiting" \/ Exempt(c[1].turn)'
    <2>1. b \in Copies /\ Pc(b) = "waiting" /\ b[1] = c[1] /\ Active(b)'
      BY <1>1 DEF Twins
    <2>2. GoesOn(b)
      BY <2>1, WaitingAfter
    <2>3. CASE Pc(b)' = "failed"
      <3>1. JobsShaped'
        BY JobsShapedKept
      <3>2. Spent(b)'
        BY <2>1, <2>3, <3>1 DEF JobsShaped
      <3>3. QED BY <1>2, <2>1, <3>2, FailedThoughAfter
    <2>4. CASE Admits(b)
      <3>1. CASE DeliveryId(c[1]) \in claims'
        <4>1. PICK o \in {c, d} : o # b
          OBVIOUS
        <4>2. Pc(o)' = "waiting" /\ o[1] = c[1]
          BY <2>4, <4>1, <1>1 DEF Admits, Moved, OthersKept, Twins
        <4>3. QED BY <3>1, <4>2 DEF Active
      <3>2. CASE DeliveryId(c[1]) \notin claims'
        BY <2>1, <2>4, <3>2, FailedThoughAfter DEF Admits
      <3>3. QED BY <3>1, <3>2
    <2>5. QED BY <2>1, <2>2, <2>3, <2>4
             DEF GoesOn, Recovers, Drops, Takes, TakesLock, Misses, GivesUp, Moved, Active
  <1>4. QED BY <1>1, <1>3 DEF Twins

LEMMA OneActiveKept ==
    TypeOK /\ JobsShaped /\ Started /\ OneActive /\ ResumedAfter /\ Step => OneActive'
  <1> SUFFICES ASSUME TypeOK, JobsShaped, Started, OneActive, ResumedAfter, Step,
                      NEW c \in Copies, NEW d \in Copies, Active(c)', Active(d)', c # d,
                      c[1].turn = d[1].turn, c[1].resume = d[1].resume
               PROVE  \/ Exempt(c[1].turn)' \/ Twins(c, d)'
                      \/ c[1].resume /\ ResumedTwice(c[1].turn)'
    BY DEF OneActive
  <1>1. CASE New(c)
    <2>1. Twins(d, c)' => Twins(c, d)'
      BY DEF Twins
    <2>2. QED BY <1>1, <2>1, NewAlone
  <1>2. CASE New(d)
    BY <1>2, NewAlone
  <1>3. CASE ~New(c) /\ ~New(d)
    <2>1. CASE Active(c) /\ Active(d)
      <3>1. CASE Twins(c, d) /\ ~c[1].resume
        BY <3>1, TwinsKept
      <3>2. CASE Twins(c, d) /\ c[1].resume
        <4>1. Twice(c[1])' /\ c[1] \in Events
          BY <3>2, Grows, EventsAre DEF Twins, Twice
        <4>2. QED BY <3>2, <4>1 DEF ResumedTwice
      <3>3. QED BY <2>1, <3>1, <3>2, Excepted DEF OneActive
    <2>2. QED BY <1>3, <2>1, ActiveBefore
  <1>4. QED BY <1>1, <1>2, <1>3

LEMMA OneAdmittedKept ==
    TypeOK /\ JobsShaped /\ Started /\ OneActive /\ OneAdmitted /\ Step => OneAdmitted'
  <1> SUFFICES ASSUME TypeOK, JobsShaped, Started, OneActive, OneAdmitted, Step,
                      NEW c \in Copies, Unheard(c)', ~Exempt(c[1].turn)'
               PROVE  ~Admitted(c[1].turn)'
    BY DEF OneAdmitted
  <1>1. ~Exempt(c[1].turn) /\ ~c[1].resume
        /\ DeliveryId(c[1]) \notin claims'
    BY Excepted DEF Unheard
  <1>2. ASSUME ~Admitted(c[1].turn), Admitted(c[1].turn)'
        PROVE  \E b \in Copies : Admits(b) /\ b[1].turn = c[1].turn
    <2>1. PICK b \in Copies : Admits(b)
      BY <1>2 DEF Step, Begins, Repeats, Breaks, Drops, Takes, TakesLock, Misses, Speaks, Parks,
                  Settles, GivesUp, Recovers, Passes, Admitted
    <2>2. b[1].turn = c[1].turn
      BY <2>1, <1>2 DEF Admits, Admitted, DeliveryId
    <2>3. QED BY <2>1, <2>2
  <1>3. CASE Unheard(c)
    <2>1. ~Admitted(c[1].turn)
      BY <1>1, <1>3 DEF OneAdmitted
    <2>2. ASSUME NEW b \in Copies, Admits(b), b[1].turn = c[1].turn PROVE FALSE
      <3>1. c[1].turn \notin unclaimed'
        BY FailedThoughAfter
      <3>2. DeliveryId(b[1]) \notin claims /\ DeliveryId(b[1]) \in claims'
        BY <2>2, <3>1 DEF Admits
      <3>3. Active(b) /\ Active(c) /\ ~b[1].resume
        BY <1>3, <2>2, <3>2, UnheardActive DEF Admits, Active
      <3>4. c[1].resume = b[1].resume /\ c[1] # b[1]
        BY <1>1, <3>2, <3>3, EventsAre
      <3>5. QED BY <1>1, <2>2, <3>3, <3>4 DEF OneActive, Twins
    <2>3. QED BY <1>2, <2>1, <2>2
  <1>4. CASE New(c)
    <2>1. SentBy(c)
      BY <1>4, Appears
    <2>2. ASSUME NEW t \in Turns, Begins(t), c = <<Original(t), 1>> PROVE ~Admitted(c[1].turn)'
      <3>1. c[1].turn = t /\ ~Dispatched(t)
        BY <2>2, OriginalIs DEF Begins, Dispatched, At, Pc
      <3>2. ~Admitted(t) /\ UNCHANGED <<claims, unclaimed>>
        BY <2>2, <3>1 DEF Started, Begins
      <3>3. QED BY <3>1, <3>2 DEF Admitted
    <2>3. ASSUME NEW e \in Events, Repeats(e), c = <<e, 2>> PROVE ~Admitted(c[1].turn)'
      <3>1. <<e, 1>> \in Copies /\ <<e, 1>>[1] = e /\ c[1] = e
        BY <2>3, EventsAre
      <3>2. Unheard(<<e, 1>>) /\ UNCHANGED <<claims, unclaimed>>
        BY <1>1, <2>3, <3>1, RepeatedCopy, Grows DEF Repeats
      <3>3. QED BY <1>1, <3>1, <3>2 DEF OneAdmitted, Admitted
    <2>4. ASSUME NEW b \in Copies, Parks(b), c[1] = [Original(b[1].turn) EXCEPT !.resume = TRUE]
          PROVE  FALSE
      BY <1>1, <2>4, OriginalIs, EventsAre
    <2>5. ASSUME NEW b \in Copies, Recovers(b, c[1]) PROVE ~Admitted(c[1].turn)'
      <3>1. /\ c[1].turn = b[1].turn /\ ~b[1].resume /\ Pc(b) = "failed"
            /\ UNCHANGED <<claims, unclaimed>>
        BY <1>1, <2>5, FollowsSame, EventsAre DEF Recovers
      <3>2. Unheard(b)
        BY <1>1, <3>1, FailedThough DEF JobsShaped, Unheard
      <3>3. QED BY <1>1, <3>1, <3>2 DEF OneAdmitted, Admitted
    <2>6. QED BY <2>1, <2>2, <2>3, <2>4, <2>5 DEF SentBy
  <1>5. QED BY <1>3, <1>4, UnheardBefore

LEMMA ResumedAfterKept ==
    TypeOK /\ JobsShaped /\ Started /\ OneActive /\ ResumedAfter /\ Step => ResumedAfter'
  <1> SUFFICES ASSUME TypeOK, JobsShaped, Started, OneActive, ResumedAfter, Step,
                      NEW c \in Copies, c[1].resume, Pc(c)' # "none"
               PROVE  /\ Admitted(c[1].turn)'
                      /\ \A d \in Copies : ~d[1].resume /\ d[1].turn = c[1].turn /\ Active(d)' =>
                            Exempt(c[1].turn)'
    BY DEF ResumedAfter
  <1> DEFINE Goal == /\ Admitted(c[1].turn)'
                     /\ \A d \in Copies : ~d[1].resume /\ d[1].turn = c[1].turn /\ Active(d)' =>
                           Exempt(c[1].turn)'
  <1>1. ASSUME NEW x \in Copies, x[1].resume, x[1].turn = c[1].turn, Pc(x) # "none" PROVE Goal
    <2>1. Admitted(c[1].turn)'
      BY <1>1, Excepted DEF ResumedAfter
    <2>2. ASSUME NEW d \in Copies, ~d[1].resume, d[1].turn = c[1].turn, Active(d)',
                 ~Exempt(c[1].turn)'
          PROVE  FALSE
      <3>1. ~Active(d)
        BY <1>1, <2>2, Excepted DEF ResumedAfter
      <3>2. New(d) /\ SentBy(d)
        BY <2>2, <3>1, ActiveBefore, Appears
      <3>3. ASSUME NEW t \in Turns, Begins(t), d = <<Original(t), 1>> PROVE FALSE
        BY <1>1, <2>2, <3>3, FirstDispatch, OriginalIs
      <3>4. ASSUME NEW e \in Events, Repeats(e), d = <<e, 2>> PROVE FALSE
        <4>1. d[1] = e /\ Pc(d)' = "waiting"
          BY <3>2, <3>4, EventsAre DEF SentBy
        <4>2. DeliveryId(e) \notin claims
          BY <2>2, <4>1, Grows DEF Active
        <4>3. <<e, 1>> \in Copies /\ <<e, 1>>[1] = e /\ Active(<<e, 1>>)
          BY <2>2, <3>4, <4>1, <4>2, RepeatedCopy, EventsAre
        <4>4. QED BY <1>1, <2>2, <4>1, <4>3, Excepted DEF ResumedAfter
      <3>5. ASSUME NEW b \in Copies, Parks(b), d[1] = [Original(b[1].turn) EXCEPT !.resume = TRUE]
            PROVE  FALSE
        BY <2>2, <3>5, OriginalIs, EventsAre
      <3>6. ASSUME NEW b \in Copies, Recovers(b, d[1]) PROVE FALSE
        <4>1. b[1].turn = c[1].turn /\ ~b[1].resume /\ Active(b)
          BY <2>2, <3>6, FollowsSame, EventsAre DEF Recovers, Active
        <4>2. QED BY <1>1, <2>2, <4>1, Excepted DEF ResumedAfter
      <3>7. QED BY <3>2, <3>3, <3>4, <3>5, <3>6 DEF SentBy
    <2>3. QED BY <2>1, <2>2
  <1>2. CASE Pc(c) # "none"
    BY <1>1, <1>2
  <1>3. CASE New(c)
    <2>1. SentBy(c)
      BY <1>3, Appears
    <2>2. ASSUME NEW t \in Turns, c = <<Original(t), 1>> PROVE FALSE
      BY <2>2, OriginalIs
    <2>3. ASSUME NEW e \in Events, Repeats(e), c = <<e, 2>> PROVE Goal
      <3>1. <<e, 1>> \in Copies /\ <<e, 1>>[1] = c[1] /\ Pc(<<e, 1>>) # "none"
        BY <2>3, EventsAre DEF Repeats
      <3>2. QED BY <3>1, <1>1
    <2>4. ASSUME NEW b \in Copies, Parks(b), c[1] = [Original(b[1].turn) EXCEPT !.resume = TRUE]
          PROVE  Goal
      <3>1. c[1].turn = b[1].turn /\ ~b[1].resume /\ Pc(b) = "answering"
        BY <2>4, OriginalIs, EventsAre DEF Parks
      <3>2. Admitted(c[1].turn)
        BY <3>1 DEF JobsShaped, DeliveryId, Admitted
      <3>3. Pc(b)' = "over"
        BY <2>4, EventsAre DEF Parks, Sends, Moved
      <3>4. ASSUME NEW d \in Copies, ~d[1].resume, d[1].turn = c[1].turn, Active(d)'
            PROVE  Exempt(c[1].turn)'
        <4>1. d # b
          BY <3>3, <3>4 DEF Active
        <4>2. ~New(d)
          BY <1>3, <3>4, OneNew
        <4>3. CASE Active(d)
          <5>1. d[1].resume = b[1].resume /\ Active(b)
            BY <3>1, <3>4, EventsAre DEF Active
          <5>2. ~Twins(d, b)
            BY <3>1 DEF Twins
          <5>3. QED BY <3>1, <3>4, <4>1, <4>3, <5>1, <5>2, Excepted DEF OneActive
        <4>4. QED BY <3>4, <4>2, <4>3, ActiveBefore
      <3>5. QED BY <3>2, <3>4, Excepted
    <2>5. ASSUME NEW b \in Copies, Recovers(b, c[1]) PROVE Goal
      <3>1. b[1].turn = c[1].turn /\ b[1].resume /\ Pc(b) # "none"
        BY <2>5, FollowsSame, EventsAre DEF Recovers
      <3>2. QED BY <3>1, <1>1
    <2>6. QED BY <2>1, <2>2, <2>3, <2>4, <2>5 DEF SentBy
  <1>4. QED BY <1>2, <1>3 DEF New

-----------------------------------------------------------------------------
(* Who speaks for a turn.                                                   *)

\* A run speaks that spoke before, was just admitted, or just took the parked answer.
LEMMA SpeakingBefore == TypeOK /\ JobsShaped /\ Step =>
    \A d \in Copies : Speaking(d)' => Speaking(d) \/ Admits(d) \/ Takes(d)
  <1> DEFINE Goal == \A d \in Copies : Speaking(d)' => Speaking(d) \/ Admits(d) \/ Takes(d)
  <1> SUFFICES ASSUME TypeOK, JobsShaped, Step PROVE Goal
    OBVIOUS
  <1>1. ASSUME NEW t \in Turns, Begins(t) PROVE Goal
    BY <1>1, EventsAre DEF Begins, Moved, OthersKept, Speaking
  <1>2. ASSUME NEW e \in Events, Repeats(e) PROVE Goal
    BY <1>2, EventsAre DEF Repeats, Moved, OthersKept, Speaking
  <1>3. ASSUME NEW c \in Copies, Breaks(c) PROVE Goal
    BY <1>3, EventsAre DEF Breaks, Moved, OthersKept, Speaking
  <1>4. ASSUME NEW c \in Copies, Admits(c) PROVE Goal
    <2>1. OthersKept(c)
      BY <1>4 DEF Admits, Moved
    <2>2. QED BY <1>4, <2>1 DEF OthersKept, Speaking
  <1>5. ASSUME NEW c \in Copies, Drops(c) PROVE Goal
    BY <1>5, EventsAre DEF Drops, Moved, OthersKept, Speaking
  <1>6. ASSUME NEW c \in Copies, Takes(c) PROVE Goal
    <2>1. OthersKept(c)
      BY <1>6 DEF Takes, Moved
    <2>2. QED BY <1>6, <2>1 DEF OthersKept, Speaking
  <1>7. ASSUME NEW c \in Copies, TakesLock(c) PROVE Goal
    BY <1>7, EventsAre DEF TakesLock, Moved, OthersKept, Speaking
  <1>8. ASSUME NEW c \in Copies, Speaks(c) PROVE Goal
    BY <1>8, EventsAre DEF Speaks, Speaking, Moved, OthersKept
  <1>9. ASSUME NEW c \in Copies, Parks(c) PROVE Goal
    <2>1. PICK f \in Events : f = [Original(c[1].turn) EXCEPT !.resume = TRUE]
      BY <1>9, EventsAre
    <2>2. f.turn = c[1].turn /\ f.resume /\ f.attempt = 1 /\ ~f.announce /\ c[1].turn \in Turns
      BY <2>1, EventsAre DEF Original
    <2>3. Sends(c, FALSE, f)
      BY <1>9, <2>1 DEF Parks
    <2>4. QED BY <1>9, <2>1, <2>2, <2>3, EventsAre DEF Sends, Moved, OthersKept, Parks, Speaking
  <1>10. ASSUME NEW c \in Copies, Settles(c) PROVE Goal
    BY <1>10, EventsAre DEF Settles, Moved, OthersKept, Speaking
  <1>11. ASSUME NEW c \in Copies, NEW f \in Events, Recovers(c, f) PROVE Goal
    BY <1>11, EventsAre DEF Recovers, Sends, Moved, OthersKept, Speaking
  <1>12. ASSUME NEW c \in Copies, GivesUp(c) PROVE Goal
    BY <1>12, EventsAre DEF GivesUp, Moved, OthersKept, Speaking
  <1>13. ASSUME Passes PROVE Goal
    BY <1>13, EventsAre DEF Passes, Speaking
  <1>14. ASSUME NEW c \in Copies, Misses(c) PROVE Goal
    BY <1>14, EventsAre DEF Misses, Moved, OthersKept, Speaking
  <1>15. QED
    BY <1>1, <1>2, <1>3, <1>4, <1>5, <1>6, <1>7, <1>8, <1>9, <1>10, <1>11, <1>12, <1>13,
       <1>14 DEF Step

\* The counts change when a run speaks, and an answer is parked by its run.
LEMMA Ledgers ==
    ASSUME TypeOK, Step, NEW t \in Turns
    PROVE  /\ \/ answered'[t] = answered[t] /\ told'[t] = told[t]
              \/ \E c \in Copies : Speaks(c) /\ c[1].turn = t
           /\ t \in parked' => t \in parked \/ \E c \in Copies : Parks(c) /\ c[1].turn = t
           /\ t \in parked => \/ t \in parked' \/ t \in untaken'
                              \/ \E c \in Copies : Takes(c) /\ c[1].turn = t
  <1>1. CASE \E c \in Copies : Speaks(c)
    <2>1. PICK c \in Copies : Speaks(c)
      BY <1>1
    <2>2. parked' = parked
      BY <2>1 DEF Speaks
    <2>3. c[1].turn # t => answered'[t] = answered[t] /\ told'[t] = told[t]
      BY <2>1, EventsAre, OnceTyped DEF Speaks, TypeOK
    <2>4. QED BY <2>1, <2>2, <2>3
  <1>2. CASE \E c \in Copies : Parks(c)
    <2>1. PICK c \in Copies : Parks(c)
      BY <1>2
    <2>2. parked = {} /\ parked' = {c[1].turn} /\ UNCHANGED <<answered, told>>
      BY <2>1 DEF Parks, SpeechKept
    <2>3. QED BY <2>1, <2>2
  <1>3. CASE \E c \in Copies : Takes(c)
    <2>1. PICK c \in Copies : Takes(c)
      BY <1>3
    <2>2. parked' = parked \ {c[1].turn} /\ UNCHANGED <<answered, told>>
      BY <2>1 DEF Takes, SpeechKept
    <2>3. QED BY <2>1, <2>2
  <1>4. CASE \E c \in Copies : Misses(c)
    <2>1. PICK c \in Copies : Misses(c)
      BY <1>4
    <2>2. /\ parked' \in {parked, parked \ {c[1].turn}} /\ c[1].turn \in untaken'
          /\ UNCHANGED <<answered, told>>
      BY <2>1 DEF Misses
    <2>3. QED BY <2>1, <2>2
  <1>5. CASE ~\E c \in Copies : Speaks(c) \/ Parks(c) \/ Takes(c) \/ Misses(c)
    <2>1. UNCHANGED <<answered, told, parked>>
      BY <1>5 DEF Step, Begins, Repeats, Breaks, Admits, Drops, TakesLock, Settles, GivesUp,
                  Recovers, Passes, SpeechKept
    <2>2. QED BY <2>1
  <1>6. QED BY <1>1, <1>2, <1>3, <1>4, <1>5

LEMMA SpeaksAdmittedKept ==
    TypeOK /\ JobsShaped /\ SpeaksAdmitted /\ Step => SpeaksAdmitted'
  <1> SUFFICES ASSUME TypeOK, JobsShaped, SpeaksAdmitted, Step,
                      NEW t \in Turns, ~Admitted(t)'
               PROVE  /\ answered'[t] = 0 /\ told'[t] = 0 /\ t \notin parked'
                      /\ \A c \in Copies : c[1].turn = t => ~Speaking(c)'
    BY DEF SpeaksAdmitted
  <1>1. /\ ~Admitted(t) /\ answered[t] = 0 /\ told[t] = 0 /\ t \notin parked
        /\ \A c \in Copies : c[1].turn = t => ~Speaking(c)
    BY Excepted DEF SpeaksAdmitted
  <1>2. answered'[t] = 0 /\ told'[t] = 0
    BY <1>1, Ledgers DEF Speaks
  <1>3. t \notin parked'
    <2>1. ASSUME NEW c \in Copies, Parks(c), c[1].turn = t PROVE FALSE
      BY <1>1, <2>1 DEF Parks, Speaking
    <2>2. QED BY <1>1, <2>1, Ledgers
  <1>4. ASSUME NEW c \in Copies, c[1].turn = t, Speaking(c)' PROVE FALSE
    <2>1. CASE Admits(c)
      BY <2>1, <1>4 DEF Admits, Admitted, DeliveryId
    <2>2. CASE Takes(c)
      BY <2>2, <1>4, <1>1 DEF Takes
    <2>3. QED BY <1>1, <1>4, <2>1, <2>2, SpeakingBefore
  <1>5. QED BY <1>2, <1>3, <1>4

LEMMA SpokenForKept ==
    ASSUME TypeOK, JobsShaped, OneAdmitted, SpeaksAdmitted, Step,
           NEW t \in Turns, SpokenFor(t), ~Exempt(t), ~Exempt(t)'
    PROVE  SpokenFor(t)'
  <1>0. answered[t] \in 0..2 /\ told[t] \in 0..2
    BY DEF TypeOK
  <1>1. ASSUME NEW c \in Copies, Admits(c), c[1].turn = t PROVE SpokenFor(t)'
    <2>1. Unheard(c)
      BY <1>1, FailedThoughAfter DEF Admits, Unheard
    <2>2. /\ answered[t] = 0 /\ told[t] = 0 /\ t \notin parked
          /\ \A d \in Copies : d[1].turn = t => ~Speaking(d)
      BY <1>1, <2>1 DEF OneAdmitted, SpeaksAdmitted
    <2>3. OthersKept(c) /\ UNCHANGED <<answered, told, parked>>
      BY <1>1 DEF Admits, Moved, SpeechKept
    <2>4. \A d \in Copies : d # c /\ d[1].turn = t => ~Speaking(d)'
      BY <2>2, <2>3 DEF OthersKept, Speaking
    <2>5. QED BY <2>2, <2>3, <2>4 DEF SpokenFor
  <1>2. ASSUME NEW c \in Copies, Takes(c), c[1].turn = t PROVE SpokenFor(t)'
    <2>1. /\ answered[t] + told[t] <= 1 /\ answered[t] + told[t] # 1
          /\ \A d \in Copies : d[1].turn = t => ~Speaking(d)
      BY <1>2 DEF Takes, SpokenFor
    <2>2. OthersKept(c) /\ UNCHANGED <<answered, told>> /\ t \notin parked'
      BY <1>2 DEF Takes, Moved, SpeechKept
    <2>3. \A d \in Copies : d # c /\ d[1].turn = t => ~Speaking(d)'
      BY <2>1, <2>2 DEF OthersKept, Speaking
    <2>4. QED BY <2>1, <2>2, <2>3 DEF SpokenFor
  <1>3. ASSUME NEW c \in Copies, Speaks(c), c[1].turn = t PROVE SpokenFor(t)'
    <2>1. answered[t] + told[t] = 0 /\ t \notin parked
      BY <1>0, <1>3 DEF Speaks, SpokenFor
    <2>2. answered'[t] + told'[t] = 1
      <3>1. answered[t] = 0 /\ told[t] = 0
        BY <1>0, <2>1
      <3>2. Once(answered, t)[t] = 1 /\ Once(told, t)[t] = 1
        BY <3>1 DEF Once, TypeOK
      <3>3. CASE answered' = Once(answered, t) /\ UNCHANGED told
        <4>1. answered'[t] = 1
          BY <3>3, <3>2
        <4>2. QED BY <3>1, <3>3, <4>1
      <3>4. CASE told' = Once(told, t) /\ UNCHANGED answered
        <4>1. told'[t] = 1
          BY <3>4, <3>2
        <4>2. QED BY <3>1, <3>4, <4>1
      <3>5. QED BY <1>3, <3>3, <3>4 DEF Speaks
    <2>3. \A d \in Copies : d[1].turn = t => ~Speaking(d)'
      BY <1>3 DEF Speaks, SpokenFor, Moved, OthersKept, Speaking
    <2>4. parked' = parked
      BY <1>3 DEF Speaks
    <2>5. QED BY <2>1, <2>2, <2>3, <2>4 DEF SpokenFor
  <1>4. ASSUME NEW c \in Copies, Parks(c), c[1].turn = t PROVE SpokenFor(t)'
    <2>1. Speaking(c) /\ UNCHANGED <<answered, told>>
      BY <1>4 DEF Parks, Speaking, SpeechKept
    <2>2. answered[t] + told[t] <= 1 /\ answered[t] + told[t] # 1
      BY <1>4, <2>1 DEF SpokenFor
    <2>3. Pc(c)' = "over"
      BY <1>4, EventsAre DEF Parks, Sends, Moved
    <2>4. ASSUME NEW d \in Copies, d[1].turn = t, Speaking(d)' PROVE FALSE
      <3>1. d # c
        BY <2>3, <2>4 DEF Speaking
      <3>2. Speaking(d)
        <4>1. ~Admits(d) /\ ~Takes(d)
          BY <1>4, <2>3, <2>4, <3>1, EventsAre
             DEF Parks, Admits, Takes, Moved, OthersKept
        <4>2. QED BY <2>4, <4>1, SpeakingBefore
      <3>3. QED BY <1>4, <2>1, <2>4, <3>1, <3>2 DEF SpokenFor
    <2>5. QED BY <2>1, <2>2, <2>4 DEF SpokenFor
  <1>5. CASE ~\E c \in Copies :
                c[1].turn = t /\ (Admits(c) \/ Takes(c) \/ Speaks(c) \/ Parks(c))
    <2>1. answered'[t] = answered[t] /\ told'[t] = told[t] /\ (t \in parked' => t \in parked)
      BY <1>5, Ledgers
    <2>2. \A d \in Copies : d[1].turn = t /\ Speaking(d)' => Speaking(d)
      BY <1>5, SpeakingBefore
    <2>3. QED BY <2>1, <2>2 DEF SpokenFor
  <1>6. QED BY <1>1, <1>2, <1>3, <1>4, <1>5

LEMMA OneSpeaksKept ==
    TypeOK /\ JobsShaped /\ OneAdmitted /\ SpeaksAdmitted /\ OneSpeaks /\ Step => OneSpeaks'
  BY SpokenForKept, Excepted DEF OneSpeaks

-----------------------------------------------------------------------------
(* Who holds the conversation.                                              *)

LEMMA OnlyActive ==
    ASSUME OneActive, ResumedAfter, NEW b \in Copies, NEW c \in Copies, Active(b), Active(c),
           Pc(b) # "waiting", b[1].turn = c[1].turn, ~Exempt(c[1].turn), ~ResumedTwice(c[1].turn)
    PROVE  b = c
  <1>1. CASE b[1].resume = c[1].resume
    BY <1>1 DEF OneActive, Twins
  <1>2. CASE b[1].resume # c[1].resume
    <2>1. Pc(b) # "none" /\ Pc(c) # "none"
      BY DEF Active
    <2>2. (b[1].resume /\ ~c[1].resume) \/ (c[1].resume /\ ~b[1].resume)
      BY <1>2, EventsAre
    <2>3. QED BY <2>1, <2>2 DEF ResumedAfter
  <1>3. QED BY <1>1, <1>2

LEMMA HeldKept ==
    TypeOK /\ JobsShaped /\ OneActive /\ ResumedAfter /\ Held /\ Step => Held'
  <1> SUFFICES ASSUME TypeOK, JobsShaped, OneActive, ResumedAfter, Held, Step,
                      NEW c \in Copies, Active(c)',
                      ~Exempt(c[1].turn)', ~ResumedTwice(c[1].turn)'
               PROVE  holder' = c[1].turn \/ c[1].turn \in overtaken'
    BY DEF Held
  <1>1. /\ ~Exempt(c[1].turn) /\ ~ResumedTwice(c[1].turn)
        /\ c[1].turn \in Turns /\ c[1].turn # NoOne
    BY Excepted, EventsAre, RecoveryAssumption
  <1>2. CASE Active(c)
    <2>1. holder = c[1].turn \/ c[1].turn \in overtaken
      BY <1>1, <1>2 DEF Held
    <2>2. ASSUME NEW b \in Copies, Settles(b) \/ GivesUp(b), b[1].turn = c[1].turn PROVE FALSE
      <3>1. Active(b) /\ Pc(b) # "waiting" /\ Pc(b)' = "over"
        BY <2>2 DEF Settles, GivesUp, Moved, Active
      <3>2. b = c
        BY <1>1, <1>2, <2>2, <3>1, OnlyActive
      <3>3. QED BY <3>1, <3>2 DEF Active
    <2>3. CASE \E b \in Copies : Settles(b) \/ GivesUp(b)
      <3>1. PICK b \in Copies : Settles(b) \/ GivesUp(b)
        BY <2>3
      <3>2. b[1].turn # c[1].turn
        BY <2>2, <3>1
      <3>3. overtaken' = overtaken /\ (holder = c[1].turn => holder' = holder)
        BY <3>1, <3>2 DEF Settles, GivesUp, Released
      <3>4. QED BY <2>1, <3>3
    <2>4. CASE \E t \in Turns : Begins(t)
      <3>1. PICK t \in Turns : Begins(t)
        BY <2>4
      <3>2. overtaken' = overtaken \cup ({holder} \ {NoOne})
        BY <3>1 DEF Begins
      <3>3. QED BY <1>1, <2>1, <3>2
    <2>5. CASE ~(\E b \in Copies : Settles(b) \/ GivesUp(b)) /\ ~\E t \in Turns : Begins(t)
      <3>1. HoldKept
        BY <2>5 DEF Step, Repeats, Breaks, Admits, Drops, Takes, TakesLock, Misses, Speaks, Parks,
                    Recovers, Passes
      <3>2. QED BY <2>1, <3>1 DEF HoldKept
    <2>6. QED BY <2>3, <2>4, <2>5
  <1>3. CASE New(c)
    <2>1. SentBy(c)
      BY <1>3, Appears
    <2>2. ASSUME NEW t \in Turns, Begins(t), c = <<Original(t), 1>> PROVE holder' = c[1].turn
      BY <2>2, OriginalIs DEF Begins
    <2>3. ASSUME NEW e \in Events, Repeats(e), c = <<e, 2>>
          PROVE  holder' = c[1].turn \/ c[1].turn \in overtaken'
      <3>1. c[1] = e /\ Pc(c)' = "waiting" /\ <<e, 1>> \in Copies /\ <<e, 1>>[1] = e
        BY <2>1, <2>3, EventsAre DEF SentBy
      <3>2. ~e.resume /\ DeliveryId(e) \notin claims
        BY <2>3, <3>1, RepeatedCopy, Grows DEF Active
      <3>3. Active(<<e, 1>>) /\ HoldKept
        BY <2>3, <3>1, <3>2, RepeatedCopy DEF Repeats
      <3>4. QED BY <1>1, <3>1, <3>3 DEF Held, HoldKept
    <2>4. ASSUME NEW b \in Copies, Parks(b), c[1] = [Original(b[1].turn) EXCEPT !.resume = TRUE]
          PROVE  holder' = c[1].turn
      BY <2>4, OriginalIs, EventsAre DEF Parks, HoldKept
    <2>5. ASSUME NEW b \in Copies, Recovers(b, c[1])
          PROVE  holder' = c[1].turn \/ c[1].turn \in overtaken'
      <3>1. c[1].turn = b[1].turn /\ Active(b) /\ HoldKept
        BY <2>5, FollowsSame, EventsAre DEF Recovers, Active
      <3>2. QED BY <1>1, <3>1 DEF Held, HoldKept
    <2>6. QED BY <2>1, <2>2, <2>3, <2>4, <2>5 DEF SentBy
  <1>4. QED BY <1>2, <1>3, ActiveBefore

-----------------------------------------------------------------------------
(* Something is to come, until a turn is settled.                           *)

\* A run goes on speaking, has spoken, is broken off, or parks its answer.
LEMMA SpeakingAfter == TypeOK /\ JobsShaped /\ Step =>
    \A d \in Copies : Speaking(d) => Speaking(d)' \/ Speaks(d) \/ Parks(d) \/ Breaks(d)
  <1> DEFINE Goal == \A d \in Copies : Speaking(d) => Speaking(d)' \/ Speaks(d) \/ Parks(d) \/ Breaks(d)
  <1> SUFFICES ASSUME TypeOK, JobsShaped, Step PROVE Goal
    OBVIOUS
  <1>1. ASSUME NEW t \in Turns, Begins(t) PROVE Goal
    BY <1>1, EventsAre DEF Begins, Moved, OthersKept, Speaking
  <1>2. ASSUME NEW e \in Events, Repeats(e) PROVE Goal
    BY <1>2, EventsAre DEF Repeats, Moved, OthersKept, Speaking
  <1>3. ASSUME NEW c \in Copies, Breaks(c) PROVE Goal
    <2>1. OthersKept(c)
      BY <1>3 DEF Breaks, Moved
    <2>2. QED BY <1>3, <2>1 DEF OthersKept, Speaking
  <1>4. ASSUME NEW c \in Copies, Admits(c) PROVE Goal
    BY <1>4, EventsAre DEF Admits, Moved, OthersKept, Speaking
  <1>5. ASSUME NEW c \in Copies, Drops(c) PROVE Goal
    BY <1>5, EventsAre DEF Drops, Moved, OthersKept, Speaking
  <1>6. ASSUME NEW c \in Copies, Takes(c) PROVE Goal
    BY <1>6, EventsAre DEF Takes, Moved, OthersKept, Speaking
  <1>7. ASSUME NEW c \in Copies, TakesLock(c) PROVE Goal
    BY <1>7, EventsAre DEF TakesLock, Moved, OthersKept, Speaking
  <1>8. ASSUME NEW c \in Copies, Speaks(c) PROVE Goal
    <2>1. OthersKept(c)
      BY <1>8 DEF Speaks, Moved
    <2>2. QED BY <1>8, <2>1 DEF OthersKept, Speaking
  <1>9. ASSUME NEW c \in Copies, Parks(c) PROVE Goal
    <2>1. PICK f \in Events : f = [Original(c[1].turn) EXCEPT !.resume = TRUE]
      BY <1>9, EventsAre
    <2>2. f.turn = c[1].turn /\ f.resume /\ f.attempt = 1 /\ ~f.announce /\ c[1].turn \in Turns
      BY <2>1, EventsAre DEF Original
    <2>3. Sends(c, FALSE, f)
      BY <1>9, <2>1 DEF Parks
    <2>4. \A d \in Copies : d # c /\ Pc(d) # "none" => Pc(d)' = Pc(d)
      BY <1>9, <2>1, <2>3, EventsAre DEF Sends, Moved, OthersKept
    <2>5. QED BY <1>9, <2>4 DEF Speaking
  <1>10. ASSUME NEW c \in Copies, Settles(c) PROVE Goal
    BY <1>10, EventsAre DEF Settles, Moved, OthersKept, Speaking
  <1>11. ASSUME NEW c \in Copies, NEW f \in Events, Recovers(c, f) PROVE Goal
    BY <1>11, EventsAre DEF Recovers, Sends, Moved, OthersKept, Speaking
  <1>12. ASSUME NEW c \in Copies, GivesUp(c) PROVE Goal
    BY <1>12, EventsAre DEF GivesUp, Moved, OthersKept, Speaking
  <1>13. ASSUME Passes PROVE Goal
    BY <1>13, EventsAre DEF Passes, Speaking
  <1>14. ASSUME NEW c \in Copies, Misses(c) PROVE Goal
    BY <1>14, EventsAre DEF Misses, Moved, OthersKept, Speaking
  <1>15. QED
    BY <1>1, <1>2, <1>3, <1>4, <1>5, <1>6, <1>7, <1>8, <1>9, <1>10, <1>11, <1>12, <1>13,
       <1>14 DEF Step

\* A turn becomes admitted by a delivery of its own.
LEMMA AdmittedBy ==
    ASSUME Step, NEW t \in Turns, ~Admitted(t), Admitted(t)'
    PROVE  \E b \in Copies : Admits(b) /\ b[1].turn = t
  <1>1. PICK b \in Copies : Admits(b)
    BY DEF Step, Begins, Repeats, Breaks, Drops, Takes, TakesLock, Misses, Speaks, Parks,
           Settles, GivesUp, Recovers, Passes, Admitted
  <1>2. b[1].turn = t
    BY <1>1 DEF Admits, Admitted, DeliveryId
  <1>3. QED BY <1>1, <1>2

\* What is settled stays so, and these steps settle a turn.
LEMMA SettledBy ==
    ASSUME TypeOK, Step, NEW t \in Turns
    PROVE  /\ Settled(t) => Settled(t)'
           /\ \A b \in Copies :
                 /\ b[1].turn = t
                 /\ Speaks(b) \/ GivesUp(b) \/ Misses(b) \/ (Breaks(b) /\ Speaking(b))
                 => Settled(t)'
  <1>1. ASSUME NEW b \in Copies, Speaks(b), b[1].turn = t PROVE answered'[t] + told'[t] > 0
    <2>1. answered[t] \in 0..2 /\ told[t] \in 0..2
      BY DEF TypeOK
    <2>2. CASE answered' = Once(answered, t) /\ UNCHANGED told
      <3>1. answered' \in [Turns -> 0..2] /\ answered'[t] > 0
        BY <2>2, OnceTyped DEF TypeOK
      <3>2. QED BY <2>1, <2>2, <3>1
    <2>3. CASE told' = Once(told, t) /\ UNCHANGED answered
      <3>1. told' \in [Turns -> 0..2] /\ told'[t] > 0
        BY <2>3, OnceTyped DEF TypeOK
      <3>2. QED BY <2>1, <2>3, <3>1
    <2>4. QED BY <1>1, <2>2, <2>3 DEF Speaks
  <1>2. gaveUp \subseteq gaveUp' /\ lost \subseteq lost' /\ untaken \subseteq untaken'
    BY DEF Step, Begins, Repeats, Breaks, Admits, Drops, Takes, TakesLock, Misses, Speaks, Parks,
           Settles, GivesUp, Recovers, Passes, SpeechKept
  <1>3. answered[t] + told[t] > 0 => answered'[t] + told'[t] > 0
    BY <1>1, Ledgers
  <1>4. ASSUME NEW b \in Copies, b[1].turn = t, Breaks(b), Speaking(b) PROVE Settled(t)'
    <2>1. <<t, b[1].resume>> \in lost'
      BY <1>4 DEF Breaks, Speaking
    <2>2. b[1].resume \in BOOLEAN
      BY EventsAre
    <2>3. QED BY <2>1, <2>2 DEF Settled
  <1>5. ASSUME NEW b \in Copies, b[1].turn = t, GivesUp(b) PROVE t \in gaveUp'
    BY <1>5 DEF GivesUp
  <1>6. ASSUME NEW b \in Copies, b[1].turn = t, Misses(b) PROVE t \in untaken'
    BY <1>6 DEF Misses
  <1>7. QED BY <1>1, <1>2, <1>3, <1>4, <1>5, <1>6 DEF Settled

LEMMA Order ==
    /\ \A e \in Events : NotBefore(e, e)
    /\ \A e, g, h \in Events : NotBefore(h, g) /\ NotBefore(g, e) => NotBefore(h, e)
    /\ \A e, g \in Events : Follows(g, e) => NotBefore(g, e) /\ ~NotBefore(e, g)
  <1>1. \A e \in Events : e.attempt \in Nat /\ e.announce \in BOOLEAN
    BY EventsAre
  <1>2. \A e \in Events : NotBefore(e, e)
    BY <1>1 DEF NotBefore
  <1>3. \A e, g, h \in Events : NotBefore(h, g) /\ NotBefore(g, e) => NotBefore(h, e)
    BY <1>1 DEF NotBefore
  <1>4. \A e, g \in Events : Follows(g, e) =>
           /\ ~e.announce /\ g.turn = e.turn /\ g.resume = e.resume
           /\ g.announce \/ (g.attempt = e.attempt + 1)
    BY DEF Follows, Events
  <1>5. \A e, g \in Events : Follows(g, e) => NotBefore(g, e) /\ ~NotBefore(e, g)
    BY <1>1, <1>4 DEF NotBefore
  <1>6. QED BY <1>2, <1>3, <1>5

\* Of every event something is to come, until a delivery is begun, is not admitted, or is
\* given up.
LEMMA AllComeKept ==
    ASSUME TypeOK, JobsShaped, Step, NEW t \in Turns, NEW r \in BOOLEAN, AllCome(t, r),
           \A b \in Copies : b[1].turn = t /\ b[1].resume = r =>
              ~Admits(b) /\ ~Drops(b) /\ ~Takes(b) /\ ~TakesLock(b) /\ ~Misses(b) /\ ~GivesUp(b)
    PROVE  AllCome(t, r)'
  <1> SUFFICES ASSUME NEW e \in Events, e.turn = t, e.resume = r, Invoked(e)'
               PROVE  \E d \in Copies : NotBefore(d[1], e) /\ Pc(d)' \in {"waiting", "failed"}
    BY DEF AllCome, ComesOf
  <1>1. CASE ~Invoked(e)
    <2>1. New(<<e, 1>>) /\ <<e, 1>> \in Copies /\ <<e, 1>>[1] = e
      BY <1>1, EventsAre DEF Invoked, New
    <2>2. Pc(<<e, 1>>)' = "waiting"
      BY <2>1, Appears DEF SentBy
    <2>3. QED BY <2>1, <2>2, Order
  <1>2. CASE Invoked(e)
    <2>1. PICK d \in Copies : NotBefore(d[1], e) /\ Pc(d) \in {"waiting", "failed"}
      BY <1>2 DEF AllCome, ComesOf
    <2>2. d[1] \in Events /\ d[1].turn = t /\ d[1].resume = r
      BY <2>1, EventsAre DEF NotBefore
    <2>3. Pc(d)' \in {"waiting", "failed"} \/ \E g \in Events : Recovers(d, g)
      BY <2>1, <2>2, WaitingAfter DEF GoesOn
    <2>4. ASSUME NEW f \in Events, Recovers(d, f)
          PROVE  \E g \in Copies : NotBefore(g[1], e) /\ Pc(g)' \in {"waiting", "failed"}
      <3>1. /\ NotBefore(f, d[1]) /\ ~NotBefore(d[1], f) /\ NotBefore(f, e)
            /\ f.turn = t /\ f.resume = r
        BY <2>1, <2>2, <2>4, Order, FollowsSame DEF Recovers
      <3>2. Sends(d, TRUE, f)
        BY <2>4 DEF Recovers
      <3>3. CASE Invoked(f)
        <4>1. PICK g \in Copies : NotBefore(g[1], f) /\ Pc(g) \in {"waiting", "failed"}
          BY <3>1, <3>3 DEF AllCome, ComesOf
        <4>2. g # d /\ g[1] \in Events
          BY <3>1, <4>1, EventsAre
        <4>3. Pc(g)' = Pc(g)
          BY <3>2, <4>1, <4>2, EventsAre DEF Sends, Moved, OthersKept
        <4>4. NotBefore(g[1], e)
          BY <3>1, <4>1, <4>2, Order
        <4>5. QED BY <4>1, <4>3, <4>4
      <3>4. CASE ~Invoked(f)
        <4>1. Pc(<<f, 1>>)' = "waiting"
          BY <3>2, <3>4 DEF Sends, Invoked
        <4>2. <<f, 1>> \in Copies /\ <<f, 1>>[1] = f
          BY EventsAre
        <4>3. QED BY <3>1, <4>1, <4>2
      <3>5. QED BY <3>3, <3>4
    <2>5. QED BY <2>1, <2>3, <2>4
  <1>3. QED BY <1>1, <1>2


LEMMA AwaitedKept ==
    TypeOK /\ JobsShaped /\ Awaited /\ Step => Awaited'
  <1> SUFFICES ASSUME TypeOK, JobsShaped, Awaited, Step, NEW t \in Turns, ~Settled(t)'
               PROVE  AwaitedOf(t)'
    BY DEF Awaited
  <1>0. t \notin untaken'
    BY DEF Settled
  <1>1. /\ ~Settled(t) /\ AwaitedOf(t)
        /\ \A b \in Copies : b[1].turn = t =>
              ~Speaks(b) /\ ~GivesUp(b) /\ ~Misses(b) /\ ~(Breaks(b) /\ Speaking(b))
    BY SettledBy DEF Awaited
  <1>2. ~Admitted(t)' => AllCome(t, FALSE)'
    <2> SUFFICES ASSUME ~Admitted(t)' PROVE AllCome(t, FALSE)'
      OBVIOUS
    <2>1. ~Admitted(t) /\ AllCome(t, FALSE)
      BY <1>1, Excepted DEF AwaitedOf
    <2>2. ASSUME NEW b \in Copies, b[1].turn = t, b[1].resume = FALSE
          PROVE  ~Admits(b) /\ ~Drops(b) /\ ~Takes(b) /\ ~TakesLock(b) /\ ~Misses(b)
      <3>1. DeliveryId(b[1]) \notin claims' /\ DeliveryId(b[1]) \notin claims
            /\ b[1].turn \notin unclaimed'
        BY <2>1, <2>2 DEF Admitted, DeliveryId
      <3>2. ~Admits(b) /\ ~Takes(b) /\ ~TakesLock(b)
        BY <2>2, <3>1 DEF Admits, Takes, TakesLock
      <3>3. ~Drops(b)
        BY <2>2, <3>1 DEF Drops
      <3>4. QED BY <1>1, <2>2, <3>2, <3>3
    <2>3. QED BY <1>1, <2>1, <2>2, AllComeKept
  <1>3. Admitted(t)' /\ t \notin parked' => \E c \in Copies : c[1].turn = t /\ Speaking(c)'
    <2> SUFFICES ASSUME Admitted(t)', t \notin parked'
                 PROVE  \E c \in Copies : c[1].turn = t /\ Speaking(c)'
      OBVIOUS
    <2>1. CASE ~Admitted(t)
      <3>1. PICK b \in Copies : Admits(b) /\ b[1].turn = t
        BY <2>1, AdmittedBy
      <3>2. QED BY <3>1 DEF Admits, Moved, Speaking
    <2>2. CASE t \in parked
      <3>1. PICK b \in Copies : Takes(b) /\ b[1].turn = t
        BY <1>0, <2>2, Ledgers
      <3>2. QED BY <3>1 DEF Takes, Moved, Speaking
    <2>3. CASE Admitted(t) /\ t \notin parked
      <3>1. PICK c \in Copies : c[1].turn = t /\ Speaking(c)
        BY <1>1, <2>3 DEF AwaitedOf
      <3>2. ~Parks(c)
        BY <3>1 DEF Parks
      <3>3. QED BY <1>1, <3>1, <3>2, SpeakingAfter
    <2>4. QED BY <2>1, <2>2, <2>3
  <1>4. \/ \E c \in Copies : Resumes(c, t) /\ Speaking(c)'
        \/ IF t \in parked' THEN AllCome(t, TRUE)'
           ELSE \A c \in Copies : Resumes(c, t) => Pc(c)' = "none"
    <2>1. CASE \E c \in Copies : Resumes(c, t) /\ Speaking(c)
      <3>1. PICK c \in Copies : Resumes(c, t) /\ Speaking(c)
        BY <2>1
      <3>2. ~Parks(c)
        BY <3>1 DEF Parks, Resumes
      <3>3. Speaking(c)'
        BY <1>1, <3>1, <3>2, SpeakingAfter DEF Resumes
      <3>4. QED BY <3>1, <3>3
    <2>2. CASE t \in parked /\ AllCome(t, TRUE)
      <3>1. CASE t \notin parked'
        <4>1. PICK b \in Copies : Takes(b) /\ b[1].turn = t
          BY <1>0, <2>2, <3>1, Ledgers
        <4>2. Resumes(b, t) /\ Speaking(b)'
          BY <4>1 DEF Takes, Moved, Speaking, Resumes
        <4>3. QED BY <4>2
      <3>2. CASE t \in parked'
        <4>1. ASSUME NEW b \in Copies, b[1].turn = t, b[1].resume = TRUE
              PROVE  ~Admits(b) /\ ~Drops(b) /\ ~Takes(b) /\ ~TakesLock(b) /\ ~Misses(b)
          BY <1>1, <2>2, <3>2, <4>1 DEF Admits, Drops, Takes, TakesLock
        <4>2. AllCome(t, TRUE)'
          BY <1>1, <2>2, <4>1, AllComeKept
        <4>3. QED BY <3>2, <4>2
      <3>3. QED BY <3>1, <3>2
    <2>3. CASE t \notin parked /\ \A c \in Copies : Resumes(c, t) => Pc(c) = "none"
      <3>1. CASE t \in parked'
        <4>1. ASSUME NEW e \in Events, e.turn = t, e.resume = TRUE, Invoked(e)'
              PROVE  \E d \in Copies : NotBefore(d[1], e) /\ Pc(d)' \in {"waiting", "failed"}
          <5>1. <<e, 1>> \in Copies /\ <<e, 1>>[1] = e
            BY EventsAre
          <5>2. New(<<e, 1>>)
            BY <2>3, <4>1, <5>1 DEF Resumes, Invoked, New
          <5>3. Pc(<<e, 1>>)' = "waiting"
            BY <5>1, <5>2, Appears DEF SentBy
          <5>4. QED BY <5>1, <5>3, Order
        <4>2. AllCome(t, TRUE)'
          BY <4>1 DEF AllCome, ComesOf
        <4>3. QED BY <3>1, <4>2
      <3>2. CASE t \notin parked'
        <4>1. ASSUME NEW c \in Copies, Resumes(c, t), Pc(c)' # "none" PROVE FALSE
          <5>1. New(c) /\ SentBy(c)
            BY <2>3, <4>1, Appears DEF New
          <5>2. ASSUME NEW u \in Turns, c = <<Original(u), 1>> PROVE FALSE
            BY <4>1, <5>2, OriginalIs DEF Resumes
          <5>3. ASSUME NEW e \in Events, Repeats(e), c = <<e, 2>> PROVE FALSE
            <6>1. <<e, 1>> \in Copies /\ <<e, 1>>[1] = c[1] /\ Pc(<<e, 1>>) # "none"
              BY <5>3, EventsAre DEF Repeats
            <6>2. QED BY <2>3, <4>1, <6>1 DEF Resumes
          <5>4. ASSUME NEW b \in Copies, Parks(b),
                       c[1] = [Original(b[1].turn) EXCEPT !.resume = TRUE]
                PROVE  FALSE
            <6>1. b[1].turn = t
              BY <4>1, <5>4, OriginalIs, EventsAre DEF Resumes
            <6>2. QED BY <3>2, <5>4, <6>1 DEF Parks
          <5>5. ASSUME NEW b \in Copies, Recovers(b, c[1]) PROVE FALSE
            <6>1. Resumes(b, t) /\ Pc(b) = "failed"
              BY <4>1, <5>5, FollowsSame, EventsAre DEF Recovers, Resumes
            <6>2. QED BY <2>3, <6>1
          <5>6. QED BY <5>1, <5>2, <5>3, <5>4, <5>5 DEF SentBy
        <4>2. QED BY <3>2, <4>1
      <3>3. QED BY <3>1, <3>2
    <2>4. QED BY <1>1, <2>1, <2>2, <2>3 DEF AwaitedOf
  <1>5. QED BY <1>2, <1>3, <1>4 DEF AwaitedOf, Resumes

LEMMA ParkedTurns == TypeOK /\ Step => parked' \subseteq Turns
  <1> SUFFICES ASSUME TypeOK, Step PROVE parked' \subseteq Turns
    OBVIOUS
  <1>1. CASE \E c \in Copies : Parks(c)
    BY <1>1, EventsAre DEF Parks
  <1>2. CASE ~\E c \in Copies : Parks(c)
    <2>1. parked' \subseteq parked
      BY <1>2 DEF Step, Begins, Repeats, Breaks, Admits, Drops, Takes, TakesLock, Misses, Speaks,
                  Settles, GivesUp, Recovers, Passes
    <2>2. QED BY <2>1 DEF TypeOK
  <1>3. QED BY <1>1, <1>2

LEMMA ParkedSentKept ==
    TypeOK /\ JobsShaped /\ ParkedSent /\ Step => ParkedSent'
  <1> SUFFICES ASSUME TypeOK, JobsShaped, ParkedSent, Step, NEW t \in parked'
               PROVE  Invoked([Original(t) EXCEPT !.resume = TRUE])'
    BY DEF ParkedSent
  <1>1. t \in Turns
    BY ParkedTurns
  <1>2. PICK f \in Events : f = [Original(t) EXCEPT !.resume = TRUE]
    BY <1>1, EventsAre
  <1>3. <<f, 1>> \in Copies
    BY EventsAre
  <1>4. CASE t \in parked
    <2>1. Pc(<<f, 1>>) # "none"
      BY <1>2, <1>4 DEF ParkedSent, Invoked
    <2>2. QED BY <1>2, <1>3, <2>1, Grows DEF Invoked
  <1>5. CASE t \notin parked
    <2>1. PICK c \in Copies : Parks(c) /\ c[1].turn = t
      BY <1>1, <1>5, Ledgers
    <2>2. Sends(c, FALSE, f)
      BY <1>2, <2>1 DEF Parks
    <2>3. Pc(<<f, 1>>)' = "waiting" \/ Pc(<<f, 1>>) # "none"
      BY <2>2 DEF Sends
    <2>4. QED BY <1>2, <1>3, <2>3, Grows DEF Invoked
  <1>6. QED BY <1>4, <1>5

-----------------------------------------------------------------------------
(* The theorems.                                                            *)

LEMMA InitSatisfies == Init => IInv
  <1> SUFFICES ASSUME Init PROVE IInv
    OBVIOUS
  <1>1. \A c \in Copies : Pc(c) = "none" /\ ~Spent(c)
    BY RecoveryAssumption DEF Init, NoJob, Pc, Spent
  <1>2. claims = {} /\ unclaimed = {} /\ parked = {} /\ answered = [t \in Turns |-> 0] /\ told = [t \in Turns |-> 0]
    BY DEF Init
  <1>3. TypeOK
    <2>1. JobsTyped
      BY NewJobs DEF Init, JobsTyped
    <2>2. RestTyped
      BY RecoveryAssumption DEF Init, RestTyped
    <2>3. QED BY <2>1, <2>2, TypesAre
  <1>4. \A t : ~Admitted(t)
    BY <1>2 DEF Admitted
  <1>5. JobsShaped /\ Started
    BY <1>1, <1>4, EventsAre DEF JobsShaped, Started, Twice
  <1>6. OneActive /\ OneAdmitted /\ ResumedAfter /\ Held
    BY <1>1 DEF OneActive, OneAdmitted, ResumedAfter, Held, Active, Unheard
  <1>7. \A c \in Copies : ~Speaking(c)
    BY <1>1 DEF Speaking
  <1>8. SpeaksAdmitted
    BY <1>2, <1>7 DEF SpeaksAdmitted
  <1>9. OneSpeaks
    BY <1>2, <1>7 DEF OneSpeaks, SpokenFor
  <1>10. Awaited
    <2>1. ASSUME NEW t \in Turns PROVE AwaitedOf(t)
      <3>1. AllCome(t, FALSE)
        BY <1>1, EventsAre DEF AllCome, Invoked
      <3>2. QED BY <1>1, <1>2, <1>4, <3>1 DEF AwaitedOf
    <2>2. QED BY <2>1 DEF Awaited
  <1>11. ParkedSent
    BY <1>2 DEF ParkedSent
  <1>12. QED BY <1>3, <1>5, <1>6, <1>8, <1>9, <1>10, <1>11 DEF IInv

LEMMA NextKeeps == IInv /\ [Next]_vars => IInv'
  <1> SUFFICES ASSUME IInv, [Next]_vars PROVE IInv'
    OBVIOUS
  <1>1. /\ TypeOK /\ JobsShaped /\ Started /\ OneActive /\ OneAdmitted /\ ResumedAfter
        /\ SpeaksAdmitted /\ OneSpeaks /\ Held /\ Awaited /\ ParkedSent
    BY DEF IInv
  <1>2. TypeOK' /\ Step
    BY <1>1, StepIs
  <1>3. JobsShaped' /\ Started'
    BY <1>1, <1>2, JobsShapedKept, StartedKept
  <1>4. OneActive' /\ OneAdmitted' /\ ResumedAfter'
    BY <1>1, <1>2, OneActiveKept, OneAdmittedKept, ResumedAfterKept
  <1>5. SpeaksAdmitted' /\ OneSpeaks'
    BY <1>1, <1>2, SpeaksAdmittedKept, OneSpeaksKept
  <1>6. Held'
    BY <1>1, <1>2, HeldKept
  <1>7. Awaited' /\ ParkedSent'
    BY <1>1, <1>2, AwaitedKept, ParkedSentKept
  <1>8. QED BY <1>2, <1>3, <1>4, <1>5, <1>6, <1>7 DEF IInv

\* The inductive invariant holds of every reachable state.
THEOREM IInvHolds == Spec => []IInv
  BY InitSatisfies, NextKeeps, PTL DEF Spec

\* The variables have their types: the counters stay in their bounds, a try is never beyond
\* the last, and everything written down names turns and events of the conversation.
THEOREM TypeCorrect == Spec => []TypeOK
  <1>1. IInv => TypeOK
    BY DEF IInv
  <1>2. QED BY <1>1, IInvHolds, PTL

\* A turn is answered or its sender told, never both and never twice, when runs fail, when
\* they are tried or dispatched again and when events are delivered twice (claimCorrelation,
\* deliveryCorrelationId), except where an event is reported failed that was delivered and
\* where a delivery was admitted without its claim, which fails open.
THEOREM SpeaksOnce == Spec => []SpokenOnce
  <1>1. IInv => SpokenOnce
    BY DEF IInv, OneSpeaks, SpokenFor, SpokenOnce, Exempt
  <1>2. QED BY <1>1, IInvHolds, PTL

\* A turn that is writing its answer holds the conversation: neither a retry, a copy nor a
\* failure report of that turn frees the lock under the run that was admitted
\* (settleTurnLockAtExit), with the exceptions the property names.
THEOREM KeepsHold == Spec => []HeldWhileAnswering
  <1>1. IInv => HeldWhileAnswering
    <2> SUFFICES ASSUME IInv, NEW c \in Copies, At(c, "answering")
                 PROVE  \/ holder = c[1].turn \/ c[1].turn \in overtaken
                        \/ Exempt(c[1].turn)
                        \/ \E e \in Events : e.turn = c[1].turn /\ e.resume /\ ~At(<<e, 2>>, "none")
      BY DEF HeldWhileAnswering, Exempt
    <2>1. Active(c)
      BY DEF Active, At, Pc
    <2>2. \/ holder = c[1].turn \/ c[1].turn \in overtaken
          \/ Exempt(c[1].turn) \/ ResumedTwice(c[1].turn)
      BY <2>1 DEF IInv, Held
    <2>3. QED BY <2>2 DEF ResumedTwice, Twice, At, Pc
  <1>2. QED BY <1>1, IInvHolds, PTL

\* When nothing is under way any more, a turn that was dispatched was answered or apologized
\* for, except where an admitted run was ended by the platform, the apology itself could not
\* be made (the failure handler of turn-lock-release-on-failure.ts), or the write that takes
\* a parked answer failed (takeParkedTurn).
THEOREM EndsInWords == Spec => []NotSilent
  <1>1. IInv => NotSilent
    <2> SUFFICES ASSUME IInv, Quiet, NEW t \in Turns, Dispatched(t), ~Settled(t) PROVE FALSE
      BY DEF NotSilent, Settled
    <2>1. AwaitedOf(t) /\ ParkedSent
      BY DEF IInv, Awaited
    <2>2. \A c \in Copies : Pc(c) \notin {"waiting", "failed"} /\ ~Speaking(c)
      BY DEF Quiet, Pc, Speaking
    <2>3. \A e \in Events : ~ComesOf(e)
      BY <2>2 DEF ComesOf
    <2>4. CASE ~Admitted(t)
      <3>1. Invoked(Original(t)) /\ Original(t) \in Events
        BY EventsAre DEF Dispatched, At, Pc, Invoked
      <3>2. QED BY <2>1, <2>3, <2>4, <3>1, OriginalIs DEF AwaitedOf, AllCome
    <2>5. CASE Admitted(t) /\ t \notin parked
      BY <2>1, <2>2, <2>5 DEF AwaitedOf
    <2>6. CASE t \in parked
      <3>1. PICK f \in Events : f = [Original(t) EXCEPT !.resume = TRUE]
        BY EventsAre
      <3>2. Invoked(f) /\ f.turn = t /\ f.resume = TRUE
        BY <2>1, <2>6, <3>1 DEF ParkedSent, Original
      <3>3. AllCome(t, TRUE)
        BY <2>1, <2>2, <2>6 DEF AwaitedOf
      <3>4. QED BY <2>3, <3>2, <3>3 DEF AllCome
    <2>7. QED BY <2>4, <2>5, <2>6
  <1>2. QED BY <1>1, IInvHolds, PTL
=============================================================================
