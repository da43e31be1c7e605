------------------------------- MODULE Battle -------------------------------
(***************************************************************************)
(* A duel between the assistants of one channel: battle-state.ts (the rows *)
(* of the duel and the channel's pointer to it), battle-end.ts, the fan-out *)
(* of channel-flow-processor.ts, the side's turn at its end                *)
(* (async-processor-core.ts), battle-orchestrator.ts and the router's      *)
(* rebuttal and resume entries.                                            *)
(*                                                                         *)
(* Nothing here runs under a lock. A delivery of `/battle`, the turn of    *)
(* each side, the orchestrator, the people who end a duel and the person   *)
(* who judges it are processes of their own that meet only in conditional  *)
(* writes, and the pointer is read through a cache of a minute that each   *)
(* container keeps for itself.                                             *)
(***************************************************************************)
EXTENDS Naturals, FiniteSets

CONSTANTS
    Duels,       \* `/battle` messages: each derives one duel id
    Deliveries,  \* deliveries of those messages to the channel flow
    DuelOf,      \* the message a delivery carries: the flow is at-least-once
    Sides,       \* the assistants that are members of the channel
    Enders,      \* calls that end a duel: a command, the toggle, an ended experiment
    NoDuel,
    Faults,      \* the kinds of fault that may happen
    MaxFaults,   \* bound: faults in one behaviour
    MaxAsks      \* bound: questions the sides put to the person

ASSUME BattleAssumption ==
    /\ NoDuel \notin Duels
    /\ DuelOf \in [Deliveries -> Duels]
    /\ Sides # {} /\ IsFiniteSet(Sides)
    /\ Deliveries \cap Enders = {}
    /\ MaxFaults \in Nat /\ MaxAsks \in Nat

VARIABLES
    config,     \* ChannelBattleConfig: does the row exist, and its activeBattleId
    past,       \* every pointer the row has named: what a cached copy may say
    rows,       \* BattleState: the row of each side of each duel
    marks,      \* BattleState: the sentinel rows of each duel
    flow,       \* the deliveries being handled
    work,       \* round-1 turns: generating, and recorded but not yet looked round
    fires,      \* invocations of the orchestrator on their way
    orch,       \* the invocation that won the claim
    end,        \* the calls of endBattle
    rebuttals,  \* round-2 turns dispatched to each side
    asks,       \* questions asked so far
    faults      \* faults so far

vars == <<config, past, rows, marks, flow, work, fires, orch, end, rebuttals, asks, faults>>

Terminal == {"COMPLETED", "FAILED"}
Running  == {"INVOKED", "WAITING_FOR_USER"}
States   == Terminal \cup Running \cup {"none", "ABANDONED"}
Sentinels == {"round1", "orchestrator", "abandoned", "complete"}

TypeOK ==
    /\ config \in [on: BOOLEAN, active: Duels \cup {NoDuel}]
    /\ past \subseteq Duels \cup {NoDuel} /\ config.active \in past
    /\ rows \in [Duels -> [Sides -> States]]
    /\ marks \in [Duels -> SUBSET Sentinels]
    /\ flow \in [Deliveries -> [at: {"idle", "look", "end", "claim", "point", "fan", "done"},
                                old: Duels \cup {NoDuel},
                                sent: [Sides -> {"todo", "recorded", "sent"}]]]
    /\ work \in [Duels -> [Sides -> [busy: 0..2, checking: 0..2]]]
    /\ fires \in [Duels -> Nat]
    /\ orch \in [Duels -> [at: {"idle", "hand", "mark", "done"},
                           seen: SUBSET Sides, todo: SUBSET Sides]]
    /\ end \in [Enders \cup Deliveries ->
                  [at: {"idle", "read", "claim", "mark", "sides", "delete", "done"},
                   duel: Duels \cup {NoDuel}, seen: SUBSET Sides, todo: SUBSET Sides,
                   off: BOOLEAN, won: BOOLEAN]]
    /\ rebuttals \in [Duels -> [Sides -> Nat]]
    /\ asks \in 0..MaxAsks
    /\ faults \in 0..MaxFaults

IdleEnd == [at |-> "idle", duel |-> NoDuel, seen |-> {}, todo |-> {},
            off |-> FALSE, won |-> FALSE]

Init ==
    /\ config = [on |-> TRUE, active |-> NoDuel]
    /\ past = {NoDuel}
    /\ rows = [d \in Duels |-> [s \in Sides |-> "none"]]
    /\ marks = [d \in Duels |-> {}]
    /\ flow = [f \in Deliveries |-> [at |-> "idle", old |-> NoDuel, sent |-> [s \in Sides |-> "todo"]]]
    /\ work = [d \in Duels |-> [s \in Sides |-> [busy |-> 0, checking |-> 0]]]
    /\ fires = [d \in Duels |-> 0]
    /\ orch = [d \in Duels |-> [at |-> "idle", seen |-> {}, todo |-> {}]]
    /\ end = [p \in Enders \cup Deliveries |-> IdleEnd]
    /\ rebuttals = [d \in Duels |-> [s \in Sides |-> 0]]
    /\ asks = 0
    /\ faults = 0

(***************************************************************************)
(* One fault of a kind this instance allows, or none.                      *)
(***************************************************************************)
Fault(kind) == kind \in Faults /\ faults < MaxFaults /\ faults' = faults + 1
NoFault == UNCHANGED faults

(***************************************************************************)
(* What a reader makes of the rows of a duel. The mutated forms come first. *)
(***************************************************************************)
Recorded(d) == {s \in Sides : rows[d][s] # "none"}

(* Mutant: a side blocked on the person counts as having answered. *)
AllButInvoked(d) ==
    Recorded(d) # {} /\ \A s \in Recorded(d) : rows[d][s] \in Terminal \cup {"WAITING_FOR_USER"}

AllBotsTerminal(d) == Recorded(d) # {} /\ \A s \in Recorded(d) : rows[d][s] \in Terminal

DuelWasAbandoned(d) == "abandoned" \in marks[d] \/ \E s \in Sides : rows[d][s] = "ABANDONED"

DuelIsLive(d) == Recorded(d) # {} /\ ~DuelWasAbandoned(d) /\ "complete" \notin marks[d]

(* Mutant: the sides' own rows are the only record of an end. *)
TakesPickUnlessSideLeft(d, readable) ==
    ~(readable /\ \E s \in Sides : rows[d][s] = "ABANDONED")

(* battle-outcome-api.ts: a duel that was abandoned takes no pick.  A read of *)
(* its rows that fails gives none, which is no evidence of an end: the pick   *)
(* is taken.                                                                  *)
TakesPick(d, readable) == ~(readable /\ DuelWasAbandoned(d))

(***************************************************************************)
(* The conditions of the writes, over the row a write meets.               *)
(***************************************************************************)

(* Mutant: a side is resumed from whatever state it has reached. *)
ResumesAnything(state) == state # "none"

Resumable(state) == state = "WAITING_FOR_USER"

(* Mutant: only a generating side can be stopped. *)
StopsInvokedOnly(state) == state \in {"none", "INVOKED"}

MayStop(state) == state \in Running \cup {"none"}

(* Mutant: the release does not look at which duel the pointer names. *)
ReleaseWhatever(d) == [config EXCEPT !.active = NoDuel]

Release(d) == IF config.active = d THEN [config EXCEPT !.active = NoDuel] ELSE config

(* A claim or a marker: the first writer of a sentinel row wins it. *)
Put(d, sentinel) == marks' = [marks EXCEPT ![d] = @ \cup {sentinel}]

(***************************************************************************)
(* A delivery of `/battle`. The pointer is read through the cache: another *)
(* container's copy is up to a minute old, and the bust of setActiveBattle *)
(* reaches the copy of its own container only.                             *)
(***************************************************************************)
Enter(f, at) == flow' = [flow EXCEPT ![f].at = at]

Start(f) ==
    /\ flow[f].at = "idle"
    /\ \E active \in past :
         flow' = [flow EXCEPT ![f].at = IF active \in {NoDuel, DuelOf[f]} THEN "claim" ELSE "look",
                              ![f].old = active]
    /\ UNCHANGED <<config, past, rows, marks, work, fires, orch, end, rebuttals, asks, faults>>

Ending(p, d) == end' = [end EXCEPT ![p] = [IdleEnd EXCEPT !.at = "read", !.duel = d]]

(* The single-active-battle guard. A running side may be past its deadline. *)
Look(f) ==
    /\ flow[f].at = "look"
    /\ LET old == flow[f].old IN
       \/ DuelIsLive(old) /\ Enter(f, "done") /\ NoFault /\ UNCHANGED end
       \/ /\ ~DuelIsLive(old) \/ \E s \in Sides : rows[old][s] \in Running
          /\ Enter(f, "end") /\ Ending(f, old) /\ NoFault
       \/ Enter(f, "end") /\ Ending(f, old) /\ Fault("read")
    /\ UNCHANGED <<config, past, rows, marks, work, fires, orch, rebuttals, asks>>

Superseded(f) ==
    /\ flow[f].at = "end" /\ end[f].at = "done"
    /\ Enter(f, "claim")
    /\ UNCHANGED <<config, past, rows, marks, work, fires, orch, end, rebuttals, asks, faults>>

(* Mutant: a redelivery is not told from the first delivery. *)
FanOutAgain(f) ==
    /\ flow[f].at = "claim"
    /\ Enter(f, "point") /\ Put(DuelOf[f], "round1") /\ NoFault

(* The roster, the router and the sender's budget may refuse before the claim. *)
TryClaimRound1Fanout(f) ==
    /\ flow[f].at = "claim"
    /\ LET d == DuelOf[f] IN
       \/ Enter(f, "done") /\ NoFault /\ UNCHANGED marks
       \/ "round1" \notin marks[d] /\ Enter(f, "point") /\ Put(d, "round1") /\ NoFault
       \/ Enter(f, "point") /\ (Put(d, "round1") \/ UNCHANGED marks) /\ Fault("claim")

ClaimFanout(f) ==
    /\ TryClaimRound1Fanout(f)
    /\ UNCHANGED <<config, past, rows, work, fires, orch, end, rebuttals, asks>>

SetActiveBattle(f) ==
    /\ flow[f].at = "point"
    /\ Enter(f, "fan")
    /\ \/ /\ config.on /\ NoFault
          /\ config' = [config EXCEPT !.active = DuelOf[f]]
          /\ past' = past \cup {DuelOf[f]}
       \/ ~config.on /\ NoFault /\ UNCHANGED <<config, past>>
       \/ Fault("point") /\ UNCHANGED <<config, past>>
    /\ UNCHANGED <<rows, marks, work, fires, orch, end, rebuttals, asks>>

(* The sides are fanned out together: neither waits for the other's row. *)
InitBotState(f, s) ==
    /\ flow[f].at = "fan" /\ flow[f].sent[s] = "todo"
    /\ flow' = [flow EXCEPT ![f].sent[s] = "recorded"]
    /\ LET d == DuelOf[f] IN
       \/ /\ rows' = [rows EXCEPT ![d][s] = IF @ = "none" THEN "INVOKED" ELSE @]
          /\ NoFault
       \/ UNCHANGED rows /\ Fault("init")
    /\ UNCHANGED <<config, past, marks, work, fires, orch, end, rebuttals, asks>>

InvokeSide(f, s) ==
    /\ flow[f].sent[s] = "recorded"
    /\ flow' = [flow EXCEPT ![f].sent[s] = "sent"]
    /\ \/ work' = [work EXCEPT ![DuelOf[f]][s].busy = @ + 1] /\ NoFault
       \/ UNCHANGED work /\ Fault("turn")
    /\ UNCHANGED <<config, past, rows, marks, fires, orch, end, rebuttals, asks>>

(***************************************************************************)
(* The turn of a side in round 1.                                          *)
(***************************************************************************)

(* recordBattleTerminalAndFireOrchestrator: the write comes first ... *)
Answer(d, s) ==
    /\ work[d][s].busy > 0
    /\ \/ /\ MayStop(rows[d][s]) /\ NoFault
          /\ rows' = [rows EXCEPT ![d][s] = "COMPLETED"]
          /\ work' = [work EXCEPT ![d][s] = [busy |-> @.busy - 1, checking |-> @.checking + 1]]
       \/ /\ ~MayStop(rows[d][s]) /\ NoFault
          /\ work' = [work EXCEPT ![d][s].busy = @ - 1] /\ UNCHANGED rows
       \/ /\ Fault("record")
          /\ work' = [work EXCEPT ![d][s].busy = @ - 1] /\ UNCHANGED rows
    /\ UNCHANGED <<config, past, marks, flow, fires, orch, end, rebuttals, asks>>

(* Mutant: the last side takes the orchestrator's claim before invoking it. *)
ClaimAndFire(d, s) ==
    /\ AllBotsTerminal(d) /\ NoFault
    /\ fires' = [fires EXCEPT ![d] = @ + 1] /\ Put(d, "orchestrator")

(* ... and the side whose write made every row terminal invokes the        *)
(* orchestrator. The rows are read eventually consistently, and the         *)
(* invocation may fail to be sent ("look").                                 *)
FireIfLast(d, s) ==
    \/ AllBotsTerminal(d) /\ fires' = [fires EXCEPT ![d] = @ + 1] /\ NoFault /\ UNCHANGED marks
    \/ ~AllBotsTerminal(d) /\ NoFault /\ UNCHANGED <<fires, marks>>
    \/ Fault("look") /\ UNCHANGED <<fires, marks>>

LookRound(d, s) ==
    /\ work[d][s].checking > 0
    /\ work' = [work EXCEPT ![d][s].checking = @ - 1]
    /\ FireIfLast(d, s)
    /\ UNCHANGED <<config, past, rows, flow, orch, end, rebuttals, asks>>

(* A question, or a step of the side's task: the turn ends, the side waits. *)
MarkBotWaitingForUser(d, s) ==
    /\ work[d][s].busy > 0 /\ asks < MaxAsks
    /\ asks' = asks + 1
    /\ work' = [work EXCEPT ![d][s].busy = @ - 1]
    /\ rows' = [rows EXCEPT ![d][s] = IF @ = "INVOKED" THEN "WAITING_FOR_USER" ELSE @]
    /\ UNCHANGED <<config, past, marks, flow, fires, orch, end, rebuttals, faults>>

(* A turn that fails, is killed or is stopped leaves its row as it is. *)
Unrecorded(d, s) ==
    /\ work[d][s].busy > 0
    /\ work' = [work EXCEPT ![d][s].busy = @ - 1]
    /\ Fault("die")
    /\ UNCHANGED <<config, past, rows, marks, flow, fires, orch, end, rebuttals, asks>>

(* The person answers a waiting side of the duel their router's copy names. *)
ResumeBotFromWaiting(d, s) ==
    /\ d \in past
    /\ Resumable(rows[d][s])
    /\ rows' = [rows EXCEPT ![d][s] = "INVOKED"]
    /\ \/ work' = [work EXCEPT ![d][s].busy = @ + 1] /\ NoFault
       \/ UNCHANGED work /\ Fault("turn")
    /\ UNCHANGED <<config, past, marks, flow, fires, orch, end, rebuttals, asks>>

(***************************************************************************)
(* battle-orchestrator.ts. It is invoked only when every row was terminal, *)
(* so its deadline branch is the inert one its own comment describes.      *)
(***************************************************************************)

(* Mutant: a refused claim is taken for an error and let through. *)
FireAnyway(d) == AllBotsTerminal(d)

MayFire(d) == AllBotsTerminal(d) /\ "orchestrator" \notin marks[d]

TryClaimOrchestratorFire(d) ==
    /\ fires[d] > 0
    /\ fires' = [fires EXCEPT ![d] = @ - 1]
    /\ \/ /\ MayFire(d) /\ Put(d, "orchestrator") /\ NoFault
          /\ orch' = [orch EXCEPT ![d] = [at |-> "hand", seen |-> Recorded(d),
                                          todo |-> {s \in Sides : rows[d][s] = "COMPLETED"}]]
       \/ ~MayFire(d) /\ NoFault /\ UNCHANGED <<marks, orch>>
       \/ Fault("fire") /\ (Put(d, "orchestrator") \/ UNCHANGED marks) /\ UNCHANGED orch
    /\ UNCHANGED <<config, past, rows, flow, work, end, rebuttals, asks>>

(* The router takes a side's round, or refuses it. *)
DispatchRebuttalRound(d, s) ==
    /\ orch[d].at = "hand" /\ s \in orch[d].todo
    /\ orch' = [orch EXCEPT ![d].todo = @ \ {s}]
    /\ \/ /\ "orchestrator" \in marks[d] /\ rows[d][s] = "COMPLETED"
          /\ rebuttals' = [rebuttals EXCEPT ![d][s] = @ + 1]
       \/ UNCHANGED rebuttals
    /\ UNCHANGED <<config, past, rows, marks, flow, work, fires, end, asks, faults>>

(* emitBattleComplete: the release, then the marker. *)
ReleaseResolved(d) ==
    /\ orch[d].at = "hand" /\ orch[d].todo = {}
    /\ orch' = [orch EXCEPT ![d].at = "mark"]
    /\ \/ config' = Release(d) /\ NoFault
       \/ UNCHANGED config /\ Fault("release")
    /\ UNCHANGED <<past, rows, marks, flow, work, fires, end, rebuttals, asks>>

MarkComplete(d) ==
    /\ orch[d].at = "mark"
    /\ orch' = [orch EXCEPT ![d].at = "done"]
    /\ \/ Put(d, "complete") /\ NoFault
       \/ UNCHANGED marks /\ Fault("complete")
    /\ UNCHANGED <<config, past, rows, flow, work, fires, end, rebuttals, asks>>

(* A killed orchestrator is invoked again by the platform. *)
Killed(d) ==
    /\ orch[d].at \in {"hand", "mark"}
    /\ orch' = [orch EXCEPT ![d].at = "done"]
    /\ fires' = [fires EXCEPT ![d] = @ + 1]
    /\ Fault("kill")
    /\ UNCHANGED <<config, past, rows, marks, flow, work, end, rebuttals, asks>>

(***************************************************************************)
(* Who ends a duel: `/battle end` (through the cached pointer), the        *)
(* moderator's toggle (reading the row itself), and the router when a turn *)
(* or a rebuttal of the duel meets an experiment that is over.             *)
(***************************************************************************)
Requested(e) ==
    /\ end[e].at = "idle"
    /\ \E d \in past \ {NoDuel} : Ending(e, d)
    /\ UNCHANGED <<config, past, rows, marks, flow, work, fires, orch, rebuttals, asks, faults>>

Disable(e) ==
    /\ end[e].at = "idle" /\ config.on
    /\ end' = [end EXCEPT ![e] = [IdleEnd EXCEPT !.at = IF config.active = NoDuel THEN "delete" ELSE "read",
                                                 !.duel = config.active, !.off = TRUE]]
    /\ UNCHANGED <<config, past, rows, marks, flow, work, fires, orch, rebuttals, asks, faults>>

ExperimentEnded(e, d) ==
    /\ end[e].at = "idle"
    /\ orch[d].at = "hand" \/ \E s \in Sides : work[d][s].busy > 0
    /\ Ending(e, d)
    /\ UNCHANGED <<config, past, rows, marks, flow, work, fires, orch, rebuttals, asks, faults>>

(* Turning Battle Mode on writes the row whole, over a running duel's too. *)
Enable ==
    /\ config' = [on |-> TRUE, active |-> NoDuel]
    /\ UNCHANGED <<past, rows, marks, flow, work, fires, orch, end, rebuttals, asks, faults>>

(***************************************************************************)
(* endBattle, one step per write.                                          *)
(***************************************************************************)
EndRead(p) ==
    /\ end[p].at = "read"
    /\ LET d == end[p].duel
           stopped(seen) == end' = [end EXCEPT ![p].at = "claim", ![p].seen = seen, ![p].todo = seen]
       IN \/ stopped({s \in Sides : rows[d][s] \in Running}) /\ NoFault
          \/ stopped({}) /\ Fault("read")
    /\ UNCHANGED <<config, past, rows, marks, flow, work, fires, orch, rebuttals, asks>>

EndClaim(p) ==
    /\ end[p].at = "claim"
    /\ LET d == end[p].duel
           won(took) == end' = [end EXCEPT ![p].at = "mark", ![p].won = took]
       IN \/ won("orchestrator" \notin marks[d]) /\ Put(d, "orchestrator") /\ NoFault
          \/ won(FALSE) /\ (Put(d, "orchestrator") \/ UNCHANGED marks) /\ Fault("fire")
    /\ UNCHANGED <<config, past, rows, flow, work, fires, orch, rebuttals, asks>>

MarkBattleAbandoned(p) ==
    /\ end[p].at = "mark"
    /\ end' = [end EXCEPT ![p].at = "sides"]
    /\ \/ Put(end[p].duel, "abandoned") /\ NoFault
       \/ UNCHANGED marks /\ Fault("abandoned")
    /\ UNCHANGED <<config, past, rows, flow, work, fires, orch, rebuttals, asks>>

AbandonSide(p, s) ==
    /\ end[p].at = "sides" /\ s \in end[p].todo
    /\ end' = [end EXCEPT ![p].todo = @ \ {s}]
    /\ \/ /\ rows' = [rows EXCEPT ![end[p].duel][s] = IF MayStop(@) THEN "ABANDONED" ELSE @]
          /\ NoFault
       \/ UNCHANGED rows /\ Fault("record")
    /\ UNCHANGED <<config, past, marks, flow, work, fires, orch, rebuttals, asks>>

ClearActiveBattle(p) ==
    /\ end[p].at = "sides" /\ end[p].todo = {}
    /\ end' = [end EXCEPT ![p].at = IF end[p].off THEN "delete" ELSE "done"]
    /\ \/ config' = Release(end[p].duel) /\ NoFault
       \/ UNCHANGED config /\ Fault("release")
    /\ UNCHANGED <<past, rows, marks, flow, work, fires, orch, rebuttals, asks>>

DeleteConfig(p) ==
    /\ end[p].at = "delete"
    /\ end' = [end EXCEPT ![p].at = "done"]
    /\ config' = [on |-> FALSE, active |-> NoDuel]
    /\ UNCHANGED <<past, rows, marks, flow, work, fires, orch, rebuttals, asks, faults>>

(***************************************************************************)
(* The specification.                                                      *)
(***************************************************************************)
Deliver(f) ==
    \/ Look(f) \/ Superseded(f) \/ ClaimFanout(f) \/ SetActiveBattle(f)
    \/ \E s \in Sides : InitBotState(f, s) \/ InvokeSide(f, s)

Turn(d, s) == Answer(d, s) \/ MarkBotWaitingForUser(d, s) \/ LookRound(d, s)

Orchestrate(d) ==
    \/ TryClaimOrchestratorFire(d) \/ ReleaseResolved(d) \/ MarkComplete(d)
    \/ \E s \in Sides : DispatchRebuttalRound(d, s)

EndBattle(p) ==
    \/ EndRead(p) \/ EndClaim(p) \/ MarkBattleAbandoned(p) \/ ClearActiveBattle(p) \/ DeleteConfig(p)
    \/ \E s \in Sides : AbandonSide(p, s)

Next ==
    \/ \E f \in Deliveries : Start(f) \/ Deliver(f)
    \/ \E d \in Duels, s \in Sides : Turn(d, s) \/ Unrecorded(d, s) \/ ResumeBotFromWaiting(d, s)
    \/ \E d \in Duels : Orchestrate(d) \/ Killed(d)
    \/ \E e \in Enders : Requested(e) \/ Disable(e) \/ \E d \in Duels : ExperimentEnded(e, d)
    \/ \E p \in Enders \cup Deliveries : EndBattle(p)
    \/ Enable

Spec == Init /\ [][Next]_vars

(***************************************************************************)
(* Properties.                                                             *)
(***************************************************************************)

(* Round 2 has one owner. Of the invocations that two sides finishing       *)
(* together send, and the ones the platform sends again, one asks each side *)
(* for one rebuttal; and when an end took the claim before them, so that    *)
(* the person is told no more answers will come, nobody asks for any        *)
(* (battle-state.ts tryClaimOrchestratorFire, battle-end.ts                 *)
(* round2Suppressed).                                                       *)
RebuttedOnce ==
    \A d \in Duels, s \in Sides :
        rebuttals[d][s] <= IF \E p \in Enders \cup Deliveries : end[p].duel = d /\ end[p].won
                           THEN 0 ELSE 1

(* Round 2 waits for every side the duel has recorded: none of them is      *)
(* generating or waiting on the person once it was fired, and none goes     *)
(* back to it (async-processor-core.ts: "A rebuttal of a half-collected     *)
(* report is not a rebuttal").                                              *)
Round2WaitsForSides ==
    \A d \in Duels : \A s \in orch[d].seen : rows[d][s] \notin Running

(* Redelivered, resumed or both, a side has one round-1 turn at work, and   *)
(* none while it waits for the person or after its answer was recorded.     *)
OneTurnPerSide ==
    \A d \in Duels, s \in Sides :
        work[d][s].busy <= IF rows[d][s] \in {"WAITING_FOR_USER", "COMPLETED"} THEN 0 ELSE 1

(* An end that has run without a fault has stopped every side it found      *)
(* running, whatever the side did in between: nothing of an ended duel goes *)
(* on waiting for an answer.                                                *)
EndedSidesStop ==
    \A p \in Enders \cup Deliveries :
        end[p].at \in {"delete", "done"} /\ faults = 0 =>
            \A s \in end[p].seen : rows[end[p].duel][s] \notin Running

(* A release that comes late, from a duel the channel has moved on from,    *)
(* does not take the pointer of a duel nobody has ended or resolved         *)
(* (battle-state.ts clearActiveBattle).                                     *)
LateReleaseHarmless ==
    [][\A d \in Duels :
         config.active = d /\ config'.active = NoDuel /\ config'.on
             /\ (orch' # orch \/ end' # end)
         => marks[d] \cap {"orchestrator", "abandoned"} # {}]_vars

(* Once an end has suppressed round 2 and recorded it, no pick that reads   *)
(* the rows of the duel is accepted, although both sides may have answered  *)
(* in the meantime.  A pick that could not read them is ("THE FAIL-OPEN is  *)
(* `rows.length > 0`": silence is not evidence that a duel was abandoned).  *)
EndedTakesNoPick ==
    \A p \in Enders \cup Deliveries, readable \in BOOLEAN :
        /\ end[p].won /\ end[p].at \in {"sides", "delete", "done"}
        /\ TakesPick(end[p].duel, readable)
        => ~readable

(* Nothing of the duel is on its way: what has not happened never will,     *)
(* unless a person acts.                                                    *)
AtRest(d) ==
    /\ \A s \in Sides : work[d][s] = [busy |-> 0, checking |-> 0]
    /\ \A f \in Deliveries :
         DuelOf[f] = d => flow[f].at \in {"idle", "done"} \/ \A s \in Sides : flow[f].sent[s] = "sent"
    /\ fires[d] = 0 /\ orch[d].at \in {"idle", "done"}
    /\ \A p \in Enders \cup Deliveries : end[p].duel = d => end[p].at = "done"

(* With no fault, a duel whose sides have all answered does not come to     *)
(* rest unresolved, whatever the order in which they finished and looked    *)
(* round; and a duel at rest that was claimed has given the channel back.   *)
NothingLeftOpen ==
    \A d \in Duels : AtRest(d) /\ faults = 0 =>
        /\ AllBotsTerminal(d) => marks[d] \cap {"complete", "abandoned"} # {}
        /\ "orchestrator" \in marks[d] => config.active # d

=============================================================================
