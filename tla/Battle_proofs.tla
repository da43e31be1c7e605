---------------------------- MODULE Battle_proofs ----------------------------
(***************************************************************************)
(* The safety of a duel, for any number of `/battle` messages, deliveries, *)
(* sides, ends and faults: IInv is inductive, and gives every property of  *)
(* Battle.tla that is not a bound of the model.                            *)
(*                                                                         *)
(* Two kinds of fault are kept apart. "claim" is a claim of the fan-out    *)
(* that errors and is let through, "abandoned" a marker of an end that is  *)
(* not written: the code goes on after either, and what it then no longer  *)
(* has is the hypothesis of the theorems that name the kind.               *)
(***************************************************************************)
EXTENDS Battle, TLAPS

SentMaps == [Sides -> {"todo", "recorded", "sent"}]
FlowRecs == [at: {"idle", "look", "end", "claim", "point", "fan", "done"},
             old: Duels \cup {NoDuel}, sent: SentMaps]
WorkRecs == [busy: Nat, checking: Nat]
OrchRecs == [at: {"idle", "hand", "mark", "done"}, seen: SUBSET Sides, todo: SUBSET Sides]
EndRecs  == [at: {"idle", "read", "claim", "mark", "sides", "delete", "done"},
             duel: Duels \cup {NoDuel}, seen: SUBSET Sides, todo: SUBSET Sides,
             off: BOOLEAN, won: BOOLEAN]

Calls   == Enders \cup Deliveries
Settled == Terminal \cup {"ABANDONED"}

(* Everything of TypeOK but the bounds on a side's work.                   *)
Typed ==
    /\ config \in [on: BOOLEAN, active: Duels \cup {NoDuel}]
    /\ past \subseteq Duels \cup {NoDuel}
    /\ rows \in [Duels -> [Sides -> States]]
    /\ marks \in [Duels -> SUBSET Sentinels]
    /\ flow \in [Deliveries -> FlowRecs]
    /\ work \in [Duels -> [Sides -> WorkRecs]]
    /\ fires \in [Duels -> Nat]
    /\ orch \in [Duels -> OrchRecs]
    /\ end \in [Calls -> EndRecs]
    /\ rebuttals \in [Duels -> [Sides -> Nat]]
    /\ asks \in 0..MaxAsks
    /\ faults \in 0..MaxFaults

(* The pointer, and what a delivery saw it say, are pointers the row had.   *)
PointersKnown ==
    /\ NoDuel \in past /\ config.active \in past
    /\ \A f \in Deliveries :
         /\ flow[f].old \in past
         /\ flow[f].at = "look" => flow[f].old # NoDuel
         /\ flow[f].at \in {"idle", "look"} => end[f].at = "idle"

(* A call at work has a duel; it abandons sides it found, until none is left. *)
CallsNamed ==
    \A p \in Calls :
        /\ end[p].at \in {"read", "claim", "mark", "sides"} => end[p].duel \in Duels
        /\ end[p].won \/ end[p].seen # {} => end[p].duel \in Duels
        /\ end[p].at \in {"delete", "done"} => end[p].todo = {}

(* Whoever holds round 2 has marked the duel, and there is one of them.     *)
FireClaimed ==
    /\ \A d \in Duels : orch[d].at # "idle" => "orchestrator" \in marks[d]
    /\ \A p \in Calls : end[p].won =>
         "orchestrator" \in marks[end[p].duel] /\ orch[end[p].duel].at = "idle"

(* A side is asked while it is still to be asked, by the one that holds the round. *)
AskedOnce ==
    \A d \in Duels :
        /\ orch[d].at = "idle" => orch[d].seen = {} /\ orch[d].todo = {}
        /\ \A s \in Sides :
             /\ rebuttals[d][s] <= 1
             /\ orch[d].at = "idle" \/ s \in orch[d].todo => rebuttals[d][s] = 0

SeenSettled == \A d \in Duels : \A s \in orch[d].seen : rows[d][s] \in Settled

(* A side an end has passed is settled, unless a write of the end failed.   *)
PassedSettled ==
    \A p \in Calls : \A s \in end[p].seen \ end[p].todo :
        faults = 0 => rows[end[p].duel][s] \in Settled

(* An end past its marker has left it.                                      *)
EndRecorded ==
    faults = 0 \/ "abandoned" \notin Faults =>
        \A p \in Calls :
            end[p].at = "sides" \/ (end[p].won /\ end[p].at \in {"delete", "done"})
                => "abandoned" \in marks[end[p].duel]

(* One delivery of a duel passes the claim, and only that one fans out.     *)
OneFanOut ==
    faults = 0 \/ "claim" \notin Faults =>
        \A f \in Deliveries : flow[f].at \in {"point", "fan"} =>
            /\ "round1" \in marks[DuelOf[f]]
            /\ \A g \in Deliveries :
                 flow[g].at \in {"point", "fan"} /\ DuelOf[g] = DuelOf[f] => g = f

SentInFan ==
    \A f \in Deliveries, s \in Sides : flow[f].sent[s] # "todo" => flow[f].at = "fan"

Sent(d, s) == \E f \in Deliveries : DuelOf[f] = d /\ flow[f].sent[s] = "sent"

(* What a side's row says bounds the turns it has at work.                  *)
WorkBounded ==
    faults = 0 \/ "claim" \notin Faults =>
        \A d \in Duels, s \in Sides :
            /\ work[d][s].busy <= 1
            /\ rows[d][s] \in {"WAITING_FOR_USER", "COMPLETED"} => work[d][s].busy = 0
            /\ work[d][s].checking <= 1
            /\ work[d][s].checking > 0 => rows[d][s] = "COMPLETED"
            /\ ~Sent(d, s) => work[d][s].busy = 0 /\ rows[d][s] \in {"none", "INVOKED", "ABANDONED"}

(* A duel no delivery has published is one nobody has touched.              *)
Published(d) == \E f \in Deliveries : DuelOf[f] = d /\ flow[f].at = "fan"

Untouched ==
    \A d \in Duels : ~Published(d) =>
        /\ d \notin past /\ "orchestrator" \notin marks[d] /\ fires[d] = 0
        /\ \A s \in Sides : rows[d][s] = "none" /\ work[d][s] = [busy |-> 0, checking |-> 0]
        /\ \A p \in Calls : end[p].duel # d

(* Without faults: a round that is over has somebody to fire the next one,  *)
RoundWatched ==
    faults = 0 => \A d \in Duels : AllBotsTerminal(d) =>
        "orchestrator" \in marks[d] \/ fires[d] > 0 \/ \E s \in Sides : work[d][s].checking > 0

(* whoever took it is still to mark the duel resolved or ended, or has,     *)
ClaimResolved ==
    faults = 0 => \A d \in Duels : "orchestrator" \in marks[d] =>
        \/ marks[d] \cap {"complete", "abandoned"} # {} \/ orch[d].at \in {"hand", "mark"}
        \/ \E p \in Calls : end[p].duel = d /\ end[p].at = "mark"

(* and is still to release the pointer, or the pointer is elsewhere.        *)
ClaimReleases ==
    faults = 0 => \A d \in Duels : "orchestrator" \in marks[d] =>
        \/ config.active # d \/ orch[d].at = "hand"
        \/ \E p \in Calls : end[p].duel = d /\ end[p].at \in {"mark", "sides"}

IInv ==
    /\ Typed /\ PointersKnown /\ CallsNamed
    /\ FireClaimed /\ AskedOnce /\ SeenSettled
    /\ PassedSettled /\ EndRecorded
    /\ OneFanOut /\ SentInFan /\ WorkBounded
    /\ Untouched /\ RoundWatched /\ ClaimResolved /\ ClaimReleases

-----------------------------------------------------------------------------
(* What a write leaves, field by field: the facts of records and functions *)
(* that the proofs below need, each once.                                  *)

(* The writes of several fields, named so that a lemma can speak of them.   *)
WroteStart(f, at, old) == flow' = [flow EXCEPT ![f].at = at, ![f].old = old]
WroteSent(f, s, v)     == flow' = [flow EXCEPT ![f].sent[s] = v]
WroteEnd(p, at, d, off) ==
    end' = [end EXCEPT ![p] = [IdleEnd EXCEPT !.at = at, !.duel = d, !.off = off]]
WroteFound(p, seen) == end' = [end EXCEPT ![p].at = "claim", ![p].seen = seen, ![p].todo = seen]
WroteTaken(p, took) == end' = [end EXCEPT ![p].at = "mark", ![p].won = took]

EnterAts == {"look", "end", "claim", "point", "fan", "done"}

\* A delivery goes on: nothing but its place changes.
LEMMA DeliveryEnters ==
  ASSUME flow \in [Deliveries -> FlowRecs], NEW f \in Deliveries,
         NEW at \in EnterAts, Enter(f, at)
  PROVE  /\ flow' \in [Deliveries -> FlowRecs]
         /\ \A g \in Deliveries :
              /\ flow'[g].at = IF g = f THEN at ELSE flow[g].at
              /\ flow'[g].old = flow[g].old
              /\ flow'[g].sent = flow[g].sent
<1> DEFINE r == [flow[f] EXCEPT !.at = at]
<1>1. flow[f] \in FlowRecs
  OBVIOUS
<1>2. r \in FlowRecs
  BY <1>1 DEF FlowRecs, EnterAts
<1>3. r.at = at
  BY <1>1 DEF FlowRecs, EnterAts
<1>4. r.old = flow[f].old
  BY <1>1 DEF FlowRecs, EnterAts
<1>5. r.sent = flow[f].sent
  BY <1>1 DEF FlowRecs, EnterAts
<1>6. flow' = [flow EXCEPT ![f] = r]
  BY DEF Enter
<1> HIDE DEF r
<1>7. flow' \in [Deliveries -> FlowRecs]
  BY <1>2, <1>6
<1>8. \A g \in Deliveries : flow'[g] = IF g = f THEN r ELSE flow[g]
  BY <1>6
<1>9. QED BY <1>3, <1>4, <1>5, <1>7, <1>8

LEMMA DeliveryStarts ==
  ASSUME flow \in [Deliveries -> FlowRecs], NEW f \in Deliveries,
         NEW at \in EnterAts, NEW old \in Duels \cup {NoDuel},
         WroteStart(f, at, old)
  PROVE  /\ flow' \in [Deliveries -> FlowRecs]
         /\ \A g \in Deliveries :
              /\ flow'[g].at = IF g = f THEN at ELSE flow[g].at
              /\ flow'[g].old = IF g = f THEN old ELSE flow[g].old
              /\ flow'[g].sent = flow[g].sent
<1> DEFINE r == [flow[f] EXCEPT !.at = at, !.old = old]
<1>1. flow[f] \in FlowRecs
  OBVIOUS
<1>2. r \in FlowRecs
  BY <1>1 DEF FlowRecs, EnterAts
<1>3. r.at = at
  BY <1>1 DEF FlowRecs, EnterAts
<1>4. r.old = old
  BY <1>1 DEF FlowRecs, EnterAts
<1>5. r.sent = flow[f].sent
  BY <1>1 DEF FlowRecs, EnterAts
<1>6. flow' = [flow EXCEPT ![f] = r]
  BY DEF WroteStart
<1> HIDE DEF r
<1>7. flow' \in [Deliveries -> FlowRecs]
  BY <1>2, <1>6
<1>8. \A g \in Deliveries : flow'[g] = IF g = f THEN r ELSE flow[g]
  BY <1>6
<1>9. QED BY <1>3, <1>4, <1>5, <1>7, <1>8

\* A delivery goes one step further with one side.
LEMMA DeliverySends ==
  ASSUME flow \in [Deliveries -> FlowRecs], NEW f \in Deliveries, NEW s \in Sides,
         NEW v \in {"recorded", "sent"}, WroteSent(f, s, v)
  PROVE  /\ flow' \in [Deliveries -> FlowRecs]
         /\ \A g \in Deliveries :
              /\ flow'[g].at = flow[g].at
              /\ flow'[g].old = flow[g].old
              /\ \A t \in Sides :
                   flow'[g].sent[t] = IF g = f /\ t = s THEN v ELSE flow[g].sent[t]
<1>1. flow[f].sent \in SentMaps
  BY DEF FlowRecs
<1> DEFINE sent == [flow[f].sent EXCEPT ![s] = v]
<1>2. /\ sent \in SentMaps
      /\ \A t \in Sides : sent[t] = IF t = s THEN v ELSE flow[f].sent[t]
  BY <1>1 DEF SentMaps
<1>3. flow' = [flow EXCEPT ![f].sent = sent]
  BY DEF WroteSent
<1> HIDE DEF sent
<1>4. flow' \in [Deliveries -> FlowRecs]
  BY <1>2, <1>3 DEF FlowRecs
<1>5. \A g \in Deliveries :
        /\ flow'[g].at = flow[g].at
        /\ flow'[g].old = flow[g].old
        /\ flow'[g].sent = IF g = f THEN sent ELSE flow[g].sent
  BY <1>3, <1>4 DEF FlowRecs
<1>6. \A g \in Deliveries, t \in Sides :
        flow'[g].sent[t] = IF g = f /\ t = s THEN v ELSE flow[g].sent[t]
  <2> SUFFICES ASSUME NEW g \in Deliveries, NEW t \in Sides
               PROVE  flow'[g].sent[t] = IF g = f /\ t = s THEN v ELSE flow[g].sent[t]
    OBVIOUS
  <2>1. CASE g = f
    <3>1. flow'[g].sent = sent
      BY <1>5, <2>1
    <3>2. sent[t] = IF t = s THEN v ELSE flow[f].sent[t]
      BY <1>2
    <3>3. QED BY <2>1, <3>1, <3>2
  <2>2. CASE g # f
    <3>1. flow'[g].sent = flow[g].sent
      BY <1>5, <2>2
    <3>2. QED BY <2>2, <3>1
  <2>3. QED BY <2>1, <2>2
<1>7. QED BY <1>4, <1>5, <1>6

LEMMA RowWritten ==
  ASSUME rows \in [Duels -> [Sides -> States]], NEW d \in Duels, NEW s \in Sides,
         NEW v \in States, rows' = [rows EXCEPT ![d][s] = v]
  PROVE  /\ rows' \in [Duels -> [Sides -> States]]
         /\ \A c \in Duels, t \in Sides :
              rows'[c][t] = IF c = d /\ t = s THEN v ELSE rows[c][t]
OBVIOUS

OrchAts == {"idle", "hand", "mark", "done"}

LEMMA OrchMoves ==
  ASSUME orch \in [Duels -> OrchRecs], NEW d \in Duels, NEW at \in OrchAts,
         orch' = [orch EXCEPT ![d].at = at]
  PROVE  /\ orch' \in [Duels -> OrchRecs]
         /\ \A c \in Duels :
              /\ orch'[c].at = IF c = d THEN at ELSE orch[c].at
              /\ orch'[c].seen = orch[c].seen
              /\ orch'[c].todo = orch[c].todo
<1>1. orch' \in [Duels -> OrchRecs]
  BY DEF OrchRecs, OrchAts
<1>2. QED BY <1>1 DEF OrchRecs

LEMMA OrchWritten ==
  ASSUME orch \in [Duels -> OrchRecs], NEW d \in Duels, NEW at \in OrchAts,
         NEW seen \in SUBSET Sides, NEW todo \in SUBSET Sides,
         orch' = [orch EXCEPT ![d] = [at |-> at, seen |-> seen, todo |-> todo]]
  PROVE  /\ orch' \in [Duels -> OrchRecs]
         /\ \A c \in Duels :
              /\ orch'[c].at = IF c = d THEN at ELSE orch[c].at
              /\ orch'[c].seen = IF c = d THEN seen ELSE orch[c].seen
              /\ orch'[c].todo = IF c = d THEN todo ELSE orch[c].todo
BY DEF OrchRecs, OrchAts

LEMMA OrchAsks ==
  ASSUME orch \in [Duels -> OrchRecs], NEW d \in Duels, NEW s \in Sides,
         orch' = [orch EXCEPT ![d].todo = @ \ {s}]
  PROVE  /\ orch' \in [Duels -> OrchRecs]
         /\ \A c \in Duels :
              /\ orch'[c].at = orch[c].at
              /\ orch'[c].seen = orch[c].seen
              /\ orch'[c].todo = IF c = d THEN orch[d].todo \ {s} ELSE orch[c].todo
<1> DEFINE r == [orch[d] EXCEPT !.todo = @ \ {s}]
<1>1. orch[d] \in OrchRecs
  OBVIOUS
<1>2. r \in OrchRecs
  BY <1>1 DEF OrchRecs
<1>3. r.at = orch[d].at /\ r.seen = orch[d].seen /\ r.todo = orch[d].todo \ {s}
  BY <1>1 DEF OrchRecs
<1>4. orch' = [orch EXCEPT ![d] = r]
  OBVIOUS
<1> HIDE DEF r
<1>5. orch' \in [Duels -> OrchRecs]
  BY <1>2, <1>4
<1>6. \A c \in Duels : orch'[c] = IF c = d THEN r ELSE orch[c]
  BY <1>4
<1>7. QED BY <1>3, <1>5, <1>6

EndAts == {"read", "claim", "mark", "sides", "delete", "done"}

\* A call of endBattle goes on: nothing but its place changes.
LEMMA EndMoves ==
  ASSUME end \in [Calls -> EndRecs], NEW p \in Calls, NEW at \in EndAts,
         end' = [end EXCEPT ![p].at = at]
  PROVE  /\ end' \in [Calls -> EndRecs]
         /\ \A q \in Calls :
              /\ end'[q].at = IF q = p THEN at ELSE end[q].at
              /\ end'[q].duel = end[q].duel /\ end'[q].won = end[q].won
              /\ end'[q].seen = end[q].seen /\ end'[q].todo = end[q].todo
<1> DEFINE r == [end[p] EXCEPT !.at = at]
<1>1. end[p] \in EndRecs
  OBVIOUS
<1>2. r \in EndRecs
  BY <1>1 DEF EndRecs, EndAts
<1>3. r.at = at
  BY <1>1 DEF EndRecs, EndAts
<1>4. r.duel = end[p].duel
  BY <1>1 DEF EndRecs, EndAts
<1>5. r.won = end[p].won
  BY <1>1 DEF EndRecs, EndAts
<1>6. r.seen = end[p].seen
  BY <1>1 DEF EndRecs, EndAts
<1>7. r.todo = end[p].todo
  BY <1>1 DEF EndRecs, EndAts
<1>8. end' = [end EXCEPT ![p] = r]
  OBVIOUS
<1> HIDE DEF r
<1>9. end' \in [Calls -> EndRecs]
  BY <1>2, <1>8
<1>10. \A q \in Calls : end'[q] = IF q = p THEN r ELSE end[q]
  BY <1>8
<1>11. QED BY <1>3, <1>4, <1>5, <1>6, <1>7, <1>9, <1>10

\* A call starts.
LEMMA EndStarts ==
  ASSUME end \in [Calls -> EndRecs], NEW p \in Calls, NEW at \in EndAts,
         NEW d \in Duels \cup {NoDuel}, NEW off \in BOOLEAN,
         WroteEnd(p, at, d, off)
  PROVE  /\ end' \in [Calls -> EndRecs]
         /\ \A q \in Calls \ {p} : end'[q] = end[q]
         /\ end'[p].at = at /\ end'[p].duel = d /\ ~end'[p].won
         /\ end'[p].seen = {} /\ end'[p].todo = {}
<1> DEFINE r == [IdleEnd EXCEPT !.at = at, !.duel = d, !.off = off]
<1>1. end[p] \in EndRecs
  OBVIOUS
<1>2. r \in EndRecs
  BY <1>1 DEF EndRecs, EndAts, IdleEnd
<1>3. r.at = at
  BY <1>1 DEF EndRecs, EndAts, IdleEnd
<1>4. r.duel = d
  BY <1>1 DEF EndRecs, EndAts, IdleEnd
<1>5. r.won = FALSE
  BY <1>1 DEF EndRecs, EndAts, IdleEnd
<1>6. r.seen = {}
  BY <1>1 DEF EndRecs, EndAts, IdleEnd
<1>7. r.todo = {}
  BY <1>1 DEF EndRecs, EndAts, IdleEnd
<1>8. end' = [end EXCEPT ![p] = r]
  BY DEF WroteEnd
<1> HIDE DEF r
<1>9. end' \in [Calls -> EndRecs]
  BY <1>2, <1>8
<1>10. \A q \in Calls : end'[q] = IF q = p THEN r ELSE end[q]
  BY <1>8
<1>11. QED BY <1>3, <1>4, <1>5, <1>6, <1>7, <1>9, <1>10

LEMMA EndReads ==
  ASSUME end \in [Calls -> EndRecs], NEW p \in Calls, NEW seen \in SUBSET Sides,
         WroteFound(p, seen)
  PROVE  /\ end' \in [Calls -> EndRecs]
         /\ \A q \in Calls :
              /\ end'[q].at = IF q = p THEN "claim" ELSE end[q].at
              /\ end'[q].duel = end[q].duel /\ end'[q].won = end[q].won
              /\ end'[q].seen = IF q = p THEN seen ELSE end[q].seen
              /\ end'[q].todo = IF q = p THEN seen ELSE end[q].todo
<1> DEFINE r == [end[p] EXCEPT !.at = "claim", !.seen = seen, !.todo = seen]
<1>1. end[p] \in EndRecs
  OBVIOUS
<1>2. r \in EndRecs
  BY <1>1 DEF EndRecs
<1>3. r.at = "claim"
  BY <1>1 DEF EndRecs
<1>4. r.duel = end[p].duel
  BY <1>1 DEF EndRecs
<1>5. r.won = end[p].won
  BY <1>1 DEF EndRecs
<1>6. r.seen = seen
  BY <1>1 DEF EndRecs
<1>7. r.todo = seen
  BY <1>1 DEF EndRecs
<1>8. end' = [end EXCEPT ![p] = r]
  BY DEF WroteFound
<1> HIDE DEF r
<1>9. end' \in [Calls -> EndRecs]
  BY <1>2, <1>8
<1>10. \A q \in Calls : end'[q] = IF q = p THEN r ELSE end[q]
  BY <1>8
<1>11. QED BY <1>3, <1>4, <1>5, <1>6, <1>7, <1>9, <1>10

LEMMA EndClaims ==
  ASSUME end \in [Calls -> EndRecs], NEW p \in Calls, NEW took \in BOOLEAN,
         WroteTaken(p, took)
  PROVE  /\ end' \in [Calls -> EndRecs]
         /\ \A q \in Calls :
              /\ end'[q].at = IF q = p THEN "mark" ELSE end[q].at
              /\ end'[q].won = IF q = p THEN took ELSE end[q].won
              /\ end'[q].duel = end[q].duel
              /\ end'[q].seen = end[q].seen /\ end'[q].todo = end[q].todo
<1> DEFINE r == [end[p] EXCEPT !.at = "mark", !.won = took]
<1>1. end[p] \in EndRecs
  OBVIOUS
<1>2. r \in EndRecs
  BY <1>1 DEF EndRecs
<1>3. r.at = "mark"
  BY <1>1 DEF EndRecs
<1>4. r.duel = end[p].duel
  BY <1>1 DEF EndRecs
<1>5. r.won = took
  BY <1>1 DEF EndRecs
<1>6. r.seen = end[p].seen
  BY <1>1 DEF EndRecs
<1>7. r.todo = end[p].todo
  BY <1>1 DEF EndRecs
<1>8. end' = [end EXCEPT ![p] = r]
  BY DEF WroteTaken
<1> HIDE DEF r
<1>9. end' \in [Calls -> EndRecs]
  BY <1>2, <1>8
<1>10. \A q \in Calls : end'[q] = IF q = p THEN r ELSE end[q]
  BY <1>8
<1>11. QED BY <1>3, <1>4, <1>5, <1>6, <1>7, <1>9, <1>10

LEMMA EndAbandons ==
  ASSUME end \in [Calls -> EndRecs], NEW p \in Calls, NEW s \in Sides,
         end' = [end EXCEPT ![p].todo = @ \ {s}]
  PROVE  /\ end' \in [Calls -> EndRecs]
         /\ \A q \in Calls :
              /\ end'[q].at = end[q].at
              /\ end'[q].duel = end[q].duel /\ end'[q].won = end[q].won
              /\ end'[q].seen = end[q].seen
              /\ end'[q].todo = IF q = p THEN end[q].todo \ {s} ELSE end[q].todo
<1> DEFINE r == [end[p] EXCEPT !.todo = @ \ {s}]
<1>1. end[p] \in EndRecs
  OBVIOUS
<1>2. r \in EndRecs
  BY <1>1 DEF EndRecs
<1>3. r.at = end[p].at
  BY <1>1 DEF EndRecs
<1>4. r.duel = end[p].duel
  BY <1>1 DEF EndRecs
<1>5. r.won = end[p].won
  BY <1>1 DEF EndRecs
<1>6. r.seen = end[p].seen
  BY <1>1 DEF EndRecs
<1>7. r.todo = end[p].todo \ {s}
  BY <1>1 DEF EndRecs
<1>8. end' = [end EXCEPT ![p] = r]
  OBVIOUS
<1> HIDE DEF r
<1>9. end' \in [Calls -> EndRecs]
  BY <1>2, <1>8
<1>10. \A q \in Calls : end'[q] = IF q = p THEN r ELSE end[q]
  BY <1>8
<1>11. QED BY <1>3, <1>4, <1>5, <1>6, <1>7, <1>9, <1>10

LEMMA Counted ==
  ASSUME rebuttals \in [Duels -> [Sides -> Nat]], NEW d \in Duels, NEW s \in Sides,
         rebuttals' = [rebuttals EXCEPT ![d][s] = @ + 1]
  PROVE  /\ rebuttals' \in [Duels -> [Sides -> Nat]]
         /\ \A c \in Duels, t \in Sides :
              rebuttals'[c][t] = IF c = d /\ t = s THEN rebuttals[c][t] + 1 ELSE rebuttals[c][t]
<1>1. PICK n \in Nat : n = rebuttals[d][s] + 1
  OBVIOUS
<1>2. rebuttals' = [rebuttals EXCEPT ![d][s] = n]
  BY <1>1
<1>3. QED BY <1>1, <1>2

\* The turns of a side: one starts, one ends, one looks round, one has answered.
LEMMA BusyMore ==
  ASSUME work \in [Duels -> [Sides -> WorkRecs]], NEW d \in Duels, NEW s \in Sides,
         work' = [work EXCEPT ![d][s].busy = @ + 1]
  PROVE  /\ work' \in [Duels -> [Sides -> WorkRecs]]
         /\ \A c \in Duels, t \in Sides :
              /\ work'[c][t].busy = IF c = d /\ t = s THEN work[d][s].busy + 1 ELSE work[c][t].busy
              /\ work'[c][t].checking =
                   IF c = d /\ t = s THEN work[d][s].checking ELSE work[c][t].checking
<1> DEFINE w == [work[d][s] EXCEPT !.busy = @ + 1]
<1>1. w \in WorkRecs
  BY SMTT(20) DEF WorkRecs
<1>2. w.busy = work[d][s].busy + 1
  BY DEF WorkRecs
<1>3. w.checking = work[d][s].checking
  BY DEF WorkRecs
<1>4. work' = [work EXCEPT ![d][s] = w]
  OBVIOUS
<1> HIDE DEF w
<1>5. work' \in [Duels -> [Sides -> WorkRecs]]
  BY <1>1, <1>4
<1>6. \A c \in Duels, t \in Sides : work'[c][t] = IF c = d /\ t = s THEN w ELSE work[c][t]
  BY <1>4
<1>7. QED BY <1>2, <1>3, <1>5, <1>6

LEMMA BusyLess ==
  ASSUME work \in [Duels -> [Sides -> WorkRecs]], NEW d \in Duels, NEW s \in Sides,
         work[d][s].busy > 0,
         work' = [work EXCEPT ![d][s].busy = @ - 1]
  PROVE  /\ work' \in [Duels -> [Sides -> WorkRecs]]
         /\ \A c \in Duels, t \in Sides :
              /\ work'[c][t].busy = IF c = d /\ t = s THEN work[d][s].busy - 1 ELSE work[c][t].busy
              /\ work'[c][t].checking =
                   IF c = d /\ t = s THEN work[d][s].checking ELSE work[c][t].checking
<1> DEFINE w == [work[d][s] EXCEPT !.busy = @ - 1]
<1>1. w \in WorkRecs
  BY DEF WorkRecs
<1>2. w.busy = work[d][s].busy - 1
  BY DEF WorkRecs
<1>3. w.checking = work[d][s].checking
  BY DEF WorkRecs
<1>4. work' = [work EXCEPT ![d][s] = w]
  OBVIOUS
<1> HIDE DEF w
<1>5. work' \in [Duels -> [Sides -> WorkRecs]]
  BY <1>1, <1>4
<1>6. \A c \in Duels, t \in Sides : work'[c][t] = IF c = d /\ t = s THEN w ELSE work[c][t]
  BY <1>4
<1>7. QED BY <1>2, <1>3, <1>5, <1>6

LEMMA CheckingLess ==
  ASSUME work \in [Duels -> [Sides -> WorkRecs]], NEW d \in Duels, NEW s \in Sides,
         work[d][s].checking > 0,
         work' = [work EXCEPT ![d][s].checking = @ - 1]
  PROVE  /\ work' \in [Duels -> [Sides -> WorkRecs]]
         /\ \A c \in Duels, t \in Sides :
              /\ work'[c][t].busy = IF c = d /\ t = s THEN work[d][s].busy ELSE work[c][t].busy
              /\ work'[c][t].checking =
                   IF c = d /\ t = s THEN work[d][s].checking - 1 ELSE work[c][t].checking
<1> DEFINE w == [work[d][s] EXCEPT !.checking = @ - 1]
<1>1. w \in WorkRecs
  BY DEF WorkRecs
<1>2. w.busy = work[d][s].busy
  BY DEF WorkRecs
<1>3. w.checking = work[d][s].checking - 1
  BY DEF WorkRecs
<1>4. work' = [work EXCEPT ![d][s] = w]
  OBVIOUS
<1> HIDE DEF w
<1>5. work' \in [Duels -> [Sides -> WorkRecs]]
  BY <1>1, <1>4
<1>6. \A c \in Duels, t \in Sides : work'[c][t] = IF c = d /\ t = s THEN w ELSE work[c][t]
  BY <1>4
<1>7. QED BY <1>2, <1>3, <1>5, <1>6

LEMMA Answered ==
  ASSUME work \in [Duels -> [Sides -> WorkRecs]], NEW d \in Duels, NEW s \in Sides,
         work[d][s].busy > 0,
         work' = [work EXCEPT ![d][s] = [busy |-> @.busy - 1, checking |-> @.checking + 1]]
  PROVE  /\ work' \in [Duels -> [Sides -> WorkRecs]]
         /\ \A c \in Duels, t \in Sides :
              /\ work'[c][t].busy = IF c = d /\ t = s THEN work[d][s].busy - 1 ELSE work[c][t].busy
              /\ work'[c][t].checking =
                   IF c = d /\ t = s THEN work[d][s].checking + 1 ELSE work[c][t].checking
<1> DEFINE w == [busy |-> work[d][s].busy - 1, checking |-> work[d][s].checking + 1]
<1>1. w \in WorkRecs
  BY DEF WorkRecs
<1>2. w.busy = work[d][s].busy - 1
  BY DEF WorkRecs
<1>3. w.checking = work[d][s].checking + 1
  BY DEF WorkRecs
<1>4. work' = [work EXCEPT ![d][s] = w]
  OBVIOUS
<1> HIDE DEF w
<1>5. work' \in [Duels -> [Sides -> WorkRecs]]
  BY <1>1, <1>4
<1>6. \A c \in Duels, t \in Sides : work'[c][t] = IF c = d /\ t = s THEN w ELSE work[c][t]
  BY <1>4
<1>7. QED BY <1>2, <1>3, <1>5, <1>6

\* A call that ends a duel starts by reading its rows.
LEMMA EndingTyped ==
  ASSUME end \in [Calls -> EndRecs], NEW p \in Calls, NEW d \in Duels \cup {NoDuel}, Ending(p, d)
  PROVE  /\ end' \in [Calls -> EndRecs]
         /\ \A q \in Calls \ {p} : end'[q] = end[q]
         /\ end'[p].at = "read" /\ end'[p].duel = d /\ ~end'[p].won
         /\ end'[p].seen = {} /\ end'[p].todo = {}
<1> DEFINE r == [IdleEnd EXCEPT !.at = "read", !.duel = d]
<1>1. r \in EndRecs
  BY DEF EndRecs, IdleEnd
<1>2. r.at = "read"
  BY DEF IdleEnd
<1>3. r.duel = d
  BY DEF IdleEnd
<1>4. r.won = FALSE
  BY DEF IdleEnd
<1>5. r.seen = {} /\ r.todo = {}
  BY DEF IdleEnd
<1>6. end' = [end EXCEPT ![p] = r]
  BY DEF Ending
<1> HIDE DEF r
<1>7. end' \in [Calls -> EndRecs] /\ \A q \in Calls : end'[q] = IF q = p THEN r ELSE end[q]
  BY <1>1, <1>6
<1>8. QED BY <1>2, <1>3, <1>4, <1>5, <1>7


-----------------------------------------------------------------------------
(* The types.                                                              *)

LEMMA InitIInv == Init => IInv
<1> SUFFICES ASSUME Init PROVE IInv
  OBVIOUS
<1> USE BattleAssumption DEF Init, IdleEnd, Calls
<1>1. Typed
  <2>1. config \in [on: BOOLEAN, active: Duels \cup {NoDuel}] /\ past \subseteq Duels \cup {NoDuel}
    OBVIOUS
  <2>2. rows \in [Duels -> [Sides -> States]] /\ marks \in [Duels -> SUBSET Sentinels]
    BY DEF States
  <2>3. flow \in [Deliveries -> FlowRecs]
    BY DEF FlowRecs, SentMaps
  <2>4. work \in [Duels -> [Sides -> WorkRecs]] /\ fires \in [Duels -> Nat]
    BY DEF WorkRecs
  <2>5. orch \in [Duels -> OrchRecs]
    BY DEF OrchRecs
  <2>6. end \in [Calls -> EndRecs]
    BY DEF EndRecs
  <2>7. rebuttals \in [Duels -> [Sides -> Nat]] /\ asks \in 0..MaxAsks /\ faults \in 0..MaxFaults
    OBVIOUS
  <2>8. QED BY <2>1, <2>2, <2>3, <2>4, <2>5, <2>6, <2>7 DEF Typed
<1>2. PointersKnown /\ CallsNamed
  BY DEF PointersKnown, CallsNamed
<1>3. FireClaimed /\ AskedOnce /\ SeenSettled
  BY DEF FireClaimed, AskedOnce, SeenSettled
<1>4. PassedSettled /\ EndRecorded
  BY DEF PassedSettled, EndRecorded
<1>5. OneFanOut /\ SentInFan /\ WorkBounded
  BY DEF OneFanOut, SentInFan, WorkBounded
<1>6. Untouched
  BY DEF Untouched, Published
<1>7. RoundWatched /\ ClaimResolved /\ ClaimReleases
  BY DEF RoundWatched, ClaimResolved, ClaimReleases, AllBotsTerminal, Recorded
<1>8. QED BY <1>1, <1>2, <1>3, <1>4, <1>5, <1>6, <1>7 DEF IInv

\* A fault is counted, within its bound; a step without one leaves the count.
LEMMA FaultsTyped ==
  ASSUME faults \in 0..MaxFaults, NEW kind, NoFault \/ Fault(kind)
  PROVE  faults' \in 0..MaxFaults /\ (faults' = 0 => NoFault)
<1>1. MaxFaults \in Nat
  BY BattleAssumption
<1>2. CASE NoFault
  BY <1>2 DEF NoFault
<1>3. CASE Fault(kind)
  BY <1>1, <1>3 DEF Fault
<1>4. QED BY <1>2, <1>3

LEMMA MarkPut ==
  ASSUME marks \in [Duels -> SUBSET Sentinels], NEW d \in Duels, NEW m \in Sentinels, Put(d, m)
  PROVE  /\ marks' \in [Duels -> SUBSET Sentinels]
         /\ \A c \in Duels : marks'[c] = IF c = d THEN marks[d] \cup {m} ELSE marks[c]
BY DEF Put

LEMMA Released ==
  ASSUME config \in [on: BOOLEAN, active: Duels \cup {NoDuel}], NEW d, config' = Release(d)
  PROVE  /\ config' \in [on: BOOLEAN, active: Duels \cup {NoDuel}]
         /\ config'.on = config.on
         /\ config'.active = IF config.active = d THEN NoDuel ELSE config.active
<1>1. CASE config.active = d
  <2>1. config' = [config EXCEPT !.active = NoDuel]
    BY <1>1 DEF Release
  <2>2. config' \in [on: BOOLEAN, active: Duels \cup {NoDuel}]
    BY <2>1
  <2>3. config'.on = config.on
    BY <2>1
  <2>4. config'.active = NoDuel
    BY <2>1
  <2>5. QED BY <1>1, <2>2, <2>3, <2>4
<1>2. CASE config.active # d
  BY <1>2 DEF Release
<1>3. QED BY <1>1, <1>2

LEMMA DeliveryTyped ==
  ASSUME NEW f \in Deliveries, Typed, PointersKnown, Start(f) \/ Deliver(f)
  PROVE  Typed'
<1> USE FaultsTyped DEF EnterAts
<1>0. DuelOf[f] \in Duels /\ flow \in [Deliveries -> FlowRecs]
  BY BattleAssumption DEF Typed
<1>1. CASE Start(f)
  <2>1. flow' \in [Deliveries -> FlowRecs]
    <3>1. PICK active \in past :
            flow' = [flow EXCEPT ![f].at = IF active \in {NoDuel, DuelOf[f]} THEN "claim" ELSE "look",
                                 ![f].old = active]
      BY <1>1 DEF Start
    <3>2. active \in Duels \cup {NoDuel}
      BY DEF Typed
    <3>3. PICK at \in EnterAts : at = IF active \in {NoDuel, DuelOf[f]} THEN "claim" ELSE "look"
      OBVIOUS
    <3>4. WroteStart(f, at, active)
      BY <3>1, <3>3 DEF WroteStart
    <3>5. QED BY <1>0, <3>2, <3>4, DeliveryStarts
  <2>2. QED BY <1>1, <2>1 DEF Typed, Start
<1>2. CASE Look(f)
  <2>1. flow' \in [Deliveries -> FlowRecs]
    BY <1>0, <1>2, DeliveryEnters DEF Look
  <2>2. end' \in [Calls -> EndRecs]
    <3>1. CASE end' = end
      BY <3>1 DEF Typed
    <3>2. CASE Ending(f, flow[f].old)
      <4>1. flow[f].old \in Duels \cup {NoDuel}
        BY <1>0 DEF FlowRecs
      <4>2. end' \in [Calls -> EndRecs]
        BY <3>2, <4>1, EndingTyped DEF Calls, Typed
      <4>3. QED BY <4>2
    <3>3. QED BY <1>2, <3>1, <3>2 DEF Look
  <2>3. faults' \in 0..MaxFaults
    BY <1>2 DEF Typed, Look
  <2>4. QED BY <1>2, <2>1, <2>2, <2>3 DEF Typed, Look
<1>3. CASE Superseded(f)
  <2>1. flow' \in [Deliveries -> FlowRecs]
    BY <1>0, <1>3, DeliveryEnters DEF Superseded
  <2>2. QED BY <1>3, <2>1 DEF Typed, Superseded
<1>4. CASE ClaimFanout(f)
  <2>1. marks' \in [Duels -> SUBSET Sentinels]
    BY <1>0, <1>4, MarkPut DEF ClaimFanout, TryClaimRound1Fanout, Typed, Sentinels
  <2>2. flow' \in [Deliveries -> FlowRecs]
    BY <1>0, <1>4, DeliveryEnters DEF ClaimFanout, TryClaimRound1Fanout
  <2>3. faults' \in 0..MaxFaults
    BY <1>4 DEF Typed, ClaimFanout, TryClaimRound1Fanout
  <2>4. QED BY <1>4, <2>1, <2>2, <2>3 DEF Typed, ClaimFanout
<1>5. CASE SetActiveBattle(f)
  <2>1. config' \in [on: BOOLEAN, active: Duels \cup {NoDuel}] /\ past' \subseteq Duels \cup {NoDuel}
    <3>1. CASE UNCHANGED <<config, past>>
      BY <3>1 DEF Typed
    <3>2. CASE config' = [config EXCEPT !.active = DuelOf[f]] /\ past' = past \cup {DuelOf[f]}
      BY <1>0, <3>2 DEF Typed
    <3>3. QED BY <1>5, <3>1, <3>2 DEF SetActiveBattle
  <2>2. flow' \in [Deliveries -> FlowRecs]
    BY <1>0, <1>5, DeliveryEnters DEF SetActiveBattle
  <2>3. faults' \in 0..MaxFaults
    BY <1>5 DEF Typed, SetActiveBattle
  <2>4. QED BY <1>5, <2>1, <2>2, <2>3 DEF Typed, SetActiveBattle
<1>6. ASSUME NEW s \in Sides, InitBotState(f, s) PROVE Typed'
  <2>1. rows' \in [Duels -> [Sides -> States]]
    <3>1. CASE UNCHANGED rows
      BY <3>1 DEF Typed
    <3>2. CASE rows' = [rows EXCEPT ![DuelOf[f]][s] = IF @ = "none" THEN "INVOKED" ELSE @]
      <4>1. PICK v \in States : v = IF rows[DuelOf[f]][s] = "none" THEN "INVOKED" ELSE rows[DuelOf[f]][s]
        BY <1>0 DEF Typed, States, Running
      <4>2. rows' = [rows EXCEPT ![DuelOf[f]][s] = v]
        BY <3>2, <4>1
      <4>3. QED BY <1>0, <4>2, RowWritten DEF Typed
    <3>3. QED BY <1>6, <3>1, <3>2 DEF InitBotState
  <2>2. flow' \in [Deliveries -> FlowRecs]
    BY <1>0, <1>6, DeliverySends DEF InitBotState, WroteSent
  <2>3. faults' \in 0..MaxFaults
    BY <1>6 DEF Typed, InitBotState
  <2>4. QED BY <1>6, <2>1, <2>2, <2>3 DEF Typed, InitBotState
<1>7. ASSUME NEW s \in Sides, InvokeSide(f, s) PROVE Typed'
  <2>1. work' \in [Duels -> [Sides -> WorkRecs]]
    BY <1>0, <1>7, BusyMore DEF Typed, InvokeSide
  <2>2. flow' \in [Deliveries -> FlowRecs]
    BY <1>0, <1>7, DeliverySends DEF InvokeSide, WroteSent
  <2>3. faults' \in 0..MaxFaults
    BY <1>7 DEF Typed, InvokeSide
  <2>4. QED BY <1>7, <2>1, <2>2, <2>3 DEF Typed, InvokeSide
<1>8. QED BY <1>1, <1>2, <1>3, <1>4, <1>5, <1>6, <1>7 DEF Deliver

LEMMA TurnTyped ==
  ASSUME NEW d \in Duels, NEW s \in Sides, Typed,
         Turn(d, s) \/ Unrecorded(d, s) \/ ResumeBotFromWaiting(d, s)
  PROVE  Typed'
<1> USE FaultsTyped
<1>1. CASE Answer(d, s)
  <2>1. work' \in [Duels -> [Sides -> WorkRecs]]
    BY <1>1, BusyLess, Answered DEF Typed, Answer
  <2>2. rows' \in [Duels -> [Sides -> States]]
    <3>1. "COMPLETED" \in States
      BY DEF States, Terminal
    <3>2. rows' = rows \/ rows' = [rows EXCEPT ![d][s] = "COMPLETED"]
      BY <1>1 DEF Answer
    <3>3. QED BY <3>1, <3>2, RowWritten DEF Typed
  <2>3. faults' \in 0..MaxFaults
    BY <1>1 DEF Typed, Answer
  <2>4. QED BY <1>1, <2>1, <2>2, <2>3 DEF Typed, Answer
<1>2. CASE MarkBotWaitingForUser(d, s)
  <2>1. work' \in [Duels -> [Sides -> WorkRecs]]
    BY <1>2, BusyLess DEF Typed, MarkBotWaitingForUser
  <2>2. rows' \in [Duels -> [Sides -> States]]
    <3>1. PICK v \in States : v = IF rows[d][s] = "INVOKED" THEN "WAITING_FOR_USER" ELSE rows[d][s]
      BY DEF Typed, States, Running
    <3>2. rows' = [rows EXCEPT ![d][s] = v]
      BY <1>2, <3>1 DEF MarkBotWaitingForUser
    <3>3. QED BY <3>2, RowWritten DEF Typed
  <2>3. asks' \in 0..MaxAsks
    BY <1>2, BattleAssumption DEF Typed, MarkBotWaitingForUser
  <2>4. QED BY <1>2, <2>1, <2>2, <2>3 DEF Typed, MarkBotWaitingForUser
<1>3. CASE LookRound(d, s)
  <2>1. work' \in [Duels -> [Sides -> WorkRecs]]
    BY <1>3, CheckingLess DEF Typed, LookRound
  <2>2. marks' = marks
    BY <1>3 DEF LookRound, FireIfLast
  <2>4. fires' \in [Duels -> Nat]
    <3>1. fires' = fires \/ fires' = [fires EXCEPT ![d] = @ + 1]
      BY <1>3 DEF LookRound, FireIfLast
    <3>2. CASE fires' = fires
      BY <3>2 DEF Typed
    <3>3. CASE fires' = [fires EXCEPT ![d] = @ + 1]
      BY <3>3 DEF Typed
    <3>4. QED BY <3>1, <3>2, <3>3
  <2>3. faults' \in 0..MaxFaults
    BY <1>3 DEF Typed, LookRound, FireIfLast
  <2>5. QED BY <1>3, <2>1, <2>2, <2>3, <2>4 DEF Typed, LookRound
<1>4. CASE Unrecorded(d, s)
  <2>1. work' \in [Duels -> [Sides -> WorkRecs]]
    BY <1>4, BusyLess DEF Typed, Unrecorded
  <2>2. faults' \in 0..MaxFaults
    BY <1>4 DEF Typed, Unrecorded
  <2>3. QED BY <1>4, <2>1, <2>2 DEF Typed, Unrecorded
<1>5. CASE ResumeBotFromWaiting(d, s)
  <2>1. work' \in [Duels -> [Sides -> WorkRecs]]
    BY <1>5, BusyMore DEF Typed, ResumeBotFromWaiting
  <2>2. rows' \in [Duels -> [Sides -> States]]
    BY <1>5 DEF Typed, ResumeBotFromWaiting, States, Running
  <2>3. faults' \in 0..MaxFaults
    BY <1>5 DEF Typed, ResumeBotFromWaiting
  <2>4. QED BY <1>5, <2>1, <2>2, <2>3 DEF Typed, ResumeBotFromWaiting
<1>6. QED BY <1>1, <1>2, <1>3, <1>4, <1>5 DEF Turn

LEMMA OrchestratorTyped ==
  ASSUME NEW d \in Duels, Typed, Orchestrate(d) \/ Killed(d)
  PROVE  Typed'
<1> USE FaultsTyped DEF OrchAts
<1>1. CASE TryClaimOrchestratorFire(d)
  <2>1. orch' \in [Duels -> OrchRecs]
    <3>1. PICK seen \in SUBSET Sides : seen = Recorded(d)
      BY DEF Recorded
    <3>2. PICK todo \in SUBSET Sides : todo = {s \in Sides : rows[d][s] = "COMPLETED"}
      OBVIOUS
    <3>3. orch' = orch \/ orch' = [orch EXCEPT ![d] = [at |-> "hand", seen |-> seen, todo |-> todo]]
      BY <1>1, <3>1, <3>2 DEF TryClaimOrchestratorFire
    <3>4. QED BY <3>3, OrchWritten DEF Typed
  <2>2. marks' \in [Duels -> SUBSET Sentinels]
    BY <1>1, MarkPut DEF Typed, TryClaimOrchestratorFire, Sentinels
  <2>3. fires' \in [Duels -> Nat]
    BY <1>1 DEF Typed, TryClaimOrchestratorFire
  <2>4. faults' \in 0..MaxFaults
    BY <1>1 DEF Typed, TryClaimOrchestratorFire
  <2>5. QED BY <1>1, <2>1, <2>2, <2>3, <2>4 DEF Typed, TryClaimOrchestratorFire
<1>2. ASSUME NEW s \in Sides, DispatchRebuttalRound(d, s) PROVE Typed'
  <2>1. orch' \in [Duels -> OrchRecs]
    BY <1>2, OrchAsks DEF Typed, DispatchRebuttalRound
  <2>2. rebuttals' \in [Duels -> [Sides -> Nat]]
    BY <1>2, Counted DEF Typed, DispatchRebuttalRound
  <2>3. QED BY <1>2, <2>1, <2>2 DEF Typed, DispatchRebuttalRound
<1>3. CASE ReleaseResolved(d)
  <2>1. orch' \in [Duels -> OrchRecs]
    BY <1>3, OrchMoves DEF Typed, ReleaseResolved
  <2>2. config' \in [on: BOOLEAN, active: Duels \cup {NoDuel}]
    BY <1>3, Released DEF Typed, ReleaseResolved
  <2>3. faults' \in 0..MaxFaults
    BY <1>3 DEF Typed, ReleaseResolved
  <2>4. QED BY <1>3, <2>1, <2>2, <2>3 DEF Typed, ReleaseResolved
<1>4. CASE MarkComplete(d)
  <2>1. orch' \in [Duels -> OrchRecs]
    BY <1>4, OrchMoves DEF Typed, MarkComplete
  <2>2. marks' \in [Duels -> SUBSET Sentinels]
    BY <1>4, MarkPut DEF Typed, MarkComplete, Sentinels
  <2>3. faults' \in 0..MaxFaults
    BY <1>4 DEF Typed, MarkComplete
  <2>4. QED BY <1>4, <2>1, <2>2, <2>3 DEF Typed, MarkComplete
<1>5. CASE Killed(d)
  <2>1. orch' \in [Duels -> OrchRecs]
    BY <1>5, OrchMoves DEF Typed, Killed
  <2>2. fires' \in [Duels -> Nat] /\ faults' \in 0..MaxFaults
    BY <1>5 DEF Typed, Killed
  <2>3. QED BY <1>5, <2>1, <2>2 DEF Typed, Killed
<1>6. QED BY <1>1, <1>2, <1>3, <1>4, <1>5 DEF Orchestrate

LEMMA RequestTyped ==
  ASSUME NEW e \in Enders, Typed,
         Requested(e) \/ Disable(e) \/ \E d \in Duels : ExperimentEnded(e, d)
  PROVE  Typed'
<1>1. end \in [Calls -> EndRecs] /\ e \in Calls
  BY DEF Typed, Calls
<1>2. end' \in [Calls -> EndRecs]
  <2>1. CASE Disable(e)
    <3>1. PICK at \in EndAts : at = IF config.active = NoDuel THEN "delete" ELSE "read"
      BY DEF EndAts
    <3>2. WroteEnd(e, at, config.active, TRUE)
      BY <2>1, <3>1 DEF Disable, WroteEnd
    <3>3. config.active \in Duels \cup {NoDuel}
      BY DEF Typed
    <3>4. QED BY <1>1, <3>2, <3>3, EndStarts
  <2>2. CASE \E d \in Duels \cup {NoDuel} : Ending(e, d)
    BY <1>1, <2>2, EndingTyped
  <2>3. QED BY <2>1, <2>2 DEF Typed, Requested, ExperimentEnded
<1>3. QED BY <1>2 DEF Typed, Requested, Disable, ExperimentEnded

LEMMA EndTyped ==
  ASSUME NEW p \in Calls, Typed, CallsNamed, EndBattle(p)
  PROVE  Typed'
<1> USE FaultsTyped DEF EndAts
<1>0. end \in [Calls -> EndRecs] /\ marks \in [Duels -> SUBSET Sentinels]
  BY DEF Typed
<1>1. CASE EndRead(p)
  <2>1. PICK seen \in SUBSET Sides : WroteFound(p, seen)
    BY <1>1 DEF EndRead, WroteFound
  <2>2. end' \in [Calls -> EndRecs]
    BY <1>0, <2>1, EndReads
  <2>3. faults' \in 0..MaxFaults
    BY <1>1 DEF Typed, EndRead
  <2>4. QED BY <1>1, <2>2, <2>3 DEF Typed, EndRead
<1>2. CASE EndClaim(p)
  <2>1. PICK took \in BOOLEAN : WroteTaken(p, took)
    BY <1>2 DEF EndClaim, WroteTaken
  <2>2. end' \in [Calls -> EndRecs]
    BY <1>0, <2>1, EndClaims
  <2>3. marks' \in [Duels -> SUBSET Sentinels]
    BY <1>0, <1>2, MarkPut DEF EndClaim, CallsNamed, Sentinels
  <2>4. faults' \in 0..MaxFaults
    BY <1>2 DEF Typed, EndClaim
  <2>5. QED BY <1>2, <2>2, <2>3, <2>4 DEF Typed, EndClaim
<1>3. CASE MarkBattleAbandoned(p)
  <2>1. end' \in [Calls -> EndRecs]
    BY <1>0, <1>3, EndMoves DEF MarkBattleAbandoned
  <2>2. marks' \in [Duels -> SUBSET Sentinels]
    BY <1>0, <1>3, MarkPut DEF MarkBattleAbandoned, CallsNamed, Sentinels
  <2>3. faults' \in 0..MaxFaults
    BY <1>3 DEF Typed, MarkBattleAbandoned
  <2>4. QED BY <1>3, <2>1, <2>2, <2>3 DEF Typed, MarkBattleAbandoned
<1>4. ASSUME NEW s \in Sides, AbandonSide(p, s) PROVE Typed'
  <2>1. end' \in [Calls -> EndRecs]
    BY <1>0, <1>4, EndAbandons DEF AbandonSide
  <2>2. rows' \in [Duels -> [Sides -> States]]
    <3>1. end[p].duel \in Duels
      BY <1>4 DEF AbandonSide, CallsNamed
    <3>2. CASE UNCHANGED rows
      BY <3>2 DEF Typed
    <3>3. CASE rows' = [rows EXCEPT ![end[p].duel][s] = IF MayStop(@) THEN "ABANDONED" ELSE @]
      <4>1. PICK v \in States : v = IF MayStop(rows[end[p].duel][s])
                                    THEN "ABANDONED" ELSE rows[end[p].duel][s]
        BY <3>1 DEF Typed, States
      <4>2. rows' = [rows EXCEPT ![end[p].duel][s] = v]
        BY <3>3, <4>1
      <4>3. QED BY <3>1, <4>2, RowWritten DEF Typed
    <3>4. QED BY <1>4, <3>2, <3>3 DEF AbandonSide
  <2>3. faults' \in 0..MaxFaults
    BY <1>4 DEF Typed, AbandonSide
  <2>4. QED BY <1>4, <2>1, <2>2, <2>3 DEF Typed, AbandonSide
<1>5. CASE ClearActiveBattle(p)
  <2>1. PICK at \in EndAts : end' = [end EXCEPT ![p].at = at]
    BY <1>5 DEF ClearActiveBattle
  <2>2. end' \in [Calls -> EndRecs]
    BY <1>0, <2>1, EndMoves
  <2>3. config' \in [on: BOOLEAN, active: Duels \cup {NoDuel}]
    BY <1>5, Released DEF Typed, ClearActiveBattle
  <2>4. faults' \in 0..MaxFaults
    BY <1>5 DEF Typed, ClearActiveBattle
  <2>5. QED BY <1>5, <2>2, <2>3, <2>4 DEF Typed, ClearActiveBattle
<1>6. CASE DeleteConfig(p)
  <2>1. end' \in [Calls -> EndRecs]
    BY <1>0, <1>6, EndMoves DEF DeleteConfig
  <2>2. QED BY <1>6, <2>1 DEF Typed, DeleteConfig
<1>7. QED BY <1>1, <1>2, <1>3, <1>4, <1>5, <1>6 DEF EndBattle

LEMMA TypedKept == ASSUME IInv, Next PROVE Typed'
<1>1. CASE Enable
  BY <1>1 DEF IInv, Typed, Enable
<1>2. QED BY <1>1, DeliveryTyped, TurnTyped, OrchestratorTyped, RequestTyped, EndTyped
          DEF Next, IInv, Calls

-----------------------------------------------------------------------------
(* What a step leaves.                                                     *)

\* Only a step of a delivery moves one.
LEMMA FlowWriters ==
  ASSUME Next
  PROVE  \/ flow' = flow
         \/ \E f \in Deliveries :
              Start(f) \/ Look(f) \/ Superseded(f) \/ ClaimFanout(f) \/ SetActiveBattle(f)
         \/ \E f \in Deliveries, s \in Sides : InitBotState(f, s) \/ InvokeSide(f, s)
<1>1. ASSUME NEW d \in Duels, NEW s \in Sides,
             Turn(d, s) \/ Unrecorded(d, s) \/ ResumeBotFromWaiting(d, s)
      PROVE  flow' = flow
  BY <1>1 DEF Turn, Answer, MarkBotWaitingForUser, LookRound, FireIfLast, Unrecorded,
      ResumeBotFromWaiting
<1>2. ASSUME NEW d \in Duels, Orchestrate(d) \/ Killed(d)
      PROVE  flow' = flow
  BY <1>2 DEF Orchestrate, TryClaimOrchestratorFire, DispatchRebuttalRound, ReleaseResolved,
      MarkComplete, Killed
<1>3. ASSUME NEW e \in Enders,
             Requested(e) \/ Disable(e) \/ \E d \in Duels : ExperimentEnded(e, d)
      PROVE  flow' = flow
  BY <1>3 DEF Requested, Disable, ExperimentEnded
<1>4. ASSUME NEW p \in Calls, EndBattle(p)
      PROVE  flow' = flow
  BY <1>4 DEF EndBattle, EndRead, EndClaim, MarkBattleAbandoned, AbandonSide, ClearActiveBattle,
      DeleteConfig
<1>5. QED BY <1>1, <1>2, <1>3, <1>4 DEF Next, Enable, Calls, Deliver, Turn, Orchestrate, EndBattle

\* Who writes a sentinel row.
LEMMA MarksWriters ==
  ASSUME Next
  PROVE  \/ marks' = marks
         \/ \E f \in Deliveries : ClaimFanout(f)
         \/ \E d \in Duels : TryClaimOrchestratorFire(d) \/ MarkComplete(d)
         \/ \E p \in Calls : EndClaim(p) \/ MarkBattleAbandoned(p)
<1>1. ASSUME NEW f \in Deliveries, Start(f) \/ Deliver(f),
             ~ClaimFanout(f)
      PROVE  marks' = marks
  BY <1>1 DEF Deliver, Start, Look, Superseded, SetActiveBattle, InitBotState, InvokeSide
<1>2. ASSUME NEW d \in Duels, NEW s \in Sides,
             Turn(d, s) \/ Unrecorded(d, s) \/ ResumeBotFromWaiting(d, s)
      PROVE  marks' = marks
  BY <1>2 DEF Turn, Answer, MarkBotWaitingForUser, LookRound, FireIfLast, Unrecorded,
      ResumeBotFromWaiting
<1>3. ASSUME NEW d \in Duels, Orchestrate(d) \/ Killed(d),
             ~TryClaimOrchestratorFire(d), ~MarkComplete(d)
      PROVE  marks' = marks
  BY <1>3 DEF Orchestrate, DispatchRebuttalRound, ReleaseResolved, Killed
<1>4. ASSUME NEW e \in Enders,
             Requested(e) \/ Disable(e) \/ \E d \in Duels : ExperimentEnded(e, d)
      PROVE  marks' = marks
  BY <1>4 DEF Requested, Disable, ExperimentEnded
<1>5. ASSUME NEW p \in Calls, EndBattle(p),
             ~EndClaim(p), ~MarkBattleAbandoned(p)
      PROVE  marks' = marks
  BY <1>5 DEF EndBattle, EndRead, AbandonSide, ClearActiveBattle, DeleteConfig
<1>6. QED
  BY <1>1, <1>2, <1>3, <1>4, <1>5
     DEF Next, Enable, Calls, Deliver, Turn, Orchestrate, EndBattle

\* Who writes a side's row.
LEMMA RowsWriters ==
  ASSUME Next
  PROVE  \/ rows' = rows
         \/ \E f \in Deliveries, s \in Sides : InitBotState(f, s)
         \/ \E d \in Duels, s \in Sides :
              Answer(d, s) \/ MarkBotWaitingForUser(d, s) \/ ResumeBotFromWaiting(d, s)
         \/ \E p \in Calls, s \in Sides : AbandonSide(p, s)
<1>1. ASSUME NEW f \in Deliveries, Start(f) \/ Deliver(f),
             \A s \in Sides : ~InitBotState(f, s)
      PROVE  rows' = rows
  BY <1>1 DEF Deliver, Start, Look, Superseded, ClaimFanout, TryClaimRound1Fanout,
      SetActiveBattle, InvokeSide
<1>2. ASSUME NEW d \in Duels, NEW s \in Sides,
             Turn(d, s) \/ Unrecorded(d, s) \/ ResumeBotFromWaiting(d, s),
             ~Answer(d, s), ~MarkBotWaitingForUser(d, s), ~ResumeBotFromWaiting(d, s)
      PROVE  rows' = rows
  BY <1>2 DEF Turn, LookRound, FireIfLast, Unrecorded
<1>3. ASSUME NEW d \in Duels, Orchestrate(d) \/ Killed(d)
      PROVE  rows' = rows
  BY <1>3 DEF Orchestrate, TryClaimOrchestratorFire, DispatchRebuttalRound, ReleaseResolved,
      MarkComplete, Killed
<1>4. ASSUME NEW e \in Enders,
             Requested(e) \/ Disable(e) \/ \E d \in Duels : ExperimentEnded(e, d)
      PROVE  rows' = rows
  BY <1>4 DEF Requested, Disable, ExperimentEnded
<1>5. ASSUME NEW p \in Calls, EndBattle(p),
             \A s \in Sides : ~AbandonSide(p, s)
      PROVE  rows' = rows
  BY <1>5 DEF EndBattle, EndRead, EndClaim, MarkBattleAbandoned, ClearActiveBattle, DeleteConfig
<1>6. QED
  BY <1>1, <1>2, <1>3, <1>4, <1>5
     DEF Next, Enable, Calls, Deliver, Turn, Orchestrate, EndBattle

\* Who starts or ends a turn, or an inspection of the round.
LEMMA WorkWriters ==
  ASSUME Next
  PROVE  \/ work' = work
         \/ \E f \in Deliveries, s \in Sides : InvokeSide(f, s)
         \/ \E d \in Duels, s \in Sides :
              Answer(d, s) \/ MarkBotWaitingForUser(d, s) \/ LookRound(d, s) \/ Unrecorded(d, s) \/ ResumeBotFromWaiting(d, s)
<1>1. ASSUME NEW f \in Deliveries, Start(f) \/ Deliver(f),
             \A s \in Sides : ~InvokeSide(f, s)
      PROVE  work' = work
  BY <1>1 DEF Deliver, Start, Look, Superseded, ClaimFanout, TryClaimRound1Fanout,
      SetActiveBattle, InitBotState
<1>2. ASSUME NEW d \in Duels, Orchestrate(d) \/ Killed(d)
      PROVE  work' = work
  BY <1>2 DEF Orchestrate, TryClaimOrchestratorFire, DispatchRebuttalRound, ReleaseResolved,
      MarkComplete, Killed
<1>3. ASSUME NEW e \in Enders,
             Requested(e) \/ Disable(e) \/ \E d \in Duels : ExperimentEnded(e, d)
      PROVE  work' = work
  BY <1>3 DEF Requested, Disable, ExperimentEnded
<1>4. ASSUME NEW p \in Calls, EndBattle(p)
      PROVE  work' = work
  BY <1>4 DEF EndBattle, EndRead, EndClaim, MarkBattleAbandoned, AbandonSide, ClearActiveBattle,
      DeleteConfig
<1>5. QED BY <1>1, <1>2, <1>3, <1>4 DEF Next, Enable, Calls, Deliver, Turn, Orchestrate, EndBattle

\* Who sends the orchestrator, and who receives it.
LEMMA FiresWriters ==
  ASSUME Next
  PROVE  \/ fires' = fires
         \/ \E d \in Duels, s \in Sides : LookRound(d, s)
         \/ \E d \in Duels : TryClaimOrchestratorFire(d) \/ Killed(d)
<1>1. ASSUME NEW f \in Deliveries, Start(f) \/ Deliver(f)
      PROVE  fires' = fires
  BY <1>1 DEF Deliver, Start, Look, Superseded, ClaimFanout, TryClaimRound1Fanout,
      SetActiveBattle, InitBotState, InvokeSide
<1>2. ASSUME NEW d \in Duels, NEW s \in Sides,
             Turn(d, s) \/ Unrecorded(d, s) \/ ResumeBotFromWaiting(d, s),
             ~LookRound(d, s)
      PROVE  fires' = fires
  BY <1>2 DEF Turn, Answer, MarkBotWaitingForUser, Unrecorded, ResumeBotFromWaiting
<1>3. ASSUME NEW d \in Duels, Orchestrate(d) \/ Killed(d),
             ~TryClaimOrchestratorFire(d), ~Killed(d)
      PROVE  fires' = fires
  BY <1>3 DEF Orchestrate, DispatchRebuttalRound, ReleaseResolved, MarkComplete
<1>4. ASSUME NEW e \in Enders,
             Requested(e) \/ Disable(e) \/ \E d \in Duels : ExperimentEnded(e, d)
      PROVE  fires' = fires
  BY <1>4 DEF Requested, Disable, ExperimentEnded
<1>5. ASSUME NEW p \in Calls, EndBattle(p)
      PROVE  fires' = fires
  BY <1>5 DEF EndBattle, EndRead, EndClaim, MarkBattleAbandoned, AbandonSide, ClearActiveBattle,
      DeleteConfig
<1>6. QED
  BY <1>1, <1>2, <1>3, <1>4, <1>5
     DEF Next, Enable, Calls, Deliver, Turn, Orchestrate, EndBattle

\* Only a step of an orchestrator moves one.
LEMMA OrchWriters ==
  ASSUME Next
  PROVE  \/ orch' = orch
         \/ \E d \in Duels :
              TryClaimOrchestratorFire(d) \/ ReleaseResolved(d) \/ MarkComplete(d) \/ Killed(d)
         \/ \E d \in Duels, s \in Sides : DispatchRebuttalRound(d, s)
<1>1. ASSUME NEW f \in Deliveries, Start(f) \/ Deliver(f)
      PROVE  orch' = orch
  BY <1>1 DEF Deliver, Start, Look, Superseded, ClaimFanout, TryClaimRound1Fanout,
      SetActiveBattle, InitBotState, InvokeSide
<1>2. ASSUME NEW d \in Duels, NEW s \in Sides,
             Turn(d, s) \/ Unrecorded(d, s) \/ ResumeBotFromWaiting(d, s)
      PROVE  orch' = orch
  BY <1>2 DEF Turn, Answer, MarkBotWaitingForUser, LookRound, FireIfLast, Unrecorded,
      ResumeBotFromWaiting
<1>3. ASSUME NEW e \in Enders,
             Requested(e) \/ Disable(e) \/ \E d \in Duels : ExperimentEnded(e, d)
      PROVE  orch' = orch
  BY <1>3 DEF Requested, Disable, ExperimentEnded
<1>4. ASSUME NEW p \in Calls, EndBattle(p)
      PROVE  orch' = orch
  BY <1>4 DEF EndBattle, EndRead, EndClaim, MarkBattleAbandoned, AbandonSide, ClearActiveBattle,
      DeleteConfig
<1>5. QED BY <1>1, <1>2, <1>3, <1>4 DEF Next, Enable, Calls, Deliver, Turn, Orchestrate, EndBattle

\* Who starts an end, and the steps of one.
LEMMA EndWriters ==
  ASSUME Next
  PROVE  \/ end' = end
         \/ \E f \in Deliveries : Look(f)
         \/ \E e \in Enders : Requested(e) \/ Disable(e)
         \/ \E e \in Enders, d \in Duels : ExperimentEnded(e, d)
         \/ \E p \in Calls :
              EndRead(p) \/ EndClaim(p) \/ MarkBattleAbandoned(p) \/ ClearActiveBattle(p) \/ DeleteConfig(p)
         \/ \E p \in Calls, s \in Sides : AbandonSide(p, s)
<1>1. ASSUME NEW f \in Deliveries, Start(f) \/ Deliver(f),
             ~Look(f)
      PROVE  end' = end
  BY <1>1 DEF Deliver, Start, Superseded, ClaimFanout, TryClaimRound1Fanout, SetActiveBattle,
      InitBotState, InvokeSide
<1>2. ASSUME NEW d \in Duels, NEW s \in Sides,
             Turn(d, s) \/ Unrecorded(d, s) \/ ResumeBotFromWaiting(d, s)
      PROVE  end' = end
  BY <1>2 DEF Turn, Answer, MarkBotWaitingForUser, LookRound, FireIfLast, Unrecorded,
      ResumeBotFromWaiting
<1>3. ASSUME NEW d \in Duels, Orchestrate(d) \/ Killed(d)
      PROVE  end' = end
  BY <1>3 DEF Orchestrate, TryClaimOrchestratorFire, DispatchRebuttalRound, ReleaseResolved,
      MarkComplete, Killed
<1>4. QED BY <1>1, <1>2, <1>3 DEF Next, Enable, Calls, Deliver, Turn, Orchestrate, EndBattle

\* Who writes the channel's pointer.
LEMMA ConfigWriters ==
  ASSUME Next
  PROVE  \/ config' = config \/ Enable
         \/ \E f \in Deliveries : SetActiveBattle(f)
         \/ \E d \in Duels : ReleaseResolved(d)
         \/ \E p \in Calls : ClearActiveBattle(p) \/ DeleteConfig(p)
<1>1. ASSUME NEW f \in Deliveries, Start(f) \/ Deliver(f), ~SetActiveBattle(f)
      PROVE  config' = config
  BY <1>1 DEF Deliver, Start, Look, Superseded, ClaimFanout, InitBotState, InvokeSide
<1>2. ASSUME NEW d \in Duels, NEW s \in Sides,
             Turn(d, s) \/ Unrecorded(d, s) \/ ResumeBotFromWaiting(d, s)
      PROVE  config' = config
  BY <1>2 DEF Turn, Answer, MarkBotWaitingForUser, LookRound, Unrecorded, ResumeBotFromWaiting
<1>3. ASSUME NEW d \in Duels, Orchestrate(d) \/ Killed(d), ~ReleaseResolved(d)
      PROVE  config' = config
  BY <1>3 DEF Orchestrate, TryClaimOrchestratorFire, DispatchRebuttalRound, MarkComplete, Killed
<1>4. ASSUME NEW e \in Enders,
             Requested(e) \/ Disable(e) \/ \E d \in Duels : ExperimentEnded(e, d)
      PROVE  config' = config
  BY <1>4 DEF Requested, Disable, ExperimentEnded
<1>5. ASSUME NEW p \in Calls, EndBattle(p), ~ClearActiveBattle(p), ~DeleteConfig(p)
      PROVE  config' = config
  BY <1>5 DEF EndBattle, EndRead, EndClaim, MarkBattleAbandoned, AbandonSide
<1>6. QED BY <1>1, <1>2, <1>3, <1>4, <1>5 DEF Next, Calls

\* A step that meets a fault counts it: with none counted, none was met.
LEMMA FaultsGrow == ASSUME IInv, Next, faults' = 0 PROVE NoFault
<1>1. faults \in Nat
  BY BattleAssumption DEF IInv, Typed
<1>2. \A kind : ~Fault(kind)
  BY <1>1 DEF Fault
<1>3. ASSUME NEW f \in Deliveries, Start(f) \/ Deliver(f) PROVE NoFault
  BY <1>2, <1>3 DEF Start, Deliver, Look, Superseded, ClaimFanout, TryClaimRound1Fanout,
     SetActiveBattle, InitBotState, InvokeSide, NoFault
<1>4. ASSUME NEW d \in Duels, NEW s \in Sides,
             Turn(d, s) \/ Unrecorded(d, s) \/ ResumeBotFromWaiting(d, s)
      PROVE  NoFault
  BY <1>2, <1>4 DEF Turn, Answer, MarkBotWaitingForUser, LookRound, FireIfLast, Unrecorded,
     ResumeBotFromWaiting, NoFault
<1>5. ASSUME NEW d \in Duels, Orchestrate(d) \/ Killed(d) PROVE NoFault
  BY <1>2, <1>5 DEF Orchestrate, TryClaimOrchestratorFire, DispatchRebuttalRound,
     ReleaseResolved, MarkComplete, Killed, NoFault
<1>6. ASSUME NEW p, EndBattle(p) PROVE NoFault
  BY <1>2, <1>6 DEF EndBattle, EndRead, EndClaim, MarkBattleAbandoned, AbandonSide,
     ClearActiveBattle, DeleteConfig, NoFault
<1>7. QED BY <1>3, <1>4, <1>5, <1>6 DEF Next, Requested, Disable, ExperimentEnded, Enable, NoFault

\* A sentinel row, once written, stays.
LEMMA MarksGrow == ASSUME IInv, Next PROVE \A d \in Duels : marks[d] \subseteq marks'[d]
<1>1. marks \in [Duels -> SUBSET Sentinels]
  BY DEF IInv, Typed
<1>2. CASE marks' = marks
  BY <1>2
<1>3. ASSUME NEW d, NEW m, Put(d, m)
      PROVE  \A c \in Duels : marks[c] \subseteq marks'[c]
  BY <1>1, <1>3 DEF Put
<1>4. ASSUME NEW f \in Deliveries, ClaimFanout(f)
      PROVE  \A c \in Duels : marks[c] \subseteq marks'[c]
  BY <1>2, <1>3, <1>4 DEF ClaimFanout, TryClaimRound1Fanout
<1>5. ASSUME NEW d \in Duels, TryClaimOrchestratorFire(d) \/ MarkComplete(d)
      PROVE  \A c \in Duels : marks[c] \subseteq marks'[c]
  BY <1>2, <1>3, <1>5 DEF TryClaimOrchestratorFire, MarkComplete
<1>6. ASSUME NEW p, EndClaim(p) \/ MarkBattleAbandoned(p)
      PROVE  \A c \in Duels : marks[c] \subseteq marks'[c]
  BY <1>2, <1>3, <1>6 DEF EndClaim, MarkBattleAbandoned
<1>7. QED BY <1>2, <1>4, <1>5, <1>6, MarksWriters

\* A pointer the row has named stays known.
LEMMA PastGrows == ASSUME IInv, Next PROVE past \subseteq past'
<1>1. ASSUME NEW f \in Deliveries, Start(f) \/ Deliver(f) PROVE past \subseteq past'
  BY <1>1 DEF Deliver, Start, Look, Superseded, ClaimFanout, SetActiveBattle, InitBotState,
     InvokeSide
<1>2. ASSUME NEW d \in Duels, NEW s \in Sides,
             Turn(d, s) \/ Unrecorded(d, s) \/ ResumeBotFromWaiting(d, s)
      PROVE  past \subseteq past'
  BY <1>2 DEF Turn, Answer, MarkBotWaitingForUser, LookRound, Unrecorded, ResumeBotFromWaiting
<1>3. ASSUME NEW d \in Duels, Orchestrate(d) \/ Killed(d) PROVE past \subseteq past'
  BY <1>3 DEF Orchestrate, TryClaimOrchestratorFire, DispatchRebuttalRound, ReleaseResolved,
     MarkComplete, Killed
<1>4. ASSUME NEW e \in Enders,
             Requested(e) \/ Disable(e) \/ \E d \in Duels : ExperimentEnded(e, d)
      PROVE  past \subseteq past'
  BY <1>4 DEF Requested, Disable, ExperimentEnded
<1>5. ASSUME NEW p, EndBattle(p) PROVE past \subseteq past'
  BY <1>5 DEF EndBattle, EndRead, EndClaim, MarkBattleAbandoned, AbandonSide, ClearActiveBattle,
     DeleteConfig
<1>6. CASE Enable
  BY <1>6 DEF Enable
<1>7. QED BY <1>1, <1>2, <1>3, <1>4, <1>5, <1>6 DEF Next

(* Every write of a row is conditional on the row it meets: what a step may *)
(* do to the row of a side, and which step does it.                         *)
RowMoves(d, s) ==
    \/ rows'[d][s] = rows[d][s]
    \/ rows[d][s] = "none" /\ rows'[d][s] = "INVOKED" /\ \E f \in Deliveries :
         DuelOf[f] = d /\ InitBotState(f, s)
    \/ MayStop(rows[d][s]) /\ rows'[d][s] = "COMPLETED" /\ Answer(d, s)
    \/ rows[d][s] = "INVOKED" /\ rows'[d][s] = "WAITING_FOR_USER" /\ MarkBotWaitingForUser(d, s)
    \/ rows[d][s] = "WAITING_FOR_USER" /\ rows'[d][s] = "INVOKED" /\ ResumeBotFromWaiting(d, s)
    \/ MayStop(rows[d][s]) /\ rows'[d][s] = "ABANDONED" /\ \E p \in Calls :
         end[p].duel = d /\ AbandonSide(p, s)

LEMMA RowsMove == ASSUME IInv, Next PROVE \A d \in Duels, s \in Sides : RowMoves(d, s)
<1>1. rows \in [Duels -> [Sides -> States]]
  BY DEF IInv, Typed
<1>2. CASE rows' = rows
  BY <1>2 DEF RowMoves
<1>3. ASSUME NEW f \in Deliveries, NEW t \in Sides, InitBotState(f, t)
      PROVE  \A d \in Duels, s \in Sides : RowMoves(d, s)
  <2>1. CASE rows' = [rows EXCEPT ![DuelOf[f]][t] = IF @ = "none" THEN "INVOKED" ELSE @]
    <3>1. DuelOf[f] \in Duels
      BY BattleAssumption
    <3>2. \A d \in Duels, s \in Sides :
            rows'[d][s] = IF d = DuelOf[f] /\ s = t
                          THEN IF rows[d][s] = "none" THEN "INVOKED" ELSE rows[d][s]
                          ELSE rows[d][s]
      BY <1>1, <2>1, <3>1
    <3>3. QED BY <1>3, <3>2 DEF RowMoves
  <2>2. QED BY <1>2, <1>3, <2>1 DEF InitBotState
<1>4. ASSUME NEW c \in Duels, NEW t \in Sides, Answer(c, t)
      PROVE  \A d \in Duels, s \in Sides : RowMoves(d, s)
  <2>1. CASE MayStop(rows[c][t]) /\ rows' = [rows EXCEPT ![c][t] = "COMPLETED"]
    <3>1. \A d \in Duels, s \in Sides :
            rows'[d][s] = IF d = c /\ s = t THEN "COMPLETED" ELSE rows[d][s]
      BY <1>1, <2>1
    <3>2. QED BY <1>4, <2>1, <3>1 DEF RowMoves
  <2>2. QED BY <1>2, <1>4, <2>1 DEF Answer
<1>5. ASSUME NEW c \in Duels, NEW t \in Sides, MarkBotWaitingForUser(c, t)
      PROVE  \A d \in Duels, s \in Sides : RowMoves(d, s)
  <2>1. rows' = [rows EXCEPT ![c][t] = IF @ = "INVOKED" THEN "WAITING_FOR_USER" ELSE @]
    BY <1>5 DEF MarkBotWaitingForUser
  <2>2. \A d \in Duels, s \in Sides :
          rows'[d][s] = IF d = c /\ s = t
                        THEN IF rows[d][s] = "INVOKED" THEN "WAITING_FOR_USER" ELSE rows[d][s]
                        ELSE rows[d][s]
    BY <1>1, <2>1
  <2>3. QED BY <1>5, <2>2 DEF RowMoves
<1>6. ASSUME NEW c \in Duels, NEW t \in Sides, ResumeBotFromWaiting(c, t)
      PROVE  \A d \in Duels, s \in Sides : RowMoves(d, s)
  <2>1. /\ rows[c][t] = "WAITING_FOR_USER"
        /\ rows' = [rows EXCEPT ![c][t] = "INVOKED"]
    BY <1>6 DEF ResumeBotFromWaiting, Resumable
  <2>2. \A d \in Duels, s \in Sides :
          rows'[d][s] = IF d = c /\ s = t THEN "INVOKED" ELSE rows[d][s]
    BY <1>1, <2>1
  <2>3. QED BY <1>6, <2>1, <2>2 DEF RowMoves
<1>7. ASSUME NEW p \in Calls, NEW t \in Sides, AbandonSide(p, t)
      PROVE  \A d \in Duels, s \in Sides : RowMoves(d, s)
  <2>1. CASE rows' = [rows EXCEPT ![end[p].duel][t] = IF MayStop(@) THEN "ABANDONED" ELSE @]
    <3>1. end[p].duel \in Duels
      BY <1>7 DEF AbandonSide, IInv, CallsNamed
    <3>2. \A d \in Duels, s \in Sides :
            rows'[d][s] = IF d = end[p].duel /\ s = t
                          THEN IF MayStop(rows[d][s]) THEN "ABANDONED" ELSE rows[d][s]
                          ELSE rows[d][s]
      BY <1>1, <2>1, <3>1
    <3>3. QED BY <1>7, <3>2 DEF RowMoves
  <2>2. QED BY <1>2, <1>7, <2>1 DEF AbandonSide
<1>8. QED BY <1>2, <1>3, <1>4, <1>5, <1>6, <1>7, RowsWriters

\* A side that has answered, failed or been abandoned stays so.
LEMMA SettledStays ==
  ASSUME IInv, Next
  PROVE  \A d \in Duels, s \in Sides :
            /\ rows[d][s] \in Settled => rows'[d][s] = rows[d][s]
            /\ rows[d][s] # "none" => rows'[d][s] # "none"
BY RowsMove DEF RowMoves, Settled, Terminal, MayStop, Running

\* A step meets a fault or none, not both.
LEMMA OneOutcome == ASSUME IInv, NEW kind PROVE ~(NoFault /\ Fault(kind))
BY BattleAssumption DEF IInv, Typed, NoFault, Fault

-----------------------------------------------------------------------------
(* Every actor moves its own record: what happened to one, and by which step. *)

LEMMA FlowOwn ==
  ASSUME IInv, Next, NEW g \in Deliveries
  PROVE  \/ flow'[g] = flow[g]
         \/ Start(g) \/ Look(g) \/ Superseded(g) \/ ClaimFanout(g) \/ SetActiveBattle(g)
         \/ \E s \in Sides : InitBotState(g, s) \/ InvokeSide(g, s)
<1>1. flow \in [Deliveries -> FlowRecs]
  BY DEF IInv, Typed
<1>2. ASSUME NEW f \in Deliveries, f # g,
             Start(f) \/ Look(f) \/ Superseded(f) \/ ClaimFanout(f) \/ SetActiveBattle(f)
      PROVE  flow'[g] = flow[g]
  BY <1>1, <1>2 DEF Start, Look, Superseded, ClaimFanout, TryClaimRound1Fanout,
     SetActiveBattle, Enter
<1>3. ASSUME NEW f \in Deliveries, f # g, NEW s \in Sides, InitBotState(f, s) \/ InvokeSide(f, s)
      PROVE  flow'[g] = flow[g]
  BY <1>1, <1>3 DEF InitBotState, InvokeSide
<1>4. QED BY <1>2, <1>3, FlowWriters

LEMMA OrchOwn ==
  ASSUME IInv, Next, NEW c \in Duels
  PROVE  \/ orch'[c] = orch[c]
         \/ TryClaimOrchestratorFire(c) \/ ReleaseResolved(c) \/ MarkComplete(c) \/ Killed(c)
         \/ \E s \in Sides : DispatchRebuttalRound(c, s)
<1>1. orch \in [Duels -> OrchRecs]
  BY DEF IInv, Typed
<1>2. ASSUME NEW d \in Duels, d # c,
             TryClaimOrchestratorFire(d) \/ ReleaseResolved(d) \/ MarkComplete(d) \/ Killed(d)
      PROVE  orch'[c] = orch[c]
  BY <1>1, <1>2 DEF TryClaimOrchestratorFire, ReleaseResolved, MarkComplete, Killed
<1>3. ASSUME NEW d \in Duels, d # c, NEW s \in Sides, DispatchRebuttalRound(d, s)
      PROVE  orch'[c] = orch[c]
  BY <1>1, <1>3 DEF DispatchRebuttalRound
<1>4. QED BY <1>2, <1>3, OrchWriters

LEMMA EndOwn ==
  ASSUME IInv, Next, NEW q \in Calls
  PROVE  \/ end'[q] = end[q]
         \/ q \in Deliveries /\ Look(q)
         \/ q \in Enders /\ (Requested(q) \/ Disable(q) \/ \E d \in Duels : ExperimentEnded(q, d))
         \/ EndRead(q) \/ EndClaim(q) \/ MarkBattleAbandoned(q) \/ ClearActiveBattle(q)
         \/ DeleteConfig(q) \/ \E s \in Sides : AbandonSide(q, s)
<1>1. end \in [Calls -> EndRecs]
  BY DEF IInv, Typed
<1>2. ASSUME NEW f \in Deliveries, f # q, Look(f) PROVE end'[q] = end[q]
  BY <1>1, <1>2 DEF Look, Ending
<1>3. ASSUME NEW e \in Enders, e # q,
             Requested(e) \/ Disable(e) \/ \E d \in Duels : ExperimentEnded(e, d)
      PROVE  end'[q] = end[q]
  BY <1>1, <1>3 DEF Requested, Disable, ExperimentEnded, Ending
<1>4. ASSUME NEW p \in Calls, p # q,
             \/ EndRead(p) \/ EndClaim(p) \/ MarkBattleAbandoned(p) \/ ClearActiveBattle(p)
             \/ DeleteConfig(p) \/ \E s \in Sides : AbandonSide(p, s)
      PROVE  end'[q] = end[q]
  BY <1>1, <1>4 DEF EndRead, EndClaim, MarkBattleAbandoned, ClearActiveBattle, DeleteConfig,
     AbandonSide
<1>5. QED BY <1>2, <1>3, <1>4, EndWriters

LEMMA WorkOwn ==
  ASSUME IInv, Next, NEW c \in Duels, NEW t \in Sides
  PROVE  \/ work'[c][t] = work[c][t]
         \/ \E f \in Deliveries : DuelOf[f] = c /\ InvokeSide(f, t)
         \/ Answer(c, t) \/ MarkBotWaitingForUser(c, t) \/ LookRound(c, t) \/ Unrecorded(c, t)
         \/ ResumeBotFromWaiting(c, t)
<1>1. work \in [Duels -> [Sides -> WorkRecs]]
  BY DEF IInv, Typed
<1>2. ASSUME NEW f \in Deliveries, NEW s \in Sides, InvokeSide(f, s), ~(DuelOf[f] = c /\ s = t)
      PROVE  work'[c][t] = work[c][t]
  BY <1>1, <1>2 DEF InvokeSide
<1>3. ASSUME NEW d \in Duels, NEW s \in Sides, ~(d = c /\ s = t),
             \/ Answer(d, s) \/ MarkBotWaitingForUser(d, s) \/ LookRound(d, s) \/ Unrecorded(d, s)
             \/ ResumeBotFromWaiting(d, s)
      PROVE  work'[c][t] = work[c][t]
  BY <1>1, <1>3 DEF Answer, MarkBotWaitingForUser, LookRound, Unrecorded, ResumeBotFromWaiting
<1>4. QED BY <1>2, <1>3, WorkWriters

LEMMA FiresOwn ==
  ASSUME IInv, Next, NEW c \in Duels
  PROVE  \/ fires'[c] = fires[c] \/ TryClaimOrchestratorFire(c) \/ Killed(c)
         \/ \E s \in Sides : LookRound(c, s)
<1>1. fires \in [Duels -> Nat]
  BY DEF IInv, Typed
<1>2. ASSUME NEW d \in Duels, d # c, TryClaimOrchestratorFire(d) \/ Killed(d)
      PROVE  fires'[c] = fires[c]
  BY <1>1, <1>2 DEF TryClaimOrchestratorFire, Killed
<1>3. ASSUME NEW d \in Duels, d # c, NEW s \in Sides, LookRound(d, s)
      PROVE  fires'[c] = fires[c]
  BY <1>1, <1>3 DEF LookRound, FireIfLast
<1>4. QED BY <1>2, <1>3, FiresWriters

\* Who adds which sentinel to a duel.
LEMMA MarksOwn ==
  ASSUME IInv, Next, NEW c \in Duels, NEW m, m \in marks'[c], m \notin marks[c]
  PROVE  \/ m = "round1" /\ \E f \in Deliveries : DuelOf[f] = c /\ ClaimFanout(f)
         \/ m = "orchestrator" /\ TryClaimOrchestratorFire(c)
         \/ m = "orchestrator" /\ \E p \in Calls : end[p].duel = c /\ EndClaim(p)
         \/ m = "complete" /\ MarkComplete(c)
         \/ m = "abandoned" /\ \E p \in Calls : end[p].duel = c /\ MarkBattleAbandoned(p)
<1>1. marks \in [Duels -> SUBSET Sentinels]
  BY DEF IInv, Typed
<1>2. ASSUME NEW d, NEW k, Put(d, k) \/ UNCHANGED marks PROVE d = c /\ m = k
  BY <1>1, <1>2 DEF Put
<1>3. ASSUME NEW f \in Deliveries, ClaimFanout(f) PROVE DuelOf[f] = c /\ m = "round1"
  BY <1>2, <1>3 DEF ClaimFanout, TryClaimRound1Fanout
<1>4. ASSUME NEW d \in Duels, TryClaimOrchestratorFire(d) PROVE d = c /\ m = "orchestrator"
  BY <1>2, <1>4 DEF TryClaimOrchestratorFire
<1>5. ASSUME NEW d \in Duels, MarkComplete(d) PROVE d = c /\ m = "complete"
  BY <1>2, <1>5 DEF MarkComplete
<1>6. ASSUME NEW p \in Calls, EndClaim(p) PROVE end[p].duel = c /\ m = "orchestrator"
  BY <1>2, <1>6 DEF EndClaim
<1>7. ASSUME NEW p \in Calls, MarkBattleAbandoned(p) PROVE end[p].duel = c /\ m = "abandoned"
  BY <1>2, <1>7 DEF MarkBattleAbandoned
<1>8. CASE marks' = marks
  BY <1>8
<1>9. QED BY <1>3, <1>4, <1>5, <1>6, <1>7, <1>8, MarksWriters

-----------------------------------------------------------------------------
(* What a step does to the record of its actor.                            *)

LEMMA StartMoves ==
  ASSUME IInv, NEW f \in Deliveries, Start(f)
  PROVE  /\ flow[f].at = "idle" /\ flow'[f].at \in {"claim", "look"}
         /\ flow'[f].old \in past /\ (flow'[f].at = "look" => flow'[f].old # NoDuel)
         /\ flow'[f].sent = flow[f].sent
<1>1. flow \in [Deliveries -> FlowRecs]
  BY DEF IInv, Typed
<1>2. PICK active \in past :
        flow' = [flow EXCEPT ![f].at = IF active \in {NoDuel, DuelOf[f]} THEN "claim" ELSE "look",
                             ![f].old = active]
  BY DEF Start
<1>3. active \in Duels \cup {NoDuel}
  BY DEF IInv, Typed
<1>4. PICK at \in EnterAts : at = IF active \in {NoDuel, DuelOf[f]} THEN "claim" ELSE "look"
  BY DEF EnterAts
<1>5. WroteStart(f, at, active)
  BY <1>2, <1>4 DEF WroteStart
<1>6. flow'[f].at = at /\ flow'[f].old = active /\ flow'[f].sent = flow[f].sent
  BY <1>1, <1>3, <1>5, DeliveryStarts
<1>7. flow[f].at = "idle"
  BY DEF Start
<1>8. QED BY <1>4, <1>6, <1>7

LEMMA DeliveryMoves ==
  ASSUME IInv, NEW f \in Deliveries,
         Look(f) \/ Superseded(f) \/ ClaimFanout(f) \/ SetActiveBattle(f)
  PROVE  /\ flow'[f].old = flow[f].old /\ flow'[f].sent = flow[f].sent
         /\ Look(f) => flow[f].at = "look" /\ flow'[f].at \in {"done", "end"}
         /\ Superseded(f) => flow[f].at = "end" /\ flow'[f].at = "claim"
         /\ ClaimFanout(f) => flow[f].at = "claim" /\ flow'[f].at \in {"done", "point"}
         /\ SetActiveBattle(f) => flow[f].at = "point" /\ flow'[f].at = "fan"
<1>1. flow \in [Deliveries -> FlowRecs]
  BY DEF IInv, Typed
<1>2. PICK at \in EnterAts : Enter(f, at)
  BY DEF Look, Superseded, ClaimFanout, TryClaimRound1Fanout, SetActiveBattle, EnterAts
<1>3. flow'[f].at = at /\ flow'[f].old = flow[f].old /\ flow'[f].sent = flow[f].sent
  BY <1>1, <1>2, DeliveryEnters
<1>4. ASSUME NEW to \in EnterAts, Enter(f, to) PROVE flow'[f].at = to
  BY <1>1, <1>4, DeliveryEnters
<1>5. Look(f) => flow[f].at = "look" /\ flow'[f].at \in {"done", "end"}
  BY <1>4 DEF Look, EnterAts
<1>6. Superseded(f) => flow[f].at = "end" /\ flow'[f].at = "claim"
  BY <1>4 DEF Superseded, EnterAts
<1>7. ClaimFanout(f) => flow[f].at = "claim" /\ flow'[f].at \in {"done", "point"}
  BY <1>4 DEF ClaimFanout, TryClaimRound1Fanout, EnterAts
<1>8. SetActiveBattle(f) => flow[f].at = "point" /\ flow'[f].at = "fan"
  BY <1>4 DEF SetActiveBattle, EnterAts
<1>9. QED BY <1>3, <1>5, <1>6, <1>7, <1>8

LEMMA SendMoves ==
  ASSUME IInv, NEW f \in Deliveries, NEW s \in Sides, InitBotState(f, s) \/ InvokeSide(f, s)
  PROVE  /\ flow'[f].at = flow[f].at /\ flow'[f].old = flow[f].old
         /\ \A t \in Sides : t # s => flow'[f].sent[t] = flow[f].sent[t]
         /\ InitBotState(f, s) => /\ flow[f].at = "fan" /\ flow[f].sent[s] = "todo"
                                  /\ flow'[f].sent[s] = "recorded"
         /\ InvokeSide(f, s) => flow[f].sent[s] = "recorded" /\ flow'[f].sent[s] = "sent"
<1>1. flow \in [Deliveries -> FlowRecs]
  BY DEF IInv, Typed
<1>2. CASE InitBotState(f, s)
  <2>1. WroteSent(f, s, "recorded")
    BY <1>2 DEF InitBotState, WroteSent
  <2>2. /\ flow'[f].at = flow[f].at /\ flow'[f].old = flow[f].old
        /\ \A t \in Sides : flow'[f].sent[t] = IF t = s THEN "recorded" ELSE flow[f].sent[t]
    BY <1>1, <2>1, DeliverySends
  <2>3. flow[f].at = "fan" /\ flow[f].sent[s] = "todo"
    BY <1>2 DEF InitBotState
  <2>4. ~InvokeSide(f, s)
    BY <2>3 DEF InvokeSide
  <2>5. QED BY <2>2, <2>3, <2>4
<1>3. CASE InvokeSide(f, s)
  <2>1. WroteSent(f, s, "sent")
    BY <1>3 DEF InvokeSide, WroteSent
  <2>2. /\ flow'[f].at = flow[f].at /\ flow'[f].old = flow[f].old
        /\ \A t \in Sides : flow'[f].sent[t] = IF t = s THEN "sent" ELSE flow[f].sent[t]
    BY <1>1, <2>1, DeliverySends
  <2>3. flow[f].sent[s] = "recorded"
    BY <1>3 DEF InvokeSide
  <2>4. ~InitBotState(f, s)
    BY <2>3 DEF InitBotState
  <2>5. QED BY <2>2, <2>3, <2>4
<1>4. QED BY <1>2, <1>3

LEMMA OrchMovesOn ==
  ASSUME IInv, NEW d \in Duels,
         ReleaseResolved(d) \/ MarkComplete(d) \/ Killed(d)
  PROVE  /\ orch'[d].seen = orch[d].seen /\ orch'[d].todo = orch[d].todo
         /\ ReleaseResolved(d) => orch[d].at = "hand" /\ orch'[d].at = "mark"
         /\ MarkComplete(d) => orch[d].at = "mark" /\ orch'[d].at = "done"
         /\ Killed(d) => orch[d].at \in {"hand", "mark"} /\ orch'[d].at = "done"
<1>1. orch \in [Duels -> OrchRecs]
  BY DEF IInv, Typed
<1>2. ASSUME NEW at \in OrchAts, orch' = [orch EXCEPT ![d].at = at]
      PROVE  orch'[d].at = at /\ orch'[d].seen = orch[d].seen /\ orch'[d].todo = orch[d].todo
  BY <1>1, <1>2, OrchMoves
<1>3. CASE ReleaseResolved(d)
  BY <1>2, <1>3 DEF ReleaseResolved, MarkComplete, Killed, OrchAts
<1>4. CASE MarkComplete(d)
  BY <1>2, <1>4 DEF ReleaseResolved, MarkComplete, Killed, OrchAts
<1>5. CASE Killed(d)
  BY <1>2, <1>5 DEF ReleaseResolved, MarkComplete, Killed, OrchAts
<1>6. QED BY <1>3, <1>4, <1>5

LEMMA OrchTakes ==
  ASSUME IInv, NEW d \in Duels, TryClaimOrchestratorFire(d)
  PROVE  \/ /\ MayFire(d) /\ Put(d, "orchestrator") /\ NoFault
            /\ orch'[d].at = "hand" /\ orch'[d].seen = Recorded(d)
            /\ orch'[d].todo = {s \in Sides : rows[d][s] = "COMPLETED"}
         \/ orch' = orch /\ (NoFault => ~MayFire(d) /\ UNCHANGED marks)
<1>1. orch \in [Duels -> OrchRecs] /\ faults \in Nat
  BY BattleAssumption DEF IInv, Typed
<1>2. ~(NoFault /\ Fault("fire"))
  BY <1>1 DEF NoFault, Fault
<1>3. QED BY <1>1, <1>2 DEF TryClaimOrchestratorFire

LEMMA OrchDispatches ==
  ASSUME IInv, NEW d \in Duels, NEW s \in Sides, DispatchRebuttalRound(d, s)
  PROVE  /\ orch[d].at = "hand" /\ orch'[d].at = "hand" /\ s \in orch[d].todo
         /\ orch'[d].seen = orch[d].seen /\ orch'[d].todo = orch[d].todo \ {s}
<1>1. orch \in [Duels -> OrchRecs]
  BY DEF IInv, Typed
<1>2. orch' = [orch EXCEPT ![d].todo = @ \ {s}] /\ orch[d].at = "hand" /\ s \in orch[d].todo
  BY DEF DispatchRebuttalRound
<1>3. QED BY <1>1, <1>2, OrchAsks

\* A call starts with nothing found, and has won nothing.
LEMMA EndStartsOwn ==
  ASSUME IInv, NEW p \in Calls,
         \/ p \in Deliveries /\ Look(p) /\ end'[p] # end[p]
         \/ p \in Enders /\ (Requested(p) \/ Disable(p) \/ \E d \in Duels : ExperimentEnded(p, d))
  PROVE  /\ ~end'[p].won /\ end'[p].seen = {} /\ end'[p].todo = {}
         /\ \/ end'[p].at = "read" /\ end'[p].duel \in Duels
            \/ end'[p].at = "delete" /\ end'[p].duel = NoDuel
         /\ end[p].at = "idle"
         /\ end'[p].duel \in past \/ \E d \in Duels : ExperimentEnded(p, d) /\ end'[p].duel = d
<1>1. end \in [Calls -> EndRecs]
  BY DEF IInv, Typed
<1>2. CASE p \in Deliveries /\ Look(p) /\ end'[p] # end[p]
  <2>1. Ending(p, flow[p].old) /\ flow[p].at = "look"
    BY <1>2 DEF Look
  <2>2. flow[p].old \in past /\ flow[p].old # NoDuel /\ end[p].at = "idle"
    BY <1>2, <2>1 DEF IInv, PointersKnown
  <2>3. flow[p].old \in Duels
    BY <2>2 DEF IInv, Typed
  <2>4. QED BY <1>1, <2>1, <2>2, <2>3, EndingTyped
<1>3. CASE Requested(p)
  <2>1. PICK d \in past \ {NoDuel} : Ending(p, d)
    BY <1>3 DEF Requested
  <2>2. d \in Duels /\ d \in past
    BY DEF IInv, Typed
  <2>3. end[p].at = "idle"
    BY <1>3 DEF Requested
  <2>4. QED BY <1>1, <2>1, <2>2, <2>3, EndingTyped
<1>4. CASE Disable(p)
  <2>1. config.active \in Duels \cup {NoDuel} /\ config.active \in past
    BY DEF IInv, Typed, PointersKnown
  <2>2. PICK at \in EndAts : at = IF config.active = NoDuel THEN "delete" ELSE "read"
    BY DEF EndAts
  <2>3. WroteEnd(p, at, config.active, TRUE)
    BY <1>4, <2>2 DEF Disable, WroteEnd
  <2>4. /\ end'[p].at = at /\ end'[p].duel = config.active /\ ~end'[p].won
        /\ end'[p].seen = {} /\ end'[p].todo = {}
    BY <1>1, <2>1, <2>3, EndStarts, ZenonT(30)
  <2>5. end[p].at = "idle"
    BY <1>4 DEF Disable
  <2>6. QED BY <2>1, <2>2, <2>4, <2>5
<1>5. ASSUME NEW d \in Duels, ExperimentEnded(p, d)
      PROVE  /\ ~end'[p].won /\ end'[p].seen = {} /\ end'[p].todo = {}
             /\ end'[p].at = "read" /\ end'[p].duel = d /\ end[p].at = "idle"
  BY <1>1, <1>5, EndingTyped DEF ExperimentEnded
<1>6. QED BY <1>2, <1>3, <1>4, <1>5

LEMMA EndMovesOn ==
  ASSUME IInv, NEW p \in Calls,
         MarkBattleAbandoned(p) \/ ClearActiveBattle(p) \/ DeleteConfig(p)
  PROVE  /\ end'[p].duel = end[p].duel /\ end'[p].won = end[p].won
         /\ end'[p].seen = end[p].seen /\ end'[p].todo = end[p].todo
         /\ MarkBattleAbandoned(p) => end[p].at = "mark" /\ end'[p].at = "sides"
         /\ ClearActiveBattle(p) =>
              end[p].at = "sides" /\ end[p].todo = {} /\ end'[p].at \in {"delete", "done"}
         /\ DeleteConfig(p) => end[p].at = "delete" /\ end'[p].at = "done"
<1>1. end \in [Calls -> EndRecs]
  BY DEF IInv, Typed
<1>2. ASSUME NEW at \in EndAts, end' = [end EXCEPT ![p].at = at]
      PROVE  /\ end'[p].duel = end[p].duel /\ end'[p].won = end[p].won /\ end'[p].at = at
             /\ end'[p].seen = end[p].seen /\ end'[p].todo = end[p].todo
  BY <1>1, <1>2, EndMoves
<1>3. CASE MarkBattleAbandoned(p)
  BY <1>2, <1>3 DEF MarkBattleAbandoned, ClearActiveBattle, DeleteConfig, EndAts
<1>4. CASE ClearActiveBattle(p)
  <2>1. PICK at \in {"delete", "done"} : end' = [end EXCEPT ![p].at = at]
    BY <1>4 DEF ClearActiveBattle
  <2>2. /\ end'[p].duel = end[p].duel /\ end'[p].won = end[p].won /\ end'[p].at = at
        /\ end'[p].seen = end[p].seen /\ end'[p].todo = end[p].todo
    BY <1>2, <2>1 DEF EndAts
  <2>3. end[p].at = "sides" /\ end[p].todo = {}
    BY <1>4 DEF ClearActiveBattle
  <2>4. ~MarkBattleAbandoned(p) /\ ~DeleteConfig(p)
    BY <2>3 DEF MarkBattleAbandoned, DeleteConfig
  <2>5. QED BY <2>1, <2>2, <2>3, <2>4
<1>5. CASE DeleteConfig(p)
  BY <1>2, <1>5 DEF MarkBattleAbandoned, ClearActiveBattle, DeleteConfig, EndAts
<1>6. QED BY <1>3, <1>4, <1>5

LEMMA EndFinds ==
  ASSUME IInv, NEW p \in Calls, EndRead(p)
  PROVE  /\ end[p].at = "read" /\ end'[p].at = "claim"
         /\ end'[p].duel = end[p].duel /\ end'[p].won = end[p].won
         /\ end'[p].seen = end'[p].todo
<1>1. end \in [Calls -> EndRecs]
  BY DEF IInv, Typed
<1>2. PICK seen \in SUBSET Sides : WroteFound(p, seen)
  BY DEF EndRead, WroteFound
<1>3. end[p].at = "read"
  BY DEF EndRead
<1>4. QED BY <1>1, <1>2, <1>3, EndReads

LEMMA EndTakes ==
  ASSUME IInv, NEW p \in Calls, EndClaim(p)
  PROVE  /\ end[p].at = "claim" /\ end'[p].at = "mark" /\ end'[p].duel = end[p].duel
         /\ end'[p].seen = end[p].seen /\ end'[p].todo = end[p].todo
         /\ end'[p].won => "orchestrator" \notin marks[end[p].duel]
         /\ end'[p].won \/ NoFault => Put(end[p].duel, "orchestrator")
<1>1. end \in [Calls -> EndRecs]
  BY DEF IInv, Typed
<1>2. ASSUME NEW took \in BOOLEAN, WroteTaken(p, took)
      PROVE  /\ end'[p].at = "mark" /\ end'[p].won = took /\ end'[p].duel = end[p].duel
             /\ end'[p].seen = end[p].seen /\ end'[p].todo = end[p].todo
  BY <1>1, <1>2, EndClaims
<1>3. end[p].at = "claim"
  BY DEF EndClaim
<1>4. CASE /\ WroteTaken(p, "orchestrator" \notin marks[end[p].duel])
           /\ Put(end[p].duel, "orchestrator")
  BY <1>2, <1>3, <1>4
<1>5. CASE WroteTaken(p, FALSE) /\ Fault("fire")
  <2>1. ~NoFault
    BY <1>5, BattleAssumption DEF Fault, NoFault, IInv, Typed
  <2>2. QED BY <1>2, <1>3, <1>5, <2>1
<1>6. QED BY <1>4, <1>5 DEF EndClaim, WroteTaken

LEMMA EndStops ==
  ASSUME IInv, NEW p \in Calls, NEW s \in Sides, AbandonSide(p, s)
  PROVE  /\ end[p].at = "sides" /\ end'[p].at = "sides" /\ s \in end[p].todo
         /\ end'[p].duel = end[p].duel /\ end'[p].won = end[p].won
         /\ end'[p].seen = end[p].seen /\ end'[p].todo = end[p].todo \ {s}
<1>1. end \in [Calls -> EndRecs]
  BY DEF IInv, Typed
<1>2. end' = [end EXCEPT ![p].todo = @ \ {s}] /\ end[p].at = "sides" /\ s \in end[p].todo
  BY DEF AbandonSide
<1>3. QED BY <1>1, <1>2, EndAbandons

-----------------------------------------------------------------------------
(* Every conjunct is kept.                                                 *)

LEMMA PointersKnownKept == ASSUME IInv, Next PROVE PointersKnown'
<1>1. Typed /\ PointersKnown
  BY DEF IInv
<1>2. past \subseteq past'
  BY PastGrows
<1>3. config'.active \in past'
  <2>1. CASE config' = config
    BY <1>1, <1>2, <2>1 DEF PointersKnown
  <2>2. ASSUME NEW f \in Deliveries, SetActiveBattle(f) PROVE config'.active \in past'
    <3>1. CASE config' = [config EXCEPT !.active = DuelOf[f]] /\ past' = past \cup {DuelOf[f]}
      BY <1>1, <3>1 DEF Typed
    <3>2. QED BY <2>1, <2>2, <3>1 DEF SetActiveBattle
  <2>3. ASSUME NEW d, config' = Release(d) PROVE config'.active \in past'
    BY <1>1, <1>2, <2>3, Released DEF Typed, PointersKnown
  <2>4. CASE config'.active = NoDuel
    BY <1>1, <1>2, <2>4 DEF PointersKnown
  <2>5. QED BY <2>1, <2>2, <2>3, <2>4, ConfigWriters
            DEF ReleaseResolved, ClearActiveBattle, DeleteConfig, Enable
<1>4. ASSUME NEW f \in Deliveries
      PROVE  flow'[f].old \in past' /\ (flow'[f].at = "look" => flow'[f].old # NoDuel)
  <2>1. CASE flow'[f] = flow[f]
    BY <1>1, <1>2, <2>1 DEF PointersKnown
  <2>2. CASE Start(f)
    BY <1>2, <2>2, StartMoves
  <2>3. CASE Look(f) \/ Superseded(f) \/ ClaimFanout(f) \/ SetActiveBattle(f)
    BY <1>1, <1>2, <2>3, DeliveryMoves DEF PointersKnown
  <2>4. ASSUME NEW s \in Sides, InitBotState(f, s) \/ InvokeSide(f, s)
        PROVE  flow'[f].old \in past' /\ (flow'[f].at = "look" => flow'[f].old # NoDuel)
    BY <1>1, <1>2, <2>4, SendMoves DEF PointersKnown
  <2>5. QED BY <2>1, <2>2, <2>3, <2>4, FlowOwn
<1>5. ASSUME NEW f \in Deliveries, flow'[f].at \in {"idle", "look"} PROVE end'[f].at = "idle"
  <2>1. flow[f].at \in {"idle", "look"} /\ ~Look(f)
    <3>1. CASE Start(f)
      BY <3>1, StartMoves, DeliveryMoves DEF Look, Start
    <3>2. CASE Look(f) \/ Superseded(f) \/ ClaimFanout(f) \/ SetActiveBattle(f)
      BY <1>5, <3>2, DeliveryMoves
    <3>3. ASSUME NEW s \in Sides, InitBotState(f, s) \/ InvokeSide(f, s)
          PROVE  flow[f].at \in {"idle", "look"} /\ ~Look(f)
      BY <1>5, <3>3, SendMoves, DeliveryMoves
    <3>4. CASE flow'[f] = flow[f]
      BY <1>5, <3>4, DeliveryMoves
    <3>5. QED BY <3>1, <3>2, <3>3, <3>4, FlowOwn
  <2>2. end[f].at = "idle" /\ f \in Calls /\ f \notin Enders
    BY <1>1, <2>1, BattleAssumption DEF PointersKnown, Calls
  <2>3. end'[f] = end[f]
    BY <2>1, <2>2, EndOwn DEF EndRead, EndClaim, MarkBattleAbandoned, ClearActiveBattle,
       DeleteConfig, AbandonSide
  <2>4. QED BY <2>2, <2>3
<1>6. QED BY <1>1, <1>2, <1>3, <1>4, <1>5 DEF PointersKnown

LEMMA CallsNamedKept == ASSUME IInv, Next PROVE CallsNamed'
<1>1. CallsNamed
  BY DEF IInv
<1> DEFINE Named(p) == /\ end'[p].at \in {"read", "claim", "mark", "sides"} => end'[p].duel \in Duels
                       /\ end'[p].won \/ end'[p].seen # {} => end'[p].duel \in Duels
                       /\ end'[p].at \in {"delete", "done"} => end'[p].todo = {}
<1>2. SUFFICES ASSUME NEW p \in Calls PROVE Named(p)
  BY DEF CallsNamed
<1>3. CASE end'[p] = end[p]
  BY <1>1, <1>3 DEF CallsNamed
<1>4. CASE \/ p \in Deliveries /\ Look(p) /\ end'[p] # end[p]
           \/ p \in Enders /\ (Requested(p) \/ Disable(p) \/ \E d \in Duels : ExperimentEnded(p, d))
  BY <1>4, EndStartsOwn
<1>5. CASE EndRead(p)
  BY <1>1, <1>5, EndFinds DEF CallsNamed
<1>6. CASE EndClaim(p)
  BY <1>1, <1>6, EndTakes DEF CallsNamed
<1>7. CASE MarkBattleAbandoned(p) \/ ClearActiveBattle(p) \/ DeleteConfig(p)
  BY <1>1, <1>7, EndMovesOn DEF CallsNamed
<1>8. ASSUME NEW s \in Sides, AbandonSide(p, s) PROVE Named(p)
  BY <1>1, <1>8, EndStops DEF CallsNamed
<1>9. QED BY <1>3, <1>4, <1>5, <1>6, <1>7, <1>8, EndOwn

LEMMA FireClaimedKept == ASSUME IInv, Next PROVE FireClaimed'
<1>1. FireClaimed /\ CallsNamed /\ marks \in [Duels -> SUBSET Sentinels]
  BY DEF IInv, Typed
<1>2. ASSUME NEW d \in Duels, orch'[d].at # "idle" PROVE "orchestrator" \in marks'[d]
  <2>1. CASE orch'[d] = orch[d]
    BY <1>1, <1>2, <2>1, MarksGrow DEF FireClaimed
  <2>2. CASE TryClaimOrchestratorFire(d)
    <3>1. CASE Put(d, "orchestrator")
      BY <1>1, <3>1 DEF Put
    <3>2. QED BY <2>1, <2>2, <3>1, OrchTakes
  <2>3. CASE ReleaseResolved(d) \/ MarkComplete(d) \/ Killed(d)
    <3>1. orch[d].at # "idle"
      BY <2>3, OrchMovesOn
    <3>2. QED BY <1>1, <3>1, MarksGrow DEF FireClaimed
  <2>4. ASSUME NEW s \in Sides, DispatchRebuttalRound(d, s) PROVE "orchestrator" \in marks'[d]
    BY <1>1, <2>4, OrchDispatches, MarksGrow DEF FireClaimed
  <2>5. QED BY <2>1, <2>2, <2>3, <2>4, OrchOwn
\* A duel whose claim is taken while no orchestrator holds it never gets one.
<1>3. ASSUME NEW d \in Duels, "orchestrator" \in marks[d], orch[d].at = "idle"
      PROVE  orch'[d].at = "idle"
  <2>1. CASE orch'[d] = orch[d]
    BY <1>3, <2>1
  <2>2. CASE TryClaimOrchestratorFire(d)
    BY <1>3, <2>1, <2>2, OrchTakes DEF MayFire
  <2>3. ~(ReleaseResolved(d) \/ MarkComplete(d) \/ Killed(d))
    BY <1>3, OrchMovesOn
  <2>4. ~\E s \in Sides : DispatchRebuttalRound(d, s)
    BY <1>3, OrchDispatches
  <2>5. QED BY <2>1, <2>2, <2>3, <2>4, OrchOwn
<1>4. ASSUME NEW p \in Calls, end'[p].won
      PROVE  "orchestrator" \in marks'[end'[p].duel] /\ orch'[end'[p].duel].at = "idle"
  <2>1. CASE end'[p].won = end[p].won /\ end'[p].duel = end[p].duel
    <3>1. PICK d \in Duels : d = end[p].duel
      BY <1>1, <1>4, <2>1 DEF CallsNamed
    <3>2. "orchestrator" \in marks[d] /\ orch[d].at = "idle"
      BY <1>1, <1>4, <2>1, <3>1 DEF FireClaimed
    <3>3. QED BY <1>3, <2>1, <3>1, <3>2, MarksGrow
  <2>2. CASE EndClaim(p)
    <3>1. PICK d \in Duels : d = end[p].duel
      BY <1>1, <2>2 DEF CallsNamed, EndClaim
    <3>2. end'[p].duel = d /\ "orchestrator" \notin marks[d] /\ Put(d, "orchestrator")
      BY <1>4, <2>2, <3>1, EndTakes
    <3>3. orch[d].at = "idle" /\ orch' = orch
      BY <1>1, <2>2, <3>2 DEF FireClaimed, EndClaim
    <3>4. QED BY <1>1, <3>2, <3>3 DEF Put
  <2>3. QED BY <1>4, <2>1, <2>2, EndOwn, EndStartsOwn, EndFinds, EndMovesOn, EndStops
<1>5. QED BY <1>2, <1>4 DEF FireClaimed

LEMMA RebuttalsOwn ==
  ASSUME IInv, Next, NEW c \in Duels, NEW t \in Sides
  PROVE  \/ rebuttals'[c][t] = rebuttals[c][t]
         \/ DispatchRebuttalRound(c, t) /\ rebuttals'[c][t] = rebuttals[c][t] + 1
<1>1. rebuttals \in [Duels -> [Sides -> Nat]]
  BY DEF IInv, Typed
<1>2. CASE rebuttals' = rebuttals
  BY <1>2
<1>3. ASSUME NEW d \in Duels, NEW s \in Sides, DispatchRebuttalRound(d, s)
      PROVE  \/ rebuttals'[c][t] = rebuttals[c][t]
             \/ DispatchRebuttalRound(c, t) /\ rebuttals'[c][t] = rebuttals[c][t] + 1
  <2>1. CASE rebuttals' = [rebuttals EXCEPT ![d][s] = @ + 1]
    BY <1>1, <1>3, <2>1, Counted
  <2>2. QED BY <1>2, <1>3, <2>1 DEF DispatchRebuttalRound
<1>4. ASSUME NEW d \in Duels, Orchestrate(d) \/ Killed(d),
             \A s \in Sides : ~DispatchRebuttalRound(d, s)
      PROVE  rebuttals' = rebuttals
  BY <1>4 DEF Orchestrate, TryClaimOrchestratorFire, ReleaseResolved, MarkComplete, Killed
<1>5. ASSUME NEW f \in Deliveries, Start(f) \/ Deliver(f) PROVE rebuttals' = rebuttals
  BY <1>5 DEF Deliver, Start, Look, Superseded, ClaimFanout, SetActiveBattle, InitBotState,
     InvokeSide
<1>6. ASSUME NEW d \in Duels, NEW s \in Sides,
             Turn(d, s) \/ Unrecorded(d, s) \/ ResumeBotFromWaiting(d, s)
      PROVE  rebuttals' = rebuttals
  BY <1>6 DEF Turn, Answer, MarkBotWaitingForUser, LookRound, Unrecorded, ResumeBotFromWaiting
<1>7. ASSUME NEW p, EndBattle(p) PROVE rebuttals' = rebuttals
  BY <1>7 DEF EndBattle, EndRead, EndClaim, MarkBattleAbandoned, AbandonSide, ClearActiveBattle,
     DeleteConfig
<1>8. QED BY <1>2, <1>3, <1>4, <1>5, <1>6, <1>7
          DEF Next, Requested, Disable, ExperimentEnded, Enable

LEMMA AskedOnceKept == ASSUME IInv, Next PROVE AskedOnce'
<1>1. /\ AskedOnce /\ FireClaimed /\ rebuttals \in [Duels -> [Sides -> Nat]]
      /\ orch \in [Duels -> OrchRecs]
  BY DEF IInv, Typed
<1>2. ASSUME NEW d \in Duels, orch'[d].at = "idle"
      PROVE  orch'[d] = orch[d]
  <2>1. CASE TryClaimOrchestratorFire(d)
    BY <1>2, <2>1, OrchTakes
  <2>2. CASE ReleaseResolved(d) \/ MarkComplete(d) \/ Killed(d)
    BY <1>2, <2>2, OrchMovesOn
  <2>3. ASSUME NEW s \in Sides, DispatchRebuttalRound(d, s) PROVE FALSE
    BY <1>2, <2>3, OrchDispatches
  <2>4. QED BY <2>1, <2>2, <2>3, OrchOwn
<1>3. ASSUME NEW d \in Duels, NEW s \in Sides,
             orch'[d].at = "idle" \/ s \in orch'[d].todo
      PROVE  rebuttals[d][s] = 0 /\ ~DispatchRebuttalRound(d, s)
  <2>1. CASE orch'[d] = orch[d]
    <3>1. rebuttals[d][s] = 0
      BY <1>1, <1>3, <2>1 DEF AskedOnce
    <3>2. ASSUME DispatchRebuttalRound(d, s) PROVE FALSE
      BY <1>3, <2>1, <3>2, OrchDispatches
    <3>3. QED BY <3>1, <3>2
  <2>2. CASE TryClaimOrchestratorFire(d)
    <3>1. CASE MayFire(d)
      <4>1. orch[d].at = "idle"
        BY <1>1, <3>1 DEF MayFire, FireClaimed
      <4>2. QED BY <1>1, <4>1, OrchDispatches DEF AskedOnce
    <3>2. QED BY <2>1, <2>2, <3>1, OrchTakes
  <2>3. CASE ReleaseResolved(d) \/ MarkComplete(d) \/ Killed(d)
    <3>1. orch'[d].at # "idle" /\ orch'[d].at # "hand" /\ orch'[d].todo = orch[d].todo
      BY <2>3, OrchMovesOn
    <3>2. QED BY <1>1, <1>3, <3>1, OrchDispatches DEF AskedOnce
  <2>4. ASSUME NEW t \in Sides, DispatchRebuttalRound(d, t)
        PROVE  rebuttals[d][s] = 0 /\ ~DispatchRebuttalRound(d, s)
    <3>1. orch'[d].at = "hand" /\ orch'[d].todo = orch[d].todo \ {t}
      BY <2>4, OrchDispatches
    <3>2. s \in orch[d].todo /\ s # t
      BY <1>3, <3>1
    <3>3. ASSUME DispatchRebuttalRound(d, s) PROVE FALSE
      BY <1>3, <3>1, <3>3, OrchDispatches
    <3>4. QED BY <1>1, <3>2, <3>3 DEF AskedOnce
  <2>5. QED BY <2>1, <2>2, <2>3, <2>4, OrchOwn
<1>4. ASSUME NEW d \in Duels, NEW s \in Sides PROVE rebuttals'[d][s] <= 1
  <2>1. CASE rebuttals'[d][s] = rebuttals[d][s]
    BY <1>1, <2>1 DEF AskedOnce
  <2>2. CASE DispatchRebuttalRound(d, s) /\ rebuttals'[d][s] = rebuttals[d][s] + 1
    <3>1. rebuttals[d][s] = 0
      BY <1>1, <2>2, OrchDispatches DEF AskedOnce
    <3>2. QED BY <2>2, <3>1
  <2>3. QED BY <2>1, <2>2, RebuttalsOwn
<1>5. ASSUME NEW d \in Duels, NEW s \in Sides,
             orch'[d].at = "idle" \/ s \in orch'[d].todo
      PROVE  rebuttals'[d][s] = 0
  BY <1>3, <1>5, RebuttalsOwn
<1>6. ASSUME NEW d \in Duels, orch'[d].at = "idle"
      PROVE  orch'[d].seen = {} /\ orch'[d].todo = {}
  BY <1>1, <1>2, <1>6 DEF AskedOnce
<1>7. QED BY <1>4, <1>5, <1>6 DEF AskedOnce

LEMMA SeenSettledKept == ASSUME IInv, Next PROVE SeenSettled'
<1>1. SeenSettled /\ orch \in [Duels -> OrchRecs]
  BY DEF IInv, Typed
<1>2. SUFFICES ASSUME NEW d \in Duels, NEW s \in orch'[d].seen PROVE rows'[d][s] \in Settled
  BY DEF SeenSettled
<1>3. CASE orch'[d].seen = orch[d].seen
  <2>1. s \in Sides /\ rows[d][s] \in Settled
    BY <1>1, <1>3 DEF SeenSettled, OrchRecs
  <2>2. QED BY <2>1, SettledStays
<1>4. CASE TryClaimOrchestratorFire(d) /\ MayFire(d) /\ orch'[d].seen = Recorded(d)
  <2>1. rows[d][s] \in Terminal
    BY <1>4 DEF MayFire, AllBotsTerminal
  <2>2. rows' = rows
    BY <1>4 DEF TryClaimOrchestratorFire
  <2>3. QED BY <2>1, <2>2 DEF Settled
<1>5. QED BY <1>3, <1>4, OrchOwn, OrchTakes, OrchMovesOn, OrchDispatches

LEMMA PassedSettledKept == ASSUME IInv, Next PROVE PassedSettled'
<1>1. /\ PassedSettled /\ CallsNamed
      /\ end \in [Calls -> EndRecs] /\ rows \in [Duels -> [Sides -> States]]
  BY DEF IInv, Typed
<1>2. SUFFICES ASSUME NEW p \in Calls, NEW s \in end'[p].seen \ end'[p].todo, faults' = 0
               PROVE  rows'[end'[p].duel][s] \in Settled
  BY DEF PassedSettled
<1>3. faults = 0 /\ NoFault
  BY <1>2, FaultsGrow DEF NoFault
<1>4. CASE end'[p].duel = end[p].duel /\ s \in end[p].seen /\ s \notin end[p].todo
  <2>1. end[p].duel \in Duels /\ s \in Sides
    BY <1>1, <1>4 DEF CallsNamed, EndRecs
  <2>2. rows[end[p].duel][s] \in Settled
    BY <1>1, <1>3, <1>4 DEF PassedSettled
  <2>3. QED BY <1>4, <2>1, <2>2, SettledStays
<1>5. ASSUME NEW t \in Sides, AbandonSide(p, t) PROVE rows'[end'[p].duel][s] \in Settled
  <2>1. /\ end'[p].duel = end[p].duel /\ end'[p].seen = end[p].seen
        /\ end'[p].todo = end[p].todo \ {t} /\ end[p].duel \in Duels
    BY <1>1, <1>5, EndStops DEF CallsNamed
  <2>2. CASE s = t
    <3>1. rows' = [rows EXCEPT ![end[p].duel][t] = IF MayStop(@) THEN "ABANDONED" ELSE @]
      BY <1>3, <1>5, OneOutcome DEF AbandonSide
    <3>2. rows'[end[p].duel][t] = IF MayStop(rows[end[p].duel][t])
                                  THEN "ABANDONED" ELSE rows[end[p].duel][t]
      BY <1>1, <2>1, <3>1
    <3>3. rows[end[p].duel][t] \in States
      BY <1>1, <2>1
    <3>4. QED BY <2>1, <2>2, <3>2, <3>3 DEF MayStop, States, Settled
  <2>3. CASE s # t
    BY <1>2, <1>4, <2>1, <2>3
  <2>4. QED BY <2>2, <2>3
<1>6. QED BY <1>2, <1>4, <1>5, EndOwn, EndStartsOwn, EndFinds, EndTakes, EndMovesOn

LEMMA EndRecordedKept == ASSUME IInv, Next PROVE EndRecorded'
<1>1. EndRecorded /\ CallsNamed /\ marks \in [Duels -> SUBSET Sentinels]
  BY DEF IInv, Typed
<1>2. SUFFICES ASSUME faults' = 0 \/ "abandoned" \notin Faults, NEW p \in Calls,
                      \/ end'[p].at = "sides"
                      \/ end'[p].won /\ end'[p].at \in {"delete", "done"}
               PROVE  "abandoned" \in marks'[end'[p].duel]
  BY DEF EndRecorded
<1>3. ~Fault("abandoned") /\ (faults = 0 \/ "abandoned" \notin Faults)
  <2>1. CASE faults' = 0
    BY <2>1, FaultsGrow, OneOutcome DEF NoFault
  <2>2. CASE "abandoned" \notin Faults
    BY <2>2 DEF Fault
  <2>3. QED BY <1>2, <2>1, <2>2
<1>4. CASE /\ end'[p].duel = end[p].duel
           /\ end[p].at = "sides" \/ (end[p].won /\ end[p].at \in {"delete", "done"})
  <2>1. end[p].duel \in Duels /\ "abandoned" \in marks[end[p].duel]
    BY <1>1, <1>3, <1>4 DEF EndRecorded, CallsNamed
  <2>2. QED BY <1>4, <2>1, MarksGrow
<1>5. CASE MarkBattleAbandoned(p)
  <2>1. Put(end[p].duel, "abandoned") /\ end[p].duel \in Duels
    BY <1>1, <1>3, <1>5 DEF MarkBattleAbandoned, CallsNamed
  <2>2. QED BY <1>1, <1>5, <2>1, EndMovesOn DEF Put
<1>6. CASE ClearActiveBattle(p) \/ DeleteConfig(p)
  BY <1>2, <1>4, <1>6, EndMovesOn
<1>7. CASE EndRead(p) \/ EndClaim(p)
  BY <1>2, <1>7, EndFinds, EndTakes
<1>8. ASSUME NEW s \in Sides, AbandonSide(p, s) PROVE "abandoned" \in marks'[end'[p].duel]
  BY <1>4, <1>8, EndStops
<1>9. CASE end'[p] = end[p]
  BY <1>2, <1>4, <1>9
<1>10. QED BY <1>2, <1>5, <1>6, <1>7, <1>8, <1>9, EndOwn, EndStartsOwn

-----------------------------------------------------------------------------
(* The fan-out: one delivery passes the claim of a duel, and sends once.   *)

\* A delivery that goes on from the claim has taken it, or met the fault of it.
LEMMA ClaimMoves ==
  ASSUME IInv, NEW f \in Deliveries, ClaimFanout(f), ~Fault("claim"), flow'[f].at = "point"
  PROVE  /\ "round1" \notin marks[DuelOf[f]] /\ Put(DuelOf[f], "round1")
         /\ \A g \in Deliveries \ {f} : flow'[g] = flow[g]
<1>1. flow \in [Deliveries -> FlowRecs]
  BY DEF IInv, Typed
<1>2. ~Enter(f, "done")
  <2>1. ASSUME Enter(f, "done") PROVE flow'[f].at = "done"
    BY <1>1, <2>1, DeliveryEnters DEF EnterAts
  <2>2. QED BY <2>1
<1>3. QED BY <1>1, <1>2 DEF ClaimFanout, TryClaimRound1Fanout, Enter

\* Who is about to fan out, or has, was before the step or has just claimed.
LEMMA FanMoves ==
  ASSUME IInv, Next, NEW f \in Deliveries
  PROVE  /\ flow'[f].at \in {"point", "fan"} =>
              \/ flow[f].at \in {"point", "fan"}
              \/ ClaimFanout(f) /\ flow'[f].at = "point"
         /\ flow[f].at = "fan" => flow'[f].at = "fan"
<1>1. CASE flow'[f] = flow[f]
  BY <1>1
<1>2. CASE Start(f)
  BY <1>2, StartMoves
<1>3. CASE Look(f) \/ Superseded(f) \/ ClaimFanout(f) \/ SetActiveBattle(f)
  BY <1>3, DeliveryMoves
<1>4. ASSUME NEW s \in Sides, InitBotState(f, s) \/ InvokeSide(f, s)
      PROVE  flow'[f].at = flow[f].at
  BY <1>4, SendMoves
<1>5. QED BY <1>1, <1>2, <1>3, <1>4, FlowOwn

LEMMA OneFanOutKept == ASSUME IInv, Next PROVE OneFanOut'
<1>1. OneFanOut /\ marks \in [Duels -> SUBSET Sentinels] /\ DuelOf \in [Deliveries -> Duels]
  BY BattleAssumption DEF IInv, Typed
<1>2. SUFFICES ASSUME faults' = 0 \/ "claim" \notin Faults,
                      NEW f \in Deliveries, flow'[f].at \in {"point", "fan"}
               PROVE  /\ "round1" \in marks'[DuelOf[f]]
                      /\ \A g \in Deliveries :
                           flow'[g].at \in {"point", "fan"} /\ DuelOf[g] = DuelOf[f] => g = f
  BY DEF OneFanOut
<1>3. ~Fault("claim") /\ (faults = 0 \/ "claim" \notin Faults)
  <2>1. CASE faults' = 0
    BY <2>1, FaultsGrow, OneOutcome DEF NoFault
  <2>2. CASE "claim" \notin Faults
    BY <2>2 DEF Fault
  <2>3. QED BY <1>2, <2>1, <2>2
<1>4. "round1" \in marks'[DuelOf[f]]
  <2>1. CASE flow[f].at \in {"point", "fan"}
    BY <1>1, <1>3, <2>1, MarksGrow DEF OneFanOut
  <2>2. CASE ClaimFanout(f) /\ flow'[f].at = "point"
    BY <1>1, <1>3, <2>2, ClaimMoves DEF Put
  <2>3. QED BY <1>2, <2>1, <2>2, FanMoves
<1>5. ASSUME NEW g \in Deliveries, flow'[g].at \in {"point", "fan"}, DuelOf[g] = DuelOf[f], g # f
      PROVE  FALSE
  <2>1. CASE flow[f].at \in {"point", "fan"} /\ flow[g].at \in {"point", "fan"}
    BY <1>1, <1>3, <1>5, <2>1 DEF OneFanOut
  <2>2. CASE ClaimFanout(f) /\ flow'[f].at = "point"
    <3>1. "round1" \notin marks[DuelOf[f]] /\ flow'[g] = flow[g]
      BY <1>3, <1>5, <2>2, ClaimMoves
    <3>2. QED BY <1>1, <1>3, <1>5, <3>1 DEF OneFanOut
  <2>3. CASE ClaimFanout(g) /\ flow'[g].at = "point"
    <3>1. "round1" \notin marks[DuelOf[g]] /\ flow'[f] = flow[f]
      BY <1>3, <1>5, <2>3, ClaimMoves
    <3>2. QED BY <1>1, <1>2, <1>3, <1>5, <3>1 DEF OneFanOut
  <2>4. QED BY <1>2, <1>5, <2>1, <2>2, <2>3, FanMoves
<1>6. QED BY <1>4, <1>5

LEMMA SentInFanKept == ASSUME IInv, Next PROVE SentInFan'
<1>1. SentInFan
  BY DEF IInv
<1>2. SUFFICES ASSUME NEW f \in Deliveries, NEW s \in Sides, flow'[f].sent[s] # "todo"
               PROVE  flow'[f].at = "fan"
  BY DEF SentInFan
<1>3. CASE flow'[f].sent = flow[f].sent
  <2>1. flow[f].at = "fan"
    BY <1>1, <1>2, <1>3 DEF SentInFan
  <2>2. QED BY <2>1, FanMoves
<1>4. ASSUME NEW t \in Sides, InitBotState(f, t) PROVE flow'[f].at = "fan"
  BY <1>4, SendMoves
<1>5. ASSUME NEW t \in Sides, InvokeSide(f, t) PROVE flow'[f].at = "fan"
  <2>1. flow[f].sent[t] # "todo" /\ flow'[f].at = flow[f].at
    BY <1>5, SendMoves
  <2>2. QED BY <1>1, <2>1 DEF SentInFan
<1>6. QED BY <1>3, <1>4, <1>5, FlowOwn, StartMoves, DeliveryMoves

\* What has been sent stays sent.
LEMMA SentStays ==
  ASSUME IInv, Next, NEW d \in Duels, NEW s \in Sides, Sent(d, s)
  PROVE  Sent(d, s)'
<1>1. PICK f \in Deliveries : DuelOf[f] = d /\ flow[f].sent[s] = "sent"
  BY DEF Sent
<1>2. flow'[f].sent[s] = "sent"
  <2>1. CASE flow'[f].sent = flow[f].sent
    BY <1>1, <2>1
  <2>2. ASSUME NEW t \in Sides, InitBotState(f, t) \/ InvokeSide(f, t)
        PROVE  flow'[f].sent[s] = "sent"
    <3>1. t # s
      BY <1>1, <2>2, SendMoves
    <3>2. QED BY <1>1, <2>2, <3>1, SendMoves
  <2>3. QED BY <2>1, <2>2, FlowOwn, StartMoves, DeliveryMoves
<1>3. QED BY <1>1, <1>2 DEF Sent

\* What a step of the turn of a side does to the side's counters.
LEMMA WorkMoves ==
  ASSUME IInv, NEW d \in Duels, NEW s \in Sides
  PROVE  LET b == work[d][s].busy  k == work[d][s].checking
             bb == work'[d][s].busy  kk == work'[d][s].checking
         IN /\ b \in Nat /\ k \in Nat
            /\ Answer(d, s) => b > 0 /\ bb = b - 1 /\ kk \in {k, k + 1}
            /\ MarkBotWaitingForUser(d, s) \/ Unrecorded(d, s) => b > 0 /\ bb = b - 1 /\ kk = k
            /\ LookRound(d, s) => k > 0 /\ bb = b /\ kk = k - 1
            /\ ResumeBotFromWaiting(d, s) => bb \in {b, b + 1} /\ kk = k
            /\ \A f \in Deliveries :
                 DuelOf[f] = d /\ InvokeSide(f, s) => bb \in {b, b + 1} /\ kk = k
<1>1. work \in [Duels -> [Sides -> WorkRecs]]
  BY DEF IInv, Typed
<1>2. work[d][s].busy \in Nat /\ work[d][s].checking \in Nat
  BY <1>1 DEF WorkRecs
<1>3. ASSUME Answer(d, s)
      PROVE  /\ work[d][s].busy > 0 /\ work'[d][s].busy = work[d][s].busy - 1
             /\ work'[d][s].checking \in {work[d][s].checking, work[d][s].checking + 1}
  BY <1>1, <1>3, BusyLess, Answered DEF Answer
<1>4. ASSUME MarkBotWaitingForUser(d, s) \/ Unrecorded(d, s)
      PROVE  /\ work[d][s].busy > 0 /\ work'[d][s].busy = work[d][s].busy - 1
             /\ work'[d][s].checking = work[d][s].checking
  BY <1>1, <1>4, BusyLess DEF MarkBotWaitingForUser, Unrecorded
<1>5. ASSUME LookRound(d, s)
      PROVE  /\ work[d][s].checking > 0 /\ work'[d][s].busy = work[d][s].busy
             /\ work'[d][s].checking = work[d][s].checking - 1
  BY <1>1, <1>5, CheckingLess DEF LookRound
<1>6. ASSUME ResumeBotFromWaiting(d, s)
      PROVE  /\ work'[d][s].busy \in {work[d][s].busy, work[d][s].busy + 1}
             /\ work'[d][s].checking = work[d][s].checking
  <2>1. work' = work \/ work' = [work EXCEPT ![d][s].busy = @ + 1]
    BY <1>6 DEF ResumeBotFromWaiting
  <2>2. CASE work' = work
    BY <2>2
  <2>3. CASE work' = [work EXCEPT ![d][s].busy = @ + 1]
    <3>1. work'[d][s].busy = work[d][s].busy + 1 /\ work'[d][s].checking = work[d][s].checking
      BY <1>1, <2>3, BusyMore
    <3>2. QED BY <3>1
  <2>4. QED BY <2>1, <2>2, <2>3
<1>7. ASSUME NEW f \in Deliveries, DuelOf[f] = d, InvokeSide(f, s)
      PROVE  /\ work'[d][s].busy \in {work[d][s].busy, work[d][s].busy + 1}
             /\ work'[d][s].checking = work[d][s].checking
  <2>1. work' = work \/ work' = [work EXCEPT ![d][s].busy = @ + 1]
    BY <1>7 DEF InvokeSide
  <2>2. QED BY <1>1, <2>1, BusyMore
<1>8. QED BY <1>2, <1>3, <1>4, <1>5, <1>6, <1>7

LEMMA WorkBoundedKept == ASSUME IInv, Next PROVE WorkBounded'
<1>1. WorkBounded /\ OneFanOut /\ SentInFan /\ rows \in [Duels -> [Sides -> States]]
  BY DEF IInv, Typed
<1> DEFINE Early == {"none", "INVOKED", "ABANDONED"}
           Bounded(b, k, r, sent) ==
              /\ b <= 1 /\ (r \in {"WAITING_FOR_USER", "COMPLETED"} => b = 0)
              /\ k <= 1 /\ (k > 0 => r = "COMPLETED")
              /\ ~sent => b = 0 /\ r \in Early
<1>2. SUFFICES ASSUME faults' = 0 \/ "claim" \notin Faults, NEW d \in Duels, NEW s \in Sides
               PROVE  Bounded(work'[d][s].busy, work'[d][s].checking, rows'[d][s], Sent(d, s)')
  BY DEF WorkBounded
<1>3. faults = 0 \/ "claim" \notin Faults
  BY <1>2, FaultsGrow DEF NoFault
<1> DEFINE b == work[d][s].busy  k == work[d][s].checking  r == rows[d][s]
           bb == work'[d][s].busy  kk == work'[d][s].checking  rr == rows'[d][s]
<1>4. Bounded(b, k, r, Sent(d, s)) /\ b \in Nat /\ k \in Nat
  BY <1>1, <1>3, WorkMoves DEF WorkBounded
<1>5. Sent(d, s) => Sent(d, s)'
  BY SentStays
<1>6. CASE Answer(d, s)
  <2>1. b = 1 /\ bb = 0 /\ Sent(d, s)'
    BY <1>4, <1>5, <1>6, WorkMoves
  <2>2. CASE MayStop(r) /\ rows' = [rows EXCEPT ![d][s] = "COMPLETED"]
    <3>1. rr = "COMPLETED" /\ k = 0 /\ kk \in {0, 1}
      BY <1>1, <1>4, <1>6, <2>2, WorkMoves DEF MayStop, Running
    <3>2. QED BY <2>1, <3>1
  <2>3. CASE rows' = rows /\ work' = [work EXCEPT ![d][s].busy = @ - 1]
    <3>1. kk = k
      BY <1>6, <2>3, BusyLess DEF IInv, Typed, Answer
    <3>2. QED BY <1>4, <2>1, <2>3, <3>1
  <2>4. QED BY <1>6, <2>2, <2>3 DEF Answer
<1>7. CASE MarkBotWaitingForUser(d, s)
  <2>1. b = 1 /\ bb = 0 /\ kk = k /\ Sent(d, s)'
    BY <1>4, <1>5, <1>7, WorkMoves
  <2>2. rr = IF r = "INVOKED" THEN "WAITING_FOR_USER" ELSE r
    BY <1>1, <1>7 DEF MarkBotWaitingForUser
  <2>3. QED BY <1>4, <2>1, <2>2
<1>8. CASE LookRound(d, s) \/ Unrecorded(d, s)
  <2>1. rr = r
    BY <1>8 DEF LookRound, Unrecorded
  <2>2. bb \in Nat /\ kk \in Nat /\ bb <= b /\ kk <= k
    BY <1>4, <1>8, WorkMoves
  <2>3. QED BY <1>4, <1>5, <2>1, <2>2
<1>9. CASE ResumeBotFromWaiting(d, s)
  <2>1. r = "WAITING_FOR_USER" /\ rr = "INVOKED"
    BY <1>1, <1>9 DEF ResumeBotFromWaiting, Resumable
  <2>2. bb \in {0, 1} /\ kk = 0 /\ Sent(d, s)'
    BY <1>4, <1>5, <1>9, <2>1, WorkMoves
  <2>3. QED BY <2>1, <2>2
<1>10. ASSUME NEW f \in Deliveries, DuelOf[f] = d, InvokeSide(f, s)
       PROVE  Bounded(bb, kk, rr, Sent(d, s)')
  <2>1. flow[f].sent[s] = "recorded" /\ flow'[f].sent[s] = "sent"
    BY <1>10, SendMoves
  <2>2. flow[f].at = "fan"
    BY <1>1, <2>1 DEF SentInFan
  <2>3. ~Sent(d, s)
    <3>1. SUFFICES ASSUME NEW g \in Deliveries, DuelOf[g] = d, flow[g].sent[s] = "sent"
                   PROVE  FALSE
      BY DEF Sent
    <3>2. flow[g].at = "fan"
      BY <1>1, <3>1 DEF SentInFan
    <3>3. g = f
      BY <1>1, <1>3, <1>10, <2>2, <3>1, <3>2 DEF OneFanOut
    <3>4. QED BY <2>1, <3>1, <3>3
  <2>4. rr = r
    BY <1>10 DEF InvokeSide
  <2>5. b = 0
    BY <1>4, <2>3
  <2>6. bb \in {b, b + 1} /\ kk = k
    BY <1>10, WorkMoves
  <2>7. Sent(d, s)'
    BY <1>10, <2>1 DEF Sent
  <2>8. QED BY <1>4, <2>3, <2>4, <2>5, <2>6, <2>7
<1>11. CASE /\ work'[d][s] = work[d][s]
            /\ \/ rr = r \/ (r = "none" /\ rr = "INVOKED")
               \/ MayStop(r) /\ rr = "ABANDONED"
  BY <1>4, <1>5, <1>11 DEF MayStop, Running
<1>12. QED BY <1>6, <1>7, <1>8, <1>9, <1>10, <1>11, WorkOwn, RowsMove DEF RowMoves

-----------------------------------------------------------------------------
(* A duel nobody has published, and what the duel owes when it comes to rest. *)

\* The pointer names a duel from the step that publishes it.
LEMMA PastOwn ==
  ASSUME IInv, Next, NEW d \in Duels, d \in past', d \notin past
  PROVE  \E f \in Deliveries : DuelOf[f] = d /\ SetActiveBattle(f)
<1>1. past' # past
  OBVIOUS
<1>2. ASSUME NEW f \in Deliveries, Start(f) \/ Deliver(f), ~SetActiveBattle(f)
      PROVE  past' = past
  BY <1>2 DEF Deliver, Start, Look, Superseded, ClaimFanout, InitBotState, InvokeSide
<1>3. ASSUME NEW c \in Duels, NEW s \in Sides,
             Turn(c, s) \/ Unrecorded(c, s) \/ ResumeBotFromWaiting(c, s)
      PROVE  past' = past
  BY <1>3 DEF Turn, Answer, MarkBotWaitingForUser, LookRound, Unrecorded, ResumeBotFromWaiting
<1>4. ASSUME NEW c \in Duels, Orchestrate(c) \/ Killed(c) PROVE past' = past
  BY <1>4 DEF Orchestrate, TryClaimOrchestratorFire, DispatchRebuttalRound, ReleaseResolved,
     MarkComplete, Killed
<1>5. ASSUME NEW p, EndBattle(p) PROVE past' = past
  BY <1>5 DEF EndBattle, EndRead, EndClaim, MarkBattleAbandoned, AbandonSide, ClearActiveBattle,
     DeleteConfig
<1>6. PICK f \in Deliveries : SetActiveBattle(f)
  BY <1>1, <1>2, <1>3, <1>4, <1>5 DEF Next, Requested, Disable, ExperimentEnded, Enable
<1>7. DuelOf[f] = d
  BY <1>1, <1>6 DEF SetActiveBattle
<1>8. QED BY <1>6, <1>7

LEMMA UntouchedKept == ASSUME IInv, Next PROVE Untouched'
<1>1. /\ Untouched /\ FireClaimed /\ CallsNamed /\ SentInFan
      /\ rows \in [Duels -> [Sides -> States]]
  BY DEF IInv, Typed
<1>2. SUFFICES ASSUME NEW d \in Duels, ~Published(d)'
               PROVE  /\ d \notin past' /\ "orchestrator" \notin marks'[d] /\ fires'[d] = 0
                      /\ \A s \in Sides : /\ rows'[d][s] = "none"
                                          /\ work'[d][s] = [busy |-> 0, checking |-> 0]
                      /\ \A p \in Calls : end'[p].duel # d
  BY DEF Untouched
<1>3. ~Published(d)
  BY <1>2, FanMoves DEF Published
<1>4. /\ d \notin past /\ "orchestrator" \notin marks[d] /\ fires[d] = 0
      /\ \A s \in Sides : rows[d][s] = "none" /\ work[d][s] = [busy |-> 0, checking |-> 0]
      /\ \A p \in Calls : end[p].duel # d
  BY <1>1, <1>3 DEF Untouched
<1>5. \A s \in Sides : work[d][s].busy = 0 /\ work[d][s].checking = 0
  BY <1>4
<1>6. orch[d].at = "idle" /\ \A s \in Sides : ~Resumable(rows[d][s])
  BY <1>1, <1>4 DEF FireClaimed, Resumable
<1>7. d \notin past'
  <2>1. \A f \in Deliveries : SetActiveBattle(f) => flow'[f].at = "fan"
    BY DeliveryMoves
  <2>2. QED BY <1>2, <1>4, <2>1, PastOwn DEF Published
<1>8. "orchestrator" \notin marks'[d]
  <2>1. ~TryClaimOrchestratorFire(d)
    BY <1>4 DEF TryClaimOrchestratorFire
  <2>2. QED BY <1>4, <2>1, MarksOwn
<1>9. fires'[d] = 0
  <2>1. ~TryClaimOrchestratorFire(d)
    BY <1>4 DEF TryClaimOrchestratorFire
  <2>2. ~Killed(d)
    BY <1>6 DEF Killed
  <2>3. \A s \in Sides : ~LookRound(d, s)
    BY <1>5 DEF LookRound
  <2>4. QED BY <1>4, <2>1, <2>2, <2>3, FiresOwn
<1>10. ASSUME NEW s \in Sides
       PROVE  ~Answer(d, s) /\ ~MarkBotWaitingForUser(d, s) /\ ~LookRound(d, s)
              /\ ~Unrecorded(d, s) /\ ~ResumeBotFromWaiting(d, s)
  BY <1>5, <1>6 DEF Answer, MarkBotWaitingForUser, LookRound, Unrecorded, ResumeBotFromWaiting
<1>11. ASSUME NEW f \in Deliveries, DuelOf[f] = d, NEW s \in Sides
       PROVE  ~InitBotState(f, s) /\ ~InvokeSide(f, s)
  <2>1. flow[f].at # "fan"
    BY <1>3, <1>11 DEF Published
  <2>2. ~InitBotState(f, s)
    BY <2>1, SendMoves
  <2>3. ~InvokeSide(f, s)
    BY <1>1, <2>1, SendMoves DEF SentInFan
  <2>4. QED BY <2>2, <2>3
<1>12. ASSUME NEW s \in Sides
       PROVE  rows'[d][s] = "none" /\ work'[d][s] = [busy |-> 0, checking |-> 0]
  <2>1. rows'[d][s] = rows[d][s]
    BY <1>4, <1>10, <1>11, RowsMove DEF RowMoves
  <2>2. work'[d][s] = work[d][s]
    BY <1>10, <1>11, WorkOwn
  <2>3. QED BY <1>4, <2>1, <2>2
<1>13. ASSUME NEW p \in Calls PROVE end'[p].duel # d
  <2>1. CASE \/ p \in Deliveries /\ Look(p) /\ end'[p] # end[p]
             \/ p \in Enders /\ (Requested(p) \/ Disable(p) \/ \E c \in Duels : ExperimentEnded(p, c))
    <3>1. ~ExperimentEnded(p, d)
      BY <1>5, <1>6 DEF ExperimentEnded
    <3>2. QED BY <1>4, <2>1, <3>1, EndStartsOwn
  <2>2. CASE end'[p].duel = end[p].duel
    BY <1>4, <2>2
  <2>3. QED BY <2>1, <2>2, EndOwn, EndFinds, EndTakes, EndMovesOn, EndStops
<1>14. QED BY <1>7, <1>8, <1>9, <1>12, <1>13

\* The side whose write ends the round looks round next; any other step that leaves
\* every row terminal leaves the rows as they are.
LEMMA RoundEnds ==
  ASSUME IInv, Next, NEW d \in Duels, AllBotsTerminal(d)', NoFault
  PROVE  \/ AllBotsTerminal(d) /\ \A s \in Sides : rows'[d][s] = rows[d][s]
         \/ \E s \in Sides : work'[d][s].checking > 0
<1>1. rows \in [Duels -> [Sides -> States]] /\ work \in [Duels -> [Sides -> WorkRecs]]
  BY DEF IInv, Typed
<1>2. \A s \in Sides : rows'[d][s] \in Terminal \cup {"none"}
  BY DEF AllBotsTerminal, Recorded
<1>3. CASE \A s \in Sides : rows'[d][s] = rows[d][s]
  BY <1>3 DEF AllBotsTerminal, Recorded
<1>4. ASSUME NEW s \in Sides, MayStop(rows[d][s]), Answer(d, s)
      PROVE  work'[d][s].checking > 0
  <2>1. work' = [work EXCEPT ![d][s] = [busy |-> @.busy - 1, checking |-> @.checking + 1]]
    BY <1>4, OneOutcome DEF Answer
  <2>2. work[d][s].busy > 0
    BY <1>4 DEF Answer
  <2>3. work'[d][s].checking = work[d][s].checking + 1 /\ work[d][s].checking \in Nat
    BY <1>1, <2>1, <2>2, Answered DEF WorkRecs
  <2>4. QED BY <2>3
<1>5. \A s \in Sides : rows'[d][s] # rows[d][s] => MayStop(rows[d][s]) /\ Answer(d, s)
  BY <1>2, RowsMove DEF RowMoves, Terminal
<1>6. QED BY <1>3, <1>4, <1>5

LEMMA RoundWatchedKept == ASSUME IInv, Next PROVE RoundWatched'
<1>1. RoundWatched /\ fires \in [Duels -> Nat] /\ marks \in [Duels -> SUBSET Sentinels]
  BY DEF IInv, Typed
<1> DEFINE Watched(d) == \/ "orchestrator" \in marks'[d] \/ fires'[d] > 0
                         \/ \E s \in Sides : work'[d][s].checking > 0
<1>2. SUFFICES ASSUME faults' = 0, NEW d \in Duels, AllBotsTerminal(d)' PROVE Watched(d)
  BY DEF RoundWatched
<1>3. faults = 0 /\ NoFault
  BY <1>2, FaultsGrow DEF NoFault
<1>4. SUFFICES ASSUME AllBotsTerminal(d) PROVE Watched(d)
  BY <1>2, <1>3, RoundEnds
<1>5. ASSUME NEW s \in Sides, LookRound(d, s) PROVE fires'[d] > 0
  <2>1. fires' = [fires EXCEPT ![d] = @ + 1]
    BY <1>3, <1>4, <1>5, OneOutcome DEF LookRound, FireIfLast
  <2>2. QED BY <1>1, <2>1
<1>6. CASE "orchestrator" \in marks[d]
  BY <1>6, MarksGrow
<1>7. CASE fires[d] > 0
  <2>1. CASE TryClaimOrchestratorFire(d)
    <3>1. CASE Put(d, "orchestrator")
      BY <1>1, <3>1 DEF Put
    <3>2. CASE ~MayFire(d)
      BY <1>4, <1>6, <3>2 DEF MayFire
    <3>3. QED BY <1>3, <2>1, <3>1, <3>2, OrchTakes
  <2>2. ~Killed(d)
    BY <1>3, OneOutcome DEF Killed
  <2>3. QED BY <1>5, <1>7, <2>1, <2>2, FiresOwn
<1>8. ASSUME NEW s \in Sides, work[d][s].checking > 0 PROVE Watched(d)
  <2>1. CASE LookRound(d, s)
    BY <1>5, <2>1
  <2>2. CASE ~LookRound(d, s)
    <3>1. work'[d][s].checking >= work[d][s].checking /\ work[d][s].checking \in Nat
      BY <2>2, WorkOwn, WorkMoves
    <3>2. work'[d][s].checking > 0
      BY <1>8, <3>1, <2>2, WorkOwn, WorkMoves
    <3>3. QED BY <3>2
  <2>3. QED BY <2>1, <2>2
<1>9. QED BY <1>1, <1>3, <1>4, <1>6, <1>7, <1>8 DEF RoundWatched

LEMMA ClaimResolvedKept == ASSUME IInv, Next PROVE ClaimResolved'
<1>1. ClaimResolved /\ CallsNamed /\ marks \in [Duels -> SUBSET Sentinels]
  BY DEF IInv, Typed
<1> DEFINE Resolved(d) == \/ marks'[d] \cap {"complete", "abandoned"} # {}
                          \/ orch'[d].at \in {"hand", "mark"}
                          \/ \E p \in Calls : end'[p].duel = d /\ end'[p].at = "mark"
<1>2. SUFFICES ASSUME faults' = 0, NEW d \in Duels, "orchestrator" \in marks'[d] PROVE Resolved(d)
  BY DEF ClaimResolved
<1>3. faults = 0 /\ NoFault
  BY <1>2, FaultsGrow DEF NoFault
<1>4. CASE "orchestrator" \notin marks[d]
  <2>1. CASE TryClaimOrchestratorFire(d)
    BY <1>2, <1>3, <1>4, <2>1, OrchTakes
  <2>2. ASSUME NEW p \in Calls, end[p].duel = d, EndClaim(p) PROVE Resolved(d)
    BY <2>2, EndTakes
  <2>3. QED BY <1>2, <1>4, <2>1, <2>2, MarksOwn
<1>5. CASE marks[d] \cap {"complete", "abandoned"} # {}
  BY <1>5, MarksGrow
<1>6. CASE "orchestrator" \in marks[d] /\ orch[d].at \in {"hand", "mark"}
  <2>1. CASE MarkComplete(d)
    <3>1. Put(d, "complete")
      BY <1>3, <2>1, OneOutcome DEF MarkComplete
    <3>2. "complete" \in marks'[d]
      BY <1>1, <3>1 DEF Put
    <3>3. QED BY <3>2
  <2>2. ~Killed(d)
    BY <1>3, OneOutcome DEF Killed
  <2>3. CASE TryClaimOrchestratorFire(d)
    BY <1>6, <2>3, OrchTakes
  <2>4. QED BY <1>6, <2>1, <2>2, <2>3, OrchOwn, OrchMovesOn, OrchDispatches
<1>7. ASSUME NEW p \in Calls, end[p].duel = d, end[p].at = "mark" PROVE Resolved(d)
  <2>1. CASE end'[p] = end[p]
    BY <1>7, <2>1
  <2>2. CASE MarkBattleAbandoned(p)
    <3>1. Put(d, "abandoned")
      BY <1>3, <1>7, <2>2, OneOutcome DEF MarkBattleAbandoned
    <3>2. "abandoned" \in marks'[d]
      BY <1>1, <3>1 DEF Put
    <3>3. QED BY <3>2
  <2>3. QED BY <1>7, <2>1, <2>2, EndOwn, EndStartsOwn, EndFinds, EndTakes, EndMovesOn, EndStops
<1>8. QED BY <1>1, <1>3, <1>4, <1>5, <1>6, <1>7 DEF ClaimResolved

LEMMA ClaimReleasesKept == ASSUME IInv, Next PROVE ClaimReleases'
<1>1. /\ ClaimReleases /\ CallsNamed /\ Untouched /\ OneFanOut
      /\ config \in [on: BOOLEAN, active: Duels \cup {NoDuel}]
      /\ NoDuel \notin Duels /\ DuelOf \in [Deliveries -> Duels]
  BY BattleAssumption DEF IInv, Typed
<1> DEFINE Away(d) == \/ config'.active # d \/ orch'[d].at = "hand"
                      \/ \E p \in Calls : end'[p].duel = d /\ end'[p].at \in {"mark", "sides"}
<1>2. SUFFICES ASSUME faults' = 0, NEW d \in Duels, "orchestrator" \in marks'[d] PROVE Away(d)
  BY DEF ClaimReleases
<1>3. faults = 0 /\ NoFault
  BY <1>2, FaultsGrow DEF NoFault
<1>4. CASE "orchestrator" \notin marks[d]
  <2>1. CASE TryClaimOrchestratorFire(d)
    BY <1>2, <1>3, <1>4, <2>1, OrchTakes
  <2>2. ASSUME NEW p \in Calls, end[p].duel = d, EndClaim(p) PROVE Away(d)
    BY <2>2, EndTakes
  <2>3. QED BY <1>2, <1>4, <2>1, <2>2, MarksOwn
<1>5. ASSUME NEW c, config' = Release(c), c = d PROVE config'.active # d
  BY <1>1, <1>5, Released
\* Nobody publishes a duel that an end or an orchestrator has claimed.
<1>6. CASE "orchestrator" \in marks[d] /\ config.active # d
  <2>1. ASSUME NEW f \in Deliveries, SetActiveBattle(f), DuelOf[f] = d PROVE FALSE
    <3>1. flow[f].at = "point"
      BY <2>1, DeliveryMoves
    <3>2. ~Published(d)
      <4>1. \A g \in Deliveries : flow[g].at \in {"point", "fan"} /\ DuelOf[g] = d => g = f
        BY <1>1, <1>3, <2>1, <3>1 DEF OneFanOut
      <4>2. QED BY <3>1, <4>1 DEF Published
    <3>3. QED BY <1>1, <1>6, <3>2 DEF Untouched
  <2>2. ASSUME NEW f \in Deliveries, SetActiveBattle(f), DuelOf[f] # d PROVE config'.active # d
    BY <1>1, <1>6, <2>2 DEF SetActiveBattle
  <2>3. ASSUME NEW c, config' = Release(c) PROVE config'.active # d
    BY <1>1, <1>6, <2>3, Released
  <2>4. CASE config' = config \/ config'.active = NoDuel
    BY <1>1, <1>6, <2>4
  <2>5. QED BY <2>1, <2>2, <2>3, <2>4, ConfigWriters
            DEF ReleaseResolved, ClearActiveBattle, DeleteConfig, Enable
<1>7. CASE orch[d].at = "hand"
  <2>1. CASE ReleaseResolved(d)
    <3>1. config' = Release(d)
      BY <1>3, <2>1, OneOutcome DEF ReleaseResolved
    <3>2. QED BY <1>5, <3>1
  <2>2. ~Killed(d) /\ ~MarkComplete(d)
    BY <1>3, <1>7, OneOutcome DEF Killed, MarkComplete
  <2>3. CASE TryClaimOrchestratorFire(d)
    BY <1>7, <2>3, OrchTakes
  <2>4. QED BY <1>7, <2>1, <2>2, <2>3, OrchOwn, OrchDispatches
<1>8. ASSUME NEW p \in Calls, end[p].duel = d, end[p].at \in {"mark", "sides"} PROVE Away(d)
  <2>1. CASE end'[p] = end[p]
    BY <1>8, <2>1
  <2>2. CASE ClearActiveBattle(p)
    <3>1. config' = Release(d)
      BY <1>3, <1>8, <2>2, OneOutcome DEF ClearActiveBattle
    <3>2. QED BY <1>5, <3>1
  <2>3. ASSUME NEW s \in Sides, AbandonSide(p, s) PROVE Away(d)
    BY <1>8, <2>3, EndStops
  <2>4. CASE MarkBattleAbandoned(p)
    BY <1>8, <2>4, EndMovesOn
  <2>5. QED BY <1>8, <2>1, <2>2, <2>3, <2>4, EndOwn, EndStartsOwn, EndFinds, EndTakes, EndMovesOn
<1>9. QED BY <1>1, <1>3, <1>4, <1>6, <1>7, <1>8 DEF ClaimReleases

-----------------------------------------------------------------------------
(* The theorems.                                                           *)

LEMMA NextKeepsIInv == ASSUME IInv, [Next]_vars PROVE IInv'
<1>1. CASE Next
  BY <1>1, TypedKept, PointersKnownKept, CallsNamedKept, FireClaimedKept, AskedOnceKept,
     SeenSettledKept, PassedSettledKept, EndRecordedKept, OneFanOutKept, SentInFanKept,
     WorkBoundedKept, UntouchedKept, RoundWatchedKept, ClaimResolvedKept, ClaimReleasesKept
     DEF IInv
<1>2. CASE UNCHANGED vars
  <2>1. Typed' /\ PointersKnown' /\ CallsNamed'
    BY <1>2 DEF IInv, vars, Typed, PointersKnown, CallsNamed
  <2>2. FireClaimed' /\ AskedOnce' /\ SeenSettled'
    BY <1>2 DEF IInv, vars, FireClaimed, AskedOnce, SeenSettled
  <2>3. PassedSettled' /\ EndRecorded'
    BY <1>2 DEF IInv, vars, PassedSettled, EndRecorded
  <2>4. OneFanOut' /\ SentInFan' /\ WorkBounded'
    BY <1>2 DEF IInv, vars, OneFanOut, SentInFan, WorkBounded, Sent
  <2>5. Untouched'
    BY <1>2 DEF IInv, vars, Untouched, Published
  <2>6. RoundWatched' /\ ClaimResolved' /\ ClaimReleases'
    BY <1>2 DEF IInv, vars, RoundWatched, ClaimResolved, ClaimReleases, AllBotsTerminal, Recorded
  <2>7. QED BY <2>1, <2>2, <2>3, <2>4, <2>5, <2>6 DEF IInv
<1>3. QED BY <1>1, <1>2

\* The inductive invariant of the duel: everything below follows from it.
THEOREM IInvHolds == Spec => []IInv
BY InitIInv, NextKeepsIInv, PTL DEF Spec

\* Round 2 is asked for once of each side, and not at all once an end took its
\* claim (tryClaimOrchestratorFire of battle-state.ts, endBattle of battle-end.ts).
THEOREM RoundTwoAskedOnce == Spec => []RebuttedOnce
<1>1. IInv => RebuttedOnce
  <2> SUFFICES ASSUME IInv, NEW d \in Duels, NEW s \in Sides
               PROVE  rebuttals[d][s] <= IF \E p \in Enders \cup Deliveries :
                                              end[p].duel = d /\ end[p].won THEN 0 ELSE 1
    BY DEF RebuttedOnce
  <2>1. rebuttals[d][s] <= 1
    BY DEF IInv, AskedOnce
  <2>2. ASSUME NEW p \in Enders \cup Deliveries, end[p].duel = d, end[p].won
        PROVE  rebuttals[d][s] = 0
    BY <2>2 DEF IInv, AskedOnce, FireClaimed, Calls
  <2>3. QED BY <2>1, <2>2
<1>2. QED BY <1>1, IInvHolds, PTL

\* No side that round 2 was fired for is at work or waiting on the person, then
\* or later (recordBattleTerminalAndFireOrchestrator of async-processor-core.ts).
THEOREM RoundTwoWaits == Spec => []Round2WaitsForSides
<1>1. IInv => Round2WaitsForSides
  BY DEF IInv, SeenSettled, Round2WaitsForSides, Settled, Terminal, Running
<1>2. QED BY <1>1, IInvHolds, PTL

\* An end without a fault has stopped every side it found running, whatever the
\* side did meanwhile (abandonBattleSide's conditional write).
THEOREM EndStopsSides == Spec => []EndedSidesStop
<1>1. IInv => EndedSidesStop
  <2> SUFFICES ASSUME IInv, NEW p \in Calls, end[p].at \in {"delete", "done"}, faults = 0,
                      NEW s \in end[p].seen
               PROVE  rows[end[p].duel][s] \notin Running
    BY DEF EndedSidesStop, Calls
  <2>1. s \in end[p].seen \ end[p].todo
    BY DEF IInv, CallsNamed
  <2>2. rows[end[p].duel][s] \in Settled
    BY <2>1 DEF IInv, PassedSettled
  <2>3. QED BY <2>2 DEF Settled, Terminal, Running
<1>2. QED BY <1>1, IInvHolds, PTL

\* A duel at rest, no fault met, is resolved once its sides have answered, and has
\* given the channel back once it was claimed: the rounds, the ends and the
\* releases leave nothing behind in any order.
THEOREM NothingStaysOpen == Spec => []NothingLeftOpen
<1>1. IInv => NothingLeftOpen
  <2> SUFFICES ASSUME IInv, NEW d \in Duels, AtRest(d), faults = 0
               PROVE  /\ AllBotsTerminal(d) => marks[d] \cap {"complete", "abandoned"} # {}
                      /\ "orchestrator" \in marks[d] => config.active # d
    BY DEF NothingLeftOpen
  <2>1. \A s \in Sides : ~(work[d][s].checking > 0)
    BY DEF AtRest
  <2>2. fires[d] = 0 /\ orch[d].at \in {"idle", "done"}
    BY DEF AtRest
  <2>3. \A p \in Calls : end[p].duel = d => end[p].at = "done"
    BY DEF AtRest, Calls
  <2>4. AllBotsTerminal(d) => "orchestrator" \in marks[d]
    BY <2>1, <2>2 DEF IInv, RoundWatched
  <2>5. "orchestrator" \in marks[d] => marks[d] \cap {"complete", "abandoned"} # {}
    BY <2>2, <2>3 DEF IInv, ClaimResolved
  <2>6. "orchestrator" \in marks[d] => config.active # d
    BY <2>2, <2>3 DEF IInv, ClaimReleases
  <2>7. QED BY <2>4, <2>5, <2>6
<1>2. QED BY <1>1, IInvHolds, PTL

\* If the claim of the fan-out does not fail open, a side has one turn of round 1 at
\* work, and none while it waits or after it answered (tryClaimRound1Fanout,
\* initBotState and resumeBotFromWaiting of battle-state.ts).
THEOREM OneTurnOfASide == ASSUME "claim" \notin Faults PROVE Spec => []OneTurnPerSide
<1>1. IInv => OneTurnPerSide
  BY DEF IInv, WorkBounded, OneTurnPerSide
<1>2. QED BY <1>1, IInvHolds, PTL

\* The state keeps its types, with the bounds of a side's work.
THEOREM TypeCorrect == ASSUME "claim" \notin Faults PROVE Spec => []TypeOK
<1>1. IInv => TypeOK
  <2> SUFFICES ASSUME IInv PROVE TypeOK
    OBVIOUS
  <2>1. /\ config \in [on: BOOLEAN, active: Duels \cup {NoDuel}]
        /\ past \subseteq Duels \cup {NoDuel} /\ config.active \in past
        /\ rows \in [Duels -> [Sides -> States]]
        /\ marks \in [Duels -> SUBSET Sentinels]
        /\ fires \in [Duels -> Nat]
        /\ rebuttals \in [Duels -> [Sides -> Nat]]
        /\ asks \in 0..MaxAsks /\ faults \in 0..MaxFaults
    BY DEF IInv, Typed, PointersKnown
  <2>2. flow \in [Deliveries -> FlowRecs] /\ orch \in [Duels -> OrchRecs]
        /\ end \in [Enders \cup Deliveries -> EndRecs]
    BY DEF IInv, Typed, Calls
  <2>3. work \in [Duels -> [Sides -> [busy: 0..2, checking: 0..2]]]
    <3>1. work \in [Duels -> [Sides -> WorkRecs]]
      BY DEF IInv, Typed
    <3>2. ASSUME NEW d \in Duels, NEW s \in Sides
          PROVE  work[d][s] \in [busy: 0..2, checking: 0..2]
      <4>1. work[d][s] \in WorkRecs /\ work[d][s].busy <= 1 /\ work[d][s].checking <= 1
        BY <3>1 DEF IInv, WorkBounded
      <4>2. QED BY <4>1 DEF WorkRecs
    <3>3. \A d \in Duels : work[d] \in [Sides -> [busy: 0..2, checking: 0..2]]
      BY <3>1, <3>2
    <3>4. QED BY <3>1, <3>3
  <2>4. QED BY <2>1, <2>2, <2>3 DEF TypeOK, FlowRecs, SentMaps, OrchRecs, EndRecs
<1>2. QED BY <1>1, IInvHolds, PTL

\* If the marker of an end is not lost, a duel whose end suppressed round 2 takes no
\* pick that reads its rows once it is recorded, though both sides may have answered
\* meanwhile (markBattleAbandoned, and the gate of battle-outcome-api.ts, which fails open).
THEOREM NoPickAfterEnd == ASSUME "abandoned" \notin Faults PROVE Spec => []EndedTakesNoPick
<1>1. IInv => EndedTakesNoPick
  BY DEF IInv, EndRecorded, EndedTakesNoPick, TakesPick, DuelWasAbandoned, Calls
<1>2. QED BY <1>1, IInvHolds, PTL

\* If the marker of an end is not lost, no release takes the pointer of a duel
\* nobody has resolved or ended (clearActiveBattle of battle-state.ts).
THEOREM LateReleases == ASSUME "abandoned" \notin Faults PROVE Spec => LateReleaseHarmless
<1> DEFINE Harmless == \A d \in Duels :
             config.active = d /\ config'.active = NoDuel /\ config'.on
                 /\ (orch' # orch \/ end' # end)
             => marks[d] \cap {"orchestrator", "abandoned"} # {}
<1>1. ASSUME IInv, [Next]_vars PROVE Harmless
  <2>1. SUFFICES ASSUME NEW d \in Duels, config.active = d, config'.active = NoDuel, config'.on,
                        orch' # orch \/ end' # end
                 PROVE  marks[d] \cap {"orchestrator", "abandoned"} # {}
    OBVIOUS
  <2>2. d # NoDuel /\ Next
    BY <1>1, <2>1, BattleAssumption DEF vars
  <2>3. CASE config' = config
    BY <2>1, <2>2, <2>3
  <2>4. ASSUME NEW c, config' = Release(c) \/ UNCHANGED config PROVE c = d
    BY <2>1, <2>2, <2>4 DEF Release
  <2>5. ASSUME NEW c \in Duels, ReleaseResolved(c)
        PROVE  marks[d] \cap {"orchestrator", "abandoned"} # {}
    <3>1. c = d /\ orch[d].at = "hand"
      BY <2>4, <2>5 DEF ReleaseResolved
    <3>2. QED BY <1>1, <3>1 DEF IInv, FireClaimed
  <2>6. ASSUME NEW p \in Calls, ClearActiveBattle(p)
        PROVE  marks[d] \cap {"orchestrator", "abandoned"} # {}
    <3>1. end[p].duel = d /\ end[p].at = "sides"
      BY <2>4, <2>6 DEF ClearActiveBattle
    <3>2. QED BY <1>1, <2>6, <3>1 DEF IInv, EndRecorded
  <2>7. ~Enable /\ \A p \in Calls : ~DeleteConfig(p)
    BY <2>1 DEF Enable, DeleteConfig
  <2>8. \A f \in Deliveries : ~SetActiveBattle(f)
    BY <2>1 DEF SetActiveBattle
  <2>9. QED BY <2>2, <2>3, <2>5, <2>6, <2>7, <2>8, ConfigWriters
<1>2. QED BY <1>1, IInvHolds, PTL DEF Spec, LateReleaseHarmless
=============================================================================
