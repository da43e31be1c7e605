-------------------------- MODULE QueueList_proofs --------------------------
(***************************************************************************)
(* Theorems about QueueList.tla, for any messages, readings and limits:    *)
(* each loop of turn-lock.ts changes the lists as one write of             *)
(* TurnRecord.tla, and no message waits twice.                             *)
(*                                                                         *)
(* What Only computes is proved from the least number at which it would    *)
(* not (WFMin): a set of numbers stands for the induction hypothesis,      *)
(* since the provers cannot instantiate an operator.                       *)
(***************************************************************************)
EXTENDS QueueList, FiniteSetTheorems, TLAPS

-----------------------------------------------------------------------------
(* Lists.                                                                   *)

\* The least number of a set.
LEMMA LeastNumber ==
    ASSUME NEW T, T \subseteq Nat, T # {}
    PROVE  \E n \in T : \A k \in T : ~(k < n)
  <1>1. \E n \in T : \A k \in T : <<k, n>> \notin OpToRel(<, Nat)
    BY WFMin, NatLessThanWellFounded
  <1>2. \A k, n \in Nat : k < n => <<k, n>> \in OpToRel(<, Nat)
    BY DEF OpToRel
  <1>3. QED BY <1>1, <1>2

LEMMA Members ==
    ASSUME NEW S, NEW s \in Seq(S)
    PROVE  ToSet(s) \subseteq S /\ \A x \in ToSet(s) : \E i \in 1..Len(s) : s[i] = x
  BY DEF ToSet

LEMMA EmptyList ==
    ToSet(<<>>) = {} /\ IsInjective(<<>>) /\ \A S : <<>> \in Seq(S)
  BY DEF ToSet, IsInjective

LEMMA NoMembers ==
    ASSUME NEW S, NEW s \in Seq(S), ToSet(s) = {}
    PROVE  s = <<>>
  <1>1. Len(s) \in Nat /\ \A i \in 1..Len(s) : s[i] \in ToSet(s)
    BY DEF ToSet
  <1>2. Len(s) = 0
    <2>1. ASSUME Len(s) # 0 PROVE FALSE
      <3>1. 1 \in 1..Len(s)
        BY <1>1, <2>1
      <3>2. QED BY <1>1, <3>1
    <2>2. QED BY <2>1
  <1>3. QED BY <1>2

LEMMA Appended ==
    ASSUME NEW S, NEW s \in Seq(S), NEW x \in S
    PROVE  /\ Append(s, x) \in Seq(S)
           /\ ToSet(Append(s, x)) = ToSet(s) \cup {x}
           /\ IsInjective(s) /\ x \notin ToSet(s) => IsInjective(Append(s, x))
  <1> DEFINE t == Append(s, x)
  <1>1. /\ t \in Seq(S) /\ Len(t) = Len(s) + 1 /\ t[Len(s) + 1] = x
        /\ \A i \in 1..Len(s) : t[i] = s[i]
    OBVIOUS
  <1>2. DOMAIN t = 1..Len(s) + 1 /\ DOMAIN s = 1..Len(s) /\ Len(s) \in Nat
    BY <1>1
  <1> HIDE DEF t
  <1>3. ToSet(t) = ToSet(s) \cup {x}
    <2>1. ToSet(t) \subseteq ToSet(s) \cup {x}
      BY <1>1, <1>2 DEF ToSet
    <2>2. ToSet(s) \subseteq ToSet(t)
      BY <1>1, <1>2 DEF ToSet
    <2>3. x \in ToSet(t)
      BY <1>1, <1>2 DEF ToSet
    <2>4. QED BY <2>1, <2>2, <2>3
  <1>4. ASSUME IsInjective(s), x \notin ToSet(s) PROVE IsInjective(t)
    <2> SUFFICES ASSUME NEW i \in 1..Len(s) + 1, NEW j \in 1..Len(s) + 1, t[i] = t[j]
                 PROVE  i = j
      BY <1>2 DEF IsInjective
    <2>1. \A k \in 1..Len(s) : s[k] # x
      BY <1>2, <1>4 DEF ToSet
    <2>2. CASE i = Len(s) + 1 \/ j = Len(s) + 1
      BY <1>1, <1>2, <2>1, <2>2
    <2>3. CASE i # Len(s) + 1 /\ j # Len(s) + 1
      BY <1>1, <1>2, <1>4, <2>3 DEF IsInjective
    <2>4. QED BY <2>2, <2>3
  <1>5. QED BY <1>1, <1>3, <1>4 DEF t

LEMMA Joined ==
    ASSUME NEW S, NEW s \in Seq(S), NEW t \in Seq(S)
    PROVE  /\ s \o t \in Seq(S)
           /\ ToSet(s \o t) = ToSet(s) \cup ToSet(t)
           /\ IsInjective(s) /\ IsInjective(t) /\ ToSet(s) \cap ToSet(t) = {}
              => IsInjective(s \o t)
           /\ t = <<>> => s \o t = s
  <1> DEFINE u == s \o t
  <1>1. /\ u \in Seq(S) /\ Len(u) = Len(s) + Len(t)
        /\ \A i \in 1..Len(s) : u[i] = s[i]
        /\ \A i \in 1..Len(t) : u[Len(s) + i] = t[i]
    OBVIOUS
  <1>2. /\ DOMAIN u = 1..Len(s) + Len(t) /\ DOMAIN s = 1..Len(s) /\ DOMAIN t = 1..Len(t)
        /\ Len(s) \in Nat /\ Len(t) \in Nat
    BY <1>1
  <1>3. t = <<>> => u = s
    OBVIOUS
  <1> HIDE DEF u
  <1>4. \A i \in 1..Len(s) + Len(t) : \/ i \in 1..Len(s) /\ u[i] = s[i]
                                      \/ i - Len(s) \in 1..Len(t) /\ u[i] = t[i - Len(s)]
    <2> SUFFICES ASSUME NEW i \in 1..Len(s) + Len(t), i \notin 1..Len(s)
                 PROVE  i - Len(s) \in 1..Len(t) /\ u[i] = t[i - Len(s)]
      BY <1>1
    <2>1. i - Len(s) \in 1..Len(t) /\ Len(s) + (i - Len(s)) = i
      BY <1>2
    <2>2. u[Len(s) + (i - Len(s))] = t[i - Len(s)]
      BY <1>1, <2>1
    <2>3. QED BY <2>1, <2>2
  <1>5. ToSet(u) = ToSet(s) \cup ToSet(t)
    <2>1. ToSet(u) \subseteq ToSet(s) \cup ToSet(t)
      BY <1>2, <1>4 DEF ToSet
    <2>2. ToSet(s) \subseteq ToSet(u)
      BY <1>1, <1>2 DEF ToSet
    <2>3. ToSet(t) \subseteq ToSet(u)
      <3>1. \A i \in 1..Len(t) : Len(s) + i \in 1..Len(s) + Len(t)
        BY <1>2
      <3>2. QED BY <1>1, <1>2, <3>1 DEF ToSet
    <2>4. QED BY <2>1, <2>2, <2>3
  <1>6. ASSUME IsInjective(s), IsInjective(t), ToSet(s) \cap ToSet(t) = {}
        PROVE  IsInjective(u)
    <2> SUFFICES ASSUME NEW i \in 1..Len(s) + Len(t), NEW j \in 1..Len(s) + Len(t),
                        u[i] = u[j]
                 PROVE  i = j
      BY <1>2 DEF IsInjective
    <2>1. \A k \in 1..Len(s), l \in 1..Len(t) : s[k] # t[l]
      BY <1>2, <1>6 DEF ToSet
    <2>2. CASE i \in 1..Len(s) /\ j \in 1..Len(s)
      BY <1>1, <1>2, <1>6, <2>2 DEF IsInjective
    <2>3. CASE i \notin 1..Len(s) /\ j \notin 1..Len(s)
      <3>1. /\ i - Len(s) \in 1..Len(t) /\ j - Len(s) \in 1..Len(t)
            /\ t[i - Len(s)] = t[j - Len(s)]
        BY <1>4, <2>3
      <3>2. i - Len(s) = j - Len(s)
        BY <1>2, <1>6, <3>1 DEF IsInjective
      <3>3. QED BY <1>2, <3>2
    <2>4. CASE ~(i \in 1..Len(s) <=> j \in 1..Len(s))
      BY <1>1, <1>4, <2>1, <2>4
    <2>5. QED BY <2>2, <2>3, <2>4
  <1>7. QED BY <1>1, <1>3, <1>5, <1>6 DEF u

\* A list is as long as it has members if it has none twice, and longer otherwise.
LEMMA Counted ==
    ASSUME NEW S, NEW s \in Seq(S)
    PROVE  /\ IsFiniteSet(ToSet(s)) /\ Cardinality(ToSet(s)) <= Len(s)
           /\ IsInjective(s) => Cardinality(ToSet(s)) = Len(s)
  <1>1. s \in Surjection(1..Len(s), ToSet(s))
    BY DEF Surjection, ToSet
  <1>2. IsFiniteSet(1..Len(s)) /\ Cardinality(1..Len(s)) = Len(s)
    <2>1. Len(s) \in Nat /\ Len(s) \in Int /\ 1 \in Int
      OBVIOUS
    <2>2. Cardinality(1..Len(s)) = IF 1 > Len(s) THEN 0 ELSE Len(s) - 1 + 1
      BY <2>1, FS_Interval
    <2>3. QED BY <2>1, <2>2, FS_Interval
  <1>3. IsInjective(s) => s \in Injection(1..Len(s), ToSet(s))
    BY <1>1 DEF Injection, IsInjective, ToSet
  <1>4. QED BY <1>1, <1>2, <1>3, FS_Surjection

\* The end of a list.
LEMMA EndOf ==
    ASSUME NEW S, NEW s \in Seq(S), NEW n \in 0..Len(s)
    PROVE  LET e == SubSeq(s, Len(s) - n + 1, Len(s))
           IN  /\ e \in Seq(S) /\ Len(e) = n /\ ToSet(e) \subseteq ToSet(s)
               /\ IsInjective(s) => IsInjective(e)
  <1> DEFINE e == SubSeq(s, Len(s) - n + 1, Len(s))
  <1>1. /\ e \in Seq(S) /\ Len(e) = n
        /\ \A i \in 1..n : e[i] = s[Len(s) - n + i]
    OBVIOUS
  <1>2. DOMAIN e = 1..n /\ DOMAIN s = 1..Len(s) /\ Len(s) \in Nat
    BY <1>1
  <1> HIDE DEF e
  <1>3. \A i \in 1..n : Len(s) - n + i \in 1..Len(s)
    BY <1>2
  <1>4. ToSet(e) \subseteq ToSet(s)
    BY <1>1, <1>2, <1>3 DEF ToSet
  <1>5. ASSUME IsInjective(s) PROVE IsInjective(e)
    <2> SUFFICES ASSUME NEW i \in 1..n, NEW j \in 1..n, e[i] = e[j] PROVE i = j
      BY <1>2 DEF IsInjective
    <2>1. s[Len(s) - n + i] = s[Len(s) - n + j]
      BY <1>1
    <2>2. Len(s) - n + i = Len(s) - n + j
      BY <1>2, <1>3, <1>5, <2>1 DEF IsInjective
    <2>3. QED BY <1>2, <2>2
  <1>6. QED BY <1>1, <1>4, <1>5 DEF e

\* What Only computes, up to n.
Filtered(f, list, ids, n) ==
    f = [i \in 0..n |-> IF i = 0 THEN <<>>
                        ELSE IF list[i] \in ids THEN Append(f[i - 1], list[i]) ELSE f[i - 1]]

\* Up to n, f has the members that are among ids, each as often as the list.
Selects(f, list, ids, n) ==
    LET had == {list[i] : i \in 1..n}
    IN  /\ f[n] \in Seq(ToSet(list)) /\ ToSet(f[n]) = had \cap ids
        /\ IsInjective(list) => IsInjective(f[n])

LEMMA FilterExists ==
    ASSUME NEW S, NEW list \in Seq(S), NEW ids, NEW n \in 0..Len(list)
    PROVE  \E f : Filtered(f, list, ids, n) /\ Selects(f, list, ids, n)
  <1> DEFINE Holds(k) == \E f : Filtered(f, list, ids, k) /\ Selects(f, list, ids, k)
  <1> DEFINE Fails == {k \in 0..Len(list) : ~Holds(k)}
  <1>0. Len(list) \in Nat /\ DOMAIN list = 1..Len(list)
    OBVIOUS
  <1>1. ASSUME Fails # {} PROVE FALSE
    <2>1. PICK k \in Fails : \A l \in Fails : ~(l < k)
      <3>1. Fails \subseteq Nat
        BY <1>0
      <3>2. QED BY <1>1, <3>1, LeastNumber
    <2>2. k \in 0..Len(list) /\ ~Holds(k)
      BY <2>1
    <2>3. CASE k = 0
      <3>1. PICK f : f = [i \in 0..0 |-> <<>>]
        OBVIOUS
      <3>2. f[0] = <<>>
        BY <3>1
      <3>3. Filtered(f, list, ids, 0)
        <4>1. f = [i \in 0..0 |-> IF i = 0 THEN <<>>
                        ELSE IF list[i] \in ids THEN Append(f[i - 1], list[i]) ELSE f[i - 1]]
          BY <3>1
        <4>2. QED BY <4>1 DEF Filtered
      <3>4. Selects(f, list, ids, 0)
        BY <3>2, EmptyList DEF Selects
      <3>5. QED BY <2>2, <2>3, <3>3, <3>4
    <2>4. CASE k # 0
      <3>1. k - 1 \in 0..Len(list) /\ k - 1 < k /\ k \in 1..Len(list)
        BY <1>0, <2>2, <2>4
      <3>2. Holds(k - 1)
        BY <2>1, <3>1
      <3> HIDE DEF Fails
      <3>3. PICK f : Filtered(f, list, ids, k - 1) /\ Selects(f, list, ids, k - 1)
        BY <3>2
      <3> DEFINE next == IF list[k] \in ids THEN Append(f[k - 1], list[k]) ELSE f[k - 1]
      <3>4. PICK g : g = [i \in 0..k |-> IF i = k THEN next ELSE f[i]]
        OBVIOUS
      <3>5. g[k] = next /\ \A i \in 0..(k - 1) : g[i] = f[i]
        BY <3>1, <3>4
      <3>6. Filtered(g, list, ids, k)
        <4>1. \A i \in 0..(k - 1) : f[i] = IF i = 0 THEN <<>>
                 ELSE IF list[i] \in ids THEN Append(f[i - 1], list[i]) ELSE f[i - 1]
          BY <3>3 DEF Filtered
        <4>2. \A i \in 0..k : g[i] = IF i = 0 THEN <<>>
                 ELSE IF list[i] \in ids THEN Append(g[i - 1], list[i]) ELSE g[i - 1]
          <5> SUFFICES ASSUME NEW i \in 0..k
                       PROVE  g[i] = IF i = 0 THEN <<>>
                                     ELSE IF list[i] \in ids THEN Append(g[i - 1], list[i])
                                     ELSE g[i - 1]
            OBVIOUS
          <5>1. i # 0 => i - 1 \in 0..(k - 1) /\ g[i - 1] = f[i - 1]
            BY <3>1, <3>5
          <5>2. CASE i = k
            BY <2>4, <3>5, <5>1, <5>2
          <5>3. CASE i # k
            <6>1. i \in 0..(k - 1)
              BY <3>1, <5>3
            <6>2. QED BY <3>5, <4>1, <5>1, <6>1
          <5>4. QED BY <5>2, <5>3
        <4>3. g = [i \in 0..k |-> g[i]]
          BY <3>4
        <4>4. QED BY <4>2, <4>3 DEF Filtered
      <3>7. Selects(g, list, ids, k)
        <4> DEFINE had == {list[i] : i \in 1..(k - 1)}
        <4>1. /\ f[k - 1] \in Seq(ToSet(list)) /\ ToSet(f[k - 1]) = had \cap ids
              /\ IsInjective(list) => IsInjective(f[k - 1])
          BY <3>3 DEF Selects
        <4>2. {list[i] : i \in 1..k} = had \cup {list[k]}
          BY <3>1
        <4>3. list[k] \in ToSet(list)
          BY <1>0, <3>1 DEF ToSet
        <4>4. IsInjective(list) => list[k] \notin had
          BY <1>0, <3>1 DEF IsInjective
        <4> HIDE DEF had
        <4>5. CASE list[k] \in ids
          <5>1. g[k] = Append(f[k - 1], list[k])
            BY <3>5, <4>5
          <5>2. /\ g[k] \in Seq(ToSet(list)) /\ ToSet(g[k]) = (had \cap ids) \cup {list[k]}
                /\ IsInjective(list) => IsInjective(g[k])
            BY <4>1, <4>3, <4>4, <5>1, Appended
          <5>3. (had \cap ids) \cup {list[k]} = (had \cup {list[k]}) \cap ids
            BY <4>5
          <5>4. QED BY <4>2, <5>2, <5>3 DEF Selects
        <4>6. CASE list[k] \notin ids
          <5>1. g[k] = f[k - 1]
            BY <3>5, <4>6
          <5>2. had \cap ids = (had \cup {list[k]}) \cap ids
            BY <4>6
          <5>3. QED BY <4>1, <4>2, <5>1, <5>2 DEF Selects
        <4>7. QED BY <4>5, <4>6
      <3>8. QED BY <2>2, <3>6, <3>7
    <2>5. QED BY <2>3, <2>4
  <1>2. QED BY <1>1

LEMMA OnlyIs ==
    ASSUME NEW S, NEW list \in Seq(S), NEW ids
    PROVE  /\ Only(list, ids) \in Seq(S)
           /\ ToSet(Only(list, ids)) = ToSet(list) \cap ids
           /\ IsInjective(list) => IsInjective(Only(list, ids))
  <1> DEFINE n == Len(list)
  <1> DEFINE kept == CHOOSE g : Filtered(g, list, ids, n)
  <1>1. n \in 0..Len(list) /\ n \in Nat
    OBVIOUS
  <1>2. PICK f : Filtered(f, list, ids, n) /\ Selects(f, list, ids, n)
    BY <1>1, FilterExists
  <1>3. Filtered(kept, list, ids, n)
    BY <1>2, Zenon
  <1>4. Only(list, ids) = kept[n]
    BY DEF Only, Filtered
  <1> HIDE DEF kept
  <1>5. kept = f
    <2>1. ASSUME NEW i \in 0..n PROVE kept[i] = f[i]
      <3> DEFINE Differ == {j \in 0..n : kept[j] # f[j]}
      <3>1. ASSUME Differ # {} PROVE FALSE
        <4>1. PICK j \in Differ : \A l \in Differ : ~(l < j)
          <5>1. Differ \subseteq Nat
            BY <1>1
          <5>2. QED BY <3>1, <5>1, LeastNumber
        <4>2. j \in 0..n /\ kept[j] # f[j]
          BY <4>1
        <4>3. j # 0 => j - 1 \in 0..n /\ j - 1 < j /\ kept[j - 1] = f[j - 1]
          BY <1>1, <4>1
        <4>4. /\ kept[j] = IF j = 0 THEN <<>>
                 ELSE IF list[j] \in ids THEN Append(kept[j - 1], list[j]) ELSE kept[j - 1]
              /\ f[j] = IF j = 0 THEN <<>>
                 ELSE IF list[j] \in ids THEN Append(f[j - 1], list[j]) ELSE f[j - 1]
          BY <1>2, <1>3, <4>2 DEF Filtered
        <4>5. QED BY <4>2, <4>3, <4>4
      <3>2. QED BY <3>1
    <2>2. kept = [i \in 0..n |-> kept[i]] /\ f = [i \in 0..n |-> f[i]]
      BY <1>2, <1>3 DEF Filtered
    <2>3. QED BY <2>1, <2>2
  <1>6. {list[i] : i \in 1..n} = ToSet(list)
    BY DEF ToSet
  <1>7. /\ f[n] \in Seq(ToSet(list)) /\ ToSet(f[n]) = ToSet(list) \cap ids
        /\ IsInjective(list) => IsInjective(f[n])
    BY <1>2, <1>6 DEF Selects
  <1>8. f[n] \in Seq(S)
    BY <1>7, Members
  <1>9. QED BY <1>4, <1>5, <1>7, <1>8

LEMMA WithoutIs ==
    ASSUME NEW S, NEW list \in Seq(S), NEW ids
    PROVE  /\ Without(list, ids) \in Seq(S)
           /\ ToSet(Without(list, ids)) = ToSet(list) \ ids
           /\ IsInjective(list) => IsInjective(Without(list, ids))
  <1>1. PICK rest : rest = ToSet(list) \ ids
    OBVIOUS
  <1>2. Without(list, ids) = Only(list, rest)
    BY <1>1 DEF Without
  <1>3. ToSet(list) \cap rest = ToSet(list) \ ids
    BY <1>1
  <1>4. QED BY <1>2, <1>3, OnlyIs

-----------------------------------------------------------------------------
(* The inductive invariant.                                                 *)

\* The lists have been read only in a call that reads them.
GotInLoop == \A c \in Callers : call[c].got => call[c].op \in Loops

\* A message that has not arrived is on neither list.
NotYet == \A m \in Messages : In(m, "append") => m \notin ToSet(queued) \cup ToSet(amendments)

\* A queue is trimmed that was too long.
TrimSeen == \A m \in Messages : In(m, "trim") => Len(Seen(m).queued) > QueueMax

\* A reading that nobody displaced has the claim until it has cleared what it read.
Claimed ==
    takeovers = 0 => \A r \in Readings : call[r].op \in {"read", "record", "clear"} => triagedBy = r

\* Behind its back nothing is recorded that it has not seen.
RecordSeen ==
    takeovers = 0 => \A r \in Readings : In(r, "record") /\ call[r].got =>
        ToSet(amendments) \subseteq ToSet(Seen(r).amendments)

\* No message is on a list twice.
Once == takeovers = 0 => IsInjective(queued) /\ IsInjective(amendments)

IInv == TypeOK /\ GotInLoop /\ NotYet /\ TrimSeen /\ Claimed /\ RecordSeen /\ Once

-----------------------------------------------------------------------------
(* What the actions do to the calls.                                        *)

CallTyped == call \in [Callers -> Calls]
OthersSame(c) == \A d \in Callers : d # c => call'[d] = call[d]

\* c alone moves, to op, and has read nothing.
Goes(c, op) == CallTyped' /\ OthersSame(c) /\ call'[c].op = op /\ ~call'[c].got

Views == [queued : Seq(Messages), amendments : Seq(Messages), triagedBy : Readings \cup {NoOne}]

LEMMA Who ==
    /\ Callers = Messages \cup Readings \cup {Answer, Folder} /\ Answer # Folder
    /\ \A m \in Messages : m \notin Readings \cup {Answer, Folder}
    /\ \A r \in Readings : r \notin {Answer, Folder, NoOne}
  BY ListAssumption, IdsAssumption DEF Callers, Turns

LEMMA CallWritten ==
    ASSUME CallTyped, NEW c \in Callers, NEW x \in Calls, call' = [call EXCEPT ![c] = x]
    PROVE  CallTyped' /\ OthersSame(c) /\ call'[c] = x
  BY DEF CallTyped, OthersSame

LEMMA NoViewIs == NoView \in Views
  BY EmptyList DEF NoView, Views

LEMMA FreshIs ==
    ASSUME NEW op \in Ops
    PROVE  Fresh(op) \in Calls /\ Fresh(op).op = op /\ ~Fresh(op).got
  <1>1. 0 \in 0..Attempts - 1
    BY ListAssumption
  <1>2. Fresh(op).op = op /\ ~Fresh(op).got
    BY DEF Fresh
  <1>3. NoView \in Views
    BY NoViewIs
  <1>4. Fresh(op) \in Calls
    BY <1>1, <1>3 DEF Fresh, Calls, Views
  <1>5. QED BY <1>2, <1>4

LEMMA AfterIs ==
    ASSUME NEW c \in Callers, call[c].op \in Loops
    PROVE  /\ After(c) \in {"read", "clear", "return", "over", "take", "idle"} /\ After(c) \in Ops
           /\ After(c) \in {"read", "clear"} => In(c, "record")
  BY DEF After, Loops, Ops, In

LEMMA FinishMoves ==
    ASSUME CallTyped, NEW c \in Callers, call[c].op \in Loops, Finish(c)
    PROVE  Goes(c, After(c))
  <1>1. PICK o \in Ops : o = After(c)
    BY AfterIs
  <1>2. CASE o \in {"over", "idle"}
    <2>1. call' = [call EXCEPT ![c] = Fresh(o)]
      BY <1>1, <1>2 DEF Finish
    <2>2. Fresh(o) \in Calls /\ Fresh(o).op = o /\ ~Fresh(o).got
      BY FreshIs
    <2>3. QED BY <1>1, <2>1, <2>2, CallWritten DEF Goes
  <1>3. CASE o \notin {"over", "idle"}
    <2>1. PICK v \in Views : v = NoView
      BY NoViewIs
    <2>2. PICK x : x = [call[c] EXCEPT !.op = o, !.got = FALSE, !.view = v, !.tries = 0]
      OBVIOUS
    <2>3. call' = [call EXCEPT ![c] = x]
      BY <1>1, <1>3, <2>1, <2>2 DEF Finish, CallTyped
    <2>4. call[c] \in Calls /\ 0 \in 0..Attempts - 1
      BY ListAssumption DEF CallTyped
    <2>5. x \in Calls
      BY <2>2, <2>4, Zenon DEF Calls, Views
    <2>6. x.op = o /\ ~x.got
      BY <2>2, <2>4 DEF Calls
    <2>7. QED BY <1>1, <2>3, <2>5, <2>6, CallWritten DEF Goes
  <1>4. QED BY <1>2, <1>3

LEMMA TryAgainMoves ==
    ASSUME CallTyped, NEW c \in Callers, call[c].op \in Loops, TryAgain(c)
    PROVE  Goes(c, call[c].op) \/ Goes(c, After(c))
  <1>1. CASE call[c].tries + 1 < Attempts
    <2>1. call[c] \in Calls
      BY DEF CallTyped
    <2>2. PICK n \in 0..Attempts - 1 : n = call[c].tries + 1
      BY <1>1, <2>1, ListAssumption DEF Calls
    <2>3. PICK v \in Views : v = NoView
      BY NoViewIs
    <2>4. PICK x : x = [call[c] EXCEPT !.got = FALSE, !.view = v, !.tries = n]
      OBVIOUS
    <2>5. call' = [call EXCEPT ![c] = x]
      BY <1>1, <2>2, <2>3, <2>4 DEF TryAgain, CallTyped
    <2>6. x \in Calls
      BY <2>1, <2>4, Zenon DEF Calls, Views
    <2>7. x.op = call[c].op /\ ~x.got
      BY <2>1, <2>4 DEF Calls
    <2>8. QED BY <2>5, <2>6, <2>7, CallWritten DEF Goes
  <1>2. CASE ~(call[c].tries + 1 < Attempts)
    BY <1>2, FinishMoves DEF TryAgain
  <1>3. QED BY <1>1, <1>2

\* c alone moves, to op, and what it has read is as before.
Steps(c, op) ==
    CallTyped' /\ OthersSame(c) /\ call'[c].op = op /\ call'[c].got = call[c].got

LEMMA Typed == TypeOK => CallTyped /\ \A c \in Callers : call[c] \in Calls
  BY DEF TypeOK, CallTyped

LEMMA ReadListsMoves ==
    ASSUME TypeOK, NEW c \in Callers, ReadLists(c)
    PROVE  /\ CallTyped' /\ OthersSame(c) /\ call[c].op \in Loops /\ call'[c].op = call[c].op
           /\ call'[c].view = Now(c) /\ UNCHANGED <<queued, amendments, triagedBy, takeovers>>
  <1>1. CallTyped /\ call[c] \in Calls
    BY Typed
  <1>2. Now(c) \in Views
    BY EmptyList DEF Now, Views, TypeOK
  <1>3. PICK v \in Views : v = Now(c)
    BY <1>2
  <1>4. PICK x : x = [call[c] EXCEPT !.got = TRUE, !.view = v]
    OBVIOUS
  <1>5. call' = [call EXCEPT ![c] = x]
    BY <1>1, <1>3, <1>4 DEF ReadLists, CallTyped
  <1>6. x \in Calls
    BY <1>1, <1>4, Zenon DEF Calls, Views
  <1>7. x.op = call[c].op /\ x.view = v
    BY <1>1, <1>4 DEF Calls
  <1>8. QED BY <1>1, <1>3, <1>5, <1>6, <1>7, CallWritten DEF ReadLists, lists

LEMMA AppendMessageMoves ==
    ASSUME TypeOK, NEW m \in Messages, AppendMessage(m)
    PROVE  /\ Steps(m, call'[m].op) /\ In(m, "append") /\ call'[m].op \in {"trim", "over"}
           /\ call'[m].op = "trim" => Len(call'[m].view.queued) > QueueMax
           /\ queued' \in Seq(Messages) /\ ToSet(queued') = ToSet(queued) \cup {m}
           /\ IsInjective(queued) /\ m \notin ToSet(queued) => IsInjective(queued')
           /\ UNCHANGED <<amendments, triagedBy, takeovers>>
  <1>1. CallTyped /\ call[m] \in Calls /\ m \in Callers /\ queued \in Seq(Messages)
    BY Typed, Who DEF TypeOK
  <1>2. PICK q : q = queued'
    OBVIOUS
  <1>3. /\ q \in Seq(Messages) /\ ToSet(q) = ToSet(queued) \cup {m}
        /\ IsInjective(queued) /\ m \notin ToSet(queued) => IsInjective(q)
    BY <1>1, <1>2, Appended DEF AppendMessage
  <1>4. PICK o \in Ops : /\ o = IF Len(q) > QueueMax THEN "trim" ELSE "over"
                         /\ o \in {"trim", "over"} /\ (o = "trim" => Len(q) > QueueMax)
    BY DEF Ops
  <1>5. PICK v : v = [call[m].view EXCEPT !.queued = q]
    OBVIOUS
  <1>6. call[m].view \in Views
    BY <1>1 DEF Calls, Views
  <1>7. v \in Views /\ v.queued = q
    BY <1>3, <1>5, <1>6 DEF Views
  <1>8. PICK x : x = [call[m] EXCEPT !.op = o, !.view = v]
    OBVIOUS
  <1>9. call' = [call EXCEPT ![m] = x]
    <2>1. call' = [call EXCEPT ![m].op = o, ![m].view.queued = q]
      BY <1>2, <1>4 DEF AppendMessage
    <2>2. QED BY <1>1, <1>5, <1>8, <2>1 DEF CallTyped, Calls
  <1>10. x \in Calls
    BY <1>1, <1>7, <1>8, Zenon DEF Calls, Views
  <1>11. x.op = o /\ x.view = v /\ x.got = call[m].got
    BY <1>1, <1>8 DEF Calls
  <1>12. CallTyped' /\ OthersSame(m) /\ call'[m] = x
    BY <1>1, <1>9, <1>10, CallWritten
  <1>13. In(m, "append") /\ UNCHANGED <<amendments, triagedBy, takeovers>>
    BY DEF AppendMessage
  <1>14. QED BY <1>2, <1>3, <1>4, <1>7, <1>11, <1>12, <1>13 DEF Steps

LEMMA TrimMoves ==
    ASSUME TypeOK, TrimSeen, NEW m \in Messages, Trim(m)
    PROVE  /\ Steps(m, "over") /\ In(m, "trim") /\ UNCHANGED <<amendments, triagedBy, takeovers>>
           /\ \/ UNCHANGED queued
              \/ /\ Len(queued) > QueueMax /\ queued' \in Seq(Messages)
                 /\ ToSet(queued') \subseteq ToSet(queued) /\ Len(queued') = QueueMax
                 /\ IsInjective(queued) => IsInjective(queued')
  <1>1. CallTyped /\ call[m] \in Calls /\ m \in Callers /\ queued \in Seq(Messages)
    BY Typed, Who DEF TypeOK
  <1>2. PICK v \in Views : v = NoView
    BY NoViewIs
  <1>3. PICK x : x = [call[m] EXCEPT !.op = "over", !.view = v]
    OBVIOUS
  <1>4. call' = [call EXCEPT ![m] = x]
    BY <1>1, <1>2, <1>3 DEF Trim, CallTyped
  <1>5. "over" \in Ops
    BY DEF Ops
  <1>6. x \in Calls
    BY <1>1, <1>3, <1>5, Zenon DEF Calls, Views
  <1>7. x.op = "over" /\ x.got = call[m].got
    BY <1>1, <1>3 DEF Calls
  <1>8. Steps(m, "over")
    BY <1>1, <1>4, <1>6, <1>7, CallWritten DEF Steps
  <1>9. CASE queued = Seen(m).queued
    <2>1. Len(queued) > QueueMax /\ QueueMax \in 0..Len(queued)
      BY <1>1, <1>9, QueueMaxAssumption DEF Trim, TrimSeen
    <2>2. queued' = SubSeq(queued, Len(queued) - QueueMax + 1, Len(queued))
      BY <1>9 DEF Trim
    <2>3. QED BY <1>1, <1>8, <2>1, <2>2, EndOf DEF Trim
  <1>10. CASE queued # Seen(m).queued
    BY <1>8, <1>10 DEF Trim
  <1>11. QED BY <1>9, <1>10

LEMMA StartReadingMoves ==
    ASSUME TypeOK, NEW r \in Readings, StartReading(r)
    PROVE  /\ Steps(r, "claim") /\ In(r, "idle")
           /\ UNCHANGED <<queued, amendments, triagedBy, takeovers>>
  <1>1. CallTyped /\ call[r] \in Calls /\ r \in Callers /\ queued \in Seq(Messages)
    BY Typed, Who DEF TypeOK
  <1>2. PICK ids \in SUBSET Messages : ids = ToSet(queued)
    BY <1>1, Members
  <1>3. PICK x : x = [call[r] EXCEPT !.op = "claim", !.next = ids]
    OBVIOUS
  <1>4. call' = [call EXCEPT ![r] = x]
    BY <1>1, <1>2, <1>3 DEF StartReading, CallTyped
  <1>5. "claim" \in Ops
    BY DEF Ops
  <1>6. x \in Calls
    BY <1>1, <1>3, <1>5, Zenon DEF Calls
  <1>7. x.op = "claim" /\ x.got = call[r].got
    BY <1>1, <1>3 DEF Calls
  <1>8. QED BY <1>1, <1>4, <1>6, <1>7, CallWritten DEF Steps, StartReading, lists

LEMMA ClaimQueueMoves ==
    ASSUME TypeOK, NEW r \in Readings, ClaimQueue(r)
    PROVE  /\ Steps(r, "read") /\ In(r, "claim") /\ triagedBy' = r
           /\ UNCHANGED <<queued, amendments>>
           /\ \/ triagedBy = NoOne /\ UNCHANGED takeovers
              \/ takeovers < MaxTakeovers /\ takeovers' = takeovers + 1
  <1>1. CallTyped /\ call[r] \in Calls /\ r \in Callers
    BY Typed, Who
  <1>2. PICK x : x = [call[r] EXCEPT !.op = "read"]
    OBVIOUS
  <1>3. call' = [call EXCEPT ![r] = x]
    BY <1>1, <1>2 DEF ClaimQueue, CallTyped
  <1>4. "read" \in Ops
    BY DEF Ops
  <1>5. x \in Calls
    BY <1>1, <1>2, <1>4, Zenon DEF Calls
  <1>6. x.op = "read" /\ x.got = call[r].got
    BY <1>1, <1>2 DEF Calls
  <1>7. Steps(r, "read")
    BY <1>1, <1>3, <1>5, <1>6, CallWritten DEF Steps
  <1>8. QED BY <1>7 DEF ClaimQueue

LEMMA JudgeMoves ==
    ASSUME TypeOK, NEW r \in Readings, Judge(r)
    PROVE  /\ Steps(r, call'[r].op) /\ In(r, "read") /\ call'[r].op \in {"record", "read", "clear"}
           /\ UNCHANGED <<queued, amendments, triagedBy, takeovers>>
  <1>1. CallTyped /\ call[r] \in Calls /\ r \in Callers /\ queued \in Seq(Messages)
    BY Typed, Who DEF TypeOK
  <1>2. PICK now \in SUBSET Messages : now = ToSet(queued)
    BY <1>1, Members
  <1>3. PICK ids \in SUBSET Messages : ids = call[r].next
    BY <1>1 DEF Calls
  <1>4. PICK k \in Nat : k = call[r].n + 1
    BY <1>1 DEF Calls
  <1>5. PICK amend \in SUBSET Messages, next \in SUBSET Messages, op \in {"record", "read", "clear"} :
           call' = [call EXCEPT ![r].ids = ids, ![r].amend = amend, ![r].n = k,
                                ![r].next = next, ![r].op = op]
    <2>1. PICK amend \in SUBSET ids :
             call' = [call EXCEPT ![r].ids = ids, ![r].amend = amend, ![r].n = @ + 1,
                        ![r].next = IF ~(now \subseteq ids) /\ call[r].n + 1 < PassLimit
                                    THEN now ELSE {},
                        ![r].op = IF amend # {} THEN "record"
                                  ELSE IF ~(now \subseteq ids) /\ call[r].n + 1 < PassLimit
                                       THEN "read" ELSE "clear"]
      BY <1>2, <1>3 DEF Judge
    <2>2. PICK next \in SUBSET Messages :
             next = IF ~(now \subseteq ids) /\ call[r].n + 1 < PassLimit THEN now ELSE {}
      OBVIOUS
    <2>3. PICK op \in {"record", "read", "clear"} :
             op = IF amend # {} THEN "record"
                  ELSE IF ~(now \subseteq ids) /\ call[r].n + 1 < PassLimit THEN "read" ELSE "clear"
      OBVIOUS
    <2>4. call' = [call EXCEPT ![r].ids = ids, ![r].amend = amend, ![r].n = k,
                               ![r].next = next, ![r].op = op]
      BY <1>1, <1>4, <2>1, <2>2, <2>3 DEF CallTyped, Calls
    <2>5. amend \in SUBSET Messages
      BY <1>3, <2>1
    <2>6. QED BY <2>2, <2>3, <2>4, <2>5
  <1>6. PICK x : x = [call[r] EXCEPT !.ids = ids, !.amend = amend, !.n = k, !.next = next, !.op = op]
    OBVIOUS
  <1>7. call' = [call EXCEPT ![r] = x]
    BY <1>1, <1>5, <1>6 DEF CallTyped
  <1>8. op \in Ops
    BY <1>5 DEF Ops, Loops
  <1>9. x \in Calls
    BY <1>1, <1>3, <1>4, <1>5, <1>6, <1>8, Zenon DEF Calls
  <1>10. x.op = op /\ x.got = call[r].got
    BY <1>1, <1>6 DEF Calls
  <1>11. CallTyped' /\ OthersSame(r) /\ call'[r] = x
    BY <1>1, <1>7, <1>9, CallWritten
  <1>12. In(r, "read") /\ UNCHANGED <<queued, amendments, triagedBy, takeovers>>
    BY DEF Judge, lists
  <1>13. QED BY <1>5, <1>10, <1>11, <1>12 DEF Steps


LEMMA ReadingAfter ==
    ASSUME TypeOK, NEW r \in Readings
    PROVE  /\ In(r, "record") => After(r) \in {"read", "clear"}
           /\ In(r, "clear") => After(r) \in {"return", "over"}
  BY DEF After, In

LEMMA RecordAmendedMoves ==
    ASSUME TypeOK, NEW r \in Readings, RecordAmended(r)
    PROVE  /\ In(r, "record") /\ call[r].got /\ UNCHANGED <<queued, triagedBy, takeovers>>
           /\ Goes(r, "record") \/ Goes(r, "read") \/ Goes(r, "clear")
           /\ \/ UNCHANGED amendments
              \/ /\ amendments' \in Seq(Messages)
                 /\ ToSet(amendments') = ToSet(amendments) \cup
                       ((call[r].amend \ ToSet(Seen(r).amendments)) \cap ToSet(queued))
                 /\ IsInjective(queued) /\ IsInjective(amendments)
                    /\ ToSet(amendments) \subseteq ToSet(Seen(r).amendments)
                    => IsInjective(amendments')
  <1> DEFINE unseen == call[r].amend \ ToSet(Seen(r).amendments)
  <1>1. /\ CallTyped /\ call[r] \in Calls /\ r \in Callers
        /\ queued \in Seq(Messages) /\ amendments \in Seq(Messages)
    BY Typed, Who DEF TypeOK
  <1>2. In(r, "record") /\ call[r].got /\ call[r].op \in Loops /\ UNCHANGED <<queued, triagedBy, takeovers>>
    BY DEF RecordAmended, Writing, In, Loops
  <1>3. After(r) \in {"read", "clear"}
    BY <1>2, ReadingAfter
  <1>4. PICK list \in Seq(Messages) : list = Seen(r).queued
    BY <1>1 DEF Seen, Calls
  <1>5. PICK ids : ids = unseen
    OBVIOUS
  <1>6. PICK fresh \in Seq(Messages) :
           /\ fresh = Only(list, ids) /\ ToSet(fresh) = ToSet(list) \cap ids
           /\ IsInjective(list) => IsInjective(fresh)
    BY OnlyIs
  <1>7. IF fresh # <<>> /\ queued # list
        THEN TryAgain(r) /\ UNCHANGED amendments
        ELSE Finish(r) /\ amendments' = amendments \o fresh
    BY <1>4, <1>5, <1>6 DEF RecordAmended
  <1>8. CASE fresh # <<>> /\ queued # list
    <2>1. TryAgain(r) /\ UNCHANGED amendments
      BY <1>7, <1>8
    <2>2. Goes(r, "record") \/ Goes(r, "read") \/ Goes(r, "clear")
      BY <1>1, <1>2, <1>3, <2>1, TryAgainMoves DEF In
    <2>3. QED BY <1>2, <2>1, <2>2
  <1>9. CASE ~(fresh # <<>> /\ queued # list)
    <2>1. Finish(r) /\ amendments' = amendments \o fresh
      BY <1>7, <1>9
    <2>2. Goes(r, "read") \/ Goes(r, "clear")
      BY <1>1, <1>2, <1>3, <2>1, FinishMoves
    <2>3. PICK a \in Seq(Messages) : a = amendments
      BY <1>1
    <2>4. /\ a \o fresh \in Seq(Messages) /\ ToSet(a \o fresh) = ToSet(a) \cup ToSet(fresh)
          /\ IsInjective(a) /\ IsInjective(fresh) /\ ToSet(a) \cap ToSet(fresh) = {}
             => IsInjective(a \o fresh)
          /\ fresh = <<>> => a \o fresh = a
      BY Joined
    <2>5. CASE fresh = <<>>
      <3>1. UNCHANGED amendments
        BY <2>1, <2>3, <2>4, <2>5
      <3>2. QED BY <1>2, <2>2, <3>1
    <2>6. CASE fresh # <<>>
      <3>1. queued = list
        BY <1>9, <2>6
      <3>2. ToSet(fresh) = unseen \cap ToSet(queued)
        BY <1>5, <1>6, <3>1
      <3>3. amendments' \in Seq(Messages)
            /\ ToSet(amendments') = ToSet(amendments) \cup (unseen \cap ToSet(queued))
        BY <2>1, <2>3, <2>4, <3>2
      <3>4. ASSUME IsInjective(queued), IsInjective(amendments),
                   ToSet(amendments) \subseteq ToSet(Seen(r).amendments)
            PROVE  IsInjective(amendments')
        <4>1. IsInjective(fresh) /\ IsInjective(a)
          BY <1>6, <2>3, <3>1, <3>4
        <4>2. ToSet(a) \cap ToSet(fresh) = {}
          BY <2>3, <3>2, <3>4
        <4>3. QED BY <2>1, <2>3, <2>4, <4>1, <4>2
      <3>5. QED BY <1>2, <2>2, <3>3, <3>4
    <2>7. QED BY <2>5, <2>6
  <1>10. QED BY <1>8, <1>9

LEMMA ClearMoves ==
    ASSUME TypeOK, NEW r \in Readings, Clear(r)
    PROVE  /\ In(r, "clear") /\ UNCHANGED <<amendments, takeovers>>
           /\ Goes(r, "clear") \/ Goes(r, "return") \/ Goes(r, "over")
           /\ \/ UNCHANGED <<queued, triagedBy>>
              \/ /\ Goes(r, "return") \/ Goes(r, "over")
                 /\ triagedBy = r /\ triagedBy' = NoOne
                 /\ queued' \in Seq(Messages) /\ ToSet(queued') = ToSet(queued) \ call[r].ids
                 /\ IsInjective(queued) => IsInjective(queued')
  <1>1. CallTyped /\ call[r] \in Calls /\ r \in Callers /\ queued \in Seq(Messages)
    BY Typed, Who DEF TypeOK
  <1>2. In(r, "clear") /\ call[r].op \in Loops /\ UNCHANGED <<amendments, takeovers>>
    BY DEF Clear, Writing, In, Loops
  <1>3. After(r) \in {"return", "over"}
    BY <1>2, ReadingAfter
  <1>4. Finish(r) => Goes(r, "return") \/ Goes(r, "over")
    BY <1>1, <1>2, <1>3, FinishMoves
  <1>5. TryAgain(r) => Goes(r, "clear") \/ Goes(r, "return") \/ Goes(r, "over")
    BY <1>1, <1>2, <1>3, TryAgainMoves DEF In
  <1>6. CASE Finish(r) /\ UNCHANGED <<queued, triagedBy>>
    BY <1>2, <1>4, <1>6
  <1>7. CASE TryAgain(r) /\ UNCHANGED <<queued, triagedBy>>
    BY <1>2, <1>5, <1>7
  <1>8. CASE /\ triagedBy = r /\ queued' = Without(queued, call[r].ids)
             /\ triagedBy' = NoOne /\ Finish(r)
    <2>1. PICK q \in Seq(Messages) : q = queued
      BY <1>1
    <2>2. PICK ids : ids = call[r].ids
      OBVIOUS
    <2>3. /\ Without(q, ids) \in Seq(Messages) /\ ToSet(Without(q, ids)) = ToSet(q) \ ids
          /\ IsInjective(q) => IsInjective(Without(q, ids))
      BY WithoutIs
    <2>4. /\ queued' \in Seq(Messages) /\ ToSet(queued') = ToSet(queued) \ call[r].ids
          /\ IsInjective(queued) => IsInjective(queued')
      BY <1>8, <2>1, <2>2, <2>3
    <2>5. QED BY <1>2, <1>4, <1>8, <2>4
  <1>9. QED BY <1>6, <1>7, <1>8 DEF Clear

-----------------------------------------------------------------------------
(* The answer and the run that folded.                                      *)

LEMMA FoldMoves ==
    ASSUME TypeOK, Fold
    PROVE  /\ CallTyped' /\ UNCHANGED <<queued, amendments, triagedBy, takeovers>>
           /\ \A c \in Callers \ {Answer, Folder} : call'[c] = call[c]
           /\ call'[Answer].op = call[Answer].op /\ call'[Answer].got = call[Answer].got
           /\ call'[Folder].op = "unmark" /\ call'[Folder].got = call[Folder].got
  <1>1. /\ CallTyped /\ Answer \in Callers /\ Folder \in Callers /\ Answer # Folder
        /\ call[Answer] \in Calls /\ call[Folder] \in Calls /\ amendments \in Seq(Messages)
    BY Typed, Who DEF TypeOK
  <1>2. PICK ids \in SUBSET Messages : ids = ToSet(amendments)
    BY <1>1, Members
  <1>3. PICK k \in Nat : k = call[Answer].n + 1
    BY <1>1 DEF Calls
  <1>4. PICK x : x = [call[Answer] EXCEPT !.n = k]
    OBVIOUS
  <1>5. PICK y : y = [call[Folder] EXCEPT !.op = "unmark", !.ids = ids]
    OBVIOUS
  <1>6. call' = [call EXCEPT ![Answer] = x, ![Folder] = y]
    BY <1>1, <1>2, <1>3, <1>4, <1>5 DEF Fold, CallTyped
  <1>7. "unmark" \in Ops
    BY DEF Ops, Loops
  <1>8. x \in Calls
    BY <1>1, <1>4, Zenon DEF Calls
  <1>9. y \in Calls
    BY <1>1, <1>5, <1>7, Zenon DEF Calls
  <1>10. x.op = call[Answer].op /\ x.got = call[Answer].got
    BY <1>1, <1>4 DEF Calls
  <1>11. y.op = "unmark" /\ y.got = call[Folder].got
    BY <1>1, <1>5 DEF Calls
  <1>12. /\ CallTyped' /\ \A c \in Callers \ {Answer, Folder} : call'[c] = call[c]
         /\ call'[Answer] = x /\ call'[Folder] = y
    BY <1>1, <1>6, <1>8, <1>9 DEF CallTyped
  <1>13. UNCHANGED <<queued, amendments, triagedBy, takeovers>>
    BY DEF Fold, lists
  <1>14. QED BY <1>10, <1>11, <1>12, <1>13

LEMMA UnmarkMoves ==
    ASSUME TypeOK, Unmark
    PROVE  /\ In(Folder, "unmark") /\ Goes(Folder, "take") /\ UNCHANGED <<queued, triagedBy, takeovers>>
           /\ \/ UNCHANGED amendments
              \/ /\ amendments' \in Seq(Messages)
                 /\ ToSet(amendments') = ToSet(amendments) \ call[Folder].ids
                 /\ IsInjective(amendments) => IsInjective(amendments')
  <1>1. CallTyped /\ Folder \in Callers /\ amendments \in Seq(Messages)
    BY Typed, Who DEF TypeOK
  <1>2. /\ In(Folder, "unmark") /\ call[Folder].op \in Loops /\ Finish(Folder)
        /\ UNCHANGED <<queued, triagedBy, takeovers>>
    BY DEF Unmark, Writing, In, Loops
  <1>3. After(Folder) = "take"
    BY <1>2 DEF After, In
  <1>4. Goes(Folder, "take")
    BY <1>1, <1>2, <1>3, FinishMoves
  <1>5. PICK a \in Seq(Messages) : a = amendments
    BY <1>1
  <1>6. PICK ids : ids = call[Folder].ids
    OBVIOUS
  <1>7. /\ Without(a, ids) \in Seq(Messages) /\ ToSet(Without(a, ids)) = ToSet(a) \ ids
        /\ IsInjective(a) => IsInjective(Without(a, ids))
    BY WithoutIs
  <1>8. amendments' = Without(a, ids) \/ UNCHANGED amendments
    BY <1>5, <1>6 DEF Unmark
  <1>9. QED BY <1>2, <1>4, <1>5, <1>6, <1>7, <1>8

LEMMA TakeFoldedMoves ==
    ASSUME TypeOK, TakeFolded
    PROVE  /\ In(Folder, "take") /\ (Goes(Folder, "take") \/ Goes(Folder, "idle"))
           /\ UNCHANGED <<amendments, triagedBy, takeovers>>
           /\ \/ UNCHANGED queued
              \/ /\ queued' \in Seq(Messages)
                 /\ ToSet(queued') = ToSet(queued) \ call[Folder].ids
                 /\ IsInjective(queued) => IsInjective(queued')
  <1>1. /\ CallTyped /\ Folder \in Callers /\ queued \in Seq(Messages) /\ call[Folder] \in Calls
    BY Typed, Who DEF TypeOK
  <1>2. /\ In(Folder, "take") /\ call[Folder].op \in Loops
        /\ UNCHANGED <<amendments, triagedBy, takeovers>>
    BY DEF TakeFolded, Writing, In, Loops
  <1>3. After(Folder) = "idle"
    BY <1>2 DEF After, In
  <1>4. (TryAgain(Folder) => Goes(Folder, "take") \/ Goes(Folder, "idle"))
        /\ (Finish(Folder) => Goes(Folder, "idle"))
    BY <1>1, <1>2, <1>3, TryAgainMoves, FinishMoves DEF In
  <1>5. PICK list \in Seq(Messages) : list = Seen(Folder).queued
    BY <1>1 DEF Seen, Calls
  <1>6. PICK ids : ids = call[Folder].ids
    OBVIOUS
  <1>7. PICK rest \in Seq(Messages) :
           /\ rest = Without(list, ids) /\ ToSet(rest) = ToSet(list) \ ids
           /\ IsInjective(list) => IsInjective(rest)
    BY WithoutIs
  <1>8. IF rest # list /\ queued # list
        THEN TryAgain(Folder) /\ UNCHANGED queued
        ELSE Finish(Folder) /\ queued' = IF rest = list THEN queued ELSE rest
    BY <1>5, <1>6, <1>7 DEF TakeFolded
  <1>9. UNCHANGED queued \/ (queued = list /\ queued' = rest)
    BY <1>8
  <1>10. QED BY <1>2, <1>4, <1>6, <1>7, <1>8, <1>9

LEMMA EndAnswerMoves ==
    ASSUME TypeOK, EndAnswer
    PROVE  /\ In(Answer, "work") /\ Goes(Answer, "return")
           /\ UNCHANGED <<queued, amendments, triagedBy, takeovers>>
  <1>1. CallTyped /\ Answer \in Callers
    BY Typed, Who
  <1>2. "return" \in Ops
    BY DEF Ops, Loops
  <1>3. PICK x \in Calls : x = Fresh("return") /\ x.op = "return" /\ ~x.got
    BY <1>2, FreshIs
  <1>4. call' = [call EXCEPT ![Answer] = x]
    BY <1>3 DEF EndAnswer
  <1>5. QED BY <1>1, <1>3, <1>4, CallWritten DEF Goes, EndAnswer, lists

LEMMA ReturnMoves ==
    ASSUME TypeOK, NEW c \in Readings \cup {Answer}, Return(c)
    PROVE  /\ In(c, "return") /\ (Goes(c, "return") \/ Goes(c, "over"))
           /\ UNCHANGED <<triagedBy, takeovers>>
           /\ \/ UNCHANGED <<queued, amendments>>
              \/ /\ queued' \in Seq(Messages) /\ amendments' = <<>>
                 /\ ToSet(queued') = ToSet(queued) \cup ToSet(amendments)
                 /\ IsInjective(queued) /\ IsInjective(amendments) => IsInjective(queued')
  <1>1. /\ CallTyped /\ c \in Callers /\ call[c] \in Calls
        /\ queued \in Seq(Messages) /\ amendments \in Seq(Messages)
    BY Typed, Who DEF TypeOK
  <1>2. In(c, "return") /\ call[c].op \in Loops /\ UNCHANGED <<triagedBy, takeovers>>
    BY DEF Return, Writing, In, Loops
  <1>3. After(c) = "over"
    BY <1>2 DEF After, In
  <1>4. (TryAgain(c) => Goes(c, "return") \/ Goes(c, "over")) /\ (Finish(c) => Goes(c, "over"))
    BY <1>1, <1>2, <1>3, TryAgainMoves, FinishMoves DEF In
  <1>5. PICK q \in Seq(Messages), a \in Seq(Messages) : q = Seen(c).queued /\ a = Seen(c).amendments
    BY <1>1 DEF Seen, Calls
  <1>6. PICK waiting : waiting = ToSet(q)
    OBVIOUS
  <1>7. PICK back \in Seq(Messages) :
           /\ back = Without(a, waiting) /\ ToSet(back) = ToSet(a) \ waiting
           /\ IsInjective(a) => IsInjective(back)
    BY WithoutIs
  <1>8. IF a # <<>> /\ ~(queued = q /\ amendments = a)
        THEN TryAgain(c) /\ UNCHANGED <<queued, amendments>>
        ELSE /\ Finish(c) /\ queued' = queued \o back
             /\ amendments' = IF a = <<>> THEN amendments ELSE <<>>
    BY <1>5, <1>6, <1>7 DEF Return
  <1>9. PICK now \in Seq(Messages) : now = queued
    BY <1>1
  <1>10. /\ now \o back \in Seq(Messages) /\ ToSet(now \o back) = ToSet(now) \cup ToSet(back)
         /\ IsInjective(now) /\ IsInjective(back) /\ ToSet(now) \cap ToSet(back) = {}
            => IsInjective(now \o back)
         /\ back = <<>> => now \o back = now
    BY Joined
  <1>11. CASE a # <<>> /\ ~(queued = q /\ amendments = a)
    BY <1>2, <1>4, <1>8, <1>11
  <1>12. CASE a = <<>>
    <2>1. ToSet(back) = {}
      BY <1>7, <1>12, EmptyList
    <2>2. back = <<>>
      BY <2>1, NoMembers
    <2>3. UNCHANGED <<queued, amendments>> /\ Finish(c)
      BY <1>8, <1>9, <1>10, <1>12, <2>2
    <2>4. QED BY <1>2, <1>4, <2>3
  <1>13. CASE a # <<>> /\ queued = q /\ amendments = a
    <2>1. Finish(c) /\ queued' = now \o back /\ amendments' = <<>> /\ now = q
      BY <1>8, <1>9, <1>13
    <2>2. ToSet(queued') = ToSet(queued) \cup ToSet(amendments) /\ queued' \in Seq(Messages)
      BY <1>6, <1>7, <1>10, <1>13, <2>1
    <2>3. IsInjective(queued) /\ IsInjective(amendments) => IsInjective(queued')
      BY <1>6, <1>7, <1>9, <1>10, <1>13, <2>1
    <2>4. QED BY <1>2, <1>4, <2>1, <2>2, <2>3
  <1>14. QED BY <1>11, <1>12, <1>13

-----------------------------------------------------------------------------
(* What keeps each part of the invariant, when c alone moves.               *)

LEMMA GotKept ==
    ASSUME GotInLoop, NEW c \in Callers, OthersSame(c), call'[c].got => call'[c].op \in Loops
    PROVE  GotInLoop'
  BY DEF GotInLoop, OthersSame

LEMMA NotYetKept ==
    ASSUME NotYet, NEW c \in Callers, OthersSame(c), call'[c].op # "append",
           ToSet(queued') \cup ToSet(amendments') \subseteq ToSet(queued) \cup ToSet(amendments) \cup {c}
    PROVE  NotYet'
  BY Who DEF NotYet, OthersSame, In

LEMMA TrimKept ==
    ASSUME TrimSeen, NEW c \in Callers, OthersSame(c),
           call'[c].op = "trim" => Len(call'[c].view.queued) > QueueMax
    PROVE  TrimSeen'
  BY Who DEF TrimSeen, OthersSame, In, Seen

LEMMA ClaimedKept ==
    ASSUME Claimed, NEW c \in Callers, OthersSame(c), UNCHANGED <<takeovers, triagedBy>>,
           c \in Readings /\ call'[c].op \in {"read", "record", "clear"}
              => call[c].op \in {"read", "record", "clear"}
    PROVE  Claimed'
  BY Who DEF Claimed, OthersSame

LEMMA RecordSeenKept ==
    ASSUME RecordSeen, NEW c \in Callers, OthersSame(c), takeovers' = 0 => takeovers = 0,
           ToSet(amendments') \subseteq ToSet(amendments),
           c \in Readings => ~(call'[c].op = "record" /\ call'[c].got)
    PROVE  RecordSeen'
  BY Who DEF RecordSeen, OthersSame, In, Seen

\* The lists stay what they are, and so does the claim.
LEMMA ListsStay ==
    ASSUME IInv, NEW c \in Callers, CallTyped', OthersSame(c),
           UNCHANGED <<queued, amendments, triagedBy, takeovers>>,
           call'[c].got => call'[c].op \in Loops,
           call'[c].op # "append", call'[c].op # "trim",
           c \in Readings /\ call'[c].op \in {"read", "record", "clear"}
              => call[c].op \in {"read", "record", "clear"},
           c \in Readings => ~(call'[c].op = "record" /\ call'[c].got)
    PROVE  IInv'
  <1>1. TypeOK'
    BY DEF IInv, TypeOK, CallTyped
  <1>2. GotInLoop'
    BY GotKept DEF IInv
  <1>3. NotYet'
    BY NotYetKept DEF IInv
  <1>4. TrimSeen'
    BY TrimKept DEF IInv
  <1>5. Claimed'
    BY ClaimedKept DEF IInv
  <1>6. RecordSeen'
    BY RecordSeenKept DEF IInv
  <1>7. Once'
    BY DEF IInv, Once
  <1>8. QED BY <1>1, <1>2, <1>3, <1>4, <1>5, <1>6, <1>7 DEF IInv

-----------------------------------------------------------------------------
(* Each action keeps the invariant.                                         *)

LEMMA ReadListsKeeps ==
    ASSUME IInv, NEW c \in Callers, ReadLists(c)
    PROVE  IInv'
  <1>1. /\ CallTyped' /\ OthersSame(c) /\ call[c].op \in Loops /\ call'[c].op = call[c].op
        /\ call'[c].view = Now(c) /\ UNCHANGED <<queued, amendments, triagedBy, takeovers>>
    BY ReadListsMoves DEF IInv
  <1>2. call'[c].op \in Loops /\ call'[c].op \notin {"append", "trim"}
    BY <1>1 DEF Loops
  <1>3. TypeOK'
    BY <1>1 DEF IInv, TypeOK, CallTyped
  <1>4. GotInLoop'
    BY <1>1, <1>2, GotKept DEF IInv
  <1>5. NotYet'
    BY <1>1, <1>2, NotYetKept DEF IInv
  <1>6. TrimSeen'
    BY <1>1, <1>2, TrimKept DEF IInv
  <1>7. Claimed'
    BY <1>1, ClaimedKept DEF IInv
  <1>8. RecordSeen'
    <2> SUFFICES ASSUME takeovers' = 0, NEW r \in Readings, In(r, "record")', call'[r].got
                 PROVE  ToSet(amendments') \subseteq ToSet(call'[r].view.amendments)
      BY DEF RecordSeen, Seen
    <2>1. CASE r = c
      <3>1. In(c, "record")
        BY <1>1, <2>1 DEF In
      <3>2. Now(c).amendments = amendments
        BY <3>1 DEF Now, In
      <3>3. QED BY <1>1, <2>1, <3>2
    <2>2. CASE r # c
      BY <1>1, <2>2, Who DEF IInv, RecordSeen, OthersSame, In, Seen
    <2>3. QED BY <2>1, <2>2
  <1>9. Once'
    BY <1>1 DEF IInv, Once
  <1>10. QED BY <1>3, <1>4, <1>5, <1>6, <1>7, <1>8, <1>9 DEF IInv

LEMMA AppendMessageKeeps ==
    ASSUME IInv, NEW m \in Messages, AppendMessage(m)
    PROVE  IInv'
  <1>1. /\ Steps(m, call'[m].op) /\ In(m, "append") /\ call'[m].op \in {"trim", "over"}
        /\ call'[m].op = "trim" => Len(call'[m].view.queued) > QueueMax
        /\ queued' \in Seq(Messages) /\ ToSet(queued') = ToSet(queued) \cup {m}
        /\ IsInjective(queued) /\ m \notin ToSet(queued) => IsInjective(queued')
        /\ UNCHANGED <<amendments, triagedBy, takeovers>>
    BY AppendMessageMoves DEF IInv
  <1>2. m \in Callers /\ m \notin Readings /\ CallTyped' /\ OthersSame(m)
    BY <1>1, Who DEF Steps
  <1>3. ~call'[m].got
    BY <1>1, <1>2 DEF Steps, IInv, GotInLoop, In, Loops
  <1>4. TypeOK'
    BY <1>1, <1>2 DEF IInv, TypeOK, CallTyped
  <1>5. GotInLoop'
    BY <1>2, <1>3, GotKept DEF IInv
  <1>6. NotYet'
    BY <1>1, <1>2, NotYetKept DEF IInv
  <1>7. TrimSeen'
    BY <1>1, <1>2, TrimKept DEF IInv
  <1>8. Claimed'
    BY <1>1, <1>2, ClaimedKept DEF IInv
  <1>9. RecordSeen'
    BY <1>1, <1>2, RecordSeenKept DEF IInv
  <1>10. Once'
    BY <1>1 DEF IInv, Once, NotYet
  <1>11. QED BY <1>4, <1>5, <1>6, <1>7, <1>8, <1>9, <1>10 DEF IInv

LEMMA TrimKeeps ==
    ASSUME IInv, NEW m \in Messages, Trim(m)
    PROVE  IInv'
  <1>1. /\ Steps(m, "over") /\ In(m, "trim") /\ UNCHANGED <<amendments, triagedBy, takeovers>>
        /\ \/ UNCHANGED queued
           \/ /\ Len(queued) > QueueMax /\ queued' \in Seq(Messages)
              /\ ToSet(queued') \subseteq ToSet(queued) /\ Len(queued') = QueueMax
              /\ IsInjective(queued) => IsInjective(queued')
    BY TrimMoves DEF IInv
  <1>2. m \in Callers /\ m \notin Readings /\ CallTyped' /\ OthersSame(m) /\ call'[m].op = "over"
    BY <1>1, Who DEF Steps
  <1>3. ~call'[m].got
    BY <1>1, <1>2 DEF Steps, IInv, GotInLoop, In, Loops
  <1>4. TypeOK'
    BY <1>1, <1>2 DEF IInv, TypeOK, CallTyped
  <1>5. GotInLoop'
    BY <1>2, <1>3, GotKept DEF IInv
  <1>6. NotYet'
    BY <1>1, <1>2, NotYetKept DEF IInv
  <1>7. TrimSeen'
    BY <1>2, TrimKept DEF IInv
  <1>8. Claimed'
    BY <1>1, <1>2, ClaimedKept DEF IInv
  <1>9. RecordSeen'
    BY <1>1, <1>2, RecordSeenKept DEF IInv
  <1>10. Once'
    BY <1>1 DEF IInv, Once
  <1>11. QED BY <1>4, <1>5, <1>6, <1>7, <1>8, <1>9, <1>10 DEF IInv

LEMMA StartReadingKeeps ==
    ASSUME IInv, NEW r \in Readings, StartReading(r)
    PROVE  IInv'
  <1>1. /\ Steps(r, "claim") /\ In(r, "idle")
        /\ UNCHANGED <<queued, amendments, triagedBy, takeovers>>
    BY StartReadingMoves DEF IInv
  <1>2. /\ r \in Callers /\ CallTyped' /\ OthersSame(r)
        /\ call'[r].op = "claim" /\ call'[r].got = call[r].got
    BY <1>1, Who DEF Steps
  <1>3. ~call'[r].got
    BY <1>1, <1>2 DEF IInv, GotInLoop, In, Loops
  <1>4. QED BY <1>1, <1>2, <1>3, ListsStay

LEMMA ClaimQueueKeeps ==
    ASSUME IInv, NEW r \in Readings, ClaimQueue(r)
    PROVE  IInv'
  <1>1. /\ Steps(r, "read") /\ In(r, "claim") /\ triagedBy' = r
        /\ UNCHANGED <<queued, amendments>>
        /\ \/ triagedBy = NoOne /\ UNCHANGED takeovers
           \/ takeovers < MaxTakeovers /\ takeovers' = takeovers + 1
    BY ClaimQueueMoves DEF IInv
  <1>2. /\ r \in Callers /\ CallTyped' /\ OthersSame(r)
        /\ call'[r].op = "read" /\ call'[r].got = call[r].got
    BY <1>1, Who DEF Steps
  <1>3. ~call'[r].got
    BY <1>1, <1>2 DEF IInv, GotInLoop, In, Loops
  <1>4. takeovers \in Nat /\ takeovers' \in 0..MaxTakeovers
    BY <1>1, ListAssumption DEF IInv, TypeOK
  <1>5. takeovers' = 0 => takeovers = 0 /\ triagedBy = NoOne
    BY <1>1, <1>4
  <1>6. TypeOK'
    BY <1>1, <1>2, <1>4 DEF IInv, TypeOK, CallTyped
  <1>7. GotInLoop'
    BY <1>2, <1>3, GotKept DEF IInv
  <1>8. NotYet'
    BY <1>1, <1>2, NotYetKept DEF IInv
  <1>9. TrimSeen'
    BY <1>2, TrimKept DEF IInv
  <1>10. Claimed'
    BY <1>1, <1>2, <1>5, Who DEF IInv, Claimed, OthersSame
  <1>11. RecordSeen'
    BY <1>1, <1>2, <1>3, <1>5, RecordSeenKept DEF IInv
  <1>12. Once'
    BY <1>1, <1>5 DEF IInv, Once
  <1>13. QED BY <1>6, <1>7, <1>8, <1>9, <1>10, <1>11, <1>12 DEF IInv

LEMMA JudgeKeeps ==
    ASSUME IInv, NEW r \in Readings, Judge(r)
    PROVE  IInv'
  <1>1. /\ Steps(r, call'[r].op) /\ In(r, "read") /\ call'[r].op \in {"record", "read", "clear"}
        /\ UNCHANGED <<queued, amendments, triagedBy, takeovers>>
    BY JudgeMoves DEF IInv
  <1>2. /\ r \in Callers /\ CallTyped' /\ OthersSame(r) /\ call'[r].got = call[r].got
    BY <1>1, Who DEF Steps
  <1>3. ~call'[r].got
    BY <1>1, <1>2 DEF IInv, GotInLoop, In, Loops
  <1>4. QED BY <1>1, <1>2, <1>3, ListsStay DEF In

LEMMA RecordAmendedKeeps ==
    ASSUME IInv, NEW r \in Readings, RecordAmended(r)
    PROVE  IInv'
  <1>1. /\ In(r, "record") /\ call[r].got /\ UNCHANGED <<queued, triagedBy, takeovers>>
        /\ Goes(r, "record") \/ Goes(r, "read") \/ Goes(r, "clear")
        /\ \/ UNCHANGED amendments
           \/ /\ amendments' \in Seq(Messages)
              /\ ToSet(amendments') = ToSet(amendments) \cup
                    ((call[r].amend \ ToSet(Seen(r).amendments)) \cap ToSet(queued))
              /\ IsInjective(queued) /\ IsInjective(amendments)
                 /\ ToSet(amendments) \subseteq ToSet(Seen(r).amendments)
                 => IsInjective(amendments')
    BY RecordAmendedMoves DEF IInv
  <1>2. /\ r \in Callers /\ CallTyped' /\ OthersSame(r) /\ ~call'[r].got
        /\ call'[r].op \in {"record", "read", "clear"}
    BY <1>1, Who DEF Goes
  <1>3. TypeOK'
    BY <1>1, <1>2 DEF IInv, TypeOK, CallTyped
  <1>4. GotInLoop'
    BY <1>2, GotKept DEF IInv
  <1>5. NotYet'
    BY <1>1, <1>2, NotYetKept DEF IInv
  <1>6. TrimSeen'
    BY <1>2, TrimKept DEF IInv
  <1>7. Claimed'
    BY <1>1, <1>2, ClaimedKept DEF IInv, In
  <1>8. RecordSeen'
    \* A reading that is to record has the claim: r is the only one.
    <2>1. ASSUME takeovers = 0, NEW d \in Readings, In(d, "record") PROVE d = r
      BY <1>1, <2>1 DEF IInv, Claimed, In
    <2>2. ASSUME takeovers' = 0, NEW d \in Readings, In(d, "record")', call'[d].got PROVE FALSE
      <3>1. d # r
        BY <1>2, <2>2
      <3>2. call'[d] = call[d]
        BY <1>2, <3>1, Who DEF OthersSame
      <3>3. In(d, "record") /\ takeovers = 0
        BY <1>1, <2>2, <3>2 DEF In
      <3>4. QED BY <2>1, <3>1, <3>3
    <2>3. QED BY <2>2 DEF RecordSeen
  <1>9. Once'
    BY <1>1 DEF IInv, Once, RecordSeen
  <1>10. QED BY <1>3, <1>4, <1>5, <1>6, <1>7, <1>8, <1>9 DEF IInv

LEMMA ClearKeeps ==
    ASSUME IInv, NEW r \in Readings, Clear(r)
    PROVE  IInv'
  <1>1. /\ In(r, "clear") /\ UNCHANGED <<amendments, takeovers>>
        /\ Goes(r, "clear") \/ Goes(r, "return") \/ Goes(r, "over")
        /\ \/ UNCHANGED <<queued, triagedBy>>
           \/ /\ Goes(r, "return") \/ Goes(r, "over")
              /\ triagedBy = r /\ triagedBy' = NoOne
              /\ queued' \in Seq(Messages) /\ ToSet(queued') = ToSet(queued) \ call[r].ids
              /\ IsInjective(queued) => IsInjective(queued')
    BY ClearMoves DEF IInv
  <1>2. /\ r \in Callers /\ CallTyped' /\ OthersSame(r) /\ ~call'[r].got
        /\ call'[r].op \in {"clear", "return", "over"}
    BY <1>1, Who DEF Goes
  <1>3. TypeOK'
    BY <1>1, <1>2 DEF IInv, TypeOK, CallTyped
  <1>4. GotInLoop'
    BY <1>2, GotKept DEF IInv
  <1>5. NotYet'
    BY <1>1, <1>2, NotYetKept DEF IInv
  <1>6. TrimSeen'
    BY <1>2, TrimKept DEF IInv
  <1>7. Claimed'
    <2>1. CASE UNCHANGED triagedBy
      BY <1>1, <1>2, <2>1, ClaimedKept DEF IInv, In
    <2>2. CASE triagedBy = r /\ call'[r].op \in {"return", "over"}
      BY <1>1, <1>2, <2>2, Who DEF IInv, Claimed, OthersSame
    <2>3. QED BY <1>1, <2>1, <2>2 DEF Goes
  <1>8. RecordSeen'
    BY <1>1, <1>2, RecordSeenKept DEF IInv
  <1>9. Once'
    BY <1>1 DEF IInv, Once
  <1>10. QED BY <1>3, <1>4, <1>5, <1>6, <1>7, <1>8, <1>9 DEF IInv

LEMMA FoldKeeps ==
    ASSUME IInv, Fold
    PROVE  IInv'
  <1>1. /\ CallTyped' /\ UNCHANGED <<queued, amendments, triagedBy, takeovers>>
        /\ \A c \in Callers \ {Answer, Folder} : call'[c] = call[c]
        /\ call'[Answer].op = call[Answer].op /\ call'[Answer].got = call[Answer].got
        /\ call'[Folder].op = "unmark" /\ call'[Folder].got = call[Folder].got
    BY FoldMoves DEF IInv
  <1>2. \A c \in Messages \cup Readings : call'[c] = call[c] /\ c \in Callers
    BY <1>1, Who
  <1>3. TypeOK'
    BY <1>1 DEF IInv, TypeOK, CallTyped
  <1>4. GotInLoop'
    BY <1>1, Who DEF IInv, GotInLoop, Loops
  <1>5. NotYet' /\ TrimSeen' /\ Claimed' /\ RecordSeen' /\ Once'
    BY <1>1, <1>2 DEF IInv, NotYet, TrimSeen, Claimed, RecordSeen, Once, In, Seen
  <1>6. QED BY <1>3, <1>4, <1>5 DEF IInv

LEMMA UnmarkKeeps ==
    ASSUME IInv, Unmark
    PROVE  IInv'
  <1>1. /\ In(Folder, "unmark") /\ Goes(Folder, "take") /\ UNCHANGED <<queued, triagedBy, takeovers>>
        /\ \/ UNCHANGED amendments
           \/ /\ amendments' \in Seq(Messages)
              /\ ToSet(amendments') = ToSet(amendments) \ call[Folder].ids
              /\ IsInjective(amendments) => IsInjective(amendments')
    BY UnmarkMoves DEF IInv
  <1>2. /\ Folder \in Callers /\ Folder \notin Readings /\ CallTyped' /\ OthersSame(Folder)
        /\ ~call'[Folder].got /\ call'[Folder].op = "take"
    BY <1>1, Who DEF Goes
  <1>3. TypeOK'
    BY <1>1, <1>2 DEF IInv, TypeOK, CallTyped
  <1>4. GotInLoop'
    BY <1>2, GotKept DEF IInv
  <1>5. NotYet'
    BY <1>1, <1>2, NotYetKept DEF IInv
  <1>6. TrimSeen'
    BY <1>2, TrimKept DEF IInv
  <1>7. Claimed'
    BY <1>1, <1>2, ClaimedKept DEF IInv
  <1>8. RecordSeen'
    BY <1>1, <1>2, RecordSeenKept DEF IInv
  <1>9. Once'
    BY <1>1 DEF IInv, Once
  <1>10. QED BY <1>3, <1>4, <1>5, <1>6, <1>7, <1>8, <1>9 DEF IInv

LEMMA TakeFoldedKeeps ==
    ASSUME IInv, TakeFolded
    PROVE  IInv'
  <1>1. /\ In(Folder, "take") /\ (Goes(Folder, "take") \/ Goes(Folder, "idle"))
        /\ UNCHANGED <<amendments, triagedBy, takeovers>>
        /\ \/ UNCHANGED queued
           \/ /\ queued' \in Seq(Messages)
              /\ ToSet(queued') = ToSet(queued) \ call[Folder].ids
              /\ IsInjective(queued) => IsInjective(queued')
    BY TakeFoldedMoves DEF IInv
  <1>2. /\ Folder \in Callers /\ Folder \notin Readings /\ CallTyped' /\ OthersSame(Folder)
        /\ ~call'[Folder].got /\ call'[Folder].op \in {"take", "idle"}
    BY <1>1, Who DEF Goes
  <1>3. TypeOK'
    BY <1>1, <1>2 DEF IInv, TypeOK, CallTyped
  <1>4. GotInLoop'
    BY <1>2, GotKept DEF IInv
  <1>5. NotYet'
    BY <1>1, <1>2, NotYetKept DEF IInv
  <1>6. TrimSeen'
    BY <1>2, TrimKept DEF IInv
  <1>7. Claimed'
    BY <1>1, <1>2, ClaimedKept DEF IInv
  <1>8. RecordSeen'
    BY <1>1, <1>2, RecordSeenKept DEF IInv
  <1>9. Once'
    BY <1>1 DEF IInv, Once
  <1>10. QED BY <1>3, <1>4, <1>5, <1>6, <1>7, <1>8, <1>9 DEF IInv

LEMMA EndAnswerKeeps ==
    ASSUME IInv, EndAnswer
    PROVE  IInv'
  <1>1. /\ In(Answer, "work") /\ Goes(Answer, "return")
        /\ UNCHANGED <<queued, amendments, triagedBy, takeovers>>
    BY EndAnswerMoves DEF IInv
  <1>2. /\ Answer \in Callers /\ CallTyped' /\ OthersSame(Answer)
        /\ ~call'[Answer].got /\ call'[Answer].op = "return"
    BY <1>1, Who DEF Goes
  <1>3. QED BY <1>1, <1>2, ListsStay

LEMMA ReturnKeeps ==
    ASSUME IInv, NEW c \in Readings \cup {Answer}, Return(c)
    PROVE  IInv'
  <1>1. /\ In(c, "return") /\ (Goes(c, "return") \/ Goes(c, "over"))
        /\ UNCHANGED <<triagedBy, takeovers>>
        /\ \/ UNCHANGED <<queued, amendments>>
           \/ /\ queued' \in Seq(Messages) /\ amendments' = <<>>
              /\ ToSet(queued') = ToSet(queued) \cup ToSet(amendments)
              /\ IsInjective(queued) /\ IsInjective(amendments) => IsInjective(queued')
    BY ReturnMoves DEF IInv
  <1>2. /\ c \in Callers /\ CallTyped' /\ OthersSame(c)
        /\ ~call'[c].got /\ call'[c].op \in {"return", "over"}
    BY <1>1, Who DEF Goes
  <1>3. UNCHANGED amendments \/ (amendments' \in Seq(Messages) /\ ToSet(amendments') = {} /\ IsInjective(amendments'))
    BY <1>1, EmptyList
  <1>4. TypeOK'
    BY <1>1, <1>2, <1>3 DEF IInv, TypeOK, CallTyped
  <1>5. GotInLoop'
    BY <1>2, GotKept DEF IInv
  <1>6. NotYet'
    BY <1>1, <1>2, <1>3, NotYetKept DEF IInv
  <1>7. TrimSeen'
    BY <1>2, TrimKept DEF IInv
  <1>8. Claimed'
    BY <1>1, <1>2, ClaimedKept DEF IInv
  <1>9. RecordSeen'
    BY <1>1, <1>2, <1>3, RecordSeenKept DEF IInv
  <1>10. Once'
    BY <1>1, <1>3 DEF IInv, Once
  <1>11. QED BY <1>4, <1>5, <1>6, <1>7, <1>8, <1>9, <1>10 DEF IInv

-----------------------------------------------------------------------------
(* The invariant.                                                           *)

LEMMA InitHolds == Init => IInv
  <1> SUFFICES ASSUME Init PROVE IInv
    OBVIOUS
  <1>1. \A c \in Callers : \E op \in {"append", "work", "idle"} :
           call[c] = Fresh(op) /\ (op = "append" => c \in Messages)
    BY DEF Init
  <1>2. \A c \in Callers : /\ call[c] \in Calls /\ ~call[c].got
                           /\ call[c].op \in {"append", "work", "idle"}
    BY <1>1, FreshIs DEF Ops
  <1>3. TypeOK
    <2>1. call \in [Callers -> Calls]
      BY <1>2 DEF Init
    <2>2. 0 \in 0..MaxTakeovers
      BY ListAssumption
    <2>3. QED BY <2>1, <2>2, EmptyList DEF TypeOK, Init
  <1>4. GotInLoop
    BY <1>2 DEF GotInLoop
  <1>5. NotYet
    BY EmptyList DEF NotYet, Init
  <1>6. TrimSeen /\ Claimed /\ RecordSeen
    BY <1>2, Who DEF TrimSeen, Claimed, RecordSeen, In
  <1>7. Once
    BY EmptyList DEF Once, Init
  <1>8. QED BY <1>3, <1>4, <1>5, <1>6, <1>7 DEF IInv

LEMMA NextKeeps == ASSUME IInv, Next PROVE IInv'
  <1>1. CASE \E c \in Callers : ReadLists(c)
    BY <1>1, ReadListsKeeps
  <1>2. CASE \E m \in Messages : AppendMessage(m) \/ Trim(m)
    BY <1>2, AppendMessageKeeps, TrimKeeps
  <1>3. ASSUME NEW r \in Readings,
               StartReading(r) \/ ClaimQueue(r) \/ Judge(r) \/ RecordAmended(r) \/ Clear(r)
        PROVE  IInv'
    BY <1>3, StartReadingKeeps, ClaimQueueKeeps, JudgeKeeps, RecordAmendedKeeps, ClearKeeps
  <1>4. CASE Fold \/ Unmark \/ TakeFolded \/ EndAnswer
    BY <1>4, FoldKeeps, UnmarkKeeps, TakeFoldedKeeps, EndAnswerKeeps
  <1>5. CASE \E c \in Readings \cup {Answer} : Return(c)
    BY <1>5, ReturnKeeps
  <1>6. QED BY <1>1, <1>2, <1>3, <1>4, <1>5 DEF Next

LEMMA StutterKeeps == ASSUME IInv, UNCHANGED vars PROVE IInv'
  BY DEF vars, IInv, TypeOK, GotInLoop, NotYet, TrimSeen, Claimed, RecordSeen, Once, In, Seen

\* The lists are what the code keeps them to be in every state of every run: each part of
\* IInv is something turn-lock.ts relies on and nothing in it asserts.
THEOREM IInvHolds == Spec => []IInv
  <1>1. IInv /\ [Next]_vars => IInv'
    BY NextKeeps, StutterKeeps
  <1>2. QED BY InitHolds, <1>1, PTL DEF Spec

\* The lists and the calls are of the types the model declares.
THEOREM TypeCorrect == Spec => []TypeOK
  <1>1. IInv => TypeOK
    BY DEF IInv
  <1>2. QED BY IInvHolds, <1>1, PTL

\* No message waits twice as long as no claim is taken from a reading at work
\* (returnAmendmentsToQueue, recordAmendments, enqueueMessage).
THEOREM WaitsOnce == Spec => []WaitingOnce
  <1>1. IInv => WaitingOnce
    BY DEF IInv, Once, WaitingOnce
  <1>2. QED BY IInvHolds, <1>1, PTL

-----------------------------------------------------------------------------
(* One write.                                                               *)

\* The record that holds these lists.
Holding(q, a, reading) ==
    [ holder |-> NoOne, queued |-> q, amendments |-> a, triagedBy |-> reading,
      parked |-> NoOne, resumedBy |-> NoOne ]

LEMMA RecordIs ==
    /\ Record = Holding(ToSet(queued), ToSet(amendments), triagedBy)
    /\ Record' = Holding(ToSet(queued'), ToSet(amendments'), triagedBy')
  <1>1. \A q, a, reading :
           [EmptyRecord EXCEPT !.queued = q, !.amendments = a, !.triagedBy = reading]
           = Holding(q, a, reading)
    <2> TAKE q, a, reading
    <2>1. EmptyRecord = Holding({}, {}, NoOne)
      BY DEF EmptyRecord, Holding
    <2>2. PICK r : r = [EmptyRecord EXCEPT !.queued = q]
      OBVIOUS
    <2>3. r = Holding(q, {}, NoOne)
      BY <2>1, <2>2 DEF Holding
    <2>4. PICK r2 : r2 = [r EXCEPT !.amendments = a]
      OBVIOUS
    <2>5. r2 = Holding(q, a, NoOne)
      BY <2>3, <2>4 DEF Holding
    <2>6. [r2 EXCEPT !.triagedBy = reading] = Holding(q, a, reading)
      BY <2>5 DEF Holding
    <2>7. [EmptyRecord EXCEPT !.queued = q, !.amendments = a, !.triagedBy = reading]
          = [r2 EXCEPT !.triagedBy = reading]
      BY <2>2, <2>4
    <2>8. QED BY <2>6, <2>7
  <1>2. QED BY <1>1, Zenon DEF Record

\* What the writes of TurnRecord.tla do to it.
LEMMA Writes ==
    \A q, a, reading, x :
        LET h == Holding(q, a, reading) IN
        /\ Enqueue(h, x) = Holding(q \cup {x}, a, reading)
        /\ DropOldest(h, x) = Holding(q \ x, a, reading)
        /\ ClearQueue(h, x) = Holding(q \ x, a, NoOne)
        /\ TakeFoldedOffQueue(h, x) = Holding(q \ x, a, reading)
        /\ ClaimTriage(h, x) = Holding(q, a, x)
        /\ RecordAmendments(h, x) = Holding(q, a \cup (x \cap q), reading)
        /\ ClearAmendments(h, x) = Holding(q, a \ x, reading)
        /\ ReturnAmendments(h) = Holding(q \cup a, {}, reading)
        /\ h.queued = q /\ h.triagedBy = reading
  <1> TAKE q, a, reading, x
  <1> DEFINE h == Holding(q, a, reading)
  <1>1. h.queued = q /\ h.amendments = a /\ h.triagedBy = reading
    BY DEF Holding
  <1>2. Enqueue(h, x) = Holding(q \cup {x}, a, reading)
    BY DEF Holding, Enqueue
  <1>3. DropOldest(h, x) = Holding(q \ x, a, reading)
    BY DEF Holding, DropOldest
  <1>4. ClearQueue(h, x) = Holding(q \ x, a, NoOne)
    <2>1. PICK left : left = q \ x
      OBVIOUS
    <2>2. PICK k : k = [h EXCEPT !.queued = left]
      OBVIOUS
    <2>3. k = Holding(left, a, reading)
      BY <2>2 DEF Holding
    <2>4. [k EXCEPT !.triagedBy = NoOne] = Holding(left, a, NoOne)
      BY <2>3 DEF Holding
    <2>5. ClearQueue(h, x) = [k EXCEPT !.triagedBy = NoOne]
      BY <1>1, <2>1, <2>2 DEF ClearQueue
    <2>6. QED BY <2>1, <2>4, <2>5
  <1>5. TakeFoldedOffQueue(h, x) = Holding(q \ x, a, reading)
    BY DEF Holding, TakeFoldedOffQueue
  <1>6. ClaimTriage(h, x) = Holding(q, a, x)
    BY DEF Holding, ClaimTriage
  <1>7. RecordAmendments(h, x) = Holding(q, a \cup (x \cap q), reading)
    <2>1. PICK more : more = a \cup (x \cap q)
      OBVIOUS
    <2>2. [h EXCEPT !.amendments = more] = Holding(q, more, reading)
      BY DEF Holding
    <2>3. QED BY <1>1, <2>1, <2>2 DEF RecordAmendments
  <1>8. ClearAmendments(h, x) = Holding(q, a \ x, reading)
    BY DEF Holding, ClearAmendments
  <1>9. ReturnAmendments(h) = Holding(q \cup a, {}, reading)
    <2>1. PICK all : all = q \cup a
      OBVIOUS
    <2>2. PICK k : k = [h EXCEPT !.queued = all]
      OBVIOUS
    <2>3. k = Holding(all, a, reading)
      BY <2>2 DEF Holding
    <2>4. [k EXCEPT !.amendments = {}] = Holding(all, {}, reading)
      BY <2>3 DEF Holding
    <2>5. ReturnAmendments(h) = [k EXCEPT !.amendments = {}]
      BY <1>1, <2>1, <2>2 DEF ReturnAmendments
    <2>6. QED BY <2>1, <2>4, <2>5
  <1>10. QED BY <1>1, <1>2, <1>3, <1>4, <1>5, <1>6, <1>7, <1>8, <1>9

LEMMA SameLists ==
    ASSUME UNCHANGED <<queued, amendments, triagedBy>>
    PROVE  Record' = Record
  BY RecordIs

LEMMA AppendMessageWrites ==
    ASSUME IInv, NEW m \in Messages, AppendMessage(m)
    PROVE  AtomicWrite
  <1>1. /\ In(m, "append") /\ ToSet(queued') = ToSet(queued) \cup {m}
        /\ UNCHANGED <<amendments, triagedBy>>
    BY AppendMessageMoves DEF IInv
  <1>2. Record' = Enqueue(Record, m)
    BY <1>1, RecordIs, Writes
  <1>3. QED BY <1>1, <1>2 DEF AtomicWrite

LEMMA TrimWrites ==
    ASSUME IInv, NEW m \in Messages, Trim(m)
    PROVE  AtomicWrite \/ Record' = Record
  <1>1. /\ UNCHANGED <<amendments, triagedBy>> /\ queued \in Seq(Messages)
        /\ \/ UNCHANGED queued
           \/ /\ Len(queued) > QueueMax /\ queued' \in Seq(Messages)
              /\ ToSet(queued') \subseteq ToSet(queued) /\ Len(queued') = QueueMax
    BY TrimMoves DEF IInv, TypeOK
  <1>2. CASE UNCHANGED queued
    BY <1>1, <1>2, SameLists
  <1>3. CASE /\ Len(queued) > QueueMax /\ queued' \in Seq(Messages)
             /\ ToSet(queued') \subseteq ToSet(queued) /\ Len(queued') = QueueMax
    <2>1. PICK oldest \in SUBSET ToSet(queued) : oldest = ToSet(queued) \ ToSet(queued')
      OBVIOUS
    <2>2. ToSet(queued) \ oldest = ToSet(queued')
      BY <1>3, <2>1
    <2>3. Record' = DropOldest(Record, oldest) /\ Record.queued = ToSet(queued)
      BY <1>1, <2>2, RecordIs, Writes
    <2>4. PICK now \in Seq(Messages), left \in Seq(Messages) : now = queued /\ left = queued'
      BY <1>1, <1>3
    <2>5. /\ Cardinality(ToSet(left)) <= Len(left)
          /\ IsInjective(now) => Cardinality(ToSet(now)) = Len(now)
      BY Counted
    <2>6. Cardinality(Record.queued \ oldest) <= QueueMax
      BY <1>3, <2>2, <2>3, <2>4, <2>5
    <2>7. takeovers = 0 => OverflowOk(Record)
      BY <1>3, <2>3, <2>4, <2>5 DEF IInv, Once, OverflowOk
    <2>8. QED BY <1>3, <2>1, <2>3, <2>6, <2>7 DEF AtomicWrite
  <1>4. QED BY <1>1, <1>2, <1>3

LEMMA ClaimQueueWrites ==
    ASSUME IInv, NEW r \in Readings, ClaimQueue(r)
    PROVE  AtomicWrite
  <1>1. triagedBy' = r /\ UNCHANGED <<queued, amendments>>
    BY ClaimQueueMoves DEF IInv
  <1>2. Record' = ClaimTriage(Record, r)
    BY <1>1, RecordIs, Writes
  <1>3. ClaimTriageOk(Record, r, TRUE)
    BY DEF ClaimTriageOk
  <1>4. QED BY <1>2, <1>3 DEF AtomicWrite

LEMMA RecordAmendedWrites ==
    ASSUME IInv, NEW r \in Readings, RecordAmended(r)
    PROVE  AtomicWrite \/ Record' = Record
  <1> DEFINE unseen == call[r].amend \ ToSet(Seen(r).amendments)
  <1>1. /\ In(r, "record") /\ UNCHANGED <<queued, triagedBy>>
        /\ \/ UNCHANGED amendments
           \/ ToSet(amendments') = ToSet(amendments) \cup (unseen \cap ToSet(queued))
    BY RecordAmendedMoves DEF IInv
  <1>2. CASE UNCHANGED amendments
    BY <1>1, <1>2, SameLists
  <1>3. CASE ToSet(amendments') = ToSet(amendments) \cup (unseen \cap ToSet(queued))
    <2>1. PICK ids : ids = unseen
      OBVIOUS
    <2>2. Record' = RecordAmendments(Record, ids)
      BY <1>1, <1>3, <2>1, RecordIs, Writes
    <2>3. QED BY <1>1, <2>1, <2>2 DEF AtomicWrite
  <1>4. QED BY <1>1, <1>2, <1>3

LEMMA ClearWrites ==
    ASSUME IInv, NEW r \in Readings, Clear(r)
    PROVE  AtomicWrite \/ Record' = Record
  <1>1. /\ In(r, "clear") /\ UNCHANGED amendments
        /\ \/ UNCHANGED <<queued, triagedBy>>
           \/ /\ triagedBy = r /\ triagedBy' = NoOne
              /\ ToSet(queued') = ToSet(queued) \ call[r].ids
    BY ClearMoves DEF IInv
  <1>2. CASE UNCHANGED <<queued, triagedBy>>
    BY <1>1, <1>2, SameLists
  <1>3. CASE triagedBy = r /\ triagedBy' = NoOne /\ ToSet(queued') = ToSet(queued) \ call[r].ids
    <2>1. Record' = ClearQueue(Record, call[r].ids) /\ Record.triagedBy = r
      BY <1>1, <1>3, RecordIs, Writes
    <2>2. QED BY <1>1, <2>1 DEF AtomicWrite, ClearQueueOk
  <1>4. QED BY <1>1, <1>2, <1>3

LEMMA UnmarkWrites ==
    ASSUME IInv, Unmark
    PROVE  AtomicWrite \/ Record' = Record
  <1>1. /\ In(Folder, "unmark") /\ UNCHANGED <<queued, triagedBy>>
        /\ UNCHANGED amendments \/ ToSet(amendments') = ToSet(amendments) \ call[Folder].ids
    BY UnmarkMoves DEF IInv
  <1>2. Record' = Record \/ Record' = ClearAmendments(Record, call[Folder].ids)
    BY <1>1, SameLists, RecordIs, Writes
  <1>3. QED BY <1>1, <1>2 DEF AtomicWrite

LEMMA TakeFoldedWrites ==
    ASSUME IInv, TakeFolded
    PROVE  AtomicWrite \/ Record' = Record
  <1>1. /\ In(Folder, "take") /\ UNCHANGED <<amendments, triagedBy>>
        /\ UNCHANGED queued \/ ToSet(queued') = ToSet(queued) \ call[Folder].ids
    BY TakeFoldedMoves DEF IInv
  <1>2. Record' = Record \/ Record' = TakeFoldedOffQueue(Record, call[Folder].ids)
    BY <1>1, SameLists, RecordIs, Writes
  <1>3. QED BY <1>1, <1>2 DEF AtomicWrite

LEMMA ReturnWrites ==
    ASSUME IInv, NEW c \in Readings \cup {Answer}, Return(c)
    PROVE  AtomicWrite \/ Record' = Record
  <1>1. /\ In(c, "return") /\ UNCHANGED triagedBy
        /\ \/ UNCHANGED <<queued, amendments>>
           \/ ToSet(queued') = ToSet(queued) \cup ToSet(amendments) /\ ToSet(amendments') = {}
    BY ReturnMoves, EmptyList DEF IInv
  <1>2. Record' = Record \/ Record' = ReturnAmendments(Record)
    BY <1>1, SameLists, RecordIs, Writes
  <1>3. QED BY <1>1, <1>2 DEF AtomicWrite

LEMMA NextWrites == ASSUME IInv, Next PROVE AtomicWrite \/ Record' = Record
  <1>1. CASE \E c \in Callers : ReadLists(c)
    BY <1>1, SameLists DEF ReadLists, lists
  <1>2. CASE \E m \in Messages : AppendMessage(m) \/ Trim(m)
    BY <1>2, AppendMessageWrites, TrimWrites
  <1>3. ASSUME NEW r \in Readings, StartReading(r) \/ Judge(r) PROVE Record' = Record
    BY <1>3, SameLists DEF StartReading, Judge, lists
  <1>4. ASSUME NEW r \in Readings, ClaimQueue(r) \/ RecordAmended(r) \/ Clear(r)
        PROVE  AtomicWrite \/ Record' = Record
    BY <1>4, ClaimQueueWrites, RecordAmendedWrites, ClearWrites
  <1>5. CASE Fold \/ EndAnswer
    BY <1>5, SameLists DEF Fold, EndAnswer, lists
  <1>6. CASE Unmark \/ TakeFolded
    BY <1>6, UnmarkWrites, TakeFoldedWrites
  <1>7. CASE \E c \in Readings \cup {Answer} : Return(c)
    BY <1>7, ReturnWrites
  <1>8. QED BY <1>1, <1>2, <1>3, <1>4, <1>5, <1>6, <1>7 DEF Next

\* Every loop of turn-lock.ts changes the lists as one write of TurnRecord.tla, made to the
\* record as it is at that moment, whatever was written since the loop read it.
THEOREM WritesAtOnce == Spec => AtomicWrites
  <1>1. IInv /\ [Next]_vars => [AtomicWrite]_Record
    <2> SUFFICES ASSUME IInv, [Next]_vars PROVE AtomicWrite \/ Record' = Record
      OBVIOUS
    <2>1. CASE Next
      BY <2>1, NextWrites
    <2>2. CASE UNCHANGED vars
      BY <2>2, SameLists DEF vars
    <2>3. QED BY <2>1, <2>2
  <1>2. QED BY IInvHolds, <1>1, PTL DEF Spec, AtomicWrites
=============================================================================
