----------------------------- MODULE Invitation -----------------------------
(***************************************************************************)
(* Invitations into one conversation, from the invitations function (which *)
(* creates, reminds and revokes) and the credential exchange (which mints  *)
(* the invitee and redeems, as a link or as a first sign-in).              *)
(*                                                                         *)
(* The two share the Tokens record and nothing else.  The invitee's        *)
(* expiration and the membership are the messaging service's, the rows     *)
(* that say who signs in as whom are Identities', and the holder of a      *)
(* participant role is on the conversation's row: no two of the four       *)
(* change together, but for the sign-in's one transaction.                 *)
(*                                                                         *)
(* Every invitation here asks for the one participant role of its          *)
(* conversation, which one person may hold and which makes its holder a    *)
(* moderator.                                                              *)
(***************************************************************************)
EXTENDS Naturals, FiniteSets

CONSTANTS
    Invitations,  \* an invitation, its invitee and the call that creates it bear the same id
    Subjects,     \* sign-ins that have no account at first
    Calls,        \* redemption calls; each redeems once
    Reminders,    \* calls of the reminder, each confirmed by the inviter
    Revokers,     \* calls that revoke, by the inviter, a moderator or the console
    Own,          \* the person a subject becomes with no invitation
    NoOne,        \* an absent value
    Faults,       \* the kinds of failure that may happen
    MaxFaults     \* bound: how many failures in all

ASSUME InvitationAssumption ==
    /\ MaxFaults \in Nat
    /\ IsFiniteSet(Calls) /\ IsFiniteSet(Reminders)
    /\ {Own, NoOne} \cap Invitations = {} /\ Own # NoOne

VARIABLES
    record,    \* the Tokens record of each invitation
    create,    \* how far the call that creates it is
    expiring,  \* invitees whose AppInstanceUser has an expiration
    member,    \* invitees who are members of the conversation
    holds,     \* what the conversation's row says of each invitee and the role
    moderates, \* invitees who moderate the conversation
    identity,  \* Identities: whom each subject signs in as
    call, remind, revoke,
    admitted,  \* how often each invitation has been spent
    reminded,  \* how many reminders of each went out
    stuck,     \* invitees left with what a failure did not take back: the membership, the role,
               \* or the expiration that is off
    faults     \* failures left

vars == << record, create, expiring, member, holds, moderates, identity,
           call, remind, revoke, admitted, reminded, stuck, faults >>

Modes == {"link", "sign-in"}

(* The link of the invitation and the one a reminder adds. *)
Links == {"first", "second"}

Records == [ stored : {"no", "yes", "deleted"}, mode : Modes, consumed : SUBSET Links,
             revoked : BOOLEAN, expired : BOOLEAN, nudged : BOOLEAN ]

Creations == {"idle", "asked", "minted", "added", "claimed", "written",
              "conferred", "sent", "undo", "undoAll", "undoRole", "refused"}

Redemptions == [ pc  : {"idle", "read", "check", "consume", "vend", "expiration",
                        "transact", "reread", "restore", "over"},
                 inv : Invitations \cup {NoOne},
                 key : Links,                     \* which of the two links was presented
                 sub : Subjects \cup {NoOne} ]    \* who signs in, or nobody for a link

Others == [ pc  : {"idle", "find", "mark", "remove", "release", "take", "write", "mail", "done", "over"},
            inv : Invitations \cup {NoOne},
            saw : BOOLEAN ]                       \* the holding read names the role's moderation

TypeOK ==
    /\ record \in [ Invitations -> Records ]
    /\ create \in [ Invitations -> Creations ]
    /\ expiring \subseteq Invitations /\ member \subseteq Invitations
    /\ moderates \subseteq Invitations /\ stuck \subseteq Invitations
    /\ holds \in [ Invitations -> {"no", "plain", "moderator"} ]
    /\ identity \in [ Subjects -> Invitations \cup {Own, NoOne} ]
    /\ call \in [ Calls -> Redemptions ]
    /\ remind \in [ Reminders -> Others ] /\ revoke \in [ Revokers -> Others ]
    /\ admitted \in [ Invitations -> 0..Cardinality(Calls) ]
    /\ reminded \in [ Invitations -> 0..Cardinality(Reminders) ]
    /\ faults \in 0..MaxFaults

Init ==
    /\ record = [ i \in Invitations |->
                    [ stored |-> "no", mode |-> "link", consumed |-> {},
                      revoked |-> FALSE, expired |-> FALSE, nudged |-> FALSE ] ]
    /\ create = [ i \in Invitations |-> "idle" ]
    /\ expiring = {} /\ member = {} /\ moderates = {} /\ stuck = {}
    /\ holds = [ i \in Invitations |-> "no" ]
    /\ identity = [ s \in Subjects |-> NoOne ]
    /\ call = [ c \in Calls |-> [ pc |-> "idle", inv |-> NoOne, key |-> "first", sub |-> NoOne ] ]
    /\ remind = [ n \in Reminders |-> [ pc |-> "idle", inv |-> NoOne, saw |-> FALSE ] ]
    /\ revoke = [ v \in Revokers |-> [ pc |-> "idle", inv |-> NoOne, saw |-> FALSE ] ]
    /\ admitted = [ i \in Invitations |-> 0 ]
    /\ reminded = [ i \in Invitations |-> 0 ]
    /\ faults = MaxFaults

Fails(kind) == kind \in Faults /\ faults > 0 /\ faults' = faults - 1

Works == UNCHANGED faults

Created(i, at) == create' = [ create EXCEPT ![i] = at ]

-----------------------------------------------------------------------------
(* The record's conditions.                                                *)

Exists(i) == record[i].stored = "yes"

(* Still to be spent under the record of link k, as every conditional write asks. *)
Pending(i, k) ==
    Exists(i) /\ k \notin record[i].consumed /\ ~record[i].revoked /\ ~record[i].expired

(* redeemTokenKey and the update of the sign-in's transaction. *)
Redeemable(i, k, mode) == Pending(i, k) /\ record[i].mode = mode

(* Mutant: the second link is spent as a record of its own. *)
KeyPresented(c) == call[c].key

(* An alias names the one record of the invitation: both links read and spend that. *)
KeyOf(c) == "first"

(* Mutant: the reminder's condition forgets the reminder before it. *)
RemindableAgain(i) == Pending(i, "first")

Remindable(i) == Pending(i, "first") /\ ~record[i].nudged

(* The role holds nobody else: the condition of a one-holder write. *)
MayHold(i) == \A j \in Invitations \ {i} : holds[j] = "no"

(* Somebody signs in as the invitee. *)
Bound(i) == \E s \in Subjects : identity[s] = i

-----------------------------------------------------------------------------
(* Creating an invitation.                                                 *)

(* The checks: a role that somebody holds already is refused at once. *)
Ask(i) ==
    /\ create[i] = "idle"
    /\ Created(i, IF \E j \in Invitations : holds[j] # "no" THEN "refused" ELSE "asked")
    /\ \E mode \in Modes : record' = [ record EXCEPT ![i].mode = mode ]
    /\ Works
    /\ UNCHANGED << expiring, member, holds, moderates, identity, call, remind, revoke,
                    admitted, reminded, stuck >>

(* The exchange mints the invitee with its expiration. *)
Mint(i) ==
    /\ create[i] = "asked"
    /\ Created(i, "minted")
    /\ expiring' = expiring \cup {i}
    /\ Works
    /\ UNCHANGED << record, member, holds, moderates, identity, call, remind, revoke,
                    admitted, reminded, stuck >>

(* An invitee that could not be added is left to lapse. *)
AddInvitee(i) ==
    /\ create[i] = "minted"
    /\ \/ Works /\ Created(i, "added") /\ member' = member \cup {i}
       \/ Fails("member") /\ Created(i, "refused") /\ UNCHANGED member
    /\ UNCHANGED << record, expiring, holds, moderates, identity, call, remind, revoke,
                    admitted, reminded, stuck >>

(* The role is claimed before the record is written.  A claim that was written    *)
(* and reported as failed is not undone: only the invitee is removed.             *)
ClaimRole(i) ==
    /\ create[i] = "added"
    /\ \/ /\ MayHold(i) /\ Works /\ Created(i, "claimed")
          /\ holds' = [ holds EXCEPT ![i] = "plain" ] /\ UNCHANGED stuck
       \/ Works /\ ~MayHold(i) /\ Created(i, "undo") /\ UNCHANGED << holds, stuck >>
       \/ Fails("store") /\ Created(i, "undo") /\ UNCHANGED << holds, stuck >>
       \/ /\ MayHold(i) /\ Fails("store") /\ Created(i, "undo")
          /\ holds' = [ holds EXCEPT ![i] = "plain" ] /\ stuck' = stuck \cup {i}
    /\ UNCHANGED << record, expiring, member, moderates, identity, call, remind, revoke,
                    admitted, reminded >>

PutRecord(i) ==
    /\ create[i] = "claimed"
    /\ \/ Works /\ Created(i, "written") /\ record' = [ record EXCEPT ![i].stored = "yes" ]
       \/ Fails("store") /\ Created(i, "undoAll") /\ UNCHANGED record
    /\ UNCHANGED << expiring, member, holds, moderates, identity, call, remind, revoke,
                    admitted, reminded, stuck >>

(* The invitee is removed again, and then the role claimed for them; neither *)
(* failure is reported, and a failed removal does not stop the other.        *)
Undo(i) ==
    /\ create[i] \in {"undo", "undoAll"}
    /\ \/ Works /\ member' = member \ {i}
          /\ Created(i, IF create[i] = "undoAll" THEN "undoRole" ELSE "refused")
          /\ UNCHANGED stuck
       \/ Fails("member") /\ stuck' = stuck \cup {i}
          /\ Created(i, IF create[i] = "undoAll" THEN "undoRole" ELSE "refused")
          /\ UNCHANGED member
    /\ UNCHANGED << record, expiring, holds, moderates, identity, call, remind, revoke,
                    admitted, reminded >>

(* Mutant: the role claimed for an invitation that could not be written is kept. *)
UndoNoRole(i) ==
    /\ create[i] = "undoRole"
    /\ Created(i, "refused")
    /\ Works
    /\ UNCHANGED << record, expiring, member, holds, moderates, identity, call, remind, revoke,
                    admitted, reminded, stuck >>

UndoRole(i) ==
    /\ create[i] = "undoRole"
    /\ Created(i, "refused")
    /\ \/ Works /\ holds' = [ holds EXCEPT ![i] = "no" ] /\ UNCHANGED stuck
       \/ Fails("store") /\ stuck' = stuck \cup {i} /\ UNCHANGED holds
    /\ UNCHANGED << record, expiring, member, moderates, identity, call, remind, revoke,
                    admitted, reminded >>

(* recordInvitedHolding: the invitee is made a moderator for the role. *)
Confer(i) ==
    /\ create[i] = "written"
    /\ \/ Works /\ Created(i, "conferred") /\ moderates' = moderates \cup {i}
       \/ Fails("member") /\ Created(i, "sent") /\ UNCHANGED moderates
    /\ UNCHANGED << record, expiring, member, holds, identity, call, remind, revoke,
                    admitted, reminded, stuck >>

(* The holding is written again to name that moderation; then the link goes out. *)
RecordModeration(i) ==
    /\ create[i] = "conferred"
    /\ Created(i, "sent")
    /\ \/ Works /\ holds' = [ holds EXCEPT ![i] = IF MayHold(i) THEN "moderator" ELSE @ ]
       \/ Fails("store") /\ UNCHANGED holds
    /\ UNCHANGED << record, expiring, member, moderates, identity, call, remind, revoke,
                    admitted, reminded, stuck >>

-----------------------------------------------------------------------------
(* Redeeming.  Nobody holds a link before it went out.                     *)

(* The facts of a redemption that its steps below leave alone. *)
Redeeming == UNCHANGED << create, member, holds, moderates, remind, revoke, reminded >>

Goes(c, at) == call' = [ call EXCEPT ![c].pc = at ]

(* The call answers: admitted, refused or unavailable. *)
Answers(c) == call' = [ call EXCEPT ![c] = [ pc |-> "over", inv |-> NoOne, key |-> "first", sub |-> NoOne ] ]

Inv(c) == call[c].inv

Mode(c) == IF call[c].sub = NoOne THEN "link" ELSE "sign-in"

(* A redemption is asked for, with the link at hand; a sign-in that has an   *)
(* account already is refused.                                              *)
Present(c) ==
    /\ call[c].pc = "idle"
    /\ \E i \in Invitations, k \in Links, s \in Subjects \cup {NoOne} :
          /\ create[i] = "sent" /\ (k = "second" => reminded[i] > 0)
          /\ IF s # NoOne /\ identity[s] # NoOne
                THEN Answers(c)
                ELSE call' = [ call EXCEPT ![c] = [ pc |-> "check", inv |-> i, key |-> k, sub |-> s ] ]
    /\ Works /\ Redeeming
    /\ UNCHANGED << record, expiring, identity, admitted, stuck >>

(* The record, its inviter's account, what the classification allows, and    *)
(* for a sign-in that nobody is bound to the invitee.  The inviter and the   *)
(* classification are not in the model: they may refuse anybody.            *)
Check(c) ==
    /\ call[c].pc = "check"
    /\ \/ /\ Redeemable(Inv(c), KeyOf(c), Mode(c))
          /\ Mode(c) = "sign-in" => ~Bound(Inv(c))
          /\ Works
          /\ Goes(c, IF Mode(c) = "link" THEN "consume" ELSE "expiration")
       \/ Works /\ Answers(c)
       \/ Fails("store") /\ Answers(c)
    /\ Redeeming
    /\ UNCHANGED << record, expiring, identity, admitted, stuck >>

Spend(c) ==
    /\ record' = [ record EXCEPT ![Inv(c)].consumed = @ \cup {KeyOf(c)} ]
    /\ admitted' = [ admitted EXCEPT ![Inv(c)] = @ + 1 ]

(* The one conditional update of a link; its answer may be lost. *)
Consume(c) ==
    /\ call[c].pc = "consume"
    /\ LET may == Redeemable(Inv(c), KeyOf(c), "link") IN
       \/ Works /\ may /\ Spend(c) /\ Goes(c, "vend")
       \/ Works /\ ~may /\ Answers(c) /\ UNCHANGED << record, admitted >>
       \/ Fails("store") /\ Answers(c) /\ UNCHANGED << record, admitted >>
       \/ Fails("lost") /\ may /\ Spend(c) /\ Answers(c)
    /\ Redeeming
    /\ UNCHANGED << expiring, identity, stuck >>

(* An invitation is spent even when no session could be vended. *)
Vend(c) ==
    /\ call[c].pc = "vend"
    /\ \/ Works /\ Answers(c)
       \/ Fails("vend") /\ Answers(c)
    /\ Redeeming
    /\ UNCHANGED << record, expiring, identity, admitted, stuck >>

(* The invitee's expiration is removed first; a lost answer is a failure. *)
RemoveExpiration(c) ==
    /\ call[c].pc = "expiration"
    /\ \/ Works /\ Goes(c, "transact") /\ expiring' = expiring \ {Inv(c)} /\ UNCHANGED stuck
       \/ Fails("expiration") /\ Answers(c) /\ UNCHANGED << expiring, stuck >>
       \/ Fails("lost") /\ Answers(c)
          /\ expiring' = expiring \ {Inv(c)} /\ stuck' = stuck \cup {Inv(c)}
    /\ Redeeming
    /\ UNCHANGED << record, identity, admitted >>

BindTo(c) == identity' = [ identity EXCEPT ![call[c].sub] = Inv(c) ]

(* Mutant: the row and the record are written one after the other, the       *)
(* record first, and not in one transaction.                                *)
TransactApart(c) ==
    /\ call[c].pc = "transact"
    /\ LET may == Redeemable(Inv(c), KeyOf(c), "sign-in") IN
       \/ Works /\ may /\ Spend(c)
          /\ IF identity[call[c].sub] = NoOne
                THEN BindTo(c) /\ Answers(c)
                ELSE UNCHANGED identity /\ Goes(c, "reread")
       \/ Works /\ ~may /\ Goes(c, "reread") /\ UNCHANGED << record, admitted, identity >>
    /\ Redeeming
    /\ UNCHANGED << expiring, stuck >>

(* One transaction: the subject has no row yet, and the invitation is spent. *)
Transact(c) ==
    /\ call[c].pc = "transact"
    /\ LET may == identity[call[c].sub] = NoOne /\ Redeemable(Inv(c), KeyOf(c), "sign-in") IN
       \/ Works /\ may /\ Spend(c) /\ BindTo(c) /\ Answers(c)
       \/ Works /\ ~may /\ Goes(c, "reread") /\ UNCHANGED << record, admitted, identity >>
       \/ Fails("store") /\ Goes(c, "reread") /\ UNCHANGED << record, admitted, identity >>
       \/ Fails("lost") /\ may /\ Spend(c) /\ BindTo(c) /\ Goes(c, "reread")
    /\ Redeeming
    /\ UNCHANGED << expiring, stuck >>

(* Mutant: the expiration is put back only on a live invitation. *)
RereadLive(c) ==
    /\ call[c].pc = "reread"
    /\ Works /\ IF Pending(Inv(c), KeyOf(c)) THEN Goes(c, "restore") ELSE Answers(c)
    /\ Redeeming
    /\ UNCHANGED << record, expiring, identity, admitted, stuck >>

(* A refused sign-in reads the record again: the expiration goes back only   *)
(* while the invitation is there and unspent.                               *)
Reread(c) ==
    /\ call[c].pc = "reread"
    /\ \/ Works /\ UNCHANGED stuck
          /\ IF Exists(Inv(c)) /\ KeyOf(c) \notin record[Inv(c)].consumed
                THEN Goes(c, "restore") ELSE Answers(c)
       \/ Fails("store") /\ Answers(c) /\ stuck' = stuck \cup {Inv(c)}
    /\ Redeeming
    /\ UNCHANGED << record, expiring, identity, admitted >>

Restore(c) ==
    /\ call[c].pc = "restore"
    /\ Answers(c)
    /\ \/ Works /\ expiring' = expiring \cup {Inv(c)} /\ UNCHANGED stuck
       \/ Fails("expiration") /\ stuck' = stuck \cup {Inv(c)} /\ UNCHANGED expiring
    /\ Redeeming
    /\ UNCHANGED << record, identity, admitted >>

(* A first sign-in with no invitation reserves the subject's own row. *)
SignIn(s) ==
    /\ identity[s] = NoOne
    /\ identity' = [ identity EXCEPT ![s] = Own ]
    /\ Works /\ Redeeming
    /\ UNCHANGED << record, expiring, call, admitted, stuck >>

-----------------------------------------------------------------------------
(* Reminding, revoking, and the end of a record.                           *)

Inviting == UNCHANGED << create, expiring, identity, call, admitted >>

ReminderGoes(n, at) == remind' = [ remind EXCEPT ![n].pc = at ]

ReminderEnds(n) == remind' = [ remind EXCEPT ![n] = [ pc |-> "over", inv |-> NoOne, saw |-> FALSE ] ]

(* The inviter confirmed a reminder of an invitation that is still pending. *)
FindPending(n) ==
    /\ remind[n].pc = "idle"
    /\ \E i \in Invitations :
          /\ Pending(i, "first")
          /\ remind' = [ remind EXCEPT ![n] = [ pc |-> "write", inv |-> i, saw |-> FALSE ] ]
    /\ Works /\ Inviting
    /\ UNCHANGED << record, member, holds, moderates, revoke, reminded, stuck >>

(* The second link and the mark that there is one, in one transaction. *)
WriteAlias(n) ==
    /\ remind[n].pc = "write"
    /\ LET i == remind[n].inv
           nudge == record' = [ record EXCEPT ![i].nudged = TRUE ] IN
       \/ Works /\ Remindable(i) /\ nudge /\ ReminderGoes(n, "mail")
       \/ Works /\ ~Remindable(i) /\ ReminderEnds(n) /\ UNCHANGED record
       \/ Fails("store") /\ ReminderEnds(n) /\ UNCHANGED record
       \/ Fails("lost") /\ Remindable(i) /\ nudge /\ ReminderEnds(n)
    /\ Inviting
    /\ UNCHANGED << member, holds, moderates, revoke, reminded, stuck >>

(* Mutant: the reminder is sent again and again. *)
MailAgain(n) ==
    /\ remind[n].pc = "mail"
    /\ reminded' = [ reminded EXCEPT ![remind[n].inv] = @ + 1 ]
    /\ Works /\ Inviting
    /\ UNCHANGED << record, member, holds, moderates, remind, revoke, stuck >>

(* The reminder goes out, unless the invitee has stopped such mail. *)
MailReminder(n) ==
    /\ remind[n].pc = "mail"
    /\ ReminderEnds(n)
    /\ \/ reminded' = [ reminded EXCEPT ![remind[n].inv] = @ + 1 ]
       \/ UNCHANGED reminded
    /\ Works /\ Inviting
    /\ UNCHANGED << record, member, holds, moderates, revoke, stuck >>

RevocationGoes(v, at) == revoke' = [ revoke EXCEPT ![v].pc = at ]

RevocationFails(v) == revoke' = [ revoke EXCEPT ![v] = [ pc |-> "over", inv |-> NoOne, saw |-> FALSE ] ]

Find(v) ==
    /\ revoke[v].pc = "idle"
    /\ \E i \in Invitations :
          /\ Exists(i)
          /\ revoke' = [ revoke EXCEPT ![v] = [ pc |-> "mark", inv |-> i, saw |-> FALSE ] ]
    /\ Works /\ Inviting
    /\ UNCHANGED << record, member, holds, moderates, remind, reminded, stuck >>

(* Mutant: an invitation that somebody revoked before needs nothing more. *)
MarkRevokedOnce(v) ==
    /\ revoke[v].pc = "mark"
    /\ LET i == revoke[v].inv IN
       \/ Works /\ record[i].revoked /\ RevocationGoes(v, "done") /\ UNCHANGED record
       \/ Works /\ ~record[i].revoked /\ RevocationGoes(v, "remove")
          /\ record' = [ record EXCEPT ![i].revoked = Exists(i) ]
    /\ Inviting
    /\ UNCHANGED << member, holds, moderates, remind, reminded, stuck >>

(* markRevoked, once, of a redeemed one too; what follows is done whoever did it. *)
MarkRevoked(v) ==
    /\ revoke[v].pc = "mark"
    /\ LET i == revoke[v].inv IN
       \/ Works /\ RevocationGoes(v, "remove")
          /\ record' = [ record EXCEPT ![i].revoked = @ \/ Exists(i) ]
       \/ Fails("store") /\ RevocationFails(v) /\ UNCHANGED record
    /\ Inviting
    /\ UNCHANGED << member, holds, moderates, remind, reminded, stuck >>

(* A membership that could not be removed fails the revocation. *)
RemoveMember(v) ==
    /\ revoke[v].pc = "remove"
    /\ \/ Works /\ RevocationGoes(v, "release") /\ member' = member \ {revoke[v].inv}
       \/ Fails("member") /\ RevocationFails(v) /\ UNCHANGED member
    /\ Inviting
    /\ UNCHANGED << record, holds, moderates, remind, reminded, stuck >>

(* releaseInvitedHolding, best-effort: the holding is read, ... *)
ReadHolding(v) ==
    /\ revoke[v].pc = "release"
    /\ \/ Works /\ UNCHANGED stuck
          /\ revoke' = [ revoke EXCEPT ![v].pc = "take", ![v].saw = holds[revoke[v].inv] = "moderator" ]
       \/ Fails("store") /\ stuck' = stuck \cup {revoke[v].inv} /\ RevocationGoes(v, "done")
    /\ Inviting
    /\ UNCHANGED << record, member, holds, moderates, remind, reminded >>

(* ... a moderation it names as the role's is cleared, ... *)
ClearModeration(v) ==
    /\ revoke[v].pc = "take" /\ revoke[v].saw
    /\ \/ Works /\ moderates' = moderates \ {revoke[v].inv}
          /\ revoke' = [ revoke EXCEPT ![v].saw = FALSE ] /\ UNCHANGED stuck
       \/ Fails("member") /\ stuck' = stuck \cup {revoke[v].inv}
          /\ revoke' = [ revoke EXCEPT ![v].pc = "done", ![v].saw = FALSE ] /\ UNCHANGED moderates
    /\ Inviting
    /\ UNCHANGED << record, member, holds, remind, reminded >>

(* ... and the holding is removed. *)
RemoveHolding(v) ==
    /\ revoke[v].pc = "take" /\ ~revoke[v].saw
    /\ RevocationGoes(v, "done")
    /\ \/ Works /\ holds' = [ holds EXCEPT ![revoke[v].inv] = "no" ] /\ UNCHANGED stuck
       \/ Fails("store") /\ stuck' = stuck \cup {revoke[v].inv} /\ UNCHANGED holds
    /\ Inviting
    /\ UNCHANGED << record, member, moderates, remind, reminded >>

(* Time passes the expiry of an invitation. *)
Expire(i) ==
    /\ Exists(i) /\ ~record[i].expired
    /\ record' = [ record EXCEPT ![i].expired = TRUE ]
    /\ Works /\ Inviting
    /\ UNCHANGED << member, holds, moderates, remind, revoke, reminded, stuck >>

(* Offboarding the inviter deletes the record. *)
Delete(i) ==
    /\ Exists(i)
    /\ record' = [ record EXCEPT ![i].stored = "deleted" ]
    /\ Works /\ Inviting
    /\ UNCHANGED << member, holds, moderates, remind, revoke, reminded, stuck >>

Next ==
    \/ \E i \in Invitations :
          \/ Ask(i) \/ Mint(i) \/ AddInvitee(i) \/ ClaimRole(i) \/ PutRecord(i)
          \/ Undo(i) \/ UndoRole(i) \/ Confer(i) \/ RecordModeration(i)
          \/ Expire(i) \/ Delete(i)
    \/ \E c \in Calls :
          \/ Present(c) \/ Check(c) \/ Consume(c) \/ Vend(c) \/ RemoveExpiration(c)
          \/ Transact(c) \/ Reread(c) \/ Restore(c)
    \/ \E s \in Subjects : SignIn(s)
    \/ \E n \in Reminders : FindPending(n) \/ WriteAlias(n) \/ MailReminder(n)
    \/ \E v \in Revokers :
          \/ Find(v) \/ MarkRevoked(v) \/ RemoveMember(v)
          \/ ReadHolding(v) \/ ClearModeration(v) \/ RemoveHolding(v)

Spec == Init /\ [][Next]_vars

-----------------------------------------------------------------------------
(* Properties.                                                             *)

(* An invitation is spent once: by one link session or one sign-in, through  *)
(* whichever of its links, whatever races, is lost or is tried again.       *)
AdmittedOnce == \A i \in Invitations : admitted[i] <= 1

(* A sign-in invitation is spent exactly when somebody signs in as the       *)
(* invitee, and that is one subject: no row without the spending, and no     *)
(* invitation spent on a sign-in that was refused.                          *)
BoundSpent ==
    \A i \in Invitations :
        /\ record[i].mode = "sign-in" => (Bound(i) <=> record[i].consumed # {})
        /\ Cardinality({ s \in Subjects : identity[s] = i }) <= 1

(* An invitee whose sign-ins were all refused still lapses with its          *)
(* invitation: once no call is between the removal of the expiration and its *)
(* restoring, it has one again, if the invitation is still there, nobody is  *)
(* bound and no call of the clean-up itself failed.                         *)
RefusedStillLapses ==
    \A i \in Invitations :
        ( /\ Exists(i) /\ ~Bound(i) /\ i \notin stuck
          /\ ~\E c \in Calls : Inv(c) = i /\ call[c].pc \in {"transact", "reread", "restore"} )
        => i \in expiring

(* A revocation that was answered as done left no member behind, also when   *)
(* an earlier one had marked the record and failed to remove the membership. *)
RevokedOut ==
    \A v \in Revokers : revoke[v].pc = "done" => revoke[v].inv \notin member

(* An invitation is reminded at most once, whoever confirms it how often. *)
RemindedOnce == \A i \in Invitations : reminded[i] <= 1

(* The one-holder role is held by one person, of two invitations made at     *)
(* once too, and by one who was invited: a creation that fails takes back    *)
(* the role it claimed, unless the taking back fails too, or the claim was  *)
(* written and its answer lost.                                             *)
HolderInvited ==
    /\ Cardinality({ i \in Invitations : holds[i] # "no" }) <= 1
    /\ \A i \in Invitations :
          holds[i] # "no" /\ create[i] = "refused" => i \in stuck

(* A bound person's AppInstanceUser has no expiration: the restoring of a    *)
(* refused sign-in never expires the person another sign-in has just bound.  *)
BoundNeverExpires == \A i \in Invitations : Bound(i) => i \notin expiring
=============================================================================
