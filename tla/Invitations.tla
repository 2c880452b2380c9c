---------------------------- MODULE Invitations -----------------------------
(***************************************************************************)
(* Issuing, revoking and redeeming Invitations, as requests that           *)
(* interleave statement by statement.  Each request runs one transaction;  *)
(* what it writes shows to the others when it commits, and a row it has    *)
(* locked or written makes the others wait.  A statement that judges       *)
(* whether an Invitation is pending does so against the time it began, its *)
(* stamp, however long it then waits for a row.                            *)
(***************************************************************************)
EXTENDS Integers, FiniteSets, Sequences

CONSTANTS
  Persons,         \* the Persons of one School
  Accounts,        \* User accounts, by username: new ones are named as they are created
  Requests,        \* the requests, each made at most once
  Life,            \* how long an Invitation stays pending
  MaxTime,         \* bound: the clock stops here
  SlowStatements,  \* may the clock move between a statement's stamp and its effect?
  None

ASSUME InvitationAssumption ==
  /\ Life \in Nat \ {0} /\ MaxTime \in Nat
  /\ SlowStatements \in BOOLEAN
  /\ IsFiniteSet(Persons) /\ IsFiniteSet(Requests)
  /\ None \notin Persons \cup Accounts \cup Nat
  /\ (Accounts \cup {None}) \cap {"open", "withdrawn", "lapsed", "issued", "constraint"} = {}

VARIABLES
  clock,        \* PostgreSQL's clock
  account,      \* the accounts that exist
  person,       \* the account each Person is attached to, or None
  invitation,   \* every Invitation ever issued, in order
  request       \* where each request stands

vars == <<clock, account, person, invitation, request>>

Times == 0 .. MaxTime

(* A Person holds at most one Invitation at the start; a request issues at *)
(* most one more.                                                          *)
MaxInvitations == Cardinality(Persons) + Cardinality(Requests)

Invitation ==
  [person : Persons, created : Times, expires : Nat,
   revoked : Times \cup {None}, redeemed : Times \cup {None}, by : Accounts \cup {None}]

Phases == {"new", "lock person", "lock pending", "issue", "lock invitation", "judge", "revoke",
           "create account", "claim invitation", "claim person", "redeem", "ended"}

Answers == {None, "issued", "revoked", "redeemed", "refused", "username unavailable",
            "duplicate person", "deadlock", "constraint"}

(* The rows, and the uncommitted index entries, a request may hold.        *)
Rows == [kind : {"person"}, of : Persons]
        \cup [kind : {"invitation"}, of : 1 .. MaxInvitations]
        \cup [kind : {"username", "attached"}, of : Accounts]

PersonRow(p) == [kind |-> "person", of |-> p]
InvitationRow(i) == [kind |-> "invitation", of |-> i]
Username(a) == [kind |-> "username", of |-> a]
Attached(a) == [kind |-> "attached", of |-> a]

Request ==
  [phase : Phases, on : Persons \cup {None}, invitation : 0 .. MaxInvitations,
   account : Accounts \cup {None}, stamp : Times \cup {None}, wins : BOOLEAN,
   holds : SUBSET Rows, answer : Answers]

NewRequest ==
  [phase |-> "new", on |-> None, invitation |-> 0, account |-> None, stamp |-> None,
   wins |-> FALSE, holds |-> {}, answer |-> None]

TypeOK ==
  /\ clock \in Times
  /\ account \in SUBSET Accounts
  /\ person \in [Persons -> Accounts \cup {None}]
  /\ invitation \in Seq(Invitation) /\ Len(invitation) <= MaxInvitations
  /\ request \in [Requests -> Request]

-----------------------------------------------------------------------------
Least(S) == CHOOSE t \in S : \A u \in S : t <= u

Unended(i) == invitation[i].revoked = None /\ invitation[i].redeemed = None

(* isPending, at the moment `now`.                                         *)
Pending(i, now) == Unended(i) /\ invitation[i].expires > now

(* The instants an Invitation is live, as the exclusion constraint has it. *)
LiveUntil(v) == Least({v.expires, v.revoked, v.redeemed} \ {None})

Overlap(v, w) ==
  /\ v.created < LiveUntil(v) /\ w.created < LiveUntil(w)
  /\ v.created < LiveUntil(w) /\ w.created < LiveUntil(v)

Issued(p, now) ==
  [person |-> p, created |-> now, expires |-> now + Life,
   revoked |-> None, redeemed |-> None, by |-> None]

Free(r, row) == \A s \in Requests \ {r} : row \notin request[s].holds

At(r, phase) == request[r].phase = phase

Goes(r, to) == request' = [request EXCEPT ![r] = to]

(* Slip: a refusal leaves its transaction open.                         *)
AnswerInTransaction(r, answer) ==
  Goes(r, [NewRequest EXCEPT !.phase = "ended", !.answer = answer, !.holds = request[r].holds])

(* The request is answered; its transaction, committed or not, lets go.    *)
Answer(r, answer) ==
  Goes(r, [NewRequest EXCEPT !.phase = "ended", !.answer = answer])

Holding(r, rows, phase) ==
  [request[r] EXCEPT !.holds = @ \cup rows, !.phase = phase]

Unwritten == UNCHANGED <<clock, account, person, invitation>>

-----------------------------------------------------------------------------
(* A School may already have issued an Invitation to some of its Persons,  *)
(* each of them at the start.                                              *)
Init ==
  /\ clock = 0
  /\ account \in SUBSET Accounts
  /\ person \in [Persons -> account \cup {None}]
  /\ \A p, q \in Persons : p # q /\ person[p] # None => person[p] # person[q]
  /\ invitation \in UNION {[1 .. n -> {Issued(p, 0) : p \in {q \in Persons : person[q] = None}}]
                             : n \in 0 .. Cardinality(Persons)}
  /\ \A i, j \in DOMAIN invitation : i # j => invitation[i].person # invitation[j].person
  /\ request = [r \in Requests |-> NewRequest]

(* A statement that judges pending begins, and takes its stamp.            *)
Begin(r) ==
  /\ request[r].phase \in {"lock pending", "claim invitation"}
  /\ request[r].stamp = None
  /\ Goes(r, [request[r] EXCEPT !.stamp = clock])
  /\ Unwritten

Tick ==
  /\ clock < MaxTime
  /\ SlowStatements \/ \A r \in Requests : request[r].stamp = None
  /\ clock' = clock + 1
  /\ UNCHANGED <<account, person, invitation, request>>

(* POST /invitations: the Person, found unclaimed, is locked and decided   *)
(* again; then the pending Invitation, if any, is locked and superseded.   *)
RequestIssue(r, p) ==
  /\ At(r, "new")
  /\ IF person[p] # None
     THEN Answer(r, "refused")
     ELSE Goes(r, [request[r] EXCEPT !.phase = "lock person", !.on = p])
  /\ Unwritten

(* Slip: the Person is read, not locked.                                *)
ReadPerson(r) ==
  /\ At(r, "lock person")
  /\ IF person[request[r].on] # None
     THEN Answer(r, "refused")
     ELSE Goes(r, Holding(r, {}, "lock pending"))
  /\ Unwritten

(* Slip: what was decided of the Person before the lock is kept.        *)
LockPersonUndecided(r) ==
  /\ At(r, "lock person")
  /\ Free(r, PersonRow(request[r].on))
  /\ Goes(r, Holding(r, {PersonRow(request[r].on)}, "lock pending"))
  /\ Unwritten

LockPerson(r) ==
  /\ At(r, "lock person")
  /\ LET p == request[r].on IN
     /\ Free(r, PersonRow(p))
     /\ IF person[p] # None
        THEN Answer(r, "refused")
        ELSE Goes(r, Holding(r, {PersonRow(p)}, "lock pending"))
  /\ Unwritten

PendingFor(r) ==
  {i \in DOMAIN invitation : invitation[i].person = request[r].on /\ Pending(i, request[r].stamp)}

LockPending(r) ==
  /\ At(r, "lock pending") /\ request[r].stamp # None
  /\ \A i \in PendingFor(r) : Free(r, InvitationRow(i))
  /\ LET previous == IF PendingFor(r) = {} THEN 0 ELSE Least(PendingFor(r))
         rows     == {InvitationRow(i) : i \in PendingFor(r)}
     IN  Goes(r, [Holding(r, rows, "issue") EXCEPT !.invitation = previous, !.stamp = None])
  /\ Unwritten

(* An ended Invitation is final, and no two of one Person are live at      *)
(* once: the trigger and the exclusion constraint refuse anything else.    *)
Superseded(r) ==
  IF request[r].invitation = 0 THEN invitation
  ELSE [invitation EXCEPT ![request[r].invitation].revoked = clock]

IssueRefusedByConstraint(r) ==
  \/ request[r].invitation # 0 /\ ~ Unended(request[r].invitation)
  \/ \E i \in DOMAIN invitation :
       /\ invitation[i].person = request[r].on
       /\ Overlap(Superseded(r)[i], Issued(request[r].on, clock))

CommitIssue(r) ==
  /\ At(r, "issue")
  /\ IF IssueRefusedByConstraint(r)
     THEN Answer(r, "constraint") /\ UNCHANGED invitation
     ELSE /\ invitation' = Append(Superseded(r), Issued(request[r].on, clock))
          /\ Answer(r, "issued")
  /\ UNCHANGED <<clock, account, person>>

(* DELETE /invitations/:invitationId                                       *)
RequestRevoke(r, i) ==
  /\ At(r, "new")
  /\ IF Pending(i, clock)
     THEN Goes(r, [request[r] EXCEPT !.phase = "lock invitation", !.invitation = i])
     ELSE Answer(r, "refused")
  /\ Unwritten

LockInvitation(r) ==
  /\ At(r, "lock invitation")
  /\ Free(r, InvitationRow(request[r].invitation))
  /\ Goes(r, Holding(r, {InvitationRow(request[r].invitation)}, "judge"))
  /\ Unwritten

(* Decided again once locked; the reason, read last, may still be refused. *)
JudgeRevoke(r, reasonGiven) ==
  /\ At(r, "judge")
  /\ IF Pending(request[r].invitation, clock) /\ reasonGiven
     THEN Goes(r, Holding(r, {}, "revoke"))
     ELSE Answer(r, "refused")
  /\ Unwritten

CommitRevoke(r) ==
  /\ At(r, "revoke")
  /\ LET i == request[r].invitation IN
     IF Unended(i)
     THEN invitation' = [invitation EXCEPT ![i].revoked = clock] /\ Answer(r, "revoked")
     ELSE Answer(r, "constraint") /\ UNCHANGED invitation
  /\ UNCHANGED <<clock, account, person>>

-----------------------------------------------------------------------------
(* POST /invitations/redeem: an account is created and attached.           *)
RequestRedeem(r, i, a, ownOrigin) ==
  /\ At(r, "new")
  /\ IF ~ Pending(i, clock) \/ ~ ownOrigin THEN Answer(r, "refused")
     ELSE IF a \in account THEN Answer(r, "username unavailable")
     ELSE Goes(r, [request[r] EXCEPT !.phase = "create account", !.invitation = i, !.account = a])
  /\ Unwritten

CreateAccount(r) ==
  /\ At(r, "create account")
  /\ LET a == request[r].account IN
     /\ Free(r, Username(a))
     /\ IF a \in account
        THEN Answer(r, "username unavailable")
        ELSE Goes(r, Holding(r, {Username(a)}, "claim invitation"))
  /\ Unwritten

(* Slip: the account is locked, shared, as its Person is looked up.     *)
RequestRedeemSignedInSharing(r, i, a) ==
  /\ At(r, "new")
  /\ IF ~ Pending(i, clock) \/ a = None THEN Answer(r, "refused")
     ELSE IF \E p \in Persons : person[p] = a THEN Answer(r, "duplicate person")
     ELSE Goes(r, [Holding(r, {Attached(a)}, "claim invitation") EXCEPT !.invitation = i, !.account = a])
  /\ Unwritten

(* POST /invitations/redeem-signed-in: the caller's own account, `None`    *)
(* when the request presents no live Session, is attached.                 *)
RequestRedeemSignedIn(r, i, a) ==
  /\ At(r, "new")
  /\ IF ~ Pending(i, clock) \/ a = None THEN Answer(r, "refused")
     ELSE IF \E p \in Persons : person[p] = a THEN Answer(r, "duplicate person")
     ELSE Goes(r, [request[r] EXCEPT !.phase = "claim invitation", !.invitation = i, !.account = a])
  /\ Unwritten

(* Slip: the Invitation was pending when it was looked up.              *)
ClaimAsFound(r) ==
  /\ At(r, "claim invitation") /\ request[r].stamp # None
  /\ Free(r, InvitationRow(request[r].invitation))
  /\ Goes(r, Holding(r, {InvitationRow(request[r].invitation)}, "claim person"))
  /\ Unwritten

(* redeemInvitationFor, first half: only an Invitation that is pending, by *)
(* the stamp and by the row as last committed, is claimed.                 *)
ClaimInvitation(r) ==
  /\ At(r, "claim invitation") /\ request[r].stamp # None
  /\ LET i == request[r].invitation IN
     IF Pending(i, request[r].stamp)
     THEN /\ Free(r, InvitationRow(i))
          /\ Goes(r, Holding(r, {InvitationRow(i)}, "claim person"))
     ELSE Answer(r, "refused")
  /\ Unwritten

(* redeemInvitationFor, second half: the Person is attached if unclaimed,  *)
(* and the statement reports success either way.                           *)
ClaimPerson(r) ==
  /\ At(r, "claim person")
  /\ LET p == invitation[request[r].invitation].person
         a == request[r].account
     IN  /\ person[p] = None => Free(r, PersonRow(p)) /\ Free(r, Attached(a))
         /\ IF person[p] = None /\ \E q \in Persons : person[q] = a
            THEN Answer(r, "duplicate person")
            ELSE Goes(r, [Holding(r, IF person[p] = None THEN {PersonRow(p), Attached(a)} ELSE {},
                                  "redeem")
                            EXCEPT !.wins = (person[p] = None)])
  /\ Unwritten

CommitRedeem(r) ==
  /\ At(r, "redeem")
  /\ LET i == request[r].invitation
         a == request[r].account
     IN  /\ invitation' = [invitation EXCEPT ![i].redeemed = request[r].stamp, ![i].by = a]
         /\ person' = IF request[r].wins THEN [person EXCEPT ![invitation[i].person] = a] ELSE person
         /\ account' = account \cup {a}
  /\ Answer(r, "redeemed")
  /\ UNCHANGED clock

-----------------------------------------------------------------------------
(* The rows a request must wait for before its next statement has effect.  *)
Needs(r) ==
  LET q == request[r] IN
  CASE q.phase = "lock person"      -> {PersonRow(q.on)}
    [] q.phase = "lock pending"     -> IF q.stamp = None THEN {}
                                       ELSE {InvitationRow(i) : i \in PendingFor(r)}
    [] q.phase = "lock invitation"  -> {InvitationRow(q.invitation)}
    [] q.phase = "create account"   -> {Username(q.account)}
    [] q.phase = "claim invitation" -> {InvitationRow(q.invitation)}
    [] q.phase = "claim person"     -> {PersonRow(invitation[q.invitation].person), Attached(q.account)}
    [] OTHER                        -> {}

WaitsFor(r, s) == r # s /\ Needs(r) \cap request[s].holds # {}

(* Requests each of which waits for another of them.                       *)
Deadlocked(D) ==
  D # {} /\ \A r \in D : \E s, t \in D : WaitsFor(r, s) /\ WaitsFor(t, r)

(* PostgreSQL ends one transaction of a deadlock; its request fails.       *)
AbortDeadlock(r) ==
  /\ \E D \in SUBSET Requests : r \in D /\ Deadlocked(D)
  /\ Answer(r, "deadlock")
  /\ Unwritten

Step(r) ==
  \/ Begin(r)
  \/ LockPerson(r) \/ LockPending(r) \/ CommitIssue(r)
  \/ LockInvitation(r) \/ CommitRevoke(r) \/ \E reasonGiven \in BOOLEAN : JudgeRevoke(r, reasonGiven)
  \/ CreateAccount(r) \/ ClaimInvitation(r) \/ ClaimPerson(r) \/ CommitRedeem(r)
  \/ AbortDeadlock(r)

Ask(r) ==
  \/ \E p \in Persons : RequestIssue(r, p)
  \/ \E i \in DOMAIN invitation :
       \/ RequestRevoke(r, i)
       \/ \E a \in Accounts, ownOrigin \in BOOLEAN : RequestRedeem(r, i, a, ownOrigin)
       \/ \E a \in account \cup {None} : RequestRedeemSignedIn(r, i, a)

Next == Tick \/ \E r \in Requests : Ask(r) \/ Step(r)

Spec == Init /\ [][Next]_vars

-----------------------------------------------------------------------------
(* No request runs into the exclusion constraint or into the trigger that  *)
(* keeps an ended Invitation final: the locks and the second decision see  *)
(* to it that an issue supersedes what is pending (invitation-routes.ts).  *)
ConstraintsNeverHit == \A r \in Requests : request[r].answer # "constraint"

(* "Two simultaneous redemptions produce exactly one winner", as           *)
(* redeemInvitationFor has it: an Invitation redeemed by an account is one *)
(* whose Person that account is.  A redemption carried out after its       *)
(* Invitation expired breaks it (late.cfg).                                *)
RedeemedAttaches ==
  \A i \in DOMAIN invitation :
    invitation[i].redeemed # None => person[invitation[i].person] = invitation[i].by

(* A Person's Invitations attach the Person once, whoever redeems them     *)
(* side by side: an account that redeemed one is the Person's, or the      *)
(* Person's account redeemed another, and these two were never pending     *)
(* together: one was issued when the other had expired, which takes a      *)
(* redemption that judged its Invitation pending and was slow to claim it. *)
OneRedemptionAttaches ==
  \A i \in DOMAIN invitation :
    LET v == invitation[i] IN
    v.redeemed # None =>
      \/ person[v.person] = v.by
      \/ /\ SlowStatements
         /\ \E j \in DOMAIN invitation :
              LET w == invitation[j] IN
              /\ w.person = v.person /\ w.redeemed # None /\ w.by = person[v.person]
              /\ v.expires <= w.created \/ w.expires <= v.created

(* Nobody waits forever: of any requests under way, one can take its next  *)
(* step or waits only for a request that is not among them.  Issuing locks *)
(* the Person and then the Invitation, redeeming the Invitation and then   *)
(* the Person, so it takes the database's deadlock detector to hold.       *)
NobodyStuck ==
  LET underWay == {r \in Requests : request[r].phase \notin {"new", "ended"}} IN
  \A D \in SUBSET underWay :
    D # {} => \E r \in D : ENABLED Step(r) \/ \E s \in underWay \ D : WaitsFor(r, s)

(* Of any requests that wait for each other, however many, each one that   *)
(* waits for another is an issue that meets a redemption of an Invitation  *)
(* of the Person it has locked, or that redemption: every other request    *)
(* that waits, or that is waited for, comes to its end by itself.          *)
Whose(r) == IF At(r, "claim person") THEN invitation[request[r].invitation].person ELSE request[r].on
OnlyIssueMeetsRedemption ==
  \A D \in SUBSET Requests : Deadlocked(D) =>
    \A r, s \in D : WaitsFor(r, s) =>
      /\ \/ At(r, "lock pending") /\ At(s, "claim person")
         \/ At(r, "claim person") /\ At(s, "lock pending")
      /\ Whose(r) = Whose(s)

(* The Invitations as offers: where each one stands now, by whichever end  *)
(* came first.  One that lapsed while its issuer was superseding it is     *)
(* written down as revoked, and had lapsed all the same.                   *)
StandingAt(v, now) ==
  IF LiveUntil(v) = v.redeemed THEN v.by
  ELSE IF LiveUntil(v) < v.expires THEN "withdrawn"
  ELSE IF v.expires > now THEN "open" ELSE "lapsed"

OffersNow ==
  [i \in DOMAIN invitation |->
     [person |-> invitation[i].person, standing |-> StandingAt(invitation[i], clock)]]

(* Whatever the requests do, an Invitation behaves as an offer.            *)
Promise == INSTANCE Offers WITH offers <- OffersNow, Late <- SlowStatements

ImplementsOffers == Promise!Offers

-----------------------------------------------------------------------------
(* The inductive invariant.  Each request issues at most one Invitation.    *)
Counted ==
  /\ Len(invitation) <= Cardinality(Persons)
                          + Cardinality({r \in Requests : request[r].answer = "issued"})
  /\ \A r \in Requests : request[r].answer # None => request[r].phase = "ended"

(* An Invitation ends once, no later than now, and is redeemed in its time. *)
InvitationSound(v) ==
  /\ v.created <= clock /\ v.expires = v.created + Life
  /\ v.revoked # None => v.revoked <= clock /\ v.redeemed = None
  /\ v.redeemed # None =>
       v.redeemed <= clock /\ v.redeemed < v.expires /\ v.revoked = None /\ v.by \in Accounts

(* The Invitations of one Person that nobody revoked follow each other.     *)
Apart ==
  \A i, j \in DOMAIN invitation :
    LET v == invitation[i]  w == invitation[j] IN
    i < j /\ v.person = w.person /\ v.revoked = None /\ w.revoked = None => v.expires <= w.created

(* Of an invited Person, being attached and having redeemed is one thing.   *)
AttachedByRedeeming ==
  \A i \in DOMAIN invitation :
    LET p == invitation[i].person IN
    /\ invitation[i].redeemed # None => person[p] # None
    /\ person[p] # None =>
         \E j \in DOMAIN invitation :
           invitation[j].person = p /\ invitation[j].redeemed # None /\ invitation[j].by = person[p]

(* A row is held by one request at a time.                                  *)
Exclusive == \A r, s \in Requests : r # s => request[r].holds \cap request[s].holds = {}

(* What a request has locked, and found while it held the lock, stays so.   *)
IssueSound(q) ==
  /\ q.phase \in {"lock person", "lock pending", "issue"} => q.on \in Persons
  /\ q.phase \in {"lock pending", "issue"} => PersonRow(q.on) \in q.holds /\ person[q.on] = None
  /\ q.phase = "lock pending" /\ q.stamp # None =>
       \A i \in DOMAIN invitation :
         invitation[i].person = q.on => invitation[i].created <= q.stamp
  /\ q.phase = "issue" =>
       /\ q.invitation # 0 =>
            /\ q.invitation \in DOMAIN invitation /\ invitation[q.invitation].person = q.on
            /\ InvitationRow(q.invitation) \in q.holds /\ Unended(q.invitation)
       /\ \A i \in DOMAIN invitation :
            invitation[i].person = q.on /\ Pending(i, clock) => i = q.invitation

RevokeSound(q) ==
  /\ q.phase \in {"lock invitation", "judge", "revoke"} => q.invitation \in DOMAIN invitation
  /\ q.phase \in {"judge", "revoke"} => InvitationRow(q.invitation) \in q.holds
  /\ q.phase = "revoke" => Unended(q.invitation)

RedeemSound(q) ==
  /\ q.phase \in {"create account", "claim invitation", "claim person", "redeem"} =>
       q.invitation \in DOMAIN invitation /\ q.account \in Accounts
  /\ q.phase \in {"claim person", "redeem"} =>
       /\ InvitationRow(q.invitation) \in q.holds
       /\ q.stamp # None /\ Pending(q.invitation, q.stamp)
  /\ q.phase = "redeem" /\ q.wins =>
       /\ PersonRow(invitation[q.invitation].person) \in q.holds
       /\ person[invitation[q.invitation].person] = None
  /\ q.phase = "redeem" /\ ~ q.wins => person[invitation[q.invitation].person] # None

RequestSound(q) ==
  /\ q.stamp # None =>
       q.stamp <= clock /\ q.phase \in {"lock pending", "claim invitation", "claim person", "redeem"}
  /\ IssueSound(q) /\ RevokeSound(q) /\ RedeemSound(q)

(* As long as no statement outlasts the moment it began, a pending          *)
(* Invitation is for a Person still unattached, and redeeming it wins.      *)
PromptSound ==
  /\ \A i \in DOMAIN invitation : Pending(i, clock) => person[invitation[i].person] = None
  /\ \A r \in Requests :
       /\ request[r].stamp # None => request[r].stamp = clock
       /\ request[r].phase = "redeem" => request[r].wins
  /\ RedeemedAttaches

(* What a request holds while it still waits for more tells its statement.  *)
HoldsTell(q) ==
  /\ q.phase \in {"new", "lock person", "lock invitation", "create account", "ended"} => q.holds = {}
  /\ q.phase = "lock pending" => q.holds = {PersonRow(q.on)}
  /\ q.phase = "claim invitation" => q.holds \subseteq {Username(q.account)}
  /\ q.phase = "claim person" => q.holds \subseteq {Username(q.account), InvitationRow(q.invitation)}

IInv ==
  /\ TypeOK /\ Counted /\ Apart /\ AttachedByRedeeming /\ Exclusive /\ ConstraintsNeverHit
  /\ \A i \in DOMAIN invitation : InvitationSound(invitation[i])
  /\ \A r \in Requests : RequestSound(request[r])
  /\ ~ SlowStatements => PromptSound
=============================================================================
