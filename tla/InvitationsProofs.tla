--------------------------- MODULE InvitationsProofs ---------------------------
(***************************************************************************)
(* The inductive invariant IInv of Invitations, for any number of Persons, *)
(* accounts and requests, and what follows from it: no request ever meets  *)
(* the database's constraints; a Person's Invitations attach the Person    *)
(* once; and Invitations implement the offers of module Offers.            *)
(***************************************************************************)
EXTENDS Invitations, FiniteSetTheorems, SequenceTheorems, TLAPS

-----------------------------------------------------------------------------
(* The bound on the Invitations is a number. *)
LEMMA BoundTyped ==
  /\ Cardinality(Persons) \in Nat /\ Cardinality(Requests) \in Nat /\ MaxInvitations \in Nat
  /\ \A S \in SUBSET Requests : IsFiniteSet(S) /\ Cardinality(S) \in Nat /\ Cardinality(S) <= Cardinality(Requests)
<1>1. IsFiniteSet(Persons) /\ IsFiniteSet(Requests)
  BY InvitationAssumption
<1>2. Cardinality(Persons) \in Nat /\ Cardinality(Requests) \in Nat
  BY <1>1, FS_CardinalityType
<1>3. ASSUME NEW S \in SUBSET Requests
      PROVE  IsFiniteSet(S) /\ Cardinality(S) \in Nat /\ Cardinality(S) <= Cardinality(Requests)
  BY <1>1, FS_Subset, FS_CardinalityType
<1>. QED
  BY <1>2, <1>3 DEF MaxInvitations

(* The types of what the steps read. *)
LEMMA Typed ==
  ASSUME TypeOK
  PROVE  /\ clock \in Nat /\ clock \in Times /\ Life \in Nat /\ Life # 0
         /\ invitation \in Seq(Invitation) /\ Len(invitation) \in Nat
         /\ DOMAIN invitation = 1 .. Len(invitation)
         /\ \A i \in DOMAIN invitation :
              /\ i \in Nat /\ i # 0 /\ i \in 1 .. MaxInvitations /\ i \in 0 .. MaxInvitations
              /\ invitation[i] \in Invitation
              /\ invitation[i].person \in Persons
              /\ invitation[i].created \in Nat /\ invitation[i].expires \in Nat
              /\ invitation[i].revoked \in Nat \cup {None} /\ invitation[i].redeemed \in Nat \cup {None}
         /\ \A r \in Requests :
              /\ request[r] \in Request
              /\ request[r].stamp # None => request[r].stamp \in Times /\ request[r].stamp \in Nat
         /\ None \notin Nat
<1>1. invitation \in Seq(Invitation) /\ Len(invitation) <= MaxInvitations /\ MaxInvitations \in Nat
  BY BoundTyped DEF TypeOK
<1>2. Len(invitation) \in Nat /\ DOMAIN invitation = 1 .. Len(invitation)
      /\ \A i \in 1 .. Len(invitation) : invitation[i] \in Invitation
  BY <1>1, LenProperties, ElementOfSeq
<1>3. \A i \in DOMAIN invitation :
              /\ i \in Nat /\ i # 0 /\ i \in 1 .. MaxInvitations /\ i \in 0 .. MaxInvitations
              /\ invitation[i] \in Invitation
  BY <1>1, <1>2
<1>4. \A v \in Invitation : /\ v.person \in Persons /\ v.created \in Nat /\ v.expires \in Nat
                            /\ v.revoked \in Nat \cup {None} /\ v.redeemed \in Nat \cup {None}
  BY InvitationAssumption DEF Invitation, Times
<1>5. \A q \in Request : q.stamp # None => q.stamp \in Times /\ q.stamp \in Nat
  BY InvitationAssumption DEF Request, Times
<1>6. request \in [Requests -> Request] /\ clock \in Times /\ clock \in Nat
  BY InvitationAssumption DEF TypeOK, Times
<1>. QED
  BY <1>1, <1>2, <1>3, <1>4, <1>5, <1>6, InvitationAssumption

(* Rows are what they are of. *)
LEMMA RowsApart ==
  /\ \A p, q : PersonRow(p) = PersonRow(q) => p = q
  /\ \A i, j : InvitationRow(i) = InvitationRow(j) => i = j
  /\ \A p, i : PersonRow(p) # InvitationRow(i)
  /\ \A p \in Persons : PersonRow(p) \in Rows
  /\ \A i \in 1 .. MaxInvitations : InvitationRow(i) \in Rows
  /\ \A a \in Accounts : Username(a) \in Rows /\ Attached(a) \in Rows
BY DEF PersonRow, InvitationRow, Username, Attached, Rows

-----------------------------------------------------------------------------
(* A step of one request that writes nothing keeps the invariant, if what   *)
(* it locked was free and what it found is sound.                           *)
LEMMA RequestMoves ==
  ASSUME IInv, NEW r \in Requests, NEW q \in Request, request' = [request EXCEPT ![r] = q], Unwritten,
         request[r].phase # "ended", q.answer \notin {"issued", "constraint"},
         q.answer # None => q.phase = "ended",
         \A s \in Requests \ {r} : q.holds \cap request[s].holds = {},
         RequestSound(q),
         ~ SlowStatements => (q.stamp # None => q.stamp = clock) /\ (q.phase = "redeem" => q.wins)
  PROVE  IInv'
<1>1. /\ \A s \in Requests : request'[s] = IF s = r THEN q ELSE request[s]
      /\ UNCHANGED <<clock, account, person, invitation>>
      /\ request' \in [Requests -> Request]
  BY DEF IInv, TypeOK, Unwritten
<1>2. TypeOK'
  BY <1>1 DEF IInv, TypeOK
<1>3. Counted'
  <2>1. request[r].answer = None
    BY DEF IInv, Counted
  <2>0. None # "issued"
    BY InvitationAssumption
  <2>2. {s \in Requests : request'[s].answer = "issued"} = {s \in Requests : request[s].answer = "issued"}
    BY <1>1, <2>0, <2>1
  <2>. QED
    BY <1>1, <2>2 DEF IInv, Counted
<1>4. Exclusive'
  BY <1>1 DEF IInv, Exclusive
<1>5. ConstraintsNeverHit'
  BY <1>1 DEF IInv, ConstraintsNeverHit
<1>6. Apart' /\ AttachedByRedeeming' /\ \A i \in DOMAIN invitation' : InvitationSound(invitation[i])'
  BY <1>1 DEF IInv, Apart, AttachedByRedeeming, InvitationSound
<1>7. ASSUME NEW s \in Requests PROVE RequestSound(request[s])'
  <2>1. RequestSound(request'[s])
    BY <1>1 DEF IInv
  <2>. QED
    BY <1>1, <2>1 DEF RequestSound, IssueSound, RevokeSound, RedeemSound, Pending, Unended
<1>8. ~ SlowStatements => PromptSound'
  BY <1>1 DEF IInv, PromptSound, RedeemedAttaches, Pending, Unended
<1>. QED
  BY <1>2, <1>3, <1>4, <1>5, <1>6, <1>7, <1>8 DEF IInv

(* A request answered lets go of all it held. *)
LEMMA Answered ==
  ASSUME IInv, NEW r \in Requests, NEW a \in Answers \ {"issued", "constraint"}, Answer(r, a), Unwritten,
         request[r].phase # "ended"
  PROVE  IInv'
<1>. DEFINE q == [NewRequest EXCEPT !.phase = "ended", !.answer = a]
<1>1. /\ q \in Request /\ q.phase = "ended" /\ q.answer = a /\ q.stamp = None /\ q.holds = {}
  <2>1. NewRequest \in Request
    <3>1. 0 \in 0 .. MaxInvitations
      BY BoundTyped
    <3>2. "new" \in Phases /\ None \in Answers
      BY DEF Phases, Answers
    <3>. QED
      BY <3>1, <3>2 DEF NewRequest, Request
  <2>2. q \in Request /\ q.phase = "ended" /\ q.answer = a
    BY <2>1 DEF Request, Phases
  <2>. QED
    BY <2>2 DEF NewRequest
<1>2. request' = [request EXCEPT ![r] = q]
  BY DEF Answer, Goes
<1>. HIDE DEF q
<1>3. RequestSound(q)
  BY <1>1 DEF RequestSound, IssueSound, RevokeSound, RedeemSound
<1>. QED
  BY <1>1, <1>2, <1>3, RequestMoves

(* Rows that were free are then held by no one else. *)
LEMMA FreeTaken ==
  ASSUME IInv, NEW r \in Requests, NEW some, \A row \in some : Free(r, row)
  PROVE  \A s \in Requests \ {r} : (request[r].holds \cup some) \cap request[s].holds = {}
BY DEF IInv, Exclusive, Free

(* Under way, a request has no answer. *)
LEMMA Unanswered ==
  ASSUME IInv, NEW r \in Requests, request[r].phase # "ended"
  PROVE  request[r].answer = None
BY DEF IInv, Counted

(* A statement begins: nothing issued so far was issued after. *)
LEMMA BeginIInv ==
  ASSUME IInv, NEW r \in Requests, Begin(r)
  PROVE  IInv'
<1>. DEFINE q == [request[r] EXCEPT !.stamp = clock]
<1>1. /\ request[r].phase \in {"lock pending", "claim invitation"}
      /\ request' = [request EXCEPT ![r] = q] /\ Unwritten
  BY DEF Begin, Goes
<1>2. /\ q \in Request /\ q.stamp = clock /\ q.phase = request[r].phase /\ q.on = request[r].on
      /\ q.invitation = request[r].invitation /\ q.account = request[r].account
      /\ q.holds = request[r].holds /\ q.answer = None
  BY <1>1, Typed, Unanswered, ZenonT(60) DEF IInv, Request
<1>. HIDE DEF q
<1>3. RequestSound(q)
  <2>1. RequestSound(request[r]) /\ \A i \in DOMAIN invitation : invitation[i].created <= clock
    BY DEF IInv, InvitationSound
  <2>2. clock \in Nat
    BY Typed DEF IInv
  <2>3. IssueSound(q)
    BY <1>1, <1>2, <2>1 DEF RequestSound, IssueSound
  <2>4. RevokeSound(q) /\ RedeemSound(q)
    BY <1>1, <1>2, <2>1 DEF RequestSound, RevokeSound, RedeemSound
  <2>5. q.stamp <= clock
    BY ONLY <1>2, <2>2
  <2>6. q.phase \in {"lock pending", "claim invitation", "claim person", "redeem"}
    BY ONLY <1>1, <1>2
  <2>. QED
    BY <2>3, <2>4, <2>5, <2>6 DEF RequestSound
<1>4. \A s \in Requests \ {r} : q.holds \cap request[s].holds = {}
  BY <1>2 DEF IInv, Exclusive
<1>5. q.answer \notin {"issued", "constraint"} /\ q.phase # "redeem" /\ request[r].phase # "ended"
  BY <1>1, <1>2, InvitationAssumption
<1>. QED
  BY <1>1, <1>2, <1>3, <1>4, <1>5, RequestMoves

(* An issue asked for. *)
LEMMA RequestIssueIInv ==
  ASSUME IInv, NEW r \in Requests, NEW p \in Persons, RequestIssue(r, p)
  PROVE  IInv'
<1>1. request[r].phase = "new" /\ Unwritten
  BY DEF RequestIssue, At
<1>2. CASE Answer(r, "refused")
  BY <1>1, <1>2, Answered DEF Answers
<1>3. CASE Goes(r, [request[r] EXCEPT !.phase = "lock person", !.on = p])
  <2>. DEFINE q == [request[r] EXCEPT !.phase = "lock person", !.on = p]
  <2>1. /\ q \in Request /\ q.stamp = request[r].stamp /\ q.phase = "lock person" /\ q.on = p
        /\ q.holds = request[r].holds /\ q.answer = None
    BY <1>1, Typed, Unanswered, ZenonT(60) DEF IInv, Request, Phases
  <2>2. request' = [request EXCEPT ![r] = q]
    BY <1>3 DEF Goes
  <2>. HIDE DEF q
  <2>3. RequestSound(q)
    <3>1. q.stamp = None
      BY <1>1, <2>1 DEF IInv, RequestSound
    <3>. QED
      BY <2>1, <3>1 DEF RequestSound, IssueSound, RevokeSound, RedeemSound
  <2>4. \A s \in Requests \ {r} : q.holds \cap request[s].holds = {}
    BY <2>1 DEF IInv, Exclusive
  <2>5. q.answer \notin {"issued", "constraint"} /\ (~ SlowStatements => (q.stamp # None => q.stamp = clock))
    BY <2>1, InvitationAssumption DEF IInv, PromptSound
  <2>. QED
    BY <1>1, <2>1, <2>2, <2>3, <2>4, <2>5, RequestMoves
<1>. QED
  BY <1>2, <1>3 DEF RequestIssue

(* The Person locked, and found unattached still. *)
LEMMA LockPersonIInv ==
  ASSUME IInv, NEW r \in Requests, LockPerson(r)
  PROVE  IInv'
<1>. DEFINE p == request[r].on
            some == {PersonRow(p)}
            q == Holding(r, some, "lock pending")
<1>1. request[r].phase = "lock person" /\ Unwritten /\ p \in Persons /\ Free(r, PersonRow(p))
  BY DEF LockPerson, At, IInv, RequestSound, IssueSound
<1>2. CASE Answer(r, "refused")
  BY <1>1, <1>2, Answered DEF Answers
<1>3. CASE Goes(r, q) /\ person[p] = None
  <2>1. /\ q \in Request /\ q.holds = request[r].holds \cup some /\ q.phase = "lock pending"
        /\ q.on = p /\ q.stamp = request[r].stamp /\ q.answer = None
    <3>1. some \in SUBSET Rows
      BY <1>1, RowsApart
    <3>2. "lock pending" \in Phases /\ request[r].answer = None
      BY <1>1, Unanswered DEF Phases
    <3>3. request[r] \in Request
      BY Typed DEF IInv
    <3>. HIDE DEF some
    <3>. QED
      BY <3>1, <3>2, <3>3 DEF Holding, Request
  <2>2. request' = [request EXCEPT ![r] = q]
    BY <1>3 DEF Goes
  <2>. HIDE DEF q
  <2>3. RequestSound(q)
    <3>1. q.stamp = None
      BY <1>1, <2>1 DEF IInv, RequestSound
    <3>. QED
      BY <1>1, <1>3, <2>1, <3>1 DEF RequestSound, IssueSound, RevokeSound, RedeemSound
  <2>4. \A s \in Requests \ {r} : q.holds \cap request[s].holds = {}
    <3>1. \A row \in some : Free(r, row)
      BY <1>1
    <3>. HIDE DEF some
    <3>. QED
      BY <2>1, <3>1, FreeTaken
  <2>5. q.answer \notin {"issued", "constraint"} /\ (~ SlowStatements => (q.stamp # None => q.stamp = clock))
    BY <2>1, InvitationAssumption DEF IInv, PromptSound
  <2>. QED
    BY <1>1, <2>1, <2>2, <2>3, <2>4, <2>5, RequestMoves
<1>. QED
  BY <1>2, <1>3 DEF LockPerson

(* What is pending of a Person whose row the request holds is one Invitation  *)
(* at most, by the stamp and so by any later moment.                          *)
LEMMA OnePending ==
  ASSUME IInv, NEW r \in Requests, request[r].phase = "lock pending", request[r].stamp # None
  PROVE  LET previous == IF PendingFor(r) = {} THEN 0 ELSE Least(PendingFor(r)) IN
         /\ PendingFor(r) \in SUBSET DOMAIN invitation
         /\ PendingFor(r) # {} => previous \in PendingFor(r)
         /\ \A i \in DOMAIN invitation :
              invitation[i].person = request[r].on /\ Pending(i, clock) => i \in PendingFor(r)
         /\ \A i \in PendingFor(r) : i = previous
<1>. DEFINE P == PendingFor(r)
            stamp == request[r].stamp
<1>1. /\ stamp \in Nat /\ clock \in Nat /\ stamp <= clock
      /\ \A i \in DOMAIN invitation : /\ i \in Nat /\ invitation[i].created \in Nat /\ invitation[i].expires \in Nat
                                      /\ invitation[i].person = request[r].on => invitation[i].created <= stamp
  BY Typed DEF IInv, RequestSound, IssueSound
<1>2. \A i \in P : /\ i \in DOMAIN invitation /\ invitation[i].person = request[r].on
                   /\ Unended(i) /\ invitation[i].expires > stamp
  BY DEF PendingFor, Pending
<1>3. \A i \in DOMAIN invitation :
              invitation[i].person = request[r].on /\ Pending(i, clock) => i \in P
  <2>1. SUFFICES ASSUME NEW i \in DOMAIN invitation, invitation[i].person = request[r].on, Pending(i, clock)
                 PROVE  Pending(i, stamp)
    BY DEF PendingFor
  <2>2. invitation[i].expires \in Nat /\ Unended(i) /\ invitation[i].expires > clock
    BY <1>1, <2>1 DEF Pending
  <2>3. invitation[i].expires > stamp
    <3>1. stamp \in Nat /\ clock \in Nat /\ stamp <= clock
      BY <1>1
    <3>. QED
      BY ONLY <2>2, <3>1
  <2>. QED
    BY <2>2, <2>3 DEF Pending
<1>. HIDE DEF P
<1>4. ASSUME NEW i \in P, NEW j \in P PROVE i = j
  <2>1. /\ i \in DOMAIN invitation /\ j \in DOMAIN invitation /\ i \in Nat /\ j \in Nat
        /\ invitation[i].person = invitation[j].person /\ Unended(i) /\ Unended(j)
        /\ invitation[i].expires > stamp /\ invitation[j].expires > stamp
        /\ invitation[i].created <= stamp /\ invitation[j].created <= stamp
        /\ invitation[i].created \in Nat /\ invitation[i].expires \in Nat
        /\ invitation[j].created \in Nat /\ invitation[j].expires \in Nat
    BY <1>1, <1>2
  <2>2. /\ i < j => invitation[i].expires <= invitation[j].created
        /\ j < i => invitation[j].expires <= invitation[i].created
    BY <2>1 DEF IInv, Apart, Unended
  <2>3. ~ (i < j) /\ ~ (j < i)
    <3>1. stamp \in Nat
      BY <1>1
    <3>. QED
      BY ONLY <2>1, <2>2, <3>1
  <2>4. i \in Nat /\ j \in Nat
    BY <2>1
  <2>. QED
    BY ONLY <2>3, <2>4
<1>5. ASSUME P # {} PROVE Least(P) \in P
  <2>1. PICK i \in P : P = {i}
    BY <1>4, <1>5
  <2>2. i \in Nat
    BY <1>1, <1>2
  <2>3. i \in P /\ \A u \in P : i <= u
    <3>1. i <= i
      BY ONLY <2>2
    <3>. QED
      BY <2>1, <3>1
  <2>. QED
    BY <2>3, Zenon DEF Least
<1>. QED
  BY <1>2, <1>3, <1>4, <1>5 DEF P

(* The pending Invitation locked, if there is one, to be superseded. *)
LEMMA LockPendingIInv ==
  ASSUME IInv, NEW r \in Requests, LockPending(r)
  PROVE  IInv'
<1>. DEFINE P == PendingFor(r)
            previous == IF P = {} THEN 0 ELSE Least(P)
            some == {InvitationRow(i) : i \in P}
            q == [Holding(r, some, "issue") EXCEPT !.invitation = previous, !.stamp = None]
<1>1. /\ request[r].phase = "lock pending" /\ Unwritten /\ request[r].stamp # None
      /\ \A i \in P : Free(r, InvitationRow(i))
      /\ request' = [request EXCEPT ![r] = q]
  BY DEF LockPending, At, Goes
<1>2. /\ P \in SUBSET DOMAIN invitation
      /\ P # {} => previous \in P
      /\ \A i \in DOMAIN invitation : invitation[i].person = request[r].on /\ Pending(i, clock) => i \in P
      /\ \A i \in P : i = previous
  BY <1>1, OnePending
<1>3. \A i \in P : invitation[i].person = request[r].on /\ Unended(i)
  BY DEF PendingFor, Pending
<1>4. P = {} => previous = 0
  OBVIOUS
<1>. HIDE DEF P, previous
<1>5. /\ q \in Request /\ q.holds = request[r].holds \cup some /\ q.phase = "issue" /\ q.invitation = previous
      /\ q.on = request[r].on /\ q.stamp = None /\ q.answer = None
  <2>1. some \in SUBSET Rows
    BY <1>2, RowsApart, Typed DEF IInv
  <2>2. "issue" \in Phases /\ request[r].answer = None
    BY <1>1, Unanswered DEF Phases
  <2>3. previous \in 0 .. MaxInvitations
    BY <1>2, <1>4, Typed, BoundTyped DEF IInv
  <2>4. request[r] \in Request
    BY Typed DEF IInv
  <2>. HIDE DEF some
  <2>. QED
    BY <2>1, <2>2, <2>3, <2>4 DEF Holding, Request
<1>. HIDE DEF q
<1>6. IssueSound(q)
  <2>1. q.on \in Persons /\ PersonRow(q.on) \in q.holds /\ person[q.on] = None
    BY <1>1, <1>5 DEF IInv, RequestSound, IssueSound
  <2>2. ASSUME q.invitation # 0
        PROVE  /\ q.invitation \in DOMAIN invitation /\ invitation[q.invitation].person = q.on
               /\ InvitationRow(q.invitation) \in q.holds /\ Unended(q.invitation)
    BY <1>2, <1>3, <1>4, <1>5, <2>2
  <2>3. \A i \in DOMAIN invitation : invitation[i].person = q.on /\ Pending(i, clock) => i = q.invitation
    BY <1>2, <1>5
  <2>. QED
    BY <1>5, <2>1, <2>2, <2>3 DEF IssueSound
<1>7. RequestSound(q)
  BY <1>5, <1>6 DEF RequestSound, RevokeSound, RedeemSound
<1>8. \A s \in Requests \ {r} : q.holds \cap request[s].holds = {}
  <2>1. \A row \in some : Free(r, row)
    BY <1>1
  <2>. HIDE DEF some
  <2>. QED
    BY <1>5, <2>1, FreeTaken
<1>9. q.answer \notin {"issued", "constraint"} /\ request[r].phase # "ended"
  BY <1>1, <1>5, InvitationAssumption
<1>. QED
  BY <1>1, <1>5, <1>7, <1>8, <1>9, RequestMoves

-----------------------------------------------------------------------------
(* A revocation asked for. *)
LEMMA RequestRevokeIInv ==
  ASSUME IInv, NEW r \in Requests, NEW i \in DOMAIN invitation, RequestRevoke(r, i)
  PROVE  IInv'
<1>1. request[r].phase = "new" /\ Unwritten
  BY DEF RequestRevoke, At
<1>2. CASE Answer(r, "refused")
  BY <1>1, <1>2, Answered DEF Answers
<1>3. CASE Goes(r, [request[r] EXCEPT !.phase = "lock invitation", !.invitation = i])
  <2>. DEFINE q == [request[r] EXCEPT !.phase = "lock invitation", !.invitation = i]
  <2>1. /\ q \in Request /\ q.stamp = None /\ q.phase = "lock invitation" /\ q.invitation = i
        /\ q.holds = request[r].holds /\ q.answer = None
    <3>1. request[r] \in Request /\ request[r].answer = None /\ i \in 0 .. MaxInvitations
      BY <1>1, Typed, Unanswered DEF IInv
    <3>2. request[r].stamp = None
      BY <1>1 DEF IInv, RequestSound
    <3>. QED
      BY <3>1, <3>2 DEF Request, Phases
  <2>2. request' = [request EXCEPT ![r] = q]
    BY <1>3 DEF Goes
  <2>. HIDE DEF q
  <2>3. RequestSound(q)
    BY <2>1 DEF RequestSound, IssueSound, RevokeSound, RedeemSound
  <2>4. \A s \in Requests \ {r} : q.holds \cap request[s].holds = {}
    BY <2>1 DEF IInv, Exclusive
  <2>5. q.answer \notin {"issued", "constraint"}
    BY <2>1, InvitationAssumption
  <2>. QED
    BY <1>1, <2>1, <2>2, <2>3, <2>4, <2>5, RequestMoves
<1>. QED
  BY <1>2, <1>3 DEF RequestRevoke

(* The Invitation locked. *)
LEMMA LockInvitationIInv ==
  ASSUME IInv, NEW r \in Requests, LockInvitation(r)
  PROVE  IInv'
<1>. DEFINE i == request[r].invitation
            some == {InvitationRow(i)}
            q == Holding(r, some, "judge")
<1>1. /\ request[r].phase = "lock invitation" /\ Unwritten /\ i \in DOMAIN invitation /\ Free(r, InvitationRow(i))
      /\ request' = [request EXCEPT ![r] = q]
  BY DEF LockInvitation, At, Goes, IInv, RequestSound, RevokeSound
<1>2. /\ q \in Request /\ q.holds = request[r].holds \cup some /\ q.phase = "judge"
      /\ q.invitation = i /\ q.stamp = None /\ q.answer = None
  <2>1. some \in SUBSET Rows
    <3>1. i \in 1 .. MaxInvitations
      BY <1>1, Typed DEF IInv
    <3>. QED
      BY <3>1, RowsApart
  <2>2. "judge" \in Phases /\ request[r].answer = None
    BY <1>1, Unanswered DEF Phases
  <2>3. request[r] \in Request
    BY Typed DEF IInv
  <2>4. request[r].stamp = None
    BY <1>1 DEF IInv, RequestSound
  <2>. HIDE DEF some
  <2>. QED
    BY <2>1, <2>2, <2>3, <2>4 DEF Holding, Request
<1>. HIDE DEF q
<1>3. RequestSound(q)
  BY <1>1, <1>2 DEF RequestSound, IssueSound, RevokeSound, RedeemSound
<1>4. \A s \in Requests \ {r} : q.holds \cap request[s].holds = {}
  <2>1. \A row \in some : Free(r, row)
    BY <1>1
  <2>. HIDE DEF some
  <2>. QED
    BY <1>2, <2>1, FreeTaken
<1>5. q.answer \notin {"issued", "constraint"} /\ request[r].phase # "ended"
  BY <1>1, <1>2, InvitationAssumption
<1>. QED
  BY <1>1, <1>2, <1>3, <1>4, <1>5, RequestMoves

(* A revocation decided again, under the lock. *)
LEMMA JudgeRevokeIInv ==
  ASSUME IInv, NEW r \in Requests, NEW reasonGiven \in BOOLEAN, JudgeRevoke(r, reasonGiven)
  PROVE  IInv'
<1>. DEFINE i == request[r].invitation
            q == Holding(r, {}, "revoke")
<1>1. /\ request[r].phase = "judge" /\ Unwritten /\ i \in DOMAIN invitation
      /\ InvitationRow(i) \in request[r].holds
  BY DEF JudgeRevoke, At, IInv, RequestSound, RevokeSound
<1>2. CASE Answer(r, "refused")
  BY <1>1, <1>2, Answered DEF Answers
<1>3. CASE Goes(r, q) /\ Unended(i)
  <2>1. /\ q \in Request /\ q.holds = request[r].holds /\ q.phase = "revoke"
        /\ q.invitation = i /\ q.stamp = None /\ q.answer = None
    <3>1. request[r] \in Request /\ request[r].answer = None /\ "revoke" \in Phases
      BY <1>1, Typed, Unanswered DEF IInv, Phases
    <3>2. request[r].stamp = None
      BY <1>1 DEF IInv, RequestSound
    <3>. QED
      BY <3>1, <3>2 DEF Holding, Request
  <2>2. request' = [request EXCEPT ![r] = q]
    BY <1>3 DEF Goes
  <2>. HIDE DEF q
  <2>3. RequestSound(q)
    BY <1>1, <1>3, <2>1 DEF RequestSound, IssueSound, RevokeSound, RedeemSound
  <2>4. \A s \in Requests \ {r} : q.holds \cap request[s].holds = {}
    BY <2>1 DEF IInv, Exclusive
  <2>5. q.answer \notin {"issued", "constraint"}
    BY <2>1, InvitationAssumption
  <2>. QED
    BY <1>1, <2>1, <2>2, <2>3, <2>4, <2>5, RequestMoves
<1>. QED
  BY <1>2, <1>3 DEF JudgeRevoke, Pending

-----------------------------------------------------------------------------
(* A redemption with a new account asked for. *)
LEMMA RequestRedeemIInv ==
  ASSUME IInv, NEW r \in Requests, NEW i \in DOMAIN invitation, NEW a \in Accounts,
         NEW ownOrigin \in BOOLEAN, RequestRedeem(r, i, a, ownOrigin)
  PROVE  IInv'
<1>1. request[r].phase = "new" /\ Unwritten
  BY DEF RequestRedeem, At
<1>2. CASE \E answer \in {"refused", "username unavailable"} : Answer(r, answer)
  BY <1>1, <1>2, Answered DEF Answers
<1>3. CASE Goes(r, [request[r] EXCEPT !.phase = "create account", !.invitation = i, !.account = a])
  <2>. DEFINE q == [request[r] EXCEPT !.phase = "create account", !.invitation = i, !.account = a]
  <2>1. /\ q \in Request /\ q.stamp = None /\ q.phase = "create account" /\ q.invitation = i
        /\ q.account = a /\ q.holds = request[r].holds /\ q.answer = None
    <3>1. request[r] \in Request /\ request[r].answer = None /\ i \in 0 .. MaxInvitations
      BY <1>1, Typed, Unanswered DEF IInv
    <3>2. request[r].stamp = None
      BY <1>1 DEF IInv, RequestSound
    <3>. QED
      BY <3>1, <3>2 DEF Request, Phases
  <2>2. request' = [request EXCEPT ![r] = q]
    BY <1>3 DEF Goes
  <2>. HIDE DEF q
  <2>3. RequestSound(q)
    BY <2>1 DEF RequestSound, IssueSound, RevokeSound, RedeemSound
  <2>4. \A s \in Requests \ {r} : q.holds \cap request[s].holds = {}
    BY <2>1 DEF IInv, Exclusive
  <2>5. q.answer \notin {"issued", "constraint"}
    BY <2>1, InvitationAssumption
  <2>. QED
    BY <1>1, <2>1, <2>2, <2>3, <2>4, <2>5, RequestMoves
<1>. QED
  BY <1>2, <1>3 DEF RequestRedeem

(* The username taken. *)
LEMMA CreateAccountIInv ==
  ASSUME IInv, NEW r \in Requests, CreateAccount(r)
  PROVE  IInv'
<1>. DEFINE a == request[r].account
            some == {Username(a)}
            q == Holding(r, some, "claim invitation")
<1>1. /\ request[r].phase = "create account" /\ Unwritten /\ Free(r, Username(a))
      /\ a \in Accounts /\ request[r].invitation \in DOMAIN invitation
  BY DEF CreateAccount, At, IInv, RequestSound, RedeemSound
<1>2. CASE Answer(r, "username unavailable")
  BY <1>1, <1>2, Answered DEF Answers
<1>3. CASE Goes(r, q)
  <2>1. /\ q \in Request /\ q.holds = request[r].holds \cup some /\ q.phase = "claim invitation"
        /\ q.invitation = request[r].invitation /\ q.account = a /\ q.stamp = None /\ q.answer = None
    <3>1. some \in SUBSET Rows
      BY <1>1, RowsApart
    <3>2. "claim invitation" \in Phases /\ request[r].answer = None
      BY <1>1, Unanswered DEF Phases
    <3>3. request[r] \in Request
      BY Typed DEF IInv
    <3>4. request[r].stamp = None
      BY <1>1 DEF IInv, RequestSound
    <3>. HIDE DEF some
    <3>. QED
      BY <3>1, <3>2, <3>3, <3>4 DEF Holding, Request
  <2>2. request' = [request EXCEPT ![r] = q]
    BY <1>3 DEF Goes
  <2>. HIDE DEF q
  <2>3. RequestSound(q)
    BY <1>1, <2>1 DEF RequestSound, IssueSound, RevokeSound, RedeemSound
  <2>4. \A s \in Requests \ {r} : q.holds \cap request[s].holds = {}
    <3>1. \A row \in some : Free(r, row)
      BY <1>1
    <3>. HIDE DEF some
    <3>. QED
      BY <2>1, <3>1, FreeTaken
  <2>5. q.answer \notin {"issued", "constraint"}
    BY <2>1, InvitationAssumption
  <2>. QED
    BY <1>1, <2>1, <2>2, <2>3, <2>4, <2>5, RequestMoves
<1>. QED
  BY <1>2, <1>3 DEF CreateAccount

(* A redemption as the account signed in asked for. *)
LEMMA RequestRedeemSignedInIInv ==
  ASSUME IInv, NEW r \in Requests, NEW i \in DOMAIN invitation, NEW a \in account \cup {None},
         RequestRedeemSignedIn(r, i, a)
  PROVE  IInv'
<1>1. request[r].phase = "new" /\ Unwritten
  BY DEF RequestRedeemSignedIn, At
<1>2. CASE \E answer \in {"refused", "duplicate person"} : Answer(r, answer)
  BY <1>1, <1>2, Answered DEF Answers
<1>3. CASE /\ a # None
           /\ Goes(r, [request[r] EXCEPT !.phase = "claim invitation", !.invitation = i, !.account = a])
  <2>. DEFINE q == [request[r] EXCEPT !.phase = "claim invitation", !.invitation = i, !.account = a]
  <2>1. /\ q \in Request /\ q.stamp = None /\ q.phase = "claim invitation" /\ q.invitation = i
        /\ q.account = a /\ q.account \in Accounts /\ q.holds = request[r].holds /\ q.answer = None
    <3>1. request[r] \in Request /\ request[r].answer = None /\ i \in 0 .. MaxInvitations
      BY <1>1, Typed, Unanswered DEF IInv
    <3>2. request[r].stamp = None
      BY <1>1 DEF IInv, RequestSound
    <3>3. a \in Accounts
      BY <1>3 DEF IInv, TypeOK
    <3>. QED
      BY <3>1, <3>2, <3>3 DEF Request, Phases
  <2>2. request' = [request EXCEPT ![r] = q]
    BY <1>3 DEF Goes
  <2>. HIDE DEF q
  <2>3. RequestSound(q)
    BY <2>1 DEF RequestSound, IssueSound, RevokeSound, RedeemSound
  <2>4. \A s \in Requests \ {r} : q.holds \cap request[s].holds = {}
    BY <2>1 DEF IInv, Exclusive
  <2>5. q.answer \notin {"issued", "constraint"}
    BY <2>1, InvitationAssumption
  <2>. QED
    BY <1>1, <2>1, <2>2, <2>3, <2>4, <2>5, RequestMoves
<1>. QED
  BY <1>2, <1>3 DEF RequestRedeemSignedIn

(* The Invitation claimed: nothing has ended it, and it is locked. *)
LEMMA ClaimInvitationIInv ==
  ASSUME IInv, NEW r \in Requests, ClaimInvitation(r)
  PROVE  IInv'
<1>. DEFINE i == request[r].invitation
            some == {InvitationRow(i)}
            q == Holding(r, some, "claim person")
<1>1. /\ request[r].phase = "claim invitation" /\ Unwritten /\ request[r].stamp # None
      /\ request[r].account \in Accounts /\ i \in DOMAIN invitation /\ request[r].stamp <= clock
  BY DEF ClaimInvitation, At, IInv, RequestSound, RedeemSound
<1>2. CASE Answer(r, "refused")
  BY <1>1, <1>2, Answered DEF Answers
<1>3. CASE Goes(r, q) /\ Free(r, InvitationRow(i)) /\ Pending(i, request[r].stamp)
  <2>1. /\ q \in Request /\ q.holds = request[r].holds \cup some /\ q.phase = "claim person"
        /\ q.invitation = i /\ q.account = request[r].account /\ q.stamp = request[r].stamp /\ q.answer = None
    <3>1. some \in SUBSET Rows
      <4>1. i \in 1 .. MaxInvitations
        BY <1>1, Typed DEF IInv
      <4>. QED
        BY <4>1, RowsApart
    <3>2. "claim person" \in Phases /\ request[r].answer = None
      BY <1>1, Unanswered DEF Phases
    <3>3. request[r] \in Request
      BY Typed DEF IInv
    <3>. HIDE DEF some
    <3>. QED
      BY <3>1, <3>2, <3>3 DEF Holding, Request
  <2>2. request' = [request EXCEPT ![r] = q]
    BY <1>3 DEF Goes
  <2>. HIDE DEF q
  <2>3. RequestSound(q)
    BY <1>1, <1>3, <2>1 DEF RequestSound, IssueSound, RevokeSound, RedeemSound
  <2>4. \A s \in Requests \ {r} : q.holds \cap request[s].holds = {}
    <3>1. \A row \in some : Free(r, row)
      BY <1>3
    <3>. HIDE DEF some
    <3>. QED
      BY <2>1, <3>1, FreeTaken
  <2>5. q.answer \notin {"issued", "constraint"} /\ (~ SlowStatements => q.stamp = clock)
    BY <1>1, <2>1, InvitationAssumption DEF IInv, PromptSound
  <2>. QED
    BY <1>1, <2>1, <2>2, <2>3, <2>4, <2>5, RequestMoves
<1>. QED
  BY <1>1, <1>2, <1>3 DEF ClaimInvitation

(* The Person claimed, if still unattached. *)
LEMMA ClaimPersonIInv ==
  ASSUME IInv, NEW r \in Requests, ClaimPerson(r)
  PROVE  IInv'
<1>. DEFINE i == request[r].invitation
            a == request[r].account
            p == invitation[i].person
            unattached == person[p] = None
            some == IF unattached THEN {PersonRow(p), Attached(a)} ELSE {}
            q == [Holding(r, some, "redeem") EXCEPT !.wins = unattached]
<1>1. /\ request[r].phase = "claim person" /\ Unwritten /\ request[r].stamp # None
      /\ a \in Accounts /\ i \in DOMAIN invitation /\ request[r].stamp <= clock
      /\ InvitationRow(i) \in request[r].holds /\ Pending(i, request[r].stamp)
      /\ p \in Persons
      /\ unattached => Free(r, PersonRow(p)) /\ Free(r, Attached(a))
  BY Typed DEF ClaimPerson, At, IInv, RequestSound, RedeemSound
<1>2. CASE Answer(r, "duplicate person")
  BY <1>1, <1>2, Answered DEF Answers
<1>3. CASE Goes(r, q)
  <2>1. /\ q \in Request /\ q.holds = request[r].holds \cup some /\ q.phase = "redeem"
        /\ q.invitation = i /\ q.account = a /\ q.stamp = request[r].stamp /\ q.answer = None
        /\ q.wins <=> unattached
    <3>1. some \in SUBSET Rows
      BY <1>1, RowsApart, ZenonT(60)
    <3>2. "redeem" \in Phases /\ request[r].answer = None
      BY <1>1, Unanswered DEF Phases
    <3>3. request[r] \in Request
      BY Typed DEF IInv
    <3>4. unattached \in BOOLEAN
      OBVIOUS
    <3>. HIDE DEF some, unattached
    <3>. QED
      BY <3>1, <3>2, <3>3, <3>4 DEF Holding, Request
  <2>2. request' = [request EXCEPT ![r] = q]
    BY <1>3 DEF Goes
  <2>3. unattached => PersonRow(p) \in some
    OBVIOUS
  <2>. HIDE DEF q
  <2>4. RequestSound(q)
    <3>1. RedeemSound(q)
      <4>. HIDE DEF some
      <4>. QED
        BY <1>1, <2>1, <2>3 DEF RedeemSound
    <3>. QED
      BY <1>1, <2>1, <3>1 DEF RequestSound, IssueSound, RevokeSound
  <2>5. \A s \in Requests \ {r} : q.holds \cap request[s].holds = {}
    <3>1. \A row \in some : Free(r, row)
      BY <1>1
    <3>. HIDE DEF some
    <3>. QED
      BY <2>1, <3>1, FreeTaken
  <2>6. q.answer \notin {"issued", "constraint"} /\ (~ SlowStatements => q.stamp = clock)
    BY <1>1, <2>1, InvitationAssumption DEF IInv, PromptSound
  <2>7. ~ SlowStatements => q.wins
    BY <1>1, <2>1, <2>6 DEF IInv, PromptSound
  <2>. QED
    BY <1>1, <2>1, <2>2, <2>4, <2>5, <2>6, <2>7, RequestMoves
<1>. QED
  BY <1>2, <1>3 DEF ClaimPerson

(* A transaction that a deadlock ends was waiting for a row. *)
LEMMA AbortDeadlockIInv ==
  ASSUME IInv, NEW r \in Requests, AbortDeadlock(r)
  PROVE  IInv'
<1>1. Answer(r, "deadlock") /\ Unwritten /\ Needs(r) # {}
  BY DEF AbortDeadlock, Deadlocked, WaitsFor
<1>2. request[r].phase # "ended"
  BY <1>1 DEF Needs
<1>. QED
  BY <1>1, <1>2, Answered DEF Answers

-----------------------------------------------------------------------------
(* The initial Invitations are of distinct Persons, all unattached. *)
LEMMA InitIInv == Init => IInv
<1>. SUFFICES ASSUME Init PROVE IInv
  OBVIOUS
<1>. DEFINE First == {Issued(p, 0) : p \in {q \in Persons : person[q] = None}}
<1>1. PICK n \in 0 .. Cardinality(Persons) : invitation \in [1 .. n -> First]
  BY DEF Init
<1>2. n \in Nat /\ Cardinality(Persons) \in Nat /\ n <= Cardinality(Persons) /\ n <= MaxInvitations
  BY <1>1, BoundTyped DEF MaxInvitations
<1>3. Life \in Nat /\ Life # 0 /\ None \notin Nat /\ clock = 0 /\ 0 \in Times
  BY InvitationAssumption DEF Init, Times
<1>4. ASSUME NEW p \in Persons
      PROVE  LET v == Issued(p, 0) IN
             /\ v \in Invitation /\ v.person = p /\ v.created = 0 /\ v.expires = Life
             /\ v.revoked = None /\ v.redeemed = None
  BY <1>3 DEF Issued, Invitation
<1>5. /\ invitation \in [1 .. n -> Invitation]
      /\ \A i \in 1 .. n : /\ invitation[i].created = 0 /\ invitation[i].expires = Life
                           /\ invitation[i].revoked = None /\ invitation[i].redeemed = None
                           /\ person[invitation[i].person] = None
  <2>1. First \subseteq Invitation /\ \A v \in First : /\ v.created = 0 /\ v.expires = Life
                           /\ v.revoked = None /\ v.redeemed = None
                           /\ person[v.person] = None
    BY <1>4
  <2>. HIDE DEF First
  <2>. QED
    BY <1>1, <2>1
<1>6. invitation \in Seq(Invitation) /\ Len(invitation) = n /\ DOMAIN invitation = 1 .. n
  <2>1. invitation \in Seq(Invitation)
    BY <1>2, <1>5, SeqDef
  <2>2. Len(invitation) \in Nat /\ DOMAIN invitation = 1 .. Len(invitation) /\ DOMAIN invitation = 1 .. n
    BY <1>5, <2>1, LenProperties
  <2>3. Len(invitation) = n
    <3>1. /\ Len(invitation) \in Nat /\ n \in Nat
          /\ Len(invitation) = 0 \/ Len(invitation) \in 1 .. Len(invitation)
          /\ n = 0 \/ n \in 1 .. n
      BY <1>2, <2>2
    <3>2. Len(invitation) <= n /\ n <= Len(invitation)
      BY <2>2, <3>1
    <3>. QED
      BY <3>1, <3>2
  <2>. QED
    BY <2>1, <2>2, <2>3
<1>7. NewRequest \in Request
  <2>1. 0 \in 0 .. MaxInvitations
    BY BoundTyped
  <2>2. "new" \in Phases /\ None \in Answers
    BY DEF Phases, Answers
  <2>. QED
    BY <2>1, <2>2 DEF NewRequest, Request
<1>8. /\ \A r \in Requests : request[r] = NewRequest
      /\ NewRequest.phase = "new" /\ NewRequest.stamp = None /\ NewRequest.answer = None /\ NewRequest.holds = {}
      /\ None # "issued" /\ None # "constraint"
  BY InvitationAssumption DEF Init, NewRequest
<1>9. TypeOK
  <2>1. person \in [Persons -> Accounts \cup {None}] /\ account \in SUBSET Accounts
    BY DEF Init
  <2>2. request \in [Requests -> Request]
    BY <1>7 DEF Init
  <2>. QED
    BY <1>2, <1>3, <1>6, <2>1, <2>2 DEF TypeOK
<1>10. Counted
  <2>1. {r \in Requests : request[r].answer = "issued"} = {}
    BY <1>8
  <2>2. Len(invitation) <= Cardinality(Persons) + Cardinality({r \in Requests : request[r].answer = "issued"})
    <3>1. Cardinality({r \in Requests : request[r].answer = "issued"}) = 0
      BY <2>1, FS_EmptySet
    <3>. QED
      BY <1>2, <1>6, <3>1
  <2>. QED
    BY <1>8, <2>2 DEF Counted
<1>11. Apart
  <2>1. \A i, j \in DOMAIN invitation : i # j => invitation[i].person # invitation[j].person
    BY DEF Init
  <2>2. \A i, j \in DOMAIN invitation : i < j => i # j
    BY <1>6
  <2>. QED
    BY <2>1, <2>2 DEF Apart
<1>12. Exclusive /\ ConstraintsNeverHit
  BY <1>8 DEF Exclusive, ConstraintsNeverHit
<1>13. \A i \in DOMAIN invitation : InvitationSound(invitation[i])
  BY <1>3, <1>5, <1>6 DEF InvitationSound
<1>14. \A r \in Requests : RequestSound(request[r])
  BY <1>8 DEF RequestSound, IssueSound, RevokeSound, RedeemSound
<1>15. PromptSound
  BY <1>5, <1>6, <1>8 DEF PromptSound, RedeemedAttaches
<1>16. AttachedByRedeeming
  BY <1>5, <1>6 DEF AttachedByRedeeming
<1>. QED
  BY <1>9, <1>10, <1>11, <1>12, <1>13, <1>14, <1>15, <1>16 DEF IInv

(* Time: what was pending may lapse, and no prompt statement is under way. *)
LEMMA TickIInv ==
  ASSUME IInv, Tick
  PROVE  IInv'
<1>1. /\ clock \in Nat /\ clock' = clock + 1 /\ clock' \in Times /\ clock' \in Nat
      /\ UNCHANGED <<account, person, invitation, request>>
      /\ ~ SlowStatements => \A r \in Requests : request[r].stamp = None
  BY Typed, InvitationAssumption DEF IInv, Tick, TypeOK, Times
<1>2. \A i \in DOMAIN invitation : Pending(i, clock)' => Pending(i, clock)
  <2>1. SUFFICES ASSUME NEW i \in DOMAIN invitation, Pending(i, clock)' PROVE Pending(i, clock)
    OBVIOUS
  <2>2. invitation[i].expires \in Nat
    BY Typed DEF IInv
  <2>. QED
    BY <1>1, <2>1, <2>2 DEF Pending, Unended
<1>3. TypeOK' /\ Counted' /\ Apart' /\ AttachedByRedeeming' /\ Exclusive' /\ ConstraintsNeverHit'
  BY <1>1 DEF IInv, TypeOK, Counted, Apart, AttachedByRedeeming, Exclusive, ConstraintsNeverHit
<1>4. ASSUME NEW i \in DOMAIN invitation' PROVE InvitationSound(invitation[i])'
  <2>1. i \in DOMAIN invitation /\ InvitationSound(invitation[i])
    BY <1>1 DEF IInv
  <2>2. /\ invitation[i].created \in Nat
        /\ invitation[i].revoked \in Nat \cup {None} /\ invitation[i].redeemed \in Nat \cup {None}
    BY <2>1, Typed DEF IInv
  <2>. QED
    BY <1>1, <2>1, <2>2 DEF InvitationSound
<1>5. ASSUME NEW r \in Requests PROVE RequestSound(request[r])'
  <2>1. RequestSound(request[r])
    BY DEF IInv
  <2>2. request[r].stamp # None => request[r].stamp \in Nat
    BY Typed DEF IInv
  <2>3. IssueSound(request[r])'
    <3>1. IssueSound(request[r])
      BY <2>1 DEF RequestSound
    <3>. QED
      BY <1>1, <1>2, <3>1 DEF IssueSound, Unended
  <2>4. RevokeSound(request[r])' /\ RedeemSound(request[r])'
    BY <1>1, <2>1 DEF RequestSound, RevokeSound, RedeemSound, Unended, Pending
  <2>5. request'[r] = request[r] /\ (request[r].stamp # None => request[r].stamp <= clock')
    <3>1. request[r].stamp # None => request[r].stamp <= clock
      BY <2>1 DEF RequestSound
    <3>2. clock \in Nat /\ clock' = clock + 1 /\ request' = request
      BY <1>1
    <3>. QED
      BY ONLY <2>2, <3>1, <3>2
  <2>. QED
    BY <2>1, <2>3, <2>4, <2>5 DEF RequestSound
<1>6. ~ SlowStatements => PromptSound'
  BY <1>1, <1>2 DEF IInv, PromptSound, RedeemedAttaches
<1>. QED
  BY <1>3, <1>4, <1>5, <1>6 DEF IInv

-----------------------------------------------------------------------------
(* Whoever writes, the other requests keep what they found: what is written   *)
(* of a Person or of an Invitation is written by the request that holds it,   *)
(* and no Invitation comes back to life.                                      *)
LEMMA Bystanders ==
  ASSUME IInv, NEW r \in Requests, NEW s \in Requests \ {r}, clock' = clock, request'[s] = request[s],
         DOMAIN invitation \subseteq DOMAIN invitation',
         \A i \in DOMAIN invitation :
           /\ invitation'[i].person = invitation[i].person /\ invitation'[i].created = invitation[i].created
           /\ invitation'[i].expires = invitation[i].expires
           /\ InvitationRow(i) \in request[r].holds \/ invitation'[i] = invitation[i]
           /\ Unended(i)' => Unended(i),
         \A i \in DOMAIN invitation' : i \in DOMAIN invitation
                                         \/ PersonRow(invitation'[i].person) \in request[r].holds,
         \A p \in Persons : PersonRow(p) \in request[r].holds \/ person'[p] = person[p],
         \A p \in Persons : person[p] # None => person'[p] # None
  PROVE  RequestSound(request[s])'
<1>. DEFINE q == request[s]
<1>1. \A row : row \in q.holds => row \notin request[r].holds
  BY DEF IInv, Exclusive
<1>2. RequestSound(q) /\ IssueSound(q) /\ RevokeSound(q) /\ RedeemSound(q)
  BY DEF IInv, RequestSound
<1>3. \A i \in DOMAIN invitation : InvitationRow(i) \in q.holds => invitation'[i] = invitation[i]
  BY <1>1
<1>4. \A i \in DOMAIN invitation : invitation[i].person \in Persons
  BY Typed DEF IInv
<1>5. \A p \in Persons : PersonRow(p) \in q.holds => person'[p] = person[p]
  BY <1>1
<1>6. \A i \in DOMAIN invitation' : PersonRow(invitation'[i].person) \in q.holds =>
        i \in DOMAIN invitation /\ invitation'[i].person = invitation[i].person
  BY <1>1
<1>. HIDE DEF q
<1>7. IssueSound(q)'
  <2>1. q.phase \in {"lock person", "lock pending", "issue"} => q.on \in Persons
    BY <1>2 DEF IssueSound
  <2>2. q.phase \in {"lock pending", "issue"} => PersonRow(q.on) \in q.holds /\ person'[q.on] = None
    BY <1>2, <1>5, <2>1 DEF IssueSound
  <2>3. q.phase = "lock pending" /\ q.stamp # None =>
          \A i \in DOMAIN invitation' : invitation'[i].person = q.on => invitation'[i].created <= q.stamp
    BY <1>2, <1>6, <2>2 DEF IssueSound
  <2>4. q.phase = "issue" /\ q.invitation # 0 =>
            /\ q.invitation \in DOMAIN invitation' /\ invitation'[q.invitation].person = q.on
            /\ InvitationRow(q.invitation) \in q.holds
            /\ invitation'[q.invitation].revoked = None /\ invitation'[q.invitation].redeemed = None
    BY <1>2, <1>3 DEF IssueSound, Unended
  <2>5. ASSUME q.phase = "issue", NEW i \in DOMAIN invitation', invitation'[i].person = q.on, Pending(i, clock)'
        PROVE  i = q.invitation
    <3>1. i \in DOMAIN invitation /\ invitation[i].person = q.on
      BY <1>6, <2>2, <2>5
    <3>2. Unended(i) /\ invitation[i].expires > clock
      BY <2>5, <3>1 DEF Pending
    <3>. QED
      BY <1>2, <2>5, <3>1, <3>2 DEF IssueSound, Pending
  <2>6. q' = q
    BY DEF q
  <2>. QED
    BY <2>1, <2>2, <2>3, <2>4, <2>5, <2>6 DEF IssueSound, Unended
<1>8. RevokeSound(q)'
  <2>1. q' = q
    BY DEF q
  <2>. QED
    BY <1>2, <1>3, <2>1 DEF RevokeSound, Unended
<1>9. RedeemSound(q)'
  <2>1. q' = q
    BY DEF q
  <2>2. q.phase \in {"create account", "claim invitation", "claim person", "redeem"} =>
          q.invitation \in DOMAIN invitation' /\ q.account \in Accounts
    BY <1>2 DEF RedeemSound
  <2>3. q.phase \in {"claim person", "redeem"} =>
          /\ InvitationRow(q.invitation) \in q.holds /\ q.stamp # None
          /\ invitation'[q.invitation] = invitation[q.invitation]
          /\ invitation[q.invitation].person \in Persons
          /\ Pending(q.invitation, q.stamp)
    BY <1>2, <1>3, <1>4 DEF RedeemSound
  <2>4. q.phase = "redeem" /\ q.wins =>
          /\ PersonRow(invitation[q.invitation].person) \in q.holds
          /\ person'[invitation[q.invitation].person] = None
    BY <1>2, <1>5, <2>3 DEF RedeemSound
  <2>5. q.phase = "redeem" /\ ~ q.wins => person'[invitation[q.invitation].person] # None
    BY <1>2, <2>3 DEF RedeemSound
  <2>. QED
    BY <2>1, <2>2, <2>3, <2>4, <2>5 DEF RedeemSound, Pending, Unended
<1>. QED
  <2>1. q' = q /\ request'[s] = q
    BY DEF q
  <2>2. RequestSound(q)'
    BY <1>2, <1>7, <1>8, <1>9, <2>1 DEF RequestSound
  <2>. QED
    BY <2>2 DEF q

(* A request that writes is answered, lets go of its rows, and leaves the     *)
(* other requests with theirs.                                                *)
LEMMA WriterEnds ==
  ASSUME IInv, NEW r \in Requests, request[r].phase # "ended", NEW a \in Answers \ {"constraint"},
         Answer(r, a), clock' = clock,
         DOMAIN invitation \subseteq DOMAIN invitation',
         \A i \in DOMAIN invitation :
           /\ invitation'[i].person = invitation[i].person /\ invitation'[i].created = invitation[i].created
           /\ invitation'[i].expires = invitation[i].expires
           /\ InvitationRow(i) \in request[r].holds \/ invitation'[i] = invitation[i]
           /\ Unended(i)' => Unended(i),
         \A i \in DOMAIN invitation' : i \in DOMAIN invitation
                                         \/ PersonRow(invitation'[i].person) \in request[r].holds,
         \A p \in Persons : PersonRow(p) \in request[r].holds \/ person'[p] = person[p],
         \A p \in Persons : person[p] # None => person'[p] # None
  PROVE  /\ request' \in [Requests -> Request] /\ Exclusive' /\ ConstraintsNeverHit'
         /\ \A s \in Requests : request'[s].answer # None => request'[s].phase = "ended"
         /\ {s \in Requests : request'[s].answer = "issued"} =
              {s \in Requests : request[s].answer = "issued"} \cup (IF a = "issued" THEN {r} ELSE {})
         /\ r \notin {s \in Requests : request[s].answer = "issued"}
         /\ \A s \in Requests : RequestSound(request[s])'
         /\ ~ SlowStatements => \A s \in Requests : /\ request'[s].stamp # None => request'[s].stamp = clock'
                                                    /\ request'[s].phase = "redeem" => request'[s].wins
<1>. DEFINE q == [NewRequest EXCEPT !.phase = "ended", !.answer = a]
<1>1. /\ q \in Request /\ q.phase = "ended" /\ q.answer = a /\ q.stamp = None /\ q.holds = {}
  <2>1. NewRequest \in Request
    <3>1. 0 \in 0 .. MaxInvitations
      BY BoundTyped
    <3>2. "new" \in Phases /\ None \in Answers
      BY DEF Phases, Answers
    <3>. QED
      BY <3>1, <3>2 DEF NewRequest, Request
  <2>2. q \in Request /\ q.phase = "ended" /\ q.answer = a
    BY <2>1 DEF Request, Phases
  <2>. QED
    BY <2>2 DEF NewRequest
<1>2. request' = [request EXCEPT ![r] = q] /\ request \in [Requests -> Request]
  BY DEF Answer, Goes, IInv, TypeOK
<1>. HIDE DEF q
<1>3. \A s \in Requests : request'[s] = IF s = r THEN q ELSE request[s]
  BY <1>2
<1>4. request[r].answer = None /\ None # "issued"
  BY Unanswered, InvitationAssumption
<1>5. request' \in [Requests -> Request]
  BY <1>1, <1>2
<1>6. Exclusive' /\ ConstraintsNeverHit'
  BY <1>1, <1>3 DEF IInv, Exclusive, ConstraintsNeverHit
<1>7. \A s \in Requests : request'[s].answer # None => request'[s].phase = "ended"
  BY <1>1, <1>3 DEF IInv, Counted
<1>8. {s \in Requests : request'[s].answer = "issued"} =
              {s \in Requests : request[s].answer = "issued"} \cup (IF a = "issued" THEN {r} ELSE {})
  BY <1>1, <1>3, <1>4
<1>9. ASSUME NEW s \in Requests PROVE RequestSound(request[s])'
  <2>1. CASE s = r
    <3>1. request'[s] = q
      BY <1>3, <2>1
    <3>. QED
      BY <1>1, <3>1 DEF RequestSound, IssueSound, RevokeSound, RedeemSound
  <2>2. CASE s # r
    <3>1. s \in Requests \ {r} /\ request'[s] = request[s]
      BY <1>3, <2>2
    <3>. QED
      BY <3>1, Bystanders
  <2>. QED
    BY <2>1, <2>2
<1>10. ~ SlowStatements => \A s \in Requests : /\ request'[s].stamp # None => request'[s].stamp = clock'
                                               /\ request'[s].phase = "redeem" => request'[s].wins
  BY <1>1, <1>3 DEF IInv, PromptSound
<1>. QED
  BY <1>4, <1>5, <1>6, <1>7, <1>8, <1>9, <1>10

(* An Invitation ended in place: its Person's others still follow each other, *)
(* and those that remain pending were pending before.                         *)
LEMMA EndedInPlace ==
  ASSUME IInv, NEW i \in DOMAIN invitation, NEW w \in Invitation, clock' = clock,
         w.person = invitation[i].person, w.created = invitation[i].created, w.expires = invitation[i].expires,
         ~ (w.revoked = None /\ w.redeemed = None), InvitationSound(w),
         w.revoked = None => invitation[i].revoked = None,
         invitation' = [invitation EXCEPT ![i] = w]
  PROVE  /\ invitation' \in Seq(Invitation) /\ Len(invitation') = Len(invitation)
         /\ DOMAIN invitation' = DOMAIN invitation
         /\ \A j \in DOMAIN invitation : invitation'[j] = IF j = i THEN w ELSE invitation[j]
         /\ \A j \in DOMAIN invitation :
              /\ invitation'[j].person = invitation[j].person /\ invitation'[j].created = invitation[j].created
              /\ invitation'[j].expires = invitation[j].expires
              /\ Unended(j)' => Unended(j) /\ j # i
         /\ Apart' /\ \A j \in DOMAIN invitation' : InvitationSound(invitation[j])'
<1>1. invitation \in Seq(Invitation) /\ DOMAIN invitation = 1 .. Len(invitation)
  BY Typed DEF IInv
<1>2. /\ invitation' \in Seq(Invitation) /\ Len(invitation') = Len(invitation)
      /\ \A j \in 1 .. Len(invitation) : invitation'[j] = IF j = i THEN w ELSE invitation[j]
  BY <1>1, ExceptSeq
<1>3. DOMAIN invitation' = DOMAIN invitation
  OBVIOUS
<1>4. \A j \in DOMAIN invitation : invitation'[j] = IF j = i THEN w ELSE invitation[j]
  BY <1>1, <1>2
<1>5. \A j \in DOMAIN invitation :
              /\ invitation'[j].person = invitation[j].person /\ invitation'[j].created = invitation[j].created
              /\ invitation'[j].expires = invitation[j].expires
              /\ Unended(j)' => Unended(j) /\ j # i
  BY <1>4 DEF Unended
<1>6. Apart'
  <2>1. \A j \in DOMAIN invitation : invitation'[j].revoked = None => invitation[j].revoked = None
    <3>1. w.revoked = None => invitation[i].revoked = None
      OBVIOUS
    <3>. QED
      BY <1>4, <3>1
  <2>. QED
    BY <1>3, <1>5, <2>1 DEF IInv, Apart
<1>7. ASSUME NEW j \in DOMAIN invitation' PROVE InvitationSound(invitation[j])'
  <2>1. InvitationSound(invitation'[j])
    BY <1>3, <1>4 DEF IInv
  <2>. QED
    BY <2>1 DEF InvitationSound
<1>. QED
  BY <1>2, <1>3, <1>4, <1>5, <1>6, <1>7

(* A revocation commits: the Invitation is its own to end. *)
LEMMA CommitRevokeIInv ==
  ASSUME IInv, NEW r \in Requests, CommitRevoke(r)
  PROVE  IInv'
<1>. DEFINE i == request[r].invitation
            w == [invitation[i] EXCEPT !.revoked = clock]
<1>1. /\ request[r].phase = "revoke" /\ i \in DOMAIN invitation /\ Unended(i)
      /\ InvitationRow(i) \in request[r].holds
  BY DEF CommitRevoke, At, IInv, RequestSound, RevokeSound
<1>2. /\ invitation' = [invitation EXCEPT ![i] = w] /\ Answer(r, "revoked")
      /\ clock' = clock /\ account' = account /\ person' = person
  BY <1>1 DEF CommitRevoke
<1>3. clock \in Times /\ clock \in Nat /\ None \notin Nat /\ invitation[i] \in Invitation /\ InvitationSound(invitation[i])
      /\ invitation[i].redeemed = None /\ invitation[i].revoked = None
  BY <1>1, Typed DEF IInv, Unended
<1>4. /\ w \in Invitation /\ w.person = invitation[i].person /\ w.created = invitation[i].created
      /\ w.expires = invitation[i].expires /\ w.revoked = clock /\ w.redeemed = None
      /\ w.by = invitation[i].by
  BY <1>3 DEF Invitation
<1>. HIDE DEF w
<1>5. InvitationSound(w) /\ ~ (w.revoked = None /\ w.redeemed = None)
  BY <1>3, <1>4 DEF InvitationSound
<1>6. /\ invitation' \in Seq(Invitation) /\ Len(invitation') = Len(invitation)
      /\ DOMAIN invitation' = DOMAIN invitation
      /\ \A j \in DOMAIN invitation : invitation'[j] = IF j = i THEN w ELSE invitation[j]
      /\ \A j \in DOMAIN invitation :
           /\ invitation'[j].person = invitation[j].person /\ invitation'[j].created = invitation[j].created
           /\ invitation'[j].expires = invitation[j].expires
           /\ Unended(j)' => Unended(j) /\ j # i
      /\ Apart' /\ \A j \in DOMAIN invitation' : InvitationSound(invitation[j])'
  BY <1>1, <1>2, <1>3, <1>4, <1>5, EndedInPlace
<1>7. /\ request' \in [Requests -> Request] /\ Exclusive' /\ ConstraintsNeverHit'
      /\ \A s \in Requests : request'[s].answer # None => request'[s].phase = "ended"
      /\ {s \in Requests : request'[s].answer = "issued"} = {s \in Requests : request[s].answer = "issued"}
      /\ \A s \in Requests : RequestSound(request[s])'
      /\ ~ SlowStatements => \A s \in Requests : /\ request'[s].stamp # None => request'[s].stamp = clock'
                                                 /\ request'[s].phase = "redeem" => request'[s].wins
  <2>1. "revoked" \in Answers \ {"constraint"} /\ "revoked" # "issued"
    BY DEF Answers
  <2>2. \A j \in DOMAIN invitation : InvitationRow(j) \in request[r].holds \/ invitation'[j] = invitation[j]
    BY <1>1, <1>6
  <2>3. \A p \in Persons : person'[p] = person[p]
    BY <1>2
  <2>. QED
    BY <1>1, <1>2, <1>6, <2>1, <2>2, <2>3, WriterEnds
<1>8. TypeOK'
  BY <1>2, <1>6, <1>7 DEF IInv, TypeOK
<1>9. Counted'
  BY <1>6, <1>7 DEF IInv, Counted
<1>10. ~ SlowStatements => PromptSound'
  <2>1. SUFFICES ASSUME ~ SlowStatements PROVE PromptSound'
    OBVIOUS
  <2>2. PromptSound
    BY <2>1 DEF IInv
  <2>3. \A j \in DOMAIN invitation' : Pending(j, clock)' => person'[invitation'[j].person] = None
    BY <1>2, <1>6, <2>2 DEF PromptSound, Pending
  <2>4. RedeemedAttaches'
    BY <1>2, <1>4, <1>6, <2>2 DEF PromptSound, RedeemedAttaches
  <2>. QED
    BY <1>7, <2>1, <2>3, <2>4 DEF PromptSound
<1>11. AttachedByRedeeming'
  <2>1. \A j \in DOMAIN invitation :
          invitation'[j].redeemed = invitation[j].redeemed /\ invitation'[j].by = invitation[j].by
    <3>1. w.redeemed = invitation[i].redeemed /\ w.by = invitation[i].by
      BY <1>3, <1>4
    <3>. QED
      BY <1>6, <3>1
  <2>. QED
    BY <1>2, <1>6, <2>1 DEF IInv, AttachedByRedeeming
<1>. QED
  BY <1>6, <1>7, <1>8, <1>9, <1>10, <1>11 DEF IInv

(* A Person has one pending Invitation at most. *)
LEMMA PendingUnique ==
  ASSUME IInv, NEW i \in DOMAIN invitation, NEW j \in DOMAIN invitation,
         invitation[i].person = invitation[j].person, Pending(i, clock), Pending(j, clock)
  PROVE  i = j
<1>1. /\ i \in Nat /\ j \in Nat /\ clock \in Nat
      /\ invitation[i].created \in Nat /\ invitation[i].expires \in Nat
      /\ invitation[j].created \in Nat /\ invitation[j].expires \in Nat
  BY Typed DEF IInv
<1>2. /\ invitation[i].created <= clock /\ invitation[j].created <= clock
      /\ invitation[i].expires > clock /\ invitation[j].expires > clock
  BY DEF IInv, InvitationSound, Pending
<1>3. /\ i < j => invitation[i].expires <= invitation[j].created
      /\ j < i => invitation[j].expires <= invitation[i].created
  BY DEF IInv, Apart, Pending, Unended
<1>. QED
  BY ONLY <1>1, <1>2, <1>3

(* A redemption commits: in time by its stamp, and it attaches the Person or  *)
(* another redemption has; the latter only where a statement was slow.        *)
LEMMA CommitRedeemIInv ==
  ASSUME IInv, NEW r \in Requests, CommitRedeem(r)
  PROVE  IInv'
<1>. DEFINE i == request[r].invitation
            a == request[r].account
            stamp == request[r].stamp
            w == [invitation[i] EXCEPT !.redeemed = stamp, !.by = a]
            p == invitation[i].person
<1>1. /\ request[r].phase = "redeem" /\ i \in DOMAIN invitation /\ a \in Accounts
      /\ InvitationRow(i) \in request[r].holds
      /\ stamp # None /\ stamp <= clock /\ Pending(i, stamp)
      /\ request[r].wins => PersonRow(p) \in request[r].holds /\ person[p] = None
      /\ ~ request[r].wins => person[p] # None
  BY DEF CommitRedeem, At, IInv, RequestSound, RedeemSound
<1>2. /\ invitation' = [invitation EXCEPT ![i] = w] /\ Answer(r, "redeemed")
      /\ clock' = clock /\ account' = account \cup {a}
      /\ person' = IF request[r].wins THEN [person EXCEPT ![p] = a] ELSE person
  BY <1>1 DEF CommitRedeem
<1>3. stamp \in Times /\ stamp \in Nat /\ None \notin Nat /\ invitation[i] \in Invitation /\ InvitationSound(invitation[i])
      /\ invitation[i].redeemed = None /\ invitation[i].revoked = None /\ stamp < invitation[i].expires
      /\ p \in Persons /\ a # None /\ clock \in Nat /\ invitation[i].expires \in Nat
  BY <1>1, Typed, InvitationAssumption DEF IInv, Unended, Pending
<1>4. /\ w \in Invitation /\ w.person = p /\ w.created = invitation[i].created
      /\ w.expires = invitation[i].expires /\ w.revoked = None /\ w.redeemed = stamp /\ w.by = a
  BY <1>1, <1>3 DEF Invitation
<1>. HIDE DEF w
<1>5. InvitationSound(w) /\ ~ (w.revoked = None /\ w.redeemed = None)
  BY <1>1, <1>3, <1>4 DEF InvitationSound
<1>6. /\ invitation' \in Seq(Invitation) /\ Len(invitation') = Len(invitation)
      /\ DOMAIN invitation' = DOMAIN invitation
      /\ \A j \in DOMAIN invitation : invitation'[j] = IF j = i THEN w ELSE invitation[j]
      /\ \A j \in DOMAIN invitation :
           /\ invitation'[j].person = invitation[j].person /\ invitation'[j].created = invitation[j].created
           /\ invitation'[j].expires = invitation[j].expires
           /\ Unended(j)' => Unended(j) /\ j # i
      /\ Apart' /\ \A j \in DOMAIN invitation' : InvitationSound(invitation[j])'
  BY <1>1, <1>2, <1>3, <1>4, <1>5, EndedInPlace
<1>7. /\ \A x \in Persons : x # p => person'[x] = person[x]
      /\ request[r].wins => person'[p] = a
      /\ ~ request[r].wins => person' = person
      /\ person' \in [Persons -> Accounts \cup {None}]
  BY <1>1, <1>2, <1>3 DEF IInv, TypeOK
<1>8. /\ request' \in [Requests -> Request] /\ Exclusive' /\ ConstraintsNeverHit'
      /\ \A s \in Requests : request'[s].answer # None => request'[s].phase = "ended"
      /\ {s \in Requests : request'[s].answer = "issued"} = {s \in Requests : request[s].answer = "issued"}
      /\ \A s \in Requests : RequestSound(request[s])'
      /\ ~ SlowStatements => \A s \in Requests : /\ request'[s].stamp # None => request'[s].stamp = clock'
                                                 /\ request'[s].phase = "redeem" => request'[s].wins
  <2>1. "redeemed" \in Answers \ {"constraint"} /\ "redeemed" # "issued"
    BY DEF Answers
  <2>2. \A j \in DOMAIN invitation : InvitationRow(j) \in request[r].holds \/ invitation'[j] = invitation[j]
    BY <1>1, <1>6
  <2>3. \A x \in Persons : PersonRow(x) \in request[r].holds \/ person'[x] = person[x]
    BY <1>1, <1>7
  <2>4. \A x \in Persons : person[x] # None => person'[x] # None
    BY <1>1, <1>7
  <2>. QED
    BY <1>1, <1>2, <1>6, <2>1, <2>2, <2>3, <2>4, WriterEnds
<1>9. TypeOK'
  <2>1. account' \in SUBSET Accounts
    BY <1>1, <1>2 DEF IInv, TypeOK
  <2>. QED
    BY <1>2, <1>6, <1>7, <1>8, <2>1 DEF IInv, TypeOK
<1>10. Counted'
  BY <1>6, <1>8 DEF IInv, Counted
<1>11. ~ SlowStatements => PromptSound'
  <2>1. SUFFICES ASSUME ~ SlowStatements PROVE PromptSound'
    OBVIOUS
  <2>2. PromptSound /\ request[r].wins /\ stamp = clock /\ Pending(i, clock)
    BY <1>1, <2>1 DEF IInv, PromptSound
  <2>3. ASSUME NEW j \in DOMAIN invitation', Pending(j, clock)'
        PROVE  person'[invitation'[j].person] = None
    <3>1. j \in DOMAIN invitation /\ j # i /\ Pending(j, clock) /\ invitation'[j].person = invitation[j].person
      BY <1>2, <1>6, <2>3 DEF Pending
    <3>2. invitation[j].person # p /\ invitation[j].person \in Persons
      BY <1>1, <2>2, <3>1, PendingUnique, Typed DEF IInv
    <3>. QED
      BY <1>7, <2>2, <3>1, <3>2 DEF PromptSound
  <2>4. ASSUME NEW j \in DOMAIN invitation', invitation'[j].redeemed # None
        PROVE  person'[invitation'[j].person] = invitation'[j].by
    <3>1. CASE j = i
      BY <1>4, <1>6, <1>7, <2>2, <3>1
    <3>2. CASE j # i
      <4>1. /\ j \in DOMAIN invitation /\ invitation'[j] = invitation[j] /\ invitation[j].person \in Persons
            /\ person[invitation[j].person] = invitation[j].by /\ invitation[j].by \in Accounts
        BY <1>6, <2>2, <2>4, <3>2, Typed DEF PromptSound, RedeemedAttaches, IInv, InvitationSound
      <4>2. invitation[j].person # p
        BY <1>1, <2>2, <4>1, InvitationAssumption
      <4>. QED
        BY <1>7, <4>1, <4>2
    <3>. QED
      BY <3>1, <3>2
  <2>5. RedeemedAttaches'
    BY <2>4 DEF RedeemedAttaches
  <2>. QED
    BY <1>8, <2>1, <2>3, <2>5 DEF PromptSound
<1>12. AttachedByRedeeming'
  <2>1. SUFFICES ASSUME NEW j \in DOMAIN invitation'
                 PROVE  LET x == invitation'[j].person IN
                        /\ invitation'[j].redeemed # None => person'[x] # None
                        /\ person'[x] # None =>
                             \E k \in DOMAIN invitation' :
                               /\ invitation'[k].person = x /\ invitation'[k].redeemed # None
                               /\ invitation'[k].by = person'[x]
    BY DEF AttachedByRedeeming
  <2>. DEFINE x == invitation'[j].person
  <2>2. j \in DOMAIN invitation /\ i \in DOMAIN invitation' /\ x = invitation[j].person /\ x \in Persons
    BY <1>1, <1>6, Typed DEF IInv
  <2>3. /\ invitation[j].redeemed # None => person[x] # None
        /\ person[x] # None =>
             \E k \in DOMAIN invitation :
               invitation[k].person = x /\ invitation[k].redeemed # None /\ invitation[k].by = person[x]
    BY <2>2 DEF IInv, AttachedByRedeeming
  <2>4. /\ invitation'[i].person = p /\ invitation'[i].redeemed # None /\ invitation'[i].by = a
        /\ person'[p] # None
    BY <1>1, <1>3, <1>4, <1>6, <1>7
  <2>5. invitation'[j].redeemed # None => person'[x] # None
    <3>1. CASE j = i
      BY <2>2, <2>4, <3>1
    <3>2. CASE j # i
      <4>1. invitation'[j] = invitation[j]
        BY <1>6, <2>2, <3>2
      <4>. QED
        BY <1>1, <1>7, <2>2, <2>3, <2>4, <4>1
    <3>. QED
      BY <3>1, <3>2
  <2>6. ASSUME person'[x] # None
        PROVE  \E k \in DOMAIN invitation' :
                 invitation'[k].person = x /\ invitation'[k].redeemed # None /\ invitation'[k].by = person'[x]
    <3>1. CASE x = p /\ request[r].wins
      BY <1>7, <2>2, <2>4, <3>1
    <3>2. CASE ~ (x = p /\ request[r].wins)
      <4>1. person'[x] = person[x] /\ person[x] # None
        BY <1>7, <2>2, <2>6, <3>2
      <4>2. PICK k \in DOMAIN invitation :
              invitation[k].person = x /\ invitation[k].redeemed # None /\ invitation[k].by = person[x]
        BY <2>3, <4>1
      <4>3. k # i /\ k \in DOMAIN invitation' /\ invitation'[k] = invitation[k]
        BY <1>3, <1>6, <4>2
      <4>. QED
        BY <4>1, <4>2, <4>3
    <3>. QED
      BY <3>1, <3>2
  <2>. QED
    BY <2>5, <2>6
<1>. QED
  BY <1>6, <1>8, <1>9, <1>10, <1>11, <1>12 DEF IInv

-----------------------------------------------------------------------------
(* An Invitation's life ends by the first of its three ends. *)
LEMMA LiveUntilLeast ==
  ASSUME NEW v \in Invitation
  PROVE  /\ LiveUntil(v) \in {v.expires, v.revoked, v.redeemed} \ {None}
         /\ LiveUntil(v) \in Nat /\ LiveUntil(v) <= v.expires
         /\ v.revoked # None => LiveUntil(v) <= v.revoked
         /\ v.redeemed # None => LiveUntil(v) <= v.redeemed
<1>. DEFINE S == {v.expires, v.revoked, v.redeemed} \ {None}
<1>1. v.expires \in Nat /\ v.revoked \in Nat \cup {None} /\ v.redeemed \in Nat \cup {None} /\ None \notin Nat
  BY InvitationAssumption DEF Invitation, Times
<1>2. S \subseteq Nat /\ v.expires \in S
  BY <1>1
<1>3. \E t \in S : \A u \in S : t <= u
  <2>1. CASE v.revoked = None /\ v.redeemed = None
    BY <1>1, <2>1
  <2>2. CASE v.revoked # None /\ v.redeemed = None
    BY <1>1, <2>2
  <2>3. CASE v.revoked = None /\ v.redeemed # None
    BY <1>1, <2>3
  <2>4. CASE v.revoked # None /\ v.redeemed # None
    BY <1>1, <2>4
  <2>. QED
    BY <2>1, <2>2, <2>3, <2>4
<1>4. LiveUntil(v) = Least(S)
  BY DEF LiveUntil
<1>5. v.revoked # None => v.revoked \in S
  OBVIOUS
<1>6. v.redeemed # None => v.redeemed \in S
  OBVIOUS
<1>. HIDE DEF S
<1>7. Least(S) \in S /\ \A u \in S : Least(S) <= u
  BY <1>3, Zenon DEF Least
<1>8. LiveUntil(v) \in S /\ LiveUntil(v) \in Nat /\ LiveUntil(v) <= v.expires
      /\ (v.revoked # None => LiveUntil(v) <= v.revoked) /\ (v.redeemed # None => LiveUntil(v) <= v.redeemed)
  BY <1>2, <1>4, <1>5, <1>6, <1>7
<1>. QED
  BY <1>8 DEF S

(* What was pending of the Person an issue found and locked, and it supersedes *)
(* that: the exclusion constraint has nothing to refuse.                       *)
LEMMA CommitIssueEffect ==
  ASSUME IInv, NEW r \in Requests, CommitIssue(r)
  PROVE  LET p == request[r].on
             i == request[r].invitation
             n == Len(invitation) IN
         /\ p \in Persons /\ person[p] = None /\ Answer(r, "issued")
         /\ UNCHANGED <<clock, account, person>>
         /\ invitation' \in Seq(Invitation) /\ Len(invitation') = n + 1 /\ DOMAIN invitation' = 1 .. n + 1
         /\ invitation'[n + 1] = Issued(p, clock) /\ PersonRow(p) \in request[r].holds
         /\ \A j \in DOMAIN invitation : invitation[j].person = p /\ Pending(j, clock) => j = i
         /\ \A j \in DOMAIN invitation : j = i => invitation[j].person = p /\ InvitationRow(j) \in request[r].holds
         /\ \A j \in 1 .. n :
              /\ invitation'[j].person = invitation[j].person /\ invitation'[j].created = invitation[j].created
              /\ invitation'[j].expires = invitation[j].expires
              /\ invitation'[j].redeemed = invitation[j].redeemed /\ invitation'[j].by = invitation[j].by
              /\ j # i => invitation'[j] = invitation[j]
              /\ j = i => /\ invitation'[j].revoked = clock
                          /\ invitation[j].revoked = None /\ invitation[j].redeemed = None
<1>. DEFINE p == request[r].on
            i == request[r].invitation
            n == Len(invitation)
            new == Issued(p, clock)
            sup == Superseded(r)
<1>1. /\ request[r].phase = "issue" /\ p \in Persons /\ PersonRow(p) \in request[r].holds /\ person[p] = None
      /\ i # 0 => /\ i \in DOMAIN invitation /\ invitation[i].person = p
                  /\ InvitationRow(i) \in request[r].holds /\ Unended(i)
      /\ \A j \in DOMAIN invitation : invitation[j].person = p /\ Pending(j, clock) => j = i
      /\ UNCHANGED <<clock, account, person>>
  BY DEF CommitIssue, At, IInv, RequestSound, IssueSound
<1>2. /\ clock \in Times /\ clock \in Nat /\ Life \in Nat /\ Life # 0 /\ None \notin Nat
      /\ invitation \in Seq(Invitation) /\ n \in Nat /\ DOMAIN invitation = 1 .. n
      /\ \A j \in 1 .. n : /\ j \in Nat /\ j # 0 /\ invitation[j] \in Invitation /\ InvitationSound(invitation[j])
                           /\ invitation[j].created \in Nat /\ invitation[j].expires \in Nat
  BY Typed DEF IInv
<1>3. /\ new \in Invitation /\ new.person = p /\ new.created = clock /\ new.expires = clock + Life
      /\ new.revoked = None /\ new.redeemed = None
  BY <1>1, <1>2 DEF Issued, Invitation
<1>4. /\ sup \in Seq(Invitation) /\ Len(sup) = n
      /\ \A j \in 1 .. n :
           /\ sup[j].person = invitation[j].person /\ sup[j].created = invitation[j].created
           /\ sup[j].expires = invitation[j].expires /\ sup[j].redeemed = invitation[j].redeemed
           /\ sup[j].by = invitation[j].by
           /\ j # i => sup[j] = invitation[j]
           /\ j = i => sup[j].revoked = clock /\ invitation[j].revoked = None /\ invitation[j].redeemed = None
  <2>1. CASE i = 0
    <3>1. sup = invitation
      BY <2>1 DEF Superseded
    <3>2. \A j \in 1 .. n : j # i
      BY <1>2, <2>1
    <3>. HIDE DEF sup
    <3>. QED
      BY <1>2, <3>1, <3>2
  <2>2. CASE i # 0
    <3>. DEFINE w == [invitation[i] EXCEPT !.revoked = clock]
    <3>1. sup = [invitation EXCEPT ![i] = w]
      BY <2>2 DEF Superseded
    <3>2. i \in 1 .. n /\ invitation[i] \in Invitation /\ invitation[i].revoked = None /\ invitation[i].redeemed = None
      BY <1>1, <1>2, <2>2 DEF Unended
    <3>3. /\ w \in Invitation /\ w.person = invitation[i].person /\ w.created = invitation[i].created
          /\ w.expires = invitation[i].expires /\ w.redeemed = invitation[i].redeemed
          /\ w.by = invitation[i].by /\ w.revoked = clock
      BY <1>2, <3>2 DEF Invitation
    <3>. HIDE DEF w, sup
    <3>4. sup \in Seq(Invitation) /\ Len(sup) = n /\ \A j \in 1 .. n : sup[j] = IF j = i THEN w ELSE invitation[j]
      BY <1>2, <3>1, <3>2, <3>3, ExceptSeq
    <3>. QED
      BY <3>2, <3>3, <3>4
  <2>. QED
    BY <2>1, <2>2
<1>5. ~ IssueRefusedByConstraint(r)
  <2>1. ASSUME NEW j \in DOMAIN invitation, invitation[j].person = p, Overlap(sup[j], new)
        PROVE  FALSE
    <3>. DEFINE v == sup[j]
    <3>1. j \in 1 .. n /\ v \in Invitation
      BY <1>2, <1>4, <2>1, ElementOfSeq
    <3>2. /\ LiveUntil(v) \in Nat /\ LiveUntil(v) <= v.expires
          /\ v.revoked # None => LiveUntil(v) <= v.revoked
          /\ v.redeemed # None => LiveUntil(v) <= v.redeemed
      <4>. HIDE DEF sup
      <4>. QED
        BY <3>1, LiveUntilLeast
    <3>3. clock < LiveUntil(v)
      <4>. HIDE DEF sup, new
      <4>. QED
        BY <1>3, <2>1 DEF Overlap
    <3>4. CASE j = i
      <4>1. v.revoked = clock
        BY <1>4, <3>1, <3>4
      <4>. HIDE DEF v
      <4>. QED
        BY <1>2, <3>2, <3>3, <4>1
    <3>5. CASE j # i
      <4>1. v = invitation[j]
        BY <1>4, <3>1, <3>5
      <4>2. /\ v.revoked # None => v.revoked <= clock /\ v.revoked \in Nat
            /\ v.redeemed # None => v.redeemed <= clock /\ v.redeemed \in Nat
            /\ v.expires \in Nat
        <5>1. InvitationSound(invitation[j])
          BY <2>1 DEF IInv
        <5>2. invitation[j].revoked \in Nat \cup {None} /\ invitation[j].redeemed \in Nat \cup {None}
              /\ invitation[j].expires \in Nat
          BY <2>1, Typed DEF IInv
        <5>. HIDE DEF sup
        <5>. QED
          BY <4>1, <5>1, <5>2 DEF InvitationSound
      <4>. HIDE DEF sup
      <4>3. v.revoked = None /\ v.redeemed = None /\ v.expires > clock
        <5>. HIDE DEF v
        <5>. QED
          BY <1>2, <3>2, <3>3, <4>2
      <4>4. Pending(j, clock)
        BY <4>1, <4>3 DEF Pending, Unended
      <4>. QED
        BY <1>1, <2>1, <3>5, <4>4
    <3>. QED
      BY <3>4, <3>5
  <2>. QED
    BY <1>1, <2>1 DEF IssueRefusedByConstraint
<1>6. invitation' = Append(sup, new) /\ Answer(r, "issued")
  BY <1>5 DEF CommitIssue
<1>. HIDE DEF sup, new
<1>7. /\ invitation' \in Seq(Invitation) /\ Len(invitation') = n + 1 /\ DOMAIN invitation' = 1 .. n + 1
      /\ \A j \in 1 .. n : invitation'[j] = sup[j]
      /\ invitation'[n + 1] = new
  <2>1. /\ Append(sup, new) \in Seq(Invitation) /\ Len(Append(sup, new)) = n + 1
        /\ \A j \in 1 .. n : Append(sup, new)[j] = sup[j]
        /\ Append(sup, new)[n + 1] = new
    BY <1>2, <1>3, <1>4, AppendProperties
  <2>. QED
    BY <1>6, <2>1, LenProperties
<1>8. /\ \A j \in DOMAIN invitation : j = i => invitation[j].person = p /\ InvitationRow(j) \in request[r].holds
      /\ request[r].phase = "issue"
  BY <1>1, <1>2
<1>9. \A j \in 1 .. n :
        /\ invitation'[j].person = invitation[j].person /\ invitation'[j].created = invitation[j].created
        /\ invitation'[j].expires = invitation[j].expires
        /\ invitation'[j].redeemed = invitation[j].redeemed /\ invitation'[j].by = invitation[j].by
        /\ j # i => invitation'[j] = invitation[j]
        /\ j = i => /\ invitation'[j].revoked = clock
                    /\ invitation[j].revoked = None /\ invitation[j].redeemed = None
  BY <1>4, <1>7
<1>. QED
  BY <1>1, <1>6, <1>7, <1>8, <1>9 DEF new

(* An issue commits. *)
LEMMA CommitIssueIInv ==
  ASSUME IInv, NEW r \in Requests, CommitIssue(r)
  PROVE  IInv'
<1>. DEFINE p == request[r].on
            i == request[r].invitation
            n == Len(invitation)
            new == Issued(p, clock)
<1>1. /\ p \in Persons /\ person[p] = None /\ Answer(r, "issued")
      /\ UNCHANGED <<clock, account, person>>
      /\ PersonRow(p) \in request[r].holds
      /\ \A j \in DOMAIN invitation : invitation[j].person = p /\ Pending(j, clock) => j = i
      /\ \A j \in DOMAIN invitation : j = i => invitation[j].person = p /\ InvitationRow(j) \in request[r].holds
  BY CommitIssueEffect
<1>2. /\ clock \in Times /\ clock \in Nat /\ Life \in Nat /\ Life # 0 /\ None \notin Nat
      /\ invitation \in Seq(Invitation) /\ n \in Nat /\ DOMAIN invitation = 1 .. n
      /\ \A j \in 1 .. n : /\ j \in Nat /\ j # 0 /\ invitation[j] \in Invitation /\ InvitationSound(invitation[j])
                           /\ invitation[j].created \in Nat /\ invitation[j].expires \in Nat
  BY Typed DEF IInv
<1>3. /\ new \in Invitation /\ new.person = p /\ new.created = clock /\ new.expires = clock + Life
      /\ new.revoked = None /\ new.redeemed = None
  BY <1>1, <1>2 DEF Issued, Invitation
<1>4. \A j \in 1 .. n :
        /\ invitation'[j].person = invitation[j].person /\ invitation'[j].created = invitation[j].created
        /\ invitation'[j].expires = invitation[j].expires
        /\ invitation'[j].redeemed = invitation[j].redeemed /\ invitation'[j].by = invitation[j].by
        /\ j # i => invitation'[j] = invitation[j]
        /\ j = i => /\ invitation'[j].revoked = clock
                    /\ invitation[j].revoked = None /\ invitation[j].redeemed = None
  BY CommitIssueEffect
<1>6. request[r].phase = "issue"
  BY DEF CommitIssue, At
<1>7. /\ invitation' \in Seq(Invitation) /\ Len(invitation') = n + 1 /\ DOMAIN invitation' = 1 .. n + 1
      /\ invitation'[n + 1] = new
  BY CommitIssueEffect
<1>. HIDE DEF new
<1>8. /\ DOMAIN invitation \subseteq DOMAIN invitation'
      /\ \A j \in DOMAIN invitation' : j \in DOMAIN invitation \/ j = n + 1
      /\ \A j \in DOMAIN invitation :
           /\ j \in DOMAIN invitation'
           /\ invitation'[j].person = invitation[j].person /\ invitation'[j].created = invitation[j].created
           /\ invitation'[j].expires = invitation[j].expires
           /\ InvitationRow(j) \in request[r].holds \/ invitation'[j] = invitation[j]
           /\ Unended(j)' => Unended(j) /\ j # i
  <2>1. /\ DOMAIN invitation \subseteq DOMAIN invitation'
        /\ \A j \in DOMAIN invitation' : j \in DOMAIN invitation \/ j = n + 1
    BY <1>2, <1>7
  <2>2. ASSUME NEW j \in 1 .. n
        PROVE  /\ invitation'[j].person = invitation[j].person /\ invitation'[j].created = invitation[j].created
               /\ invitation'[j].expires = invitation[j].expires
               /\ InvitationRow(j) \in request[r].holds \/ invitation'[j] = invitation[j]
               /\ Unended(j)' => Unended(j) /\ j # i
    <3>1. CASE j = i
      <4>1. InvitationRow(j) \in request[r].holds
        BY <1>1, <1>2, <3>1
      <4>2. invitation'[j].revoked # None
        BY <1>2, <1>4, <1>7, <3>1
      <4>3. /\ invitation'[j].person = invitation[j].person /\ invitation'[j].created = invitation[j].created
            /\ invitation'[j].expires = invitation[j].expires
        BY <1>4, <1>7
      <4>. QED
        BY <4>1, <4>2, <4>3 DEF Unended
    <3>2. CASE j # i
      BY <1>4, <1>7, <3>2 DEF Unended
    <3>. QED
      BY <3>1, <3>2
  <2>. QED
    BY <1>2, <2>1, <2>2
<1>9. /\ request' \in [Requests -> Request] /\ Exclusive' /\ ConstraintsNeverHit'
      /\ \A s \in Requests : request'[s].answer # None => request'[s].phase = "ended"
      /\ {s \in Requests : request'[s].answer = "issued"} = {s \in Requests : request[s].answer = "issued"} \cup {r}
      /\ r \notin {s \in Requests : request[s].answer = "issued"}
      /\ \A s \in Requests : RequestSound(request[s])'
      /\ ~ SlowStatements => \A s \in Requests : /\ request'[s].stamp # None => request'[s].stamp = clock'
                                                 /\ request'[s].phase = "redeem" => request'[s].wins
  <2>1. "issued" \in Answers \ {"constraint"}
    BY DEF Answers
  <2>2. \A j \in DOMAIN invitation' : j \in DOMAIN invitation
                                         \/ PersonRow(invitation'[j].person) \in request[r].holds
    BY <1>1, <1>3, <1>7, <1>8
  <2>3. \A x \in Persons : person'[x] = person[x]
    BY <1>1
  <2>. QED
    BY <1>1, <1>6, <1>8, <2>1, <2>2, <2>3, WriterEnds
<1>10. Counted'
  <2>. DEFINE before == {s \in Requests : request[s].answer = "issued"}
              after == {s \in Requests : request'[s].answer = "issued"}
  <2>1. after = before \cup {r} /\ r \notin before /\ before \in SUBSET Requests /\ after \in SUBSET Requests
    BY <1>9
  <2>2. n <= Cardinality(Persons) + Cardinality(before)
    BY DEF IInv, Counted
  <2>3. Len(invitation') <= Cardinality(Persons) + Cardinality(after)
    <3>. HIDE DEF before, after
    <3>1. IsFiniteSet(before) /\ Cardinality(before) \in Nat /\ Cardinality(Persons) \in Nat
      BY <2>1, BoundTyped
    <3>2. Cardinality(after) = Cardinality(before) + 1
      BY <2>1, <3>1, FS_AddElement
    <3>3. Len(invitation') = n + 1 /\ n \in Nat
      BY <1>2, <1>7
    <3>. HIDE DEF n
    <3>. QED
      BY ONLY <2>2, <3>1, <3>2, <3>3
  <2>. QED
    BY <1>9, <2>3 DEF Counted
<1>11. TypeOK'
  <2>1. Len(invitation') <= MaxInvitations
    <3>. DEFINE after == {s \in Requests : request'[s].answer = "issued"}
    <3>1. Len(invitation') <= Cardinality(Persons) + Cardinality(after) /\ Len(invitation') \in Nat
      BY <1>2, <1>7, <1>10 DEF Counted
    <3>2. after \in SUBSET Requests
      OBVIOUS
    <3>. HIDE DEF after
    <3>3. /\ Cardinality(after) \in Nat /\ Cardinality(after) <= Cardinality(Requests)
          /\ Cardinality(Persons) \in Nat /\ Cardinality(Requests) \in Nat
      BY <3>2, BoundTyped
    <3>. QED
      BY ONLY <3>1, <3>3 DEF MaxInvitations
  <2>. QED
    BY <1>1, <1>7, <1>9, <2>1 DEF IInv, TypeOK
<1>12. Apart'
  <2>1. ASSUME NEW j \in DOMAIN invitation, invitation[j].person = p, invitation'[j].revoked = None
        PROVE  invitation'[j].expires <= clock
    <3>1. /\ j \in 1 .. n /\ invitation'[j].expires = invitation[j].expires /\ invitation[j].expires \in Nat
          /\ j # i /\ invitation[j].revoked = None
      BY <1>2, <1>4, <2>1
    <3>2. invitation[j].redeemed = None
      BY <1>1, <2>1 DEF IInv, AttachedByRedeeming
    <3>3. ~ (invitation[j].expires > clock)
      BY <1>1, <2>1, <3>1, <3>2 DEF Pending, Unended
    <3>. QED
      BY <1>2, <3>1, <3>3
  <2>2. SUFFICES ASSUME NEW j \in DOMAIN invitation', NEW k \in DOMAIN invitation', j < k,
                        invitation'[j].person = invitation'[k].person,
                        invitation'[j].revoked = None, invitation'[k].revoked = None
                 PROVE  invitation'[j].expires <= invitation'[k].created
    BY DEF Apart
  <2>3. j \in DOMAIN invitation
    BY <1>2, <1>7, <2>2
  <2>4. CASE k \in DOMAIN invitation
    <3>1. invitation[j].revoked = None /\ invitation[k].revoked = None
      BY <1>2, <1>4, <2>2, <2>3, <2>4
    <3>. QED
      BY <1>8, <2>2, <2>3, <2>4, <3>1 DEF IInv, Apart
  <2>5. CASE k = n + 1
    BY <1>3, <1>7, <1>8, <2>1, <2>2, <2>3, <2>5
  <2>. QED
    BY <1>8, <2>4, <2>5
<1>13. ASSUME NEW j \in DOMAIN invitation' PROVE InvitationSound(invitation[j])'
  <2>1. CASE j = n + 1
    <3>1. invitation'[j] = new /\ clock' = clock
      BY <1>1, <1>7, <2>1
    <3>2. clock <= clock
      BY ONLY <1>2
    <3>. QED
      BY <1>3, <3>1, <3>2 DEF InvitationSound
  <2>2. CASE j \in DOMAIN invitation
    <3>1. InvitationSound(invitation[j]) /\ clock' = clock /\ j \in 1 .. n
      BY <1>1, <1>2, <1>7, <2>2
    <3>2. clock <= clock
      BY ONLY <1>2
    <3>3. CASE j = i
      BY <1>4, <3>1, <3>2, <3>3 DEF InvitationSound
    <3>4. CASE j # i
      BY <1>4, <3>1, <3>4 DEF InvitationSound
    <3>. QED
      BY <3>3, <3>4
  <2>. QED
    BY <1>8, <2>1, <2>2
<1>14. ~ SlowStatements => PromptSound'
  <2>1. SUFFICES ASSUME ~ SlowStatements PROVE PromptSound'
    OBVIOUS
  <2>2. PromptSound
    BY <2>1 DEF IInv
  <2>3. ASSUME NEW j \in DOMAIN invitation', Pending(j, clock)'
        PROVE  person'[invitation'[j].person] = None
    <3>1. CASE j = n + 1
      BY <1>1, <1>3, <1>7, <3>1
    <3>2. CASE j \in DOMAIN invitation
      <4>1. Pending(j, clock) /\ invitation'[j].person = invitation[j].person
        BY <1>1, <1>8, <2>3, <3>2 DEF Pending
      <4>. QED
        BY <1>1, <2>2, <3>2, <4>1 DEF PromptSound
    <3>. QED
      BY <1>8, <3>1, <3>2
  <2>4. ASSUME NEW j \in DOMAIN invitation', invitation'[j].redeemed # None
        PROVE  person'[invitation'[j].person] = invitation'[j].by
    <3>1. j \in DOMAIN invitation /\ j \in 1 .. n
      BY <1>2, <1>3, <1>7, <1>8, <2>4
    <3>2. invitation'[j].redeemed = invitation[j].redeemed /\ invitation'[j].by = invitation[j].by
          /\ invitation'[j].person = invitation[j].person
      BY <1>4, <1>7, <3>1
    <3>. QED
      BY <1>1, <2>2, <2>4, <3>1, <3>2 DEF PromptSound, RedeemedAttaches
  <2>5. RedeemedAttaches'
    BY <2>4 DEF RedeemedAttaches
  <2>. QED
    BY <1>9, <2>1, <2>3, <2>5 DEF PromptSound
<1>15. AttachedByRedeeming'
  <2>1. SUFFICES ASSUME NEW j \in DOMAIN invitation'
                 PROVE  LET x == invitation'[j].person IN
                        /\ invitation'[j].redeemed # None => person'[x] # None
                        /\ person'[x] # None =>
                             \E k \in DOMAIN invitation' :
                               /\ invitation'[k].person = x /\ invitation'[k].redeemed # None
                               /\ invitation'[k].by = person'[x]
    BY DEF AttachedByRedeeming
  <2>2. \A k \in DOMAIN invitation :
          /\ k \in DOMAIN invitation' /\ invitation'[k].person = invitation[k].person
          /\ invitation'[k].redeemed = invitation[k].redeemed /\ invitation'[k].by = invitation[k].by
    BY <1>2, <1>4, <1>8
  <2>3. CASE j = n + 1
    BY <1>1, <1>3, <1>7, <2>3
  <2>4. CASE j \in DOMAIN invitation
    BY <1>1, <2>2, <2>4 DEF IInv, AttachedByRedeeming
  <2>. QED
    BY <1>8, <2>3, <2>4
<1>. QED
  BY <1>9, <1>10, <1>11, <1>12, <1>13, <1>14, <1>15 DEF IInv

-----------------------------------------------------------------------------
(* Every step keeps the invariant. *)
LEMMA NextIInv ==
  ASSUME IInv, [Next]_vars
  PROVE  IInv'
<1>1. CASE UNCHANGED vars
  <2>1. UNCHANGED <<clock, account, person, invitation, request>>
    BY <1>1 DEF vars
  <2>2. TypeOK' /\ Counted' /\ Apart' /\ AttachedByRedeeming' /\ Exclusive' /\ ConstraintsNeverHit'
    BY <2>1 DEF IInv, TypeOK, Counted, Apart, AttachedByRedeeming, Exclusive, ConstraintsNeverHit
  <2>3. \A i \in DOMAIN invitation' : InvitationSound(invitation[i])'
    BY <2>1 DEF IInv, InvitationSound
  <2>4. ASSUME NEW r \in Requests PROVE RequestSound(request[r])'
    <3>1. RequestSound(request[r])
      BY DEF IInv
    <3>. QED
      BY <2>1, <3>1 DEF RequestSound, IssueSound, RevokeSound, RedeemSound, Pending, Unended
  <2>5. ~ SlowStatements => PromptSound'
    BY <2>1 DEF IInv, PromptSound, RedeemedAttaches, Pending, Unended
  <2>. QED
    BY <2>2, <2>3, <2>4, <2>5 DEF IInv
<1>2. CASE Next
  <2>1. ASSUME NEW r \in Requests, Ask(r) PROVE IInv'
    BY <2>1, RequestIssueIInv, RequestRevokeIInv, RequestRedeemIInv, RequestRedeemSignedInIInv DEF Ask
  <2>2. ASSUME NEW r \in Requests, Step(r) PROVE IInv'
    BY <2>2, BeginIInv, LockPersonIInv, LockPendingIInv, CommitIssueIInv, LockInvitationIInv, CommitRevokeIInv,
       JudgeRevokeIInv, CreateAccountIInv, ClaimInvitationIInv, ClaimPersonIInv, CommitRedeemIInv,
       AbortDeadlockIInv DEF Step
  <2>. QED
    BY <1>2, <2>1, <2>2, TickIInv DEF Next
<1>. QED
  BY <1>1, <1>2

(* The inductive invariant of Invitations, whatever the constants. *)
THEOREM InvitationsInvariance == Spec => []IInv
<1>. QED
  BY InitIInv, NextIInv, PTL DEF Spec

(* Every account, Person, Invitation and request keeps its type, and no more  *)
(* Invitations come to be than there are Persons and requests.                *)
THEOREM InvitationsTyped == Spec => []TypeOK
<1>1. IInv => TypeOK
  BY DEF IInv
<1>. QED
  BY <1>1, InvitationsInvariance, PTL

(* Issuing, revoking and redeeming never run into the exclusion constraint or *)
(* the trigger, however slow a statement: the locks and the second decision   *)
(* see to it.                                                                 *)
THEOREM ConstraintsUnmet == Spec => []ConstraintsNeverHit
<1>1. IInv => ConstraintsNeverHit
  BY DEF IInv
<1>. QED
  BY <1>1, InvitationsInvariance, PTL

(* However slow the statements: a Person's Invitations attach the Person once, *)
(* to an account that redeemed one; another that redeemed did so with an       *)
(* Invitation never pending together with that one, and never if every         *)
(* statement is carried out at the moment it judges by.                        *)
THEOREM RedemptionsAttachOnce == Spec => []OneRedemptionAttaches
<1>1. ASSUME IInv PROVE OneRedemptionAttaches
  <2>1. SUFFICES ASSUME NEW i \in DOMAIN invitation, invitation[i].redeemed # None,
                        person[invitation[i].person] # invitation[i].by
                 PROVE  /\ SlowStatements
                        /\ \E j \in DOMAIN invitation :
                             /\ invitation[j].person = invitation[i].person
                             /\ invitation[j].redeemed # None
                             /\ invitation[j].by = person[invitation[i].person]
                             /\ \/ invitation[i].expires <= invitation[j].created
                                \/ invitation[j].expires <= invitation[i].created
    BY DEF OneRedemptionAttaches
  <2>2. SlowStatements
    BY <1>1, <2>1, InvitationAssumption DEF IInv, PromptSound, RedeemedAttaches
  <2>3. PICK j \in DOMAIN invitation :
          /\ invitation[j].person = invitation[i].person /\ invitation[j].redeemed # None
          /\ invitation[j].by = person[invitation[i].person]
    BY <1>1, <2>1 DEF IInv, AttachedByRedeeming
  <2>4. i # j /\ i \in Nat /\ j \in Nat
    BY <1>1, <2>1, <2>3, Typed DEF IInv
  <2>5. invitation[i].revoked = None /\ invitation[j].revoked = None
    BY <1>1, <2>1, <2>3 DEF IInv, InvitationSound
  <2>6. i < j \/ j < i
    BY <2>4
  <2>7. invitation[i].expires <= invitation[j].created \/ invitation[j].expires <= invitation[i].created
    BY <1>1, <2>3, <2>5, <2>6 DEF IInv, Apart
  <2>. QED
    BY <2>2, <2>3, <2>7
<1>. QED
  BY <1>1, InvitationsInvariance, PTL

-----------------------------------------------------------------------------
(* A request answered holds nothing. *)
LEMMA AnsweredTells ==
  ASSUME TypeOK, NEW r \in Requests, HoldsTell(request[r]), NEW s \in Requests, NEW a, Answer(s, a)
  PROVE  HoldsTell(request'[r])
<1>1. request \in [Requests -> Request]
  BY DEF TypeOK
<1>2. CASE s = r
  <2>1. request'[r].phase = "ended" /\ request'[r].holds = {}
    BY <1>1, <1>2 DEF Answer, Goes, NewRequest
  <2>. QED
    BY <2>1 DEF HoldsTell
<1>3. CASE s # r
  <2>1. request'[r] = request[r]
    BY <1>1, <1>3 DEF Answer, Goes
  <2>. QED
    BY <2>1
<1>. QED
  BY <1>2, <1>3

(* A request that goes on holds what its next statement says, if it did. *)
LEMMA GoingTells ==
  ASSUME TypeOK, NEW r \in Requests, HoldsTell(request[r]),
         NEW s \in Requests, NEW q, Goes(s, q), s = r => HoldsTell(q)
  PROVE  HoldsTell(request'[r])
<1>1. request \in [Requests -> Request]
  BY DEF TypeOK
<1>2. request'[r] = IF s = r THEN q ELSE request[r]
  BY <1>1 DEF Goes
<1>. QED
  BY <1>2

(* No step leaves a request with a lock its statement does not tell. *)
LEMMA LocksTellNext ==
  ASSUME TypeOK, [Next]_vars, NEW r \in Requests, HoldsTell(request[r])
  PROVE  HoldsTell(request'[r])
<1>. USE DEF Holding
<1>0. \A s \in Requests : request[s] \in Request /\ DOMAIN request[s] = DOMAIN NewRequest
  BY DEF TypeOK, Request, NewRequest
<1>1. CASE UNCHANGED request
  BY <1>1
<1>2. ASSUME NEW s \in Requests, Ask(s) PROVE HoldsTell(request'[r])
  <2>1. ASSUME At(s, "new"), s = r, NEW q, q.holds = request[s].holds, q.phase \in {"lock person", "lock invitation", "create account", "claim invitation"}
        PROVE  HoldsTell(q)
    BY <2>1 DEF HoldsTell, At
  <2>2. ASSUME NEW p \in Persons, RequestIssue(s, p) PROVE HoldsTell(request'[r])
    <3>1. CASE Answer(s, "refused")
      BY <3>1, AnsweredTells
    <3>2. CASE Goes(s, [request[s] EXCEPT !.phase = "lock person", !.on = p])
      <4>1. At(s, "new")
        BY <2>2 DEF RequestIssue
      <4>. QED
        BY <1>0, <2>1, <3>2, <4>1, GoingTells DEF NewRequest
    <3>. QED
      BY <2>2, <3>1, <3>2 DEF RequestIssue
  <2>3. ASSUME NEW i \in DOMAIN invitation, RequestRevoke(s, i) PROVE HoldsTell(request'[r])
    <3>1. CASE Answer(s, "refused")
      BY <3>1, AnsweredTells
    <3>2. CASE Goes(s, [request[s] EXCEPT !.phase = "lock invitation", !.invitation = i])
      <4>1. At(s, "new")
        BY <2>3 DEF RequestRevoke
      <4>. QED
        BY <1>0, <2>1, <3>2, <4>1, GoingTells DEF NewRequest
    <3>. QED
      BY <2>3, <3>1, <3>2 DEF RequestRevoke
  <2>4. ASSUME NEW i \in DOMAIN invitation, NEW a \in Accounts, NEW ownOrigin \in BOOLEAN, RequestRedeem(s, i, a, ownOrigin)
        PROVE  HoldsTell(request'[r])
    <3>1. CASE Answer(s, "refused") \/ Answer(s, "username unavailable")
      BY <3>1, AnsweredTells
    <3>2. CASE Goes(s, [request[s] EXCEPT !.phase = "create account", !.invitation = i, !.account = a])
      <4>1. At(s, "new")
        BY <2>4 DEF RequestRedeem
      <4>. QED
        BY <1>0, <2>1, <3>2, <4>1, GoingTells DEF NewRequest
    <3>. QED
      BY <2>4, <3>1, <3>2 DEF RequestRedeem
  <2>5. ASSUME NEW i \in DOMAIN invitation, NEW a \in account \cup {None}, RequestRedeemSignedIn(s, i, a)
        PROVE  HoldsTell(request'[r])
    <3>1. CASE Answer(s, "refused") \/ Answer(s, "duplicate person")
      BY <3>1, AnsweredTells
    <3>2. CASE Goes(s, [request[s] EXCEPT !.phase = "claim invitation", !.invitation = i, !.account = a])
      <4>1. At(s, "new")
        BY <2>5 DEF RequestRedeemSignedIn
      <4>. QED
        BY <1>0, <2>1, <3>2, <4>1, GoingTells DEF NewRequest
    <3>. QED
      BY <2>5, <3>1, <3>2 DEF RequestRedeemSignedIn
  <2>. QED
    BY <1>2, <2>2, <2>3, <2>4, <2>5 DEF Ask
<1>3. ASSUME NEW s \in Requests, Step(s) PROVE HoldsTell(request'[r])
  <2>. DEFINE q == request[s]
  <2>1. ASSUME Begin(s) PROVE HoldsTell(request'[r])
    <3>1. Goes(s, [q EXCEPT !.stamp = clock])
      BY <2>1 DEF Begin
    <3>2. s = r => HoldsTell([q EXCEPT !.stamp = clock])
      BY <1>0 DEF HoldsTell, NewRequest
    <3>. QED
      BY <3>1, <3>2, GoingTells
  <2>2. ASSUME LockPerson(s) PROVE HoldsTell(request'[r])
    <3>1. CASE Answer(s, "refused")
      BY <3>1, AnsweredTells
    <3>2. CASE Goes(s, Holding(s, {PersonRow(q.on)}, "lock pending"))
      <4>1. s = r => HoldsTell(Holding(s, {PersonRow(q.on)}, "lock pending"))
        BY <1>0, <2>2 DEF LockPerson, At, HoldsTell, NewRequest
      <4>. QED
        BY <3>2, <4>1, GoingTells
    <3>. QED
      BY <2>2, <3>1, <3>2 DEF LockPerson
  <2>3. ASSUME LockPending(s) PROVE HoldsTell(request'[r])
    <3>1. PICK rows, previous : Goes(s, [Holding(s, rows, "issue") EXCEPT !.invitation = previous, !.stamp = None])
      BY <2>3 DEF LockPending
    <3>2. s = r => HoldsTell([Holding(s, rows, "issue") EXCEPT !.invitation = previous, !.stamp = None])
      BY <1>0 DEF HoldsTell, NewRequest
    <3>. QED
      BY <3>1, <3>2, GoingTells
  <2>4. ASSUME LockInvitation(s) PROVE HoldsTell(request'[r])
    <3>1. Goes(s, Holding(s, {InvitationRow(q.invitation)}, "judge"))
      BY <2>4 DEF LockInvitation
    <3>2. s = r => HoldsTell(Holding(s, {InvitationRow(q.invitation)}, "judge"))
      BY <1>0 DEF HoldsTell, NewRequest
    <3>. QED
      BY <3>1, <3>2, GoingTells
  <2>5. ASSUME NEW reasonGiven \in BOOLEAN, JudgeRevoke(s, reasonGiven) PROVE HoldsTell(request'[r])
    <3>1. s = r => HoldsTell(Holding(s, {}, "revoke"))
      BY <1>0 DEF HoldsTell, NewRequest
    <3>. QED
      BY <2>5, <3>1, GoingTells, AnsweredTells DEF JudgeRevoke
  <2>6. ASSUME CreateAccount(s) PROVE HoldsTell(request'[r])
    <3>1. CASE Answer(s, "username unavailable")
      BY <3>1, AnsweredTells
    <3>2. CASE Goes(s, Holding(s, {Username(q.account)}, "claim invitation"))
      <4>1. s = r => HoldsTell(Holding(s, {Username(q.account)}, "claim invitation"))
        BY <1>0, <2>6 DEF CreateAccount, At, HoldsTell, NewRequest
      <4>. QED
        BY <3>2, <4>1, GoingTells
    <3>. QED
      BY <2>6, <3>1, <3>2 DEF CreateAccount
  <2>7. ASSUME ClaimInvitation(s) PROVE HoldsTell(request'[r])
    <3>1. CASE Answer(s, "refused")
      BY <3>1, AnsweredTells
    <3>2. CASE Goes(s, Holding(s, {InvitationRow(q.invitation)}, "claim person"))
      <4>1. s = r => HoldsTell(Holding(s, {InvitationRow(q.invitation)}, "claim person"))
        BY <1>0, <2>7 DEF ClaimInvitation, At, HoldsTell, NewRequest
      <4>. QED
        BY <3>2, <4>1, GoingTells
    <3>. QED
      BY <2>7, <3>1, <3>2 DEF ClaimInvitation
  <2>8. ASSUME ClaimPerson(s) PROVE HoldsTell(request'[r])
    <3>1. CASE Answer(s, "duplicate person")
      BY <3>1, AnsweredTells
    <3>2. CASE \E rows, wins : Goes(s, [Holding(s, rows, "redeem") EXCEPT !.wins = wins])
      <4>1. PICK rows, wins : Goes(s, [Holding(s, rows, "redeem") EXCEPT !.wins = wins])
        BY <3>2
      <4>2. s = r => HoldsTell([Holding(s, rows, "redeem") EXCEPT !.wins = wins])
        BY <1>0 DEF HoldsTell, NewRequest
      <4>. QED
        BY <4>1, <4>2, GoingTells
    <3>. QED
      BY <2>8, <3>1, <3>2 DEF ClaimPerson
  <2>9. ASSUME CommitIssue(s) \/ CommitRevoke(s) \/ CommitRedeem(s) \/ AbortDeadlock(s) PROVE HoldsTell(request'[r])
    <3>1. \E a : Answer(s, a)
      BY <2>9 DEF CommitIssue, CommitRevoke, CommitRedeem, AbortDeadlock
    <3>. QED
      BY <3>1, AnsweredTells
  <2>. QED
    BY <1>3, <2>1, <2>2, <2>3, <2>4, <2>5, <2>6, <2>7, <2>8, <2>9 DEF Step
<1>. QED
  BY <1>1, <1>2, <1>3 DEF Next, Tick, vars

(* Whoever is in a circle both waits and is waited for, which only an issue *)
(* and a redemption do.                                                     *)
LEMMA CirclesAre ==
  ASSUME \A r \in Requests : HoldsTell(request[r])
  PROVE  OnlyIssueMeetsRedemption
<1>. SUFFICES ASSUME NEW D \in SUBSET Requests, Deadlocked(D), NEW r \in D, NEW s \in D, WaitsFor(r, s)
              PROVE  /\ \/ At(r, "lock pending") /\ At(s, "claim person")
                        \/ At(r, "claim person") /\ At(s, "lock pending")
                     /\ Whose(r) = Whose(s)
  BY DEF OnlyIssueMeetsRedemption
<1>. DEFINE Needing == {"lock person", "lock pending", "lock invitation", "create account", "claim invitation", "claim person"}
<1>1. \A t \in Requests : Needs(t) # {} => request[t].phase \in Needing
  BY DEF Needs
<1>2. \A t \in Requests : request[t].phase \in Needing /\ request[t].holds # {} =>
        request[t].phase \in {"lock pending", "claim invitation", "claim person"}
  BY DEF HoldsTell
<1>3. ASSUME NEW t \in D PROVE request[t].phase \in {"lock pending", "claim invitation", "claim person"}
  <2>1. Needs(t) # {} /\ request[t].holds # {}
    BY DEF Deadlocked, WaitsFor
  <2>. QED
    BY <1>1, <1>2, <2>1
<1>4. ASSUME NEW t \in D
      PROVE  /\ request[t].phase = "lock pending" => \A row \in Needs(t) : row.kind = "invitation"
             /\ request[t].phase = "claim invitation" => \A row \in Needs(t) : row.kind = "invitation"
             /\ request[t].phase = "claim person" => \A row \in Needs(t) : row.kind \in {"person", "attached"}
  <2>1. /\ \A i : InvitationRow(i).kind = "invitation"
        /\ \A p : PersonRow(p).kind = "person"
        /\ \A a : Attached(a).kind = "attached" /\ Username(a).kind = "username"
    BY DEF InvitationRow, PersonRow, Attached, Username
  <2>2. CASE request[t].phase = "lock pending"
    BY <2>1, <2>2 DEF Needs
  <2>3. CASE request[t].phase = "claim invitation"
    BY <2>1, <2>3 DEF Needs
  <2>4. CASE request[t].phase = "claim person"
    BY <2>1, <2>4 DEF Needs
  <2>. QED
    BY <2>2, <2>3, <2>4
<1>5. ASSUME NEW t \in D PROVE request[t].phase # "claim invitation"
  <2>1. SUFFICES ASSUME request[t].phase = "claim invitation" PROVE FALSE
    OBVIOUS
  <2>2. PICK u \in D : Needs(u) \cap request[t].holds # {}
    BY DEF Deadlocked, WaitsFor
  <2>3. \A row \in request[t].holds : row.kind = "username"
    <3>1. request[t].holds \subseteq {Username(request[t].account)}
      BY <2>1 DEF HoldsTell
    <3>2. Username(request[t].account).kind = "username"
      BY DEF Username
    <3>. QED
      BY <3>1, <3>2
  <2>. QED
    BY <1>3, <1>4, <2>2, <2>3
<1>6. request[r].phase \in {"lock pending", "claim person"} /\ request[s].phase \in {"lock pending", "claim person"}
  BY <1>3, <1>5
<1>7. PICK row \in Needs(r) : row \in request[s].holds
  BY DEF WaitsFor
<1>. DEFINE p == invitation[request[r].invitation].person
<1>10. /\ \A i, j : InvitationRow(i) = InvitationRow(j) => i = j
       /\ \A i, o : InvitationRow(i) # PersonRow(o) /\ InvitationRow(i) # Username(o)
       /\ \A a, o : Attached(a) # InvitationRow(o) /\ Attached(a) # PersonRow(o) /\ Attached(a) # Username(o)
       /\ \A o, a : PersonRow(o) # Username(a)
       /\ \A o, q : PersonRow(o) = PersonRow(q) => o = q
  <2>1. /\ \A i : InvitationRow(i).kind = "invitation" /\ InvitationRow(i).of = i
        /\ \A o : PersonRow(o).kind = "person" /\ PersonRow(o).of = o
        /\ \A a : Attached(a).kind = "attached" /\ Username(a).kind = "username"
    BY DEF InvitationRow, PersonRow, Attached, Username
  <2>2. \A i, o : InvitationRow(i) # PersonRow(o) /\ InvitationRow(i) # Username(o)
    BY <2>1
  <2>3. \A a, o : Attached(a) # InvitationRow(o) /\ Attached(a) # PersonRow(o) /\ Attached(a) # Username(o)
    BY <2>1
  <2>4. \A o, a : PersonRow(o) # Username(a)
    BY <2>1
  <2>5. \A i, j : InvitationRow(i) = InvitationRow(j) => i = j
    BY <2>1
  <2>6. \A o, q : PersonRow(o) = PersonRow(q) => o = q
    BY <2>1
  <2>. QED
    BY <2>2, <2>3, <2>4, <2>5, <2>6
<1>11. /\ request[s].phase = "lock pending" => request[s].holds = {PersonRow(request[s].on)}
       /\ request[s].phase = "claim person" =>
            request[s].holds \subseteq {Username(request[s].account), InvitationRow(request[s].invitation)}
  BY DEF HoldsTell
<1>8. CASE request[r].phase = "lock pending"
  <2>1. PICK i \in PendingFor(r) : row = InvitationRow(i)
    BY <1>7, <1>8 DEF Needs
  <2>2. invitation[i].person = request[r].on
    BY <2>1 DEF PendingFor
  <2>3. request[s].phase = "claim person"
    BY <1>6, <1>7, <1>10, <1>11, <2>1
  <2>4. request[s].invitation = i
    BY <1>7, <1>10, <1>11, <2>1, <2>3
  <2>. QED
    BY <1>8, <2>2, <2>3, <2>4 DEF At, Whose
<1>9. CASE request[r].phase = "claim person"
  <2>1. row = PersonRow(p) \/ row = Attached(request[r].account)
    BY <1>7, <1>9 DEF Needs
  <2>2. request[s].phase = "lock pending" /\ request[s].holds = {PersonRow(request[s].on)}
    <3>1. row # Username(request[s].account) /\ row # InvitationRow(request[s].invitation)
      BY <1>10, <2>1
    <3>2. request[s].phase # "claim person"
      BY <1>7, <1>11, <3>1
    <3>. QED
      BY <1>6, <1>11, <3>2
  <2>3. request[s].on = p
    BY <1>7, <1>10, <2>1, <2>2
  <2>. QED
    BY <1>9, <2>2, <2>3 DEF At, Whose
<1>. QED
  BY <1>6, <1>8, <1>9

(* Among any number of requests, the only ones that wait in a circle are   *)
(* issues and redemptions of one Person's Invitations.                     *)
THEOREM OnlyIssuesMeetRedemptions == Spec => []OnlyIssueMeetsRedemption
<1>. DEFINE Tells == \A r \in Requests : HoldsTell(request[r])
<1>1. Init => Tells
  <2>1. SUFFICES ASSUME Init, NEW r \in Requests PROVE HoldsTell(request[r])
    OBVIOUS
  <2>2. request[r].phase = "new" /\ request[r].holds = {}
    BY <2>1 DEF Init, NewRequest
  <2>. QED
    BY <2>2 DEF HoldsTell
<1>2. IInv /\ Tells /\ [Next]_vars => Tells'
  BY LocksTellNext DEF IInv
<1>3. Tells => OnlyIssueMeetsRedemption
  BY CirclesAre
<1>. QED
  BY <1>1, <1>2, <1>3, InvitationsInvariance, PTL DEF Spec

-----------------------------------------------------------------------------
(* Where an Invitation stands, by which of its ends came first. *)
LEMMA StandingCases ==
  ASSUME NEW v \in Invitation, NEW now \in Nat,
         v.revoked # None => v.revoked <= now /\ v.redeemed = None,
         v.redeemed # None => v.redeemed < v.expires /\ v.by \in Accounts
  PROVE  /\ v.redeemed # None => StandingAt(v, now) = v.by
         /\ v.redeemed = None /\ v.revoked # None =>
              StandingAt(v, now) = IF v.revoked < v.expires THEN "withdrawn" ELSE "lapsed"
         /\ v.redeemed = None /\ v.revoked = None =>
              StandingAt(v, now) = IF v.expires > now THEN "open" ELSE "lapsed"
         /\ StandingAt(v, now) \in {"open", "withdrawn", "lapsed"} \cup Accounts
         /\ StandingAt(v, now) = "open" <=> v.redeemed = None /\ v.revoked = None /\ v.expires > now
<1>1. /\ v.expires \in Nat /\ v.revoked \in Nat \cup {None} /\ v.redeemed \in Nat \cup {None} /\ None \notin Nat
      /\ "open" \notin Accounts
  BY InvitationAssumption DEF Invitation, Times
<1>2. /\ LiveUntil(v) \in {v.expires, v.revoked, v.redeemed} \ {None}
      /\ LiveUntil(v) \in Nat /\ LiveUntil(v) <= v.expires
      /\ v.revoked # None => LiveUntil(v) <= v.revoked
      /\ v.redeemed # None => LiveUntil(v) <= v.redeemed
  BY LiveUntilLeast
<1>3. CASE v.redeemed # None
  <2>1. LiveUntil(v) = v.redeemed
    BY <1>1, <1>2, <1>3
  <2>. QED
    BY <1>1, <1>3, <2>1 DEF StandingAt
<1>4. CASE v.redeemed = None /\ v.revoked # None
  <2>1. /\ LiveUntil(v) # v.redeemed
        /\ LiveUntil(v) = IF v.revoked < v.expires THEN v.revoked ELSE v.expires
    BY <1>1, <1>2, <1>4
  <2>2. ~ (v.revoked < v.expires) => ~ (v.expires > now)
    BY <1>1, <1>4
  <2>3. /\ v.revoked < v.expires => LiveUntil(v) < v.expires
        /\ ~ (v.revoked < v.expires) => ~ (LiveUntil(v) < v.expires)
    BY <1>1, <1>2, <1>4, <2>1
  <2>. QED
    BY <1>1, <1>4, <2>1, <2>2, <2>3 DEF StandingAt
<1>5. CASE v.redeemed = None /\ v.revoked = None
  <2>1. LiveUntil(v) = v.expires /\ LiveUntil(v) # v.redeemed /\ ~ (LiveUntil(v) < v.expires)
    BY <1>1, <1>2, <1>5
  <2>. QED
    BY <1>1, <1>5, <2>1 DEF StandingAt
<1>. QED
  BY <1>3, <1>4, <1>5

(* How the Invitations look as offers. *)
OffersFacts ==
  /\ DOMAIN OffersNow = DOMAIN invitation /\ OffersNow \in Seq([person : Persons, standing : Promise!Standings])
  /\ Len(OffersNow) = Len(invitation)
  /\ \A i \in DOMAIN invitation :
       LET v == invitation[i] IN
       /\ OffersNow[i] = [person |-> v.person, standing |-> StandingAt(v, clock)]
       /\ v.redeemed # None => StandingAt(v, clock) = v.by /\ v.by \in Accounts
       /\ v.redeemed = None /\ v.revoked # None =>
            StandingAt(v, clock) = IF v.revoked < v.expires THEN "withdrawn" ELSE "lapsed"
       /\ v.redeemed = None /\ v.revoked = None =>
            StandingAt(v, clock) = IF v.expires > clock THEN "open" ELSE "lapsed"
       /\ OffersNow[i].person = v.person /\ OffersNow[i].standing = StandingAt(v, clock)
       /\ OffersNow[i].standing = "open" <=> Pending(i, clock)

(* Every reachable state shows them so, and so does the one after it. *)
LEMMA OffersTyped == IInv => OffersFacts
<1>. SUFFICES ASSUME IInv PROVE OffersFacts
  OBVIOUS
<1>1. /\ clock \in Nat /\ Len(invitation) \in Nat /\ DOMAIN invitation = 1 .. Len(invitation)
      /\ \A i \in DOMAIN invitation : invitation[i] \in Invitation /\ invitation[i].person \in Persons
  BY Typed DEF IInv
<1>2. ASSUME NEW i \in DOMAIN invitation
      PROVE  LET v == invitation[i] IN
             /\ v.redeemed # None => StandingAt(v, clock) = v.by /\ v.by \in Accounts
             /\ v.redeemed = None /\ v.revoked # None =>
                  StandingAt(v, clock) = IF v.revoked < v.expires THEN "withdrawn" ELSE "lapsed"
             /\ v.redeemed = None /\ v.revoked = None =>
                  StandingAt(v, clock) = IF v.expires > clock THEN "open" ELSE "lapsed"
             /\ StandingAt(v, clock) \in Promise!Standings
             /\ StandingAt(v, clock) = "open" <=> Pending(i, clock)
  <2>. DEFINE v == invitation[i]
  <2>1. /\ v \in Invitation
        /\ v.revoked # None => v.revoked <= clock /\ v.redeemed = None
        /\ v.redeemed # None => v.redeemed < v.expires /\ v.by \in Accounts
    BY <1>1 DEF IInv, InvitationSound
  <2>. HIDE DEF v
  <2>2. /\ v.redeemed # None => StandingAt(v, clock) = v.by
        /\ v.redeemed = None /\ v.revoked # None =>
             StandingAt(v, clock) = IF v.revoked < v.expires THEN "withdrawn" ELSE "lapsed"
        /\ v.redeemed = None /\ v.revoked = None =>
             StandingAt(v, clock) = IF v.expires > clock THEN "open" ELSE "lapsed"
        /\ StandingAt(v, clock) \in {"open", "withdrawn", "lapsed"} \cup Accounts
        /\ StandingAt(v, clock) = "open" <=> v.redeemed = None /\ v.revoked = None /\ v.expires > clock
    BY <1>1, <2>1, StandingCases
  <2>3. Pending(i, clock) <=> v.redeemed = None /\ v.revoked = None /\ v.expires > clock
    BY DEF v, Pending, Unended
  <2>. QED
    BY <2>1, <2>2, <2>3 DEF v, Promise!Standings
<1>3. /\ DOMAIN OffersNow = DOMAIN invitation
      /\ \A i \in DOMAIN invitation :
           /\ OffersNow[i] = [person |-> invitation[i].person, standing |-> StandingAt(invitation[i], clock)]
           /\ OffersNow[i].person = invitation[i].person
           /\ OffersNow[i].standing = StandingAt(invitation[i], clock)
  BY DEF OffersNow
<1>4. OffersNow \in [1 .. Len(invitation) -> [person : Persons, standing : Promise!Standings]]
  BY <1>1, <1>2, <1>3 DEF OffersNow
<1>5. OffersNow \in Seq([person : Persons, standing : Promise!Standings])
  <2>. DEFINE offers == [person : Persons, standing : Promise!Standings]
  <2>1. /\ Len(invitation) \in Nat
        /\ OffersNow \in [1 .. Len(invitation) -> offers]
    BY <1>1, <1>4
  <2>. HIDE DEF offers
  <2>2. OffersNow \in Seq(offers)
    BY <2>1
  <2>. QED
    BY <2>2 DEF offers
<1>6. Len(OffersNow) = Len(invitation)
  BY <1>1, <1>3, <1>5, LenProperties
<1>. QED
  BY <1>2, <1>3, <1>5, <1>6 DEF OffersFacts

(* The same of the next state. *)
LEMMA OffersTypedNext == IInv' => OffersFacts'
BY OffersTyped, PTL

(* At the start every Invitation is an open offer, to a Person of its own. *)
LEMMA InitOffers == Init => Promise!OffersInit
<1>. SUFFICES ASSUME Init PROVE Promise!OffersInit
  OBVIOUS
<1>1. IInv
  BY InitIInv
<1>2. ASSUME NEW i \in DOMAIN invitation PROVE invitation[i].redeemed = None
  <2>1. invitation[i] \in {Issued(p, 0) : p \in Persons}
    BY DEF Init
  <2>. QED
    BY <2>1 DEF Issued
<1>3. /\ DOMAIN OffersNow = DOMAIN invitation
      /\ OffersNow \in Seq([person : Persons, standing : Promise!Standings])
      /\ \A i \in DOMAIN invitation : OffersNow[i].person = invitation[i].person /\ OffersNow[i].standing \notin Accounts
  <2>1. ASSUME NEW i \in DOMAIN invitation PROVE OffersNow[i].standing \notin Accounts
    <3>1. OffersNow[i].standing \in {"open", "withdrawn", "lapsed"}
      BY <1>1, <1>2, OffersTyped DEF OffersFacts
    <3>. QED
      BY <3>1, InvitationAssumption
  <2>. QED
    BY <1>1, <2>1, OffersTyped DEF OffersFacts
<1>4. Promise!OffersTypeOK
  <2>1. person \in [Persons -> Accounts \cup {None}]
    BY <1>1 DEF IInv, TypeOK
  <2>. QED
    BY <1>3, <2>1 DEF Promise!OffersTypeOK
<1>5. Promise!OffersAgree
  <2>1. \A i, j \in DOMAIN invitation : i # j => invitation[i].person # invitation[j].person
    BY DEF Init
  <2>. QED
    BY <1>3, <2>1 DEF Promise!OffersAgree
<1>. QED
  BY <1>4, <1>5 DEF Promise!OffersInit

(* A request that writes nothing leaves every offer where it stands. *)
LEMMA NothingWritten ==
  ASSUME Unwritten
  PROVE  UNCHANGED <<person, OffersNow>>
BY DEF Unwritten, OffersNow

(* Time passes: the offers whose time it was lapse together. *)
LEMMA TickLapses ==
  ASSUME IInv, IInv', Tick
  PROVE  Promise!OffersNext \/ UNCHANGED <<person, OffersNow>>
<1>. DEFINE some == {i \in DOMAIN invitation : OffersNow[i].standing = "open" /\ ~ Pending(i, clock)'}
<1>1. /\ clock \in Nat /\ clock' = clock + 1 /\ UNCHANGED <<account, person, invitation, request>>
  BY Typed DEF IInv, Tick
<1>2. /\ DOMAIN OffersNow = DOMAIN invitation /\ DOMAIN OffersNow' = DOMAIN invitation
  BY <1>1 DEF OffersNow
<1>3. ASSUME NEW i \in DOMAIN invitation
      PROVE  OffersNow'[i] = IF i \in some THEN [OffersNow[i] EXCEPT !.standing = "lapsed"] ELSE OffersNow[i]
  <2>. DEFINE v == invitation[i]
  <2>1. /\ OffersNow[i] = [person |-> v.person, standing |-> StandingAt(v, clock)]
        /\ v.redeemed # None => StandingAt(v, clock) = v.by
        /\ v.redeemed = None /\ v.revoked # None =>
             StandingAt(v, clock) = IF v.revoked < v.expires THEN "withdrawn" ELSE "lapsed"
        /\ v.redeemed = None /\ v.revoked = None =>
             StandingAt(v, clock) = IF v.expires > clock THEN "open" ELSE "lapsed"
        /\ OffersNow[i].standing = "open" <=> Pending(i, clock)
    BY OffersTyped DEF OffersFacts
  <2>2. /\ OffersNow'[i] = [person |-> v.person, standing |-> StandingAt(v, clock')]
        /\ v.redeemed # None => StandingAt(v, clock') = v.by
        /\ v.redeemed = None /\ v.revoked # None =>
             StandingAt(v, clock') = IF v.revoked < v.expires THEN "withdrawn" ELSE "lapsed"
        /\ v.redeemed = None /\ v.revoked = None =>
             StandingAt(v, clock') = IF v.expires > clock' THEN "open" ELSE "lapsed"
    <3>1. DOMAIN invitation' = DOMAIN invitation /\ invitation' = invitation
      BY <1>1
    <3>2. \A j \in DOMAIN invitation' :
              LET u == invitation'[j] IN
              /\ OffersNow'[j] = [person |-> u.person, standing |-> StandingAt(u, clock')]
              /\ u.redeemed # None => StandingAt(u, clock') = u.by
              /\ u.redeemed = None /\ u.revoked # None =>
                   StandingAt(u, clock') = IF u.revoked < u.expires THEN "withdrawn" ELSE "lapsed"
              /\ u.redeemed = None /\ u.revoked = None =>
                   StandingAt(u, clock') = IF u.expires > clock' THEN "open" ELSE "lapsed"
      BY OffersTypedNext DEF OffersFacts
    <3>. QED
      BY <3>1, <3>2
  <2>3. v.expires \in Nat
    BY Typed DEF IInv
  <2>4. /\ Pending(i, clock) <=> v.redeemed = None /\ v.revoked = None /\ v.expires > clock
        /\ Pending(i, clock)' <=> v.redeemed = None /\ v.revoked = None /\ v.expires > clock'
    BY <1>1 DEF Pending, Unended
  <2>. HIDE DEF v
  <2>5. CASE i \in some
    BY <1>1, <2>1, <2>2, <2>4, <2>5
  <2>6. CASE i \notin some
    <3>1. ~ Pending(i, clock) \/ Pending(i, clock)'
      BY <2>1, <2>6
    <3>2. StandingAt(v, clock') = StandingAt(v, clock)
      BY <1>1, <2>1, <2>2, <2>3, <2>4, <3>1
    <3>. QED
      BY <2>1, <2>2, <2>6, <3>2
  <2>. QED
    BY <2>5, <2>6
<1>4. OffersNow' = [i \in DOMAIN OffersNow |->
                      IF i \in some THEN [OffersNow[i] EXCEPT !.standing = "lapsed"] ELSE OffersNow[i]]
  BY <1>1, <1>2, <1>3 DEF OffersNow
<1>5. CASE some = {}
  <2>1. OffersNow' = [i \in DOMAIN OffersNow |-> OffersNow[i]]
    BY <1>4, <1>5
  <2>2. OffersNow = [i \in DOMAIN OffersNow |-> OffersNow[i]]
    BY DEF OffersNow
  <2>. QED
    BY <1>1, <2>1, <2>2
<1>6. CASE some # {}
  <2>1. some \in SUBSET DOMAIN OffersNow /\ \A i \in some : Promise!Open(i)
    BY <1>2 DEF Promise!Open
  <2>2. Promise!Lapse(some)
    BY <1>1, <1>4, <1>6, <2>1 DEF Promise!Lapse
  <2>. QED
    BY <2>1, <2>2 DEF Promise!OffersNext
<1>. QED
  BY <1>5, <1>6

(* Issuing is making an offer, which withdraws the open one. *)
LEMMA IssueMakes ==
  ASSUME IInv, IInv', NEW r \in Requests, CommitIssue(r)
  PROVE  Promise!OffersNext
<1>. DEFINE p == request[r].on
            i == request[r].invitation
            n == Len(invitation)
            given == [j \in DOMAIN OffersNow |->
                        IF Promise!Open(j) /\ OffersNow[j].person = p
                        THEN [OffersNow[j] EXCEPT !.standing = "withdrawn"]
                        ELSE OffersNow[j]]
            offer == [person |-> p, standing |-> "open"]
            Offer == [person : Persons, standing : Promise!Standings]
<1>1. /\ p \in Persons /\ person[p] = None /\ person' = person /\ clock' = clock
      /\ Len(invitation') = n + 1 /\ DOMAIN invitation' = 1 .. n + 1 /\ invitation'[n + 1] = Issued(p, clock)
      /\ \A j \in DOMAIN invitation : invitation[j].person = p /\ Pending(j, clock) => j = i
      /\ \A j \in DOMAIN invitation : j = i => invitation[j].person = p
      /\ \A j \in 1 .. n :
           /\ invitation'[j].person = invitation[j].person
           /\ invitation'[j].expires = invitation[j].expires
           /\ invitation'[j].redeemed = invitation[j].redeemed
           /\ j # i => invitation'[j] = invitation[j]
           /\ j = i => /\ invitation'[j].revoked = clock
                       /\ invitation[j].revoked = None /\ invitation[j].redeemed = None
  BY CommitIssueEffect
<1>2. /\ clock \in Nat /\ Life \in Nat /\ Life # 0 /\ None \notin Nat /\ n \in Nat /\ DOMAIN invitation = 1 .. n
      /\ \A j \in 1 .. n : j \in DOMAIN invitation /\ j \in DOMAIN invitation' /\ invitation[j].expires \in Nat
  BY <1>1, Typed DEF IInv
<1>3. /\ DOMAIN OffersNow = 1 .. n /\ OffersNow \in Seq(Offer) /\ Len(OffersNow) = n
      /\ OffersNow' \in Seq(Offer) /\ Len(OffersNow') = n + 1
  BY <1>1, <1>2, OffersTyped, OffersTypedNext DEF OffersFacts
<1>4. OffersNow'[n + 1] = offer
  <2>. DEFINE v == Issued(p, clock)
  <2>1. /\ v.person = p /\ v.expires = clock + Life /\ v.revoked = None /\ v.redeemed = None /\ n + 1 \in DOMAIN invitation'
    BY <1>1, <1>2 DEF Issued
  <2>2. /\ OffersNow'[n + 1] = [person |-> v.person, standing |-> StandingAt(v, clock)]
        /\ v.redeemed = None /\ v.revoked = None =>
             StandingAt(v, clock) = IF v.expires > clock THEN "open" ELSE "lapsed"
    <3>. HIDE DEF v
    <3>1. invitation'[n + 1] = v /\ clock' = clock
      BY <1>1 DEF v
    <3>2. \A j \in DOMAIN invitation' :
              LET u == invitation'[j] IN
              /\ OffersNow'[j] = [person |-> u.person, standing |-> StandingAt(u, clock')]
              /\ u.redeemed = None /\ u.revoked = None =>
                   StandingAt(u, clock') = IF u.expires > clock' THEN "open" ELSE "lapsed"
      BY OffersTypedNext DEF OffersFacts
    <3>. QED
      BY <2>1, <3>1, <3>2
  <2>. HIDE DEF v
  <2>3. v.expires > clock
    BY <1>2, <2>1
  <2>. QED
    BY <2>1, <2>2, <2>3
<1>5. ASSUME NEW j \in 1 .. n PROVE OffersNow'[j] = given[j]
  <2>. DEFINE v == invitation[j]
              w == invitation'[j]
  <2>1. /\ OffersNow[j] = [person |-> v.person, standing |-> StandingAt(v, clock)]
        /\ v.redeemed = None /\ v.revoked = None =>
             StandingAt(v, clock) = IF v.expires > clock THEN "open" ELSE "lapsed"
        /\ OffersNow[j].standing = "open" <=> Pending(j, clock)
    BY <1>2, OffersTyped DEF OffersFacts
  <2>2. /\ OffersNow'[j] = [person |-> w.person, standing |-> StandingAt(w, clock)]
        /\ w.redeemed = None /\ w.revoked # None =>
             StandingAt(w, clock) = IF w.revoked < w.expires THEN "withdrawn" ELSE "lapsed"
    <3>1. \A k \in DOMAIN invitation' :
              LET u == invitation'[k] IN
              /\ OffersNow'[k] = [person |-> u.person, standing |-> StandingAt(u, clock')]
              /\ u.redeemed = None /\ u.revoked # None =>
                   StandingAt(u, clock') = IF u.revoked < u.expires THEN "withdrawn" ELSE "lapsed"
      BY OffersTypedNext DEF OffersFacts
    <3>. QED
      BY <1>1, <1>2, <3>1
  <2>3. given[j] = IF Pending(j, clock) /\ v.person = p
                   THEN [person |-> v.person, standing |-> "withdrawn"] ELSE OffersNow[j]
    BY <1>3, <2>1 DEF Promise!Open
  <2>4. CASE j = i
    <3>1. /\ v.person = p /\ w.person = p /\ w.expires = v.expires /\ w.revoked = clock /\ w.redeemed = None
          /\ v.redeemed = None /\ v.revoked = None /\ v.expires \in Nat /\ clock # None
          /\ Pending(j, clock) <=> v.expires > clock
      BY <1>1, <1>2, <2>4 DEF Pending, Unended
    <3>. HIDE DEF v, w, given
    <3>2. CASE v.expires > clock
      BY <1>2, <2>2, <2>3, <3>1, <3>2
    <3>3. CASE ~ (v.expires > clock)
      BY <1>2, <2>1, <2>2, <2>3, <3>1, <3>3
    <3>. QED
      BY <3>2, <3>3
  <2>5. CASE j # i
    <3>1. w = v /\ ~ (Pending(j, clock) /\ v.person = p)
      BY <1>1, <1>2, <2>5
    <3>. HIDE DEF v, w, given
    <3>. QED
      BY <2>1, <2>2, <2>3, <3>1
  <2>. QED
    BY <2>4, <2>5
<1>6. given \in Seq(Offer) /\ Len(given) = n
  <2>1. given \in [1 .. n -> Offer]
    <3>1. \A j \in 1 .. n : OffersNow'[j] \in Offer
      <4>. HIDE DEF Offer
      <4>1. \A j \in 1 .. n : j \in 1 .. Len(OffersNow')
        BY <1>2, <1>3
      <4>. QED
        BY <1>3, <4>1, ElementOfSeq
    <3>. QED
      BY <1>3, <1>5, <3>1
  <2>. HIDE DEF given, Offer
  <2>2. given \in Seq(Offer)
    BY <1>2, <2>1, SeqDef
  <2>3. Len(given) \in Nat /\ DOMAIN given = 1 .. Len(given) /\ DOMAIN given = 1 .. n
    BY <2>1, <2>2, LenProperties
  <2>4. Len(given) = n
    <3>1. /\ Len(given) = 0 \/ Len(given) \in 1 .. Len(given)
          /\ n = 0 \/ n \in 1 .. n
      BY <1>2, <2>3
    <3>2. n \in Nat
      BY <1>2
    <3>. QED
      BY ONLY <2>3, <3>1, <3>2
  <2>. QED
    BY <2>2, <2>4
<1>7. offer \in Offer
  BY <1>1 DEF Promise!Standings
<1>. HIDE DEF given, offer, Offer
<1>8. OffersNow' = Append(given, offer)
  <2>1. /\ Append(given, offer) \in Seq(Offer) /\ Len(Append(given, offer)) = n + 1
        /\ \A j \in 1 .. n : Append(given, offer)[j] = given[j]
        /\ Append(given, offer)[n + 1] = offer
    BY <1>6, <1>7, AppendProperties
  <2>2. \A j \in 1 .. Len(OffersNow') : OffersNow'[j] = Append(given, offer)[j]
    <3>1. SUFFICES ASSUME NEW j \in 1 .. n + 1 PROVE OffersNow'[j] = Append(given, offer)[j]
      BY <1>3
    <3>2. CASE j = n + 1
      BY <1>4, <2>1, <3>2
    <3>3. CASE j \in 1 .. n
      BY <1>5, <2>1, <3>3
    <3>4. n \in Nat
      BY <1>2
    <3>5. j = n + 1 \/ j \in 1 .. n
      BY ONLY <3>1, <3>4
    <3>. QED
      BY <3>2, <3>3, <3>5
  <2>. QED
    BY <1>3, <2>1, <2>2, SeqEqual
<1>9. Promise!Make(p)
  BY <1>1, <1>8 DEF Promise!Make, given, offer
<1>. QED
  BY <1>1, <1>9 DEF Promise!OffersNext

(* When one Invitation changes, its offer changes its standing and no other does. *)
LEMMA OneMoves ==
  ASSUME NEW i \in DOMAIN invitation, NEW standing,
         DOMAIN invitation' = DOMAIN invitation, clock' = clock,
         \A j \in DOMAIN invitation : j # i => invitation'[j] = invitation[j],
         invitation'[i].person = invitation[i].person,
         OffersNow'[i].standing = standing
  PROVE  OffersNow' = [OffersNow EXCEPT ![i].standing = standing]
<1>1. OffersNow' = [j \in DOMAIN invitation |->
                      [person |-> invitation'[j].person, standing |-> StandingAt(invitation'[j], clock)]]
  BY DEF OffersNow
<1>2. OffersNow = [j \in DOMAIN invitation |->
                     [person |-> invitation[j].person, standing |-> StandingAt(invitation[j], clock)]]
  BY DEF OffersNow
<1>3. StandingAt(invitation'[i], clock) = standing
  BY <1>1
<1>. QED
  BY <1>1, <1>2, <1>3

(* Revoking withdraws an offer that is still open; of one that lapsed since *)
(* the request last looked it only writes down what has happened anyway.    *)
LEMMA RevokeWithdraws ==
  ASSUME IInv, IInv', NEW r \in Requests, CommitRevoke(r)
  PROVE  Promise!OffersNext \/ UNCHANGED <<person, OffersNow>>
<1>. DEFINE i == request[r].invitation
            v == invitation[i]
            w == invitation'[i]
<1>1. i \in DOMAIN invitation /\ Unended(i)
  BY DEF CommitRevoke, At, IInv, RequestSound, RevokeSound
<1>2. /\ invitation' = [invitation EXCEPT ![i].revoked = clock]
      /\ clock' = clock /\ person' = person
  BY <1>1 DEF CommitRevoke
<1>3. clock \in Nat /\ None \notin Nat /\ v \in Invitation /\ v.expires \in Nat
  BY <1>1, Typed DEF IInv
<1>4. /\ v.redeemed = None /\ v.revoked = None
      /\ w.person = v.person /\ w.expires = v.expires /\ w.redeemed = None /\ w.revoked = clock
      /\ DOMAIN invitation' = DOMAIN invitation
      /\ \A j \in DOMAIN invitation : j # i => invitation'[j] = invitation[j]
      /\ Pending(i, clock) <=> v.expires > clock
  BY <1>1, <1>2, <1>3 DEF Invitation, Unended, Pending
<1>5. /\ DOMAIN OffersNow = DOMAIN invitation
      /\ OffersNow[i] = [person |-> v.person, standing |-> StandingAt(v, clock)]
      /\ OffersNow[i].standing = StandingAt(v, clock)
      /\ v.redeemed = None /\ v.revoked = None =>
           StandingAt(v, clock) = IF v.expires > clock THEN "open" ELSE "lapsed"
      /\ OffersNow[i].standing = "open" <=> Pending(i, clock)
  BY <1>1, OffersTyped DEF OffersFacts
<1>6. /\ OffersNow'[i].standing = StandingAt(w, clock)
      /\ w.redeemed = None /\ w.revoked # None =>
           StandingAt(w, clock) = IF w.revoked < w.expires THEN "withdrawn" ELSE "lapsed"
  BY <1>1, <1>2, <1>4, OffersTypedNext DEF OffersFacts
<1>. HIDE DEF i, v, w
<1>7. OffersNow'[i].standing = IF v.expires > clock THEN "withdrawn" ELSE "lapsed"
  BY <1>3, <1>4, <1>6
<1>8. CASE v.expires > clock
  <2>1. OffersNow'[i].standing = "withdrawn" /\ invitation'[i].person = invitation[i].person
    BY <1>4, <1>7, <1>8 DEF v, w
  <2>2. OffersNow' = [OffersNow EXCEPT ![i].standing = "withdrawn"]
    BY <1>1, <1>2, <1>4, <2>1, OneMoves
  <2>3. Promise!Withdraw(i)
    BY <1>2, <1>4, <1>5, <1>8, <2>2 DEF Promise!Withdraw, Promise!Open
  <2>. QED
    BY <1>1, <1>5, <2>3 DEF Promise!OffersNext
<1>9. CASE ~ (v.expires > clock)
  <2>1. OffersNow'[i].standing = "lapsed" /\ invitation'[i].person = invitation[i].person
    BY <1>4, <1>7, <1>9 DEF v, w
  <2>2. OffersNow' = [OffersNow EXCEPT ![i].standing = "lapsed"]
    BY <1>1, <1>2, <1>4, <2>1, OneMoves
  <2>3. OffersNow = [j \in DOMAIN OffersNow |-> OffersNow[j]]
    BY DEF OffersNow
  <2>4. OffersNow[i].standing = "lapsed"
    BY <1>4, <1>5, <1>9
  <2>5. [OffersNow[i] EXCEPT !.standing = "lapsed"] = OffersNow[i]
    BY <1>5, <2>4
  <2>. QED
    BY <1>2, <2>2, <2>3, <2>5
<1>. QED
  BY <1>8, <1>9

(* Redeeming takes an open offer or, judged before it lapsed and carried out   *)
(* later, one that has lapsed; of a Person attached meanwhile, in vain.        *)
LEMMA RedeemTakes ==
  ASSUME IInv, IInv', NEW r \in Requests, CommitRedeem(r)
  PROVE  Promise!OffersNext
<1>. DEFINE i == request[r].invitation
            a == request[r].account
            stamp == request[r].stamp
            v == invitation[i]
            w == invitation'[i]
<1>1. /\ i \in DOMAIN invitation /\ a \in Accounts /\ stamp # None /\ Pending(i, stamp)
      /\ request[r].wins => person[v.person] = None
      /\ ~ request[r].wins => person[v.person] # None
      /\ ~ SlowStatements => request[r].wins /\ stamp = clock
  BY DEF CommitRedeem, At, IInv, RequestSound, RedeemSound, PromptSound
<1>2. /\ invitation' = [invitation EXCEPT ![i].redeemed = stamp, ![i].by = a] /\ clock' = clock
      /\ person' = IF request[r].wins THEN [person EXCEPT ![v.person] = a] ELSE person
  BY <1>1 DEF CommitRedeem
<1>3. /\ clock \in Nat /\ None \notin Nat /\ v \in Invitation /\ v.revoked = None /\ v.redeemed = None
  BY <1>1, Typed DEF IInv, Pending, Unended
<1>4. /\ w.person = v.person /\ w.redeemed = stamp /\ w.by = a
      /\ DOMAIN invitation' = DOMAIN invitation
      /\ \A j \in DOMAIN invitation : j # i => invitation'[j] = invitation[j]
  <2>1. w = [v EXCEPT !.redeemed = stamp, !.by = a]
    BY <1>1, <1>2
  <2>2. w.person = v.person /\ w.redeemed = stamp /\ w.by = a
    <3>1. v \in Invitation
      BY <1>3
    <3>. HIDE DEF v, w, a, stamp
    <3>. QED
      BY <2>1, <3>1 DEF Invitation
  <2>3. /\ DOMAIN invitation' = DOMAIN invitation
        /\ \A j \in DOMAIN invitation : j # i => invitation'[j] = invitation[j]
    BY <1>2
  <2>. QED
    BY <2>2, <2>3
<1>5. /\ DOMAIN OffersNow = DOMAIN invitation
      /\ OffersNow[i].person = v.person
      /\ OffersNow[i].standing \in {"open", "lapsed"}
      /\ OffersNow[i].standing = "open" <=> Pending(i, clock)
  BY <1>1, <1>3, OffersTyped DEF OffersFacts
<1>6. /\ OffersNow'[i].standing = StandingAt(w, clock)
      /\ w.redeemed # None => StandingAt(w, clock) = w.by
  <2>1. OffersFacts' /\ clock' = clock /\ i \in DOMAIN invitation'
    BY <1>1, <1>2, <1>4, OffersTypedNext
  <2>. HIDE DEF i
  <2>. QED
    BY <2>1 DEF OffersFacts
<1>. HIDE DEF i, a, stamp, v, w
<1>7. OffersNow'[i].standing = a /\ invitation'[i].person = invitation[i].person
  BY <1>1, <1>3, <1>4, <1>6 DEF v, w
<1>8. OffersNow' = [OffersNow EXCEPT ![i].standing = a]
  BY <1>1, <1>2, <1>4, <1>7, OneMoves
<1>9. Promise!Takeable(i)
  <2>1. CASE SlowStatements
    BY <1>5, <2>1 DEF Promise!Takeable, Promise!Open
  <2>2. CASE ~ SlowStatements
    BY <1>1, <1>5, <2>2 DEF Promise!Takeable, Promise!Open
  <2>. QED
    BY <2>1, <2>2
<1>10. CASE request[r].wins
  <2>1. Promise!Take(i, a)
    BY <1>1, <1>2, <1>5, <1>8, <1>9, <1>10 DEF Promise!Take
  <2>. QED
    BY <1>1, <1>5, <2>1 DEF Promise!OffersNext
<1>11. CASE ~ request[r].wins
  <2>1. SlowStatements
    BY <1>1, <1>11, InvitationAssumption
  <2>2. Promise!TakeInVain(i, a)
    BY <1>1, <1>2, <1>5, <1>8, <1>9, <1>11, <2>1 DEF Promise!TakeInVain
  <2>. QED
    BY <1>1, <1>5, <2>2 DEF Promise!OffersNext
<1>. QED
  BY <1>10, <1>11

(* Every step of the requests is a step of the offers, or none. *)
LEMMA NextOffers ==
  ASSUME IInv, IInv', [Next]_vars
  PROVE  Promise!OffersNext \/ UNCHANGED <<person, OffersNow>>
<1>1. CASE UNCHANGED vars
  BY <1>1, NothingWritten DEF vars, Unwritten
<1>2. CASE Tick
  BY <1>2, TickLapses
<1>3. ASSUME NEW r \in Requests, Ask(r)
      PROVE  Promise!OffersNext \/ UNCHANGED <<person, OffersNow>>
  <2>1. Unwritten
    BY <1>3 DEF Ask, RequestIssue, RequestRevoke, RequestRedeem, RequestRedeemSignedIn
  <2>. QED
    BY <2>1, NothingWritten
<1>4. ASSUME NEW r \in Requests, Step(r)
      PROVE  Promise!OffersNext \/ UNCHANGED <<person, OffersNow>>
  <2>1. CASE CommitIssue(r)
    BY <2>1, IssueMakes
  <2>2. CASE CommitRevoke(r)
    BY <2>2, RevokeWithdraws
  <2>3. CASE CommitRedeem(r)
    BY <2>3, RedeemTakes
  <2>4. CASE ~ (CommitIssue(r) \/ CommitRevoke(r) \/ CommitRedeem(r))
    <3>1. Unwritten
      BY <1>4, <2>4 DEF Step, Begin, LockPerson, LockPending, LockInvitation, JudgeRevoke, CreateAccount,
                        ClaimInvitation, ClaimPerson, AbortDeadlock
    <3>. QED
      BY <3>1, NothingWritten
  <2>. QED
    BY <2>1, <2>2, <2>3, <2>4
<1>. QED
  BY <1>1, <1>2, <1>3, <1>4 DEF Next

(* The requests, however they interleave and however slow their statements,  *)
(* behave as the offers of the abstract specification: issuing makes an offer *)
(* and withdraws the open one, revoking withdraws it, time lets it lapse, and *)
(* redeeming takes it and attaches the Person.  Only slow statements take one *)
(* that lapsed in between, or take one in vain.                               *)
THEOREM OffersImplemented == Spec => ImplementsOffers
<1>1. IInv /\ IInv' /\ [Next]_vars => [Promise!OffersNext]_<<person, OffersNow>>
  BY NextOffers
<1>2. Promise!offerVars = <<person, OffersNow>>
  BY DEF Promise!offerVars
<1>. QED
  BY <1>1, InitOffers, InvitationsInvariance, PTL DEF Spec, ImplementsOffers, Promise!Offers, Promise!offerVars

=============================================================================
