---------------------------- MODULE Participation -----------------------------
(***************************************************************************)
(* Roster memberships, Teaching assignments, Enrollments, School           *)
(* memberships and Guardian links of one School, as School Administrators' *)
(* requests change them.  Each request is one transaction, run statement   *)
(* by statement: what it locks makes the others wait until it ends, and    *)
(* what it writes shows to them when it commits.                           *)
(*                                                                         *)
(* A Roster membership stands on its Student's open Enrollment, a Teaching *)
(* assignment on its Person's active Faculty membership: their ground.     *)
(* There is one Class Offering, in a Term that begins on the first School  *)
(* date and whose last date may move.                                      *)
(***************************************************************************)
EXTENDS Integers, Sequences, FiniteSetsExt

CONSTANTS
  Students, Faculty, Guardians,   \* the Persons, each named for the one role they may hold
  Requests,      \* the requests, each made at most once
  Kinds,         \* what the requests may ask for
  FirstDates,    \* the first and the last School dates a request may state
  LastDates,
  TermEnds,      \* the last School dates the Term may have
  MemberStarts,  \* the starts and the ends a request may give a School membership
  MemberEnds,
  Profiles,      \* the Access profiles a request may give a Guardian link
  LastDay,       \* bound: the last School date
  MaxTime,       \* bound: the clock stops here
  None

Persons == Students \cup Faculty \cup Guardians
Permissions == {"attendanceRead", "resultsRead"}

ASSUME ParticipationAssumption ==
  /\ LastDay \in Nat \ {0} /\ MaxTime \in 0 .. LastDay - 1
  /\ FirstDates \subseteq 1 .. LastDay /\ LastDates \subseteq 1 .. LastDay + 1
  /\ MemberStarts \cup MemberEnds \subseteq 0 .. LastDay
  /\ TermEnds \subseteq 1 .. LastDay /\ TermEnds # {}
  /\ Profiles \subseteq SUBSET Permissions
  /\ None \notin Persons \cup Requests \cup Int

VARIABLES
  clock,       \* PostgreSQL's clock
  row,         \* every committed row, None where there is none
  tx,          \* where each request's transaction stands
  trail,       \* each row's committed Audit records, in order
  stretched    \* history: participations that only a later end of the Term made outlive their ground

vars == <<clock, row, tx, trail, stretched>>

(* Each School date is one instant long.                                   *)
Times == 0 .. MaxTime
Instants == 0 .. LastDay
Dates == 1 .. LastDay
DateOf(t) == t + 1

(* An end not set: of a relationship, after every instant; of a            *)
(* participation, after every date, and read as the end of its Term.       *)
Never == LastDay
Open == LastDay + 1
Unstated == 0
Lapsed == 0

Max2(a, b) == IF a >= b THEN a ELSE b

(* A row is named by its table, the Person it is about, and the request    *)
(* that made it: None for one there from the start.                        *)
Id(table, p, r) == [table |-> table, of |-> p, by |-> r]
Owners == [stay |-> Students, member |-> Persons, link |-> Students, part |-> Students \cup Faculty]
Ids == UNION {{Id(t, p, r) : p \in Owners[t], r \in Requests \cup {None}} : t \in DOMAIN Owners}
Term == Id("term", None, None)

Stay == [ended : Instants]
Member == [starts : Instants, ends : Instants]
Link == [guardian : Guardians, profile : SUBSET Permissions, ended : Instants]
Part == {v \in [first : FirstDates, last : Dates \cup {Open}] : v.first <= v.last}
RowsOf == [stay |-> Stay, member |-> Member, link |-> Link, part |-> Part, term |-> [last : TermEnds]]
Values == {None} \cup UNION {RowsOf[t] : t \in DOMAIN RowsOf}

ASSUME NoneIsNothing == \A t \in DOMAIN RowsOf : None \notin RowsOf[t]

Held(table, p) == {i \in Ids : i.table = table /\ i.of = p /\ row[i] # None}

RunsTo(v, termLast) == IF v.last = Open THEN termLast ELSE v.last
Overlap(v, w) == v.first <= w.last /\ w.first <= v.last

OpenStay(s) == {i \in Held("stay", s) : row[i].ended = Never}
LinksInForce(s) == {i \in Held("link", s) : row[i].ended = Never}
Active(p, now) == {i \in Held("member", p) : row[i].starts <= now /\ row[i].ends > now}
NowOrLater(p, now) == \E i \in Held("member", p) : row[i].ends > Max2(row[i].starts, now)

-----------------------------------------------------------------------------
(* What the requests ask for.                                              *)

Asks == UNION {
  [kind : {"roster"}, who : (SUBSET Students) \ {{}}, first : FirstDates, last : LastDates],
  [kind : {"assign"}, who : {{p} : p \in Faculty}, first : FirstDates, last : LastDates \cup {Unstated}],
  [kind : {"move"}, on : {i \in Ids : i.table = "part"}, first : FirstDates, last : LastDates],
  [kind : {"end"}, on : {i \in Ids : i.table = "part"}],
  [kind : {"enroll"}, who : {{p} : p \in Students}],
  [kind : {"depart"}, on : {i \in Ids : i.table = "stay"}],
  [kind : {"grant"}, who : {{p} : p \in Persons}, starts : MemberStarts, ends : MemberEnds],
  [kind : {"narrow"}, on : {i \in Ids : i.table = "member"}, ends : MemberEnds],
  [kind : {"revoke"}, on : {i \in Ids : i.table = "member"}],
  [kind : {"link"}, who : {{p} : p \in Students}, guardian : Guardians, profile : Profiles],
  [kind : {"profile"}, on : {i \in Ids : i.table = "link"}, profile : Profiles],
  [kind : {"unlink"}, on : {i \in Ids : i.table = "link"}],
  [kind : {"term"}, on : {Term}, last : TermEnds]}

(* The statements of each handler, in order, up to its commit.             *)
Statements == [
  roster |-> <<"offering", "ground", "write">>,
  assign |-> <<"offering", "ground", "write">>,
  move |-> <<"row", "ground", "write">>,
  end |-> <<"row", "write">>,
  enroll |-> <<"write">>,
  depart |-> <<"row", "links", "list", "rows", "write">>,
  grant |-> <<"role", "write">>,
  narrow |-> <<"row", "list", "rows", "write">>,
  revoke |-> <<"row", "list", "rows", "write">>,
  link |-> <<"ground", "write">>,
  profile |-> <<"row", "write">>,
  unlink |-> <<"row", "write">>,
  term |-> <<"write">>]

Phases == {"new", "offering", "row", "role", "ground", "links", "list", "rows", "write", "commit", "ended"}

NoAsk == [kind |-> "none"]
NewTx == [ask |-> NoAsk, at |-> 0, phase |-> "new", holds |-> {}, saw |-> None, term |-> 0,
          until |-> Lapsed, todo |-> {}, writes |-> {}]

At(r, phase) == tx[r].phase = phase
AskOf(r) == tx[r].ask

After(r) ==
  LET s == Statements[AskOf(r).kind]
      n == CHOOSE i \in 1 .. Len(s) : s[i] = tx[r].phase
  IN IF n = Len(s) THEN "commit" ELSE s[n + 1]

(* The Persons whose ground, or whose participations, the request is about. *)
Whose(r) == IF "who" \in DOMAIN AskOf(r) THEN AskOf(r).who ELSE {AskOf(r).on.of}

Goes(r, to) == tx' = [tx EXCEPT ![r] = to] /\ UNCHANGED <<clock, row, trail, stretched>>

(* The request is answered, and its transaction, committed or not, lets go. *)
Done == [NewTx EXCEPT !.phase = "ended"]
Ends(r) == Goes(r, Done)

(* Locks: a row, or what stands for entries of an index, shared or not.    *)
Alone(what) == [what |-> what, shared |-> FALSE]
Shared(what) == [what |-> what, shared |-> TRUE]
Clash(k, l) == k.what = l.what /\ ~(k.shared /\ l.shared)
Blockers(r, locks) == {q \in Requests \ {r} : \E k \in locks, l \in tx[q].holds : Clash(k, l)}

(* Entries no two transactions write at once: the Roster memberships or    *)
(* assignments of a Person, their open Enrollment, their grants of a role, *)
(* and the links of a Guardian to a Student in force.                      *)
Entry(index, p) == [index |-> index, of |-> p]

(* What a request holds its participations on, held open while it writes.  *)
GroundRows(p, now) == IF p \in Students THEN OpenStay(p) ELSE Active(p, now)
Grounds(r) == UNION {GroundRows(p, tx[r].at) : p \in Whose(r)}

(* The last date a participation may run to on that ground.                *)
Until(p, now) ==
  IF GroundRows(p, now) = {} THEN Lapsed
  ELSE IF p \in Students THEN Open
  ELSE Min({DateOf(row[i].ends) : i \in Active(p, now)})

EndsGround(r) == AskOf(r).kind \in {"depart", "narrow", "revoke"}

EndInstant(r) ==
  CASE AskOf(r).kind = "depart" -> tx[r].at
    [] AskOf(r).kind = "narrow" -> AskOf(r).ends
    [] AskOf(r).kind = "revoke" -> Max2(tx[r].saw.starts, tx[r].at)

EndsOn(r) == DateOf(EndInstant(r))

(* Whose participations an ending ends: a departing Student's, and a       *)
(* Faculty member's whose membership ends.                                 *)
EndsPartsOf(r) == IF AskOf(r).kind = "depart" THEN Students ELSE Faculty

Unlocked(r, ids) == {i \in ids : Alone(i) \notin tx[r].holds}
LinksToEnd(r) == Unlocked(r, UNION {LinksInForce(p) : p \in Whose(r)})

(* The participations listed, each with the first date it was listed at,   *)
(* are locked in the order of these.                                       *)
Listed(r) == {e.on : e \in tx[r].todo}
RowsToLock(r) == Unlocked(r, Listed(r))
NextRow(r) ==
  LET left == {e \in tx[r].todo : e.on \in RowsToLock(r)}
  IN (CHOOSE e \in left : \A f \in left : e.first <= f.first).on

(* The entries a write takes, kept from every other write of them.         *)
WritesParts(r) == AskOf(r).kind \in {"roster", "assign", "move", "end"} \/ tx[r].todo # {}
EntriesWritten(r) ==
  {Alone(Entry("part", p)) : p \in IF WritesParts(r) THEN Whose(r) ELSE {}}
    \cup {Alone(Entry("stay", p)) : p \in IF AskOf(r).kind = "enroll" THEN Whose(r) ELSE {}}
    \cup {Alone(Entry("link", <<AskOf(r).guardian, p>>)) : p \in IF AskOf(r).kind = "link" THEN Whose(r) ELSE {}}

(* Slip: a write of a participation reads its Term without holding it.  *)
WriteLocksTermFree(r) ==
  EntriesWritten(r) \cup (IF AskOf(r).kind = "term" THEN {Alone(Term)} ELSE {})

(* Slip: a write of a participation touches the row of its ground too.  *)
WriteLocksTouchingGround(r) ==
  WriteLocksTermFree(r)
    \cup (IF AskOf(r).kind \in {"roster", "assign", "move"}
          THEN {Shared(Term)} \cup {Alone(i) : i \in Grounds(r)} ELSE {})

(* The triggers of a participation hold its Term, which is moved alone.    *)
WriteLocks(r) ==
  EntriesWritten(r)
    \cup (IF AskOf(r).kind = "term" THEN {Alone(Term)} ELSE IF WritesParts(r) THEN {Shared(Term)} ELSE {})

(* What its next statement locks.                                          *)
Wants(r) ==
  CASE At(r, "offering") -> {Alone(Entry("offering", None))}
    [] At(r, "row") -> {Alone(AskOf(r).on)}
    [] At(r, "role") -> {Alone(Entry("role", p)) : p \in Whose(r)}
    [] At(r, "ground") -> {Shared(i) : i \in Grounds(r)}
    [] At(r, "links") -> IF LinksToEnd(r) = {} THEN {} ELSE {Alone(CHOOSE i \in LinksToEnd(r) : TRUE)}
    [] At(r, "rows") -> {Alone(NextRow(r))}
    [] At(r, "write") -> WriteLocks(r)
    [] OTHER -> {}

WaitsFor(r) == Blockers(r, Wants(r))

Locked(r) == [tx[r] EXCEPT !.holds = @ \cup Wants(r), !.phase = After(r)]

(* Its next statement, once nobody holds what it locks.                    *)
Runs(r, phase) == At(r, phase) /\ WaitsFor(r) = {}

-----------------------------------------------------------------------------
(* The statements.                                                         *)

(* The request is permitted: a row it names is found, and not yet locked.  *)
Begin(r) ==
  /\ At(r, "new")
  /\ \E ask \in Asks :
       /\ ask.kind \in Kinds
       /\ "on" \in DOMAIN ask => row[ask.on] # None
       /\ Goes(r, [NewTx EXCEPT !.ask = ask, !.at = clock, !.phase = Statements[ask.kind][1],
                                !.saw = IF "on" \in DOMAIN ask THEN row[ask.on] ELSE None])

LockOffering(r) ==
  /\ Runs(r, "offering")
  /\ Goes(r, [Locked(r) EXCEPT !.term = row[Term].last])

TakeRole(r) == Runs(r, "role") /\ Goes(r, Locked(r))

HasEnded(v, now) == v.ends <= now \/ v.ends <= v.starts

(* Whether the row, as it stands, leaves the request anything to do.       *)
GoesOn(r, v) ==
  LET ask == AskOf(r)
      now == tx[r].at
  IN /\ v # None
     /\ CASE ask.kind \in {"depart", "unlink"} -> v.ended = Never
          [] ask.kind = "revoke" -> ~HasEnded(v, now)
          [] ask.kind = "narrow" -> ~HasEnded(v, now) /\ ask.ends > Max2(now, v.starts)
          [] ask.kind = "profile" -> v.ended = Never /\ v.profile # ask.profile
          [] OTHER -> TRUE

(* Slip: the row is taken as it was found, before the wait for it.      *)
LockRowAsFound(r) ==
  /\ Runs(r, "row")
  /\ IF GoesOn(r, tx[r].saw)
     THEN Goes(r, [Locked(r) EXCEPT !.term = row[Term].last])
     ELSE Ends(r)

(* The row is locked, and taken as it now stands.                          *)
LockRow(r) ==
  LET v == row[AskOf(r).on]
  IN /\ Runs(r, "row")
     /\ IF GoesOn(r, v)
        THEN Goes(r, [Locked(r) EXCEPT !.saw = v, !.term = row[Term].last])
        ELSE Ends(r)

Grounded(r) ==
  /\ \A p \in Whose(r) : GroundRows(p, tx[r].at) # {}
  /\ AskOf(r).kind = "link" =>
       \A p \in Whose(r) \cup {AskOf(r).guardian} : NowOrLater(p, tx[r].at)

GroundUntil(r) == Min({Until(p, tx[r].at) : p \in Whose(r)})

(* Slip: the ground is looked at, and not held.                         *)
LookAtGround(r) ==
  /\ At(r, "ground")
  /\ IF ~Grounded(r) /\ AskOf(r).kind # "move"
     THEN Ends(r)
     ELSE Goes(r, [tx[r] EXCEPT !.phase = After(r), !.until = GroundUntil(r)])

(* The ground is held until the transaction ends.  A participation whose   *)
(* ground has lapsed may still be moved.                                   *)
HoldGround(r) ==
  /\ Runs(r, "ground")
  /\ IF ~Grounded(r) /\ AskOf(r).kind # "move"
     THEN Ends(r)
     ELSE Goes(r, [Locked(r) EXCEPT !.until = GroundUntil(r)])

(* A departure locks the links in force to the Student one after another.  *)
LockLinks(r) ==
  /\ Runs(r, "links")
  /\ Goes(r, IF LinksToEnd(r) = {} THEN Locked(r) ELSE [Locked(r) EXCEPT !.phase = "links"])

Running(r, termLast) ==
  {i \in UNION {Held("part", p) : p \in Whose(r) \cap EndsPartsOf(r)} : RunsTo(row[i], termLast) > EndsOn(r)}

(* Which participations run past the end, found before they are locked.    *)
ListRows(r) ==
  LET found == Running(r, row[Term].last)
  IN /\ Runs(r, "list")
     /\ Goes(r, [tx[r] EXCEPT !.todo = {[on |-> i, first |-> row[i].first] : i \in found},
                              !.term = row[Term].last,
                              !.phase = IF found = {} THEN "write" ELSE "rows"])

LockNextRow(r) ==
  /\ Runs(r, "rows")
  /\ Goes(r, IF RowsToLock(r) = {NextRow(r)} THEN Locked(r) ELSE [Locked(r) EXCEPT !.phase = "rows"])

-----------------------------------------------------------------------------
(* The writes, which the commit shows to the others.                       *)

Change(i, before, after) == [of |-> i, before |-> before, after |-> after]

Writes(r, changes) ==
  Goes(r, [Locked(r) EXCEPT !.writes = changes])

(* What the triggers and the exclusion constraint accept of a row written. *)
InsideTerm(v) == v.first >= 1 /\ RunsTo(v, row[Term].last) <= row[Term].last
Fits(i, v) ==
  /\ InsideTerm(v)
  /\ \A j \in Held("part", i.of) \ {i} : ~Overlap(v, row[j])

BoundsAsked(r) ==
  [first |-> AskOf(r).first,
   last |-> IF AskOf(r).last # Unstated THEN AskOf(r).last
            ELSE IF tx[r].until < tx[r].term THEN tx[r].until ELSE Open]

InOrder(v) == v.first <= v.last

(* An assignment may not run past its Faculty membership.                  *)
InsideGround(r, v) == RunsTo(v, tx[r].term) <= tx[r].until

Extends(r, v) ==
  \/ v.first < tx[r].saw.first
  \/ RunsTo(v, tx[r].term) > RunsTo(tx[r].saw, tx[r].term)

(* POST roster-memberships and teaching-assignments: all of them, or none. *)
Place(r) ==
  LET v == BoundsAsked(r)
      ids == {Id("part", p, r) : p \in Whose(r)}
  IN /\ Runs(r, "write") /\ AskOf(r).kind \in {"roster", "assign"}
     /\ IF InOrder(v) /\ InsideGround(r, v) /\ \A i \in ids : Fits(i, v)
        THEN Writes(r, {Change(i, None, v) : i \in ids})
        ELSE Ends(r)

(* PATCH roster-memberships and teaching-assignments.                      *)
Move(r) ==
  LET v == BoundsAsked(r)
      i == AskOf(r).on
      lapsed == tx[r].until = Lapsed
  IN /\ Runs(r, "write") /\ AskOf(r).kind = "move"
     /\ IF /\ InOrder(v) /\ v # tx[r].saw /\ Fits(i, v)
           /\ IF lapsed THEN ~Extends(r, v) ELSE InsideGround(r, v)
        THEN Writes(r, {Change(i, tx[r].saw, v)})
        ELSE Ends(r)

(* One that would only have begun after the date is removed, and one still *)
(* running after it ends on it.                                            *)
EndedOn(v, date) == IF v.first > date THEN None ELSE [v EXCEPT !.last = date]

(* The triggers refuse an ending too that they do not accept.              *)
Accepted(changes) == \A c \in changes : c.of.table = "part" => c.after = None \/ InsideTerm(c.after)

Ending(r, changes) ==
  IF Accepted(changes) THEN Writes(r, changes) ELSE Ends(r)

(* DELETE roster-memberships and teaching-assignments.                     *)
EndPart(r) ==
  LET today == DateOf(tx[r].at)
      saw == tx[r].saw
  IN /\ Runs(r, "write") /\ AskOf(r).kind = "end"
     /\ IF saw.first <= today /\ RunsTo(saw, tx[r].term) <= today
        THEN Ends(r)
        ELSE Ending(r, {Change(AskOf(r).on, saw, EndedOn(saw, today))})

(* Each locked participation that runs past the end still.                 *)
EndedWith(r) ==
  {Change(i, row[i], EndedOn(row[i], EndsOn(r))) :
     i \in {j \in Listed(r) : row[j] # None /\ RunsTo(row[j], tx[r].term) > EndsOn(r)}}

(* DELETE enrollments: departure, with the Student's links in force and    *)
(* the Roster memberships still running.                                   *)
Depart(r) ==
  /\ Runs(r, "write") /\ AskOf(r).kind = "depart"
  /\ Ending(r, {Change(AskOf(r).on, tx[r].saw, [ended |-> tx[r].at])}
               \cup {Change(i, row[i], [row[i] EXCEPT !.ended = tx[r].at]) :
                       i \in UNION {LinksInForce(p) : p \in Whose(r)}}
               \cup EndedWith(r))

(* PATCH and DELETE memberships.                                           *)
EndMembership(r) ==
  /\ Runs(r, "write") /\ AskOf(r).kind \in {"narrow", "revoke"}
  /\ Ending(r, {Change(AskOf(r).on, tx[r].saw, [tx[r].saw EXCEPT !.ends = EndInstant(r)])} \cup EndedWith(r))

(* POST memberships: nobody holds a role twice at a time.                  *)
HoldsRoleDuring(p, v) ==
  \E i \in Held("member", p) : row[i].ends > Max2(row[i].starts, v.starts) /\ row[i].starts < v.ends

Grant(r) ==
  LET v == [starts |-> AskOf(r).starts, ends |-> AskOf(r).ends]
  IN /\ Runs(r, "write") /\ AskOf(r).kind = "grant"
     /\ IF v.starts < tx[r].at \/ v.ends <= v.starts \/ \E p \in Whose(r) : HoldsRoleDuring(p, v)
        THEN Ends(r)
        ELSE Writes(r, {Change(Id("member", p, r), None, v) : p \in Whose(r)})

(* POST enrollments: a Student holds at most one open.                     *)
Enroll(r) ==
  /\ Runs(r, "write") /\ AskOf(r).kind = "enroll"
  /\ IF \E p \in Whose(r) : ~NowOrLater(p, tx[r].at) \/ OpenStay(p) # {}
     THEN Ends(r)
     ELSE Writes(r, {Change(Id("stay", p, r), None, [ended |-> Never]) : p \in Whose(r)})

(* POST guardian-links: a Guardian holds at most one in force to a Student. *)
MakeLink(r) ==
  LET v == [guardian |-> AskOf(r).guardian, profile |-> AskOf(r).profile, ended |-> Never]
  IN /\ Runs(r, "write") /\ AskOf(r).kind = "link"
     /\ IF \E p \in Whose(r) : \E i \in LinksInForce(p) : row[i].guardian = v.guardian
        THEN Ends(r)
        ELSE Writes(r, {Change(Id("link", p, r), None, v) : p \in Whose(r)})

(* PATCH guardian-links.                                                   *)
ChangeProfile(r) ==
  /\ Runs(r, "write") /\ AskOf(r).kind = "profile"
  /\ Writes(r, {Change(AskOf(r).on, tx[r].saw, [tx[r].saw EXCEPT !.profile = AskOf(r).profile])})

(* DELETE guardian-links.                                                  *)
Unlink(r) ==
  /\ Runs(r, "write") /\ AskOf(r).kind = "unlink"
  /\ Writes(r, {Change(AskOf(r).on, tx[r].saw, [tx[r].saw EXCEPT !.ended = tx[r].at])})

(* What the triggers on the Term accept of its new last date.              *)
Strands(i, last) == row[i].first > last \/ (row[i].last # Open /\ row[i].last > last)
Parts == UNION {Held("part", p) : p \in Students \cup Faculty}

(* PATCH academic-years, of a year whose one Term it moves with it.        *)
MoveTerm(r) ==
  LET last == AskOf(r).last
  IN /\ Runs(r, "write") /\ AskOf(r).kind = "term"
     /\ IF last = row[Term].last \/ \E i \in Parts : Strands(i, last)
        THEN Ends(r)
        ELSE Writes(r, {Change(Term, row[Term], [last |-> last])})

-----------------------------------------------------------------------------
(* The rows a Person's participations may stand on, and the last date that *)
(* these reach, were they to end as they stand.                            *)
GroundOf(p) == Held(IF p \in Students THEN "stay" ELSE "member", p)
EndOf(j) == IF j.table = "stay" THEN row[j].ended ELSE row[j].ends
GroundEnds(p) == Max({0} \cup {DateOf(EndOf(j)) : j \in GroundOf(p)})

Last(v) == RunsTo(v, row[Term].last)
Outlives(i) == Last(row[i]) > GroundEnds(i.of)

(* Whether what an ending is to end has been found.                        *)
HasListed(r) == EndsGround(r) /\ tx[r].phase \in {"rows", "write", "commit"}

Reached(i) ==
  \E j \in GroundOf(i.of) :
    Last(row[i]) <= DateOf(EndOf(j)) /\ \A r \in Requests : HasListed(r) => AskOf(r).on # j

Written(r) == {c.of : c \in tx[r].writes}
ChangeOf(r, i) == CHOOSE c \in tx[r].writes : c.of = i

(* The history: what a later end of its Term ran on past all that reaches  *)
(* it and is not about to end, since it was written or while it was; what  *)
(* is only shortened since stays so.                                       *)
Lengthened(r, i) ==
  i \in Written(r) /\ (row[i] = None \/ RunsTo(row'[i], tx[r].term) > RunsTo(row[i], tx[r].term))
Stretched(r) ==
  {i \in Parts' :
     \/ i \in stretched /\ ~Lengthened(r, i)
     \/ /\ row'[i].last = Open /\ ~Reached(i)'
        /\ row'[Term].last > row[Term].last \/ (i \in Written(r) /\ row[Term].last > tx[r].term)}

Commit(r) ==
  /\ At(r, "commit")
  /\ row' = [i \in DOMAIN row |-> IF i \in Written(r) THEN ChangeOf(r, i).after ELSE row[i]]
  /\ trail' = [i \in DOMAIN trail |->
                 IF i \in Written(r)
                 THEN Append(trail[i], [before |-> ChangeOf(r, i).before, after |-> ChangeOf(r, i).after])
                 ELSE trail[i]]
  /\ tx' = [tx EXCEPT ![r] = Done]
  /\ stretched' = Stretched(r)
  /\ UNCHANGED clock

(* Transactions each waiting for another of them: one is made the victim.  *)
Deadlocked(D) == \A r \in D : WaitsFor(r) \cap D # {}

AbortDeadlock(r) ==
  /\ \E D \in SUBSET Requests : r \in D /\ Deadlocked(D)
  /\ Ends(r)

Tick ==
  /\ clock < MaxTime
  /\ clock' = clock + 1
  /\ UNCHANGED <<row, tx, trail, stretched>>

(* Everyone holds their role, every Student is enrolled and linked, and    *)
(* all or none participate, as far as what they hold reaches.              *)
AtFirst(i, first, ends, termLast) ==
  CASE i.table = "term" -> [last |-> termLast]
    [] i.table = "member" -> [starts |-> 0, ends |-> IF i.of \in Faculty THEN ends ELSE Never]
    [] i.table = "stay" -> [ended |-> Never]
    [] i.table = "link" -> IF Guardians = {} THEN None
                           ELSE [guardian |-> CHOOSE g \in Guardians : TRUE, profile |-> Permissions, ended |-> Never]
    [] i.table = "part" -> IF first = None THEN None
                           ELSE [first |-> first,
                                 last |-> IF i.of \in Faculty /\ DateOf(ends) < termLast THEN DateOf(ends) ELSE Open]

Init ==
  /\ clock = 0
  /\ tx = [r \in Requests |-> NewTx]
  /\ trail = [i \in Ids \cup {Term} |-> <<>>] /\ stretched = {}
  /\ \E first \in {None} \cup FirstDates, ends \in MemberEnds \cup {Never}, termLast \in TermEnds :
       /\ first # None => (first <= DateOf(ends) /\ \A d \in FirstDates : first <= d)
       /\ row = [i \in Ids \cup {Term} |-> IF i.by # None THEN None ELSE AtFirst(i, first, ends, termLast)]

Serve(r) ==
  \/ LockOffering(r) \/ LockRow(r) \/ TakeRole(r) \/ HoldGround(r)
  \/ LockLinks(r) \/ ListRows(r) \/ LockNextRow(r)
  \/ Place(r) \/ Move(r) \/ EndPart(r) \/ Depart(r) \/ EndMembership(r) \/ Grant(r)
  \/ Enroll(r) \/ MakeLink(r) \/ ChangeProfile(r) \/ Unlink(r) \/ MoveTerm(r)
  \/ Commit(r) \/ AbortDeadlock(r)

Next == Tick \/ \E r \in Requests : Begin(r) \/ Serve(r)

Spec == Init /\ [][Next]_vars

-----------------------------------------------------------------------------
Rows == Ids \cup {Term}
Entries == [index : {"offering", "part", "stay", "link", "role"}, of : {None} \cup Persons \cup (Guardians \X Students)]
Locks == [what : Rows \cup Entries, shared : BOOLEAN]

Tx == [ask : Asks \cup {NoAsk}, at : Times, phase : Phases, holds : SUBSET Locks, saw : Values,
       term : TermEnds \cup {0}, until : 0 .. Open, todo : SUBSET [on : Ids, first : Dates],
       writes : SUBSET [of : Rows, before : Values, after : Values]]

TypeOK ==
  /\ clock \in Times
  /\ row \in [Rows -> Values]
  /\ \A i \in Rows : row[i] \in {None} \cup RowsOf[i.table]
  /\ row[Term] # None
  /\ tx \in [Requests -> Tx]
  /\ trail \in [Rows -> Seq([before : Values, after : Values])]
  /\ stretched \subseteq Ids

(* A participation runs no longer than the Enrollment or the Faculty       *)
(* membership it stands on, unless a move of the Term made it, and a       *)
(* Guardian link in force is to a Student with an open Enrollment: what    *)
(* endEachWith and endGuardianLinksTo end cannot miss what a roster, an    *)
(* assignment or a link written at the same time adds.                     *)
NothingOutlivesItsGround ==
  /\ \A i \in Parts : Outlives(i) => i \in stretched
  /\ \A s \in Students : LinksInForce(s) # {} => OpenStay(s) # {}

(* A participation falls inside its Term: what the comment on the triggers *)
(* of 0016 and 0017 says they hold.                                        *)
Inside(i) == row[i].first <= row[Term].last /\ RunsTo(row[i], row[Term].last) <= row[Term].last
InsideItsTerm == \A i \in Parts : Inside(i)

(* What they do hold: no move of the Term leaves a participation outside,  *)
(* whichever of the two is written while the other waits, and one outside  *)
(* is without an end of its own, so it was written to begin past its Term. *)
OutsideOnlyAsWritten ==
  [][\A i \in Parts' : ~Inside(i)' => row'[i].last = Open /\ row'[Term] = row[Term]]_vars

(* The Audit records of a row are a chain: each begins with the values the *)
(* one before it ended with, and the last ends with the row as it stands.  *)
TrailLeadsToTheRow ==
  \A i \in DOMAIN trail :
    /\ \A n \in 2 .. Len(trail[i]) : trail[i][n].before = trail[i][n - 1].after
    /\ trail[i] # <<>> => trail[i][Len(trail[i])].after = row[i]

(* Transactions wait for each other only over one Person: one of them ends *)
(* what the Person's participations stand on, another changes the bounds   *)
(* of one, or ends another such ground. The one locks the ground and then  *)
(* the participations it listed, in the order listed; the other the        *)
(* participation and then its ground, or those it listed at another time.  *)
OnlyEndingsDeadlock ==
  \A D \in (SUBSET Requests) \ {{}} :
    Deadlocked(D) =>
      \E r, q \in D : r # q /\ EndsGround(q) /\ (AskOf(r).kind = "move" \/ EndsGround(r)) /\ Whose(r) = Whose(q)

(* A School membership that has ended never changes again.                 *)
EndedStaysEnded ==
  [][\A i \in {j \in Ids : j.table = "member"} :
       row[i] # None /\ row[i].ends <= clock => row'[i] = row[i]]_vars

-----------------------------------------------------------------------------
(* The inductive invariant.  First what a request knows of itself: its     *)
(* course is its kind's, the row it names stays as it saw it once locked,  *)
(* and so do the ground it holds and the rows it lists.                    *)
(* No row is of a request not yet ended, unless it is about to be made.    *)
Known(i) == i.by \in Requests => At(i.by, "ended")

CourseSound(r) ==
  LET kind == AskOf(r).kind
  IN /\ At(r, "new") \/ At(r, "ended") => tx[r] = [NewTx EXCEPT !.phase = tx[r].phase]
     /\ ~At(r, "new") /\ ~At(r, "ended") => AskOf(r) \in Asks /\ kind \in Kinds
     /\ At(r, "offering") => kind \in {"roster", "assign"}
     /\ At(r, "row") => kind \in {"move", "end", "depart", "narrow", "revoke", "profile", "unlink"}
     /\ At(r, "role") => kind = "grant"
     /\ At(r, "ground") => kind \in {"roster", "assign", "move", "link"}
     /\ At(r, "links") => kind = "depart"
     /\ At(r, "list") \/ At(r, "rows") => EndsGround(r)

HoldsRow(r) ==
  /\ AskOf(r).kind \in {"move", "end", "depart", "narrow", "revoke", "profile", "unlink"}
  /\ tx[r].phase \in {"ground", "links", "list", "rows", "write", "commit"}

RowSound(r) ==
  HoldsRow(r) => Alone(AskOf(r).on) \in tx[r].holds /\ row[AskOf(r).on] = tx[r].saw /\ GoesOn(r, tx[r].saw)

GroundSound(r) ==
  AskOf(r).kind \in {"roster", "assign", "move", "link"} /\ (At(r, "write") \/ At(r, "commit")) =>
    \A p \in Whose(r) :
      \/ AskOf(r).kind = "move" /\ tx[r].until = Lapsed
      \/ \E j \in GroundRows(p, tx[r].at) : Shared(j) \in tx[r].holds /\ tx[r].until <= DateOf(EndOf(j))

LinksSound(r) ==
  AskOf(r).kind = "depart" /\ tx[r].phase \in {"list", "rows", "write", "commit"} =>
    \A p \in Whose(r) : \A l \in LinksInForce(p) :
      Alone(l) \in tx[r].holds /\ (At(r, "commit") => l \in Written(r))

ListSound(r) ==
  /\ Listed(r) # {} => EndsGround(r) /\ tx[r].phase \in {"rows", "write", "commit"}
  /\ \A i \in Listed(r) : i.table = "part" /\ i.of \in Whose(r) /\ Known(i)
  /\ At(r, "row") => tx[r].holds = {}
  /\ At(r, "links") \/ At(r, "list") => \A l \in tx[r].holds : l.what \in Ids /\ l.what.table # "part"
  /\ At(r, "rows") => RowsToLock(r) # {}
  /\ At(r, "write") \/ At(r, "commit") => \A i \in Listed(r) : Alone(i) \in tx[r].holds

StaySound(r) ==
  AskOf(r).kind = "enroll" /\ At(r, "commit") =>
    \A p \in Whose(r) : Alone(Entry("stay", p)) \in tx[r].holds /\ OpenStay(p) = {}

(* What a request is to commit: of each row one change, of what it holds   *)
(* as it still stands or of what it makes, and of the rows its kind writes. *)
ChangeSound(r, c) ==
  LET kind == AskOf(r).kind
      made == c.of.by = r /\ c.of.of \in Whose(r)
      named == kind # "term" /\ c.of = AskOf(r).on
  IN /\ c.of.table = "stay" =>
          \/ kind = "enroll" /\ made /\ c.after = [ended |-> Never]
          \/ kind = "depart" /\ named /\ c.after = [ended |-> tx[r].at]
     /\ c.of.table = "member" =>
          \/ kind = "grant" /\ made /\ c.after # None
          \/ kind \in {"narrow", "revoke"} /\ named /\ c.after = [c.before EXCEPT !.ends = EndInstant(r)]
     /\ c.of.table = "link" =>
          \/ kind = "link" /\ made /\ c.after # None
          \/ kind = "profile" /\ named /\ c.after = [c.before EXCEPT !.profile = AskOf(r).profile]
          \/ kind \in {"unlink", "depart"} /\ c.after # None /\ c.after.ended = tx[r].at
     /\ c.of.table = "part" => WritesParts(r) /\ (c.after # None => InsideTerm(c.after))
     /\ c.of.table = "term" =>
          kind = "term" /\ c.after = [last |-> AskOf(r).last] /\ \A i \in Parts : ~Strands(i, AskOf(r).last)

WriteSound(r) ==
  /\ tx[r].writes # {} => At(r, "commit")
  /\ \A c \in tx[r].writes :
       /\ c.before = row[c.of] /\ c.after \in {None} \cup RowsOf[c.of.table]
       /\ Alone(c.of) \in tx[r].holds \/ (c.of.by = r /\ c.before = None)
       /\ c.of.table = "part" => Shared(Term) \in tx[r].holds
       /\ \A d \in tx[r].writes : d.of = c.of => d = c
       /\ ChangeSound(r, c)

Sound(r) ==
  /\ CourseSound(r) /\ RowSound(r) /\ GroundSound(r) /\ LinksSound(r)
  /\ ListSound(r) /\ StaySound(r) /\ WriteSound(r)

(* No two transactions hold what clashes, and none holds a row not made.   *)
Exclusive == \A r, q \in Requests : \A k \in tx[r].holds, l \in tx[q].holds : r # q => ~Clash(k, l)
KnownSound ==
  /\ \A i \in Ids : row[i] # None => Known(i)
  /\ \A r \in Requests : \A l \in tx[r].holds : l.what \in Ids => Known(l.what)

OneOpenStay == \A s \in Students : \A i, j \in OpenStay(s) : i = j
LinksHaveGround == \A s \in Students : LinksInForce(s) # {} => OpenStay(s) # {}
RunsInsideTerm == \A i \in Parts : RunsTo(row[i], row[Term].last) <= row[Term].last

IInv ==
  /\ TypeOK /\ Exclusive /\ KnownSound /\ OneOpenStay /\ LinksHaveGround
  /\ RunsInsideTerm /\ TrailLeadsToTheRow
  /\ \A r \in Requests : Sound(r)

(* A participation stands on one row of its ground that reaches its last   *)
(* date, and that whoever is ending it knows to be reached so far: it is   *)
(* listed, or need not be.                                                 *)
Supports(i, j) ==
  /\ j \in GroundOf(i.of) /\ Last(row[i]) <= DateOf(EndOf(j))
  /\ \A r \in Requests :
       HasListed(r) /\ AskOf(r).on = j => i \in Listed(r) \/ Last(row[i]) <= EndsOn(r)

(* What is written of a participation is inside its ground or ends it no   *)
(* later; an ending ends what it listed, and listed what ran past the end. *)
PartSound(r) ==
  LET runsTo(v) == RunsTo(v, tx[r].term)
  IN /\ \A c \in tx[r].writes : c.of.table = "part" /\ c.after # None =>
          \/ /\ AskOf(r).kind \in {"roster", "assign"} \/ (AskOf(r).kind = "move" /\ tx[r].until # Lapsed)
             /\ c.of.of \in Whose(r) /\ runsTo(c.after) <= tx[r].until
          \/ c.before # None /\ runsTo(c.after) <= runsTo(c.before)
     /\ HasListed(r) /\ Listed(r) # {} => tx[r].term > EndsOn(r)
     /\ EndsGround(r) /\ At(r, "commit") =>
          \A i \in Listed(r) : row[i] # None =>
            \/ runsTo(row[i]) <= EndsOn(r)
            \/ \E c \in tx[r].writes : c.of = i /\ (c.after # None => c.after.last = EndsOn(r))

GInv ==
  /\ IInv
  /\ \A i \in Parts : i \in stretched \/ \E j \in Ids : Supports(i, j)
  /\ \A r \in Requests : PartSound(r)

(* What each lock of a request says of where it stands: those it may have  *)
(* while it waits for another are of the offering, of its own row, of what *)
(* it ends, or of what it has listed.                                      *)
LockSound(r) ==
  LET kind == AskOf(r).kind
      phase == tx[r].phase
  IN \A l \in tx[r].holds :
       \/ phase = "commit"
       \/ /\ l.what \in Entries /\ l.what.index = "offering"
          /\ kind \in {"roster", "assign"} /\ phase \in {"ground", "write"}
       \/ l.what \in Entries /\ l.what.index = "role" /\ phase = "write"
       \/ l.what \in Ids /\ l.shared /\ phase = "write"
       \/ /\ l.what = AskOf(r).on
          /\ \/ kind = "move" /\ phase = "ground"
             \/ kind \in {"move", "end", "profile", "unlink"} /\ phase = "write"
       \/ /\ EndsGround(r) /\ l.what \in Ids /\ l.what.of \in Whose(r)
          /\ l.what.table # "part" \/ l.what \in Listed(r)
          /\ phase \in {"links", "list", "rows", "write"}

LInv == IInv /\ \A r \in Requests : LockSound(r)
=============================================================================
