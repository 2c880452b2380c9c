------------------------------- MODULE Roster -------------------------------
(***************************************************************************)
(* Who is rostered in one Class Offering on which School dates, and whose  *)
(* Enrollment is open: the part of the Participation and Enrollment        *)
(* handlers that recording Attendance reads.  Each action is one committed *)
(* transaction of its handler.  The Term is fixed and runs over Days, so a *)
(* Roster membership without a last date of its own runs to LastDay.       *)
(***************************************************************************)
EXTENDS Integers

CONSTANTS Students,        \* Persons who may be rostered in the offering
          Memberships,     \* identities a Roster membership may take
          StudentOf,       \* the Student each Roster membership is for
          LastDay,         \* the last School date of the Term
          MaxRosterMoves,  \* bound: changes made to the roster or an Enrollment
          EndLag,          \* bound: midnights between the start of an ending's transaction and its commit
          None             \* nothing recorded, nobody, no membership

Days == 1..LastDay
Bounds == {b \in [first: Days, last: Days] : b.first <= b.last}

(* A School date later than every other: where an open Enrollment ends. *)
Open == LastDay + 1

ASSUME RosterAssumption ==
  /\ LastDay \in Nat \ {0}
  /\ MaxRosterMoves \in Nat
  /\ EndLag \in Nat
  /\ StudentOf \in [Memberships -> Students]
  /\ None \notin Bounds

VARIABLES
  today,       \* the School's today
  enrolledTo,  \* the School date each Student's latest Enrollment ended on, Open while it has not, 0 before any
  leftOn,      \* history: the School date on which that ending was committed, Open while there is none
  roster,      \* the bounds of each Roster membership, None while it does not exist
  rosterMoves  \* how many changes have been made, for the bound alone

rosterVars == <<today, enrolledTo, leftOn, roster, rosterMoves>>

RosterTypeOK ==
  /\ today \in Days
  /\ enrolledTo \in [Students -> 0..Open]
  /\ leftOn \in [Students -> Days \union {Open}]
  /\ roster \in [Memberships -> Bounds \union {None}]
  /\ rosterMoves \in 0..MaxRosterMoves

(* The Students enrolled and rostered for the whole Term when it begins. *)
RosterInit ==
  /\ today = 1
  /\ enrolledTo = [s \in Students |-> Open]
  /\ leftOn = [s \in Students |-> Open]
  /\ \E rostered \in SUBSET Memberships :
       /\ \A m, n \in rostered : StudentOf[m] = StudentOf[n] => m = n
       /\ roster = [m \in Memberships |->
                      IF m \in rostered THEN [first |-> 1, last |-> LastDay] ELSE None]
  /\ rosterMoves = 0

-----------------------------------------------------------------------------
Covers(m, d) == roster[m] # None /\ roster[m].first <= d /\ d <= roster[m].last

(* Some Enrollment of theirs is open, or ended no earlier than the date. *)
EnrolledOn(s, d) == d <= enrolledTo[s]

(* They had not left before that date. *)
NotLeftBefore(s, d) == d <= leftOn[s]

(* The recording rule's test of one Student, asked of the roster as it stands. *)
RosteredOn(s, d) ==
  /\ \E m \in Memberships : StudentOf[m] = s /\ Covers(m, d)
  /\ EnrolledOn(s, d)

(* No other membership of the same Student holds any of these dates. *)
NoOverlap(m, b) ==
  \A n \in Memberships \ {m} :
    StudentOf[n] = StudentOf[m] /\ roster[n] # None
      => b.last < roster[n].first \/ roster[n].last < b.first

RosterMove ==
  /\ rosterMoves < MaxRosterMoves
  /\ rosterMoves' = rosterMoves + 1
  /\ UNCHANGED today

(* POST roster-memberships: the Student's open Enrollment is required. *)
RosterStudent(m, b) ==
  /\ RosterMove
  /\ roster[m] = None
  /\ enrolledTo[StudentOf[m]] = Open
  /\ NoOverlap(m, b)
  /\ roster' = [roster EXCEPT ![m] = b]
  /\ UNCHANGED <<enrolledTo, leftOn>>

(***************************************************************************)
(* A capture not yet committed holds the rows of the memberships it        *)
(* captured through their foreign key, and whoever would change one waits  *)
(* (held).  A membership some Roster snapshot refers to (kept) cannot be   *)
(* removed: the foreign key refuses, and the whole transaction rolls back. *)
(***************************************************************************)

(* PATCH roster-memberships: without an open Enrollment it may only shrink. *)
MoveMembership(m, b, held) ==
  /\ RosterMove
  /\ roster[m] # None /\ m \notin held
  /\ \/ enrolledTo[StudentOf[m]] = Open
     \/ roster[m].first <= b.first /\ b.last <= roster[m].last
  /\ NoOverlap(m, b)
  /\ roster' = [roster EXCEPT ![m] = b]
  /\ UNCHANGED <<enrolledTo, leftOn>>

(* Ending a membership on a School date removes one not begun by then, and *)
(* leaves one already over as it was.                                      *)
RunsPast(m, day) == roster[m] # None /\ roster[m].last > day
Removes(m, day) == roster[m] # None /\ roster[m].first > day
EndedOn(m, day) ==
  CASE Removes(m, day) -> None
    [] ~Removes(m, day) /\ RunsPast(m, day) -> [roster[m] EXCEPT !.last = day]
    [] ~RunsPast(m, day) -> roster[m]

(* An ending is dated when its transaction began. *)
EndingDays == {day \in Days : today - EndLag <= day /\ day <= today}

(* DELETE roster-memberships. *)
EndMembership(m, held, kept) ==
  /\ RosterMove
  /\ roster[m] # None /\ m \notin held
  /\ \E day \in EndingDays :
       /\ Removes(m, day) => m \notin kept
       /\ roster' = [roster EXCEPT ![m] = EndedOn(m, day)]
  /\ UNCHANGED <<enrolledTo, leftOn>>

(* POST enrollments: a Student holds at most one open Enrollment. *)
Enroll(s) ==
  /\ RosterMove
  /\ enrolledTo[s] # Open
  /\ enrolledTo' = [enrolledTo EXCEPT ![s] = Open]
  /\ leftOn' = [leftOn EXCEPT ![s] = Open]
  /\ UNCHANGED roster

(* DELETE enrollments: departure, ending the Student's Roster memberships with it. *)
EndEnrollment(s, held, kept) ==
  LET theirs == {m \in Memberships : StudentOf[m] = s}
  IN /\ RosterMove
     /\ enrolledTo[s] = Open
     /\ \E day \in EndingDays :
          /\ \A m \in theirs : RunsPast(m, day) => m \notin held
          /\ \A m \in theirs : Removes(m, day) => m \notin kept
          /\ enrolledTo' = [enrolledTo EXCEPT ![s] = day]
          /\ leftOn' = [leftOn EXCEPT ![s] = today]
          /\ roster' = [m \in Memberships |-> IF m \in theirs THEN EndedOn(m, day) ELSE roster[m]]

(* Midnight in the School's timezone. *)
Tick ==
  /\ today < LastDay
  /\ today' = today + 1
  /\ UNCHANGED <<enrolledTo, leftOn, roster, rosterMoves>>

RosterNext(held, kept) ==
  \/ Tick
  \/ \E m \in Memberships, b \in Bounds : RosterStudent(m, b) \/ MoveMembership(m, b, held)
  \/ \E m \in Memberships : EndMembership(m, held, kept)
  \/ \E s \in Students : Enroll(s) \/ EndEnrollment(s, held, kept)

=============================================================================
