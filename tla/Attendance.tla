----------------------------- MODULE Attendance -----------------------------
(***************************************************************************)
(* Recording and correcting the Attendance of one Class Offering.          *)
(*                                                                         *)
(* Every request of an actor runs as one transaction t of PostgreSQL's     *)
(* READ COMMITTED level, one action for each stretch of its handler between*)
(* two points where another transaction may commit: the session the client *)
(* loaded, the reads before any lock, each wait for a lock with the reads  *)
(* it protects, and the commit.  What a transaction has written but not    *)
(* committed is kept in its own record tx[t], where nobody else sees it.   *)
(***************************************************************************)
EXTENDS Roster, FiniteSets

CONSTANTS Persons,              \* Faculty and School Administrators
          Assigned,             \* the School dates each Person's Teaching assignment covers
          InstructionalDays,    \* the Term's Instructional days
          Window,               \* the School's Attendance window, in days
          Statuses,             \* what a mark may say
          Present,              \* the status marking all present gives
          AbsentPendingReview,  \* the status a save never replaces
          Requests,             \* identities a Correction request may take
          Txns,                 \* transactions that may be under way at once
          FirstAdmins,          \* the School Administrators the School starts with
          MaxAdminMoves         \* bound: School Administrator memberships granted or revoked

ASSUME AttendanceAssumption ==
  /\ Assigned \in [Persons -> SUBSET Days]
  /\ InstructionalDays \subseteq Days
  /\ Window \in Nat /\ MaxAdminMoves \in Nat
  /\ FirstAdmins \subseteq Persons
  /\ Present \in Statuses /\ AbsentPendingReview \in Statuses
  /\ Present # AbsentPendingReview
  /\ None \notin Days /\ None \notin Students /\ None \notin Persons
  /\ None \notin Statuses /\ None \notin Requests /\ None \notin Txns

VARIABLES
  admins,       \* the Persons whose School Administrator membership is active
  adminMoves,   \* how many were granted or revoked, for the bound alone
  opened,       \* the dates whose Attendance session someone has opened
  captured,     \* the Roster memberships each date's Roster snapshot holds
  attendance,   \* the status recorded for each date and Student, None where none is
  audit,        \* the latest attendance.changed record of each mark, None before any
  requests,     \* the Correction requests
  sessionLock,  \* who holds each date's advisory lock
  requestLock,  \* who holds each Correction request's row
  tx            \* each transaction's own state

adminVars == <<admins, adminMoves>>
recordVars == <<opened, captured, attendance, audit>>
lockVars == <<sessionLock, requestLock>>
vars == <<rosterVars, adminVars, recordVars, requests, lockVars, tx>>

Ledger == INSTANCE MarkLedger WITH Dates <- InstructionalDays, marks <- attendance

-----------------------------------------------------------------------------
Rows == [Students -> Statuses \union {None}]
Unmarked == [s \in Students |-> None]

Phases == {"idle", "loaded",                                      \* no transaction yet
           "waiting", "holding", "ready",                         \* a save, or a refresh
           "raising", "raised",                                   \* raising a request
           "deciding", "judging", "applying", "applied"}          \* deciding one

Acts == {"save", "refresh", "raise", "approve", "reject", "withdraw"}

Tx == [phase: Phases, act: Acts \union {None}, who: Persons \union {None},
       date: InstructionalDays \union {None}, now: Days \union {None},
       view: Rows,                       \* the marks its client had loaded
       want: Rows,                       \* the marks it asks for, None for a Student it does not name
       fill: BOOLEAN,                    \* marking every unmarked Student present
       adds: SUBSET Memberships,         \* the snapshot members it inserts
       markable: SUBSET Students,        \* whom it found it may mark
       rows: Rows,                       \* the marks it read under the lock
       req: Requests \union {None}, student: Students \union {None},
       after: Statuses \union {None},
       self: BOOLEAN]                    \* approving the actor's own request

Idle == [phase |-> "idle", act |-> None, who |-> None, date |-> None, now |-> None,
         view |-> Unmarked, want |-> Unmarked, fill |-> FALSE, adds |-> {}, markable |-> {},
         rows |-> Unmarked, req |-> None, student |-> None, after |-> None, self |-> FALSE]

TypeOK ==
  /\ RosterTypeOK
  /\ admins \subseteq Persons
  /\ adminMoves \in 0..MaxAdminMoves
  /\ opened \subseteq InstructionalDays
  /\ captured \in [InstructionalDays -> SUBSET Memberships]
  /\ Ledger!LedgerTypeOK
  /\ sessionLock \in [InstructionalDays -> Txns \union {None}]
  /\ requestLock \in [Requests -> Txns \union {None}]
  /\ tx \in [Txns -> Tx]

Init ==
  /\ RosterInit
  /\ admins = FirstAdmins
  /\ adminMoves = 0
  /\ opened = {}
  /\ captured = [d \in InstructionalDays |-> {}]
  /\ Ledger!Init
  /\ sessionLock = [d \in InstructionalDays |-> None]
  /\ requestLock = [r \in Requests |-> None]
  /\ tx = [t \in Txns |-> Idle]

-----------------------------------------------------------------------------
(* The recording rule.  An operator marked "Slip:" is no part of the model: it *)
(* is its neighbour below as a plausible mistake in the code would have it.     *)

(* Slip: dates to come are recordable. *)
AnyInstructionalDay(d, now) == d \in InstructionalDays /\ now \in Days

RecordableDate(d, now) == d \in InstructionalDays /\ d <= now
InWindow(d, now) == now <= d + Window
Teaches(p, now) == now \in Assigned[p]
MayRecord(p, d, now) == Teaches(p, now) /\ d \in Assigned[p]

CapturedStudents(members) == {StudentOf[m] : m \in members}

(* Slip: whoever the roster holds now is markable, captured or not. *)
RosteredNow(members, d) == {s \in Students : RosteredOn(s, d)}

MarkableOn(members, d) ==
  {s \in Students : EnrolledOn(s, d) /\ \E m \in members : StudentOf[m] = s /\ Covers(m, d)}

(* Slip: the locks outlive their transaction. *)
EndedHoldingLocks(t) == tx' = [tx EXCEPT ![t] = Idle] /\ UNCHANGED lockVars

(* A transaction over, its locks with it. *)
Ended(t) ==
  /\ tx' = [tx EXCEPT ![t] = Idle]
  /\ sessionLock' = [d \in InstructionalDays |-> IF sessionLock[d] = t THEN None ELSE sessionLock[d]]
  /\ requestLock' = [r \in Requests |-> IF requestLock[r] = t THEN None ELSE requestLock[r]]

Becomes(t, state) == tx' = [tx EXCEPT ![t] = state]

SessionFree(d) == sessionLock[d] = None
RequestFree(r) == requestLock[r] = None

-----------------------------------------------------------------------------
(* GET attendance-session: the marks a client shows its Faculty member, to  *)
(* be sent back as the values each mark was loaded with.                    *)
Load(t, p, d) ==
  /\ tx[t].phase \in {"idle", "loaded"}
  /\ Assigned[p] # {}
  /\ Becomes(t, [Idle EXCEPT !.phase = "loaded", !.act = "save", !.who = p, !.date = d,
                             !.view = attendance[d]])
  /\ UNCHANGED <<rosterVars, adminVars, recordVars, requests, lockVars>>

(* PATCH attendance-session, up to the wait for the date's lock. *)
BeginSave(t, want, fill) ==
  /\ tx[t].phase = "loaded"
  /\ MayRecord(tx[t].who, tx[t].date, today)
  /\ RecordableDate(tx[t].date, today) /\ InWindow(tx[t].date, today)
  /\ Becomes(t, [tx[t] EXCEPT !.phase = "waiting", !.now = today, !.want = want, !.fill = fill])
  /\ UNCHANGED <<rosterVars, adminVars, recordVars, requests, lockVars>>

(* POST attendance-session, up to the wait for the date's lock. *)
BeginRefresh(t, p, d) ==
  /\ tx[t] = Idle
  /\ MayRecord(p, d, today)
  /\ RecordableDate(d, today) /\ InWindow(d, today)
  /\ Becomes(t, [Idle EXCEPT !.phase = "waiting", !.act = "refresh", !.who = p, !.date = d,
                             !.now = today])
  /\ UNCHANGED <<rosterVars, adminVars, recordVars, requests, lockVars>>

(* The date's lock is granted; a session not open yet, and one being        *)
(* refreshed, has the memberships covering its date captured.               *)
HoldSession(t) ==
  LET d == tx[t].date
      covering == {m \in Memberships : Covers(m, d)} \ captured[d]
  IN /\ tx[t].phase = "waiting"
     /\ SessionFree(d)
     /\ sessionLock' = [sessionLock EXCEPT ![d] = t]
     /\ Becomes(t, [tx[t] EXCEPT !.phase = "holding",
                      !.adds = IF d \notin opened \/ tx[t].act = "refresh" THEN covering ELSE {}])
     /\ UNCHANGED <<rosterVars, adminVars, recordVars, requests, requestLock>>

(* The snapshot this transaction sees, its own insertions included. *)
Snapshot(t) == captured[tx[t].date] \union tx[t].adds

NamesCaptured(t) == \A s \in Students : tx[t].want[s] # None => s \in CapturedStudents(Snapshot(t))

(* Who may be marked, and the marks as they stand, once every Student named *)
(* is one the snapshot captured.                                            *)
ReadSession(t) ==
  /\ tx[t].phase = "holding" /\ tx[t].act = "save"
  /\ NamesCaptured(t)
  /\ Becomes(t, [tx[t] EXCEPT !.phase = "ready", !.rows = attendance[tx[t].date],
                              !.markable = MarkableOn(Snapshot(t), tx[t].date)])
  /\ UNCHANGED <<rosterVars, adminVars, recordVars, requests, lockVars>>

(* Slip: the value loaded is not compared. *)
AppliesOverAnything(t, s) ==
  /\ tx[t].want[s] # None /\ tx[t].rows[s] # tx[t].want[s]
  /\ s \in tx[t].markable /\ tx[t].rows[s] # AbsentPendingReview

(* A mark applies when its Student's stored value is still the one loaded,  *)
(* it changes it, the Student may be marked, and no review is pending.      *)
Applies(t, s) ==
  /\ tx[t].want[s] # None
  /\ tx[t].rows[s] = tx[t].view[s]
  /\ tx[t].rows[s] # tx[t].want[s]
  /\ s \in tx[t].markable
  /\ tx[t].rows[s] # AbsentPendingReview

(* Marking all present, for whoever the marks above left unmarked. *)
Fills(t, s) ==
  /\ tx[t].fill
  /\ tx[t].rows[s] = None
  /\ s \in tx[t].markable
  /\ ~Applies(t, s)

Saved(t) ==
  [s \in Students |-> CASE Applies(t, s) -> tx[t].want[s]
                        [] Fills(t, s) -> Present
                        [] ~Applies(t, s) /\ ~Fills(t, s) -> attendance[tx[t].date][s]]

(* Slip: refused marks are audited too. *)
AuditsRefusedMarks(t) ==
  [s \in Students |-> IF tx[t].want[s] # None /\ tx[t].rows[s] # None
                      THEN <<tx[t].rows[s], tx[t].want[s]>>
                      ELSE audit[tx[t].date][s]]

(* Every mark changed, not one first recorded, is audited as it was read. *)
SaveAudit(t) ==
  [s \in Students |-> IF Applies(t, s) /\ tx[t].rows[s] # None
                      THEN <<tx[t].rows[s], tx[t].want[s]>>
                      ELSE audit[tx[t].date][s]]

CommitSession(t) ==
  /\ opened' = opened \union {tx[t].date}
  /\ captured' = [captured EXCEPT ![tx[t].date] = Snapshot(t)]
  /\ Ended(t)
  /\ UNCHANGED <<rosterVars, adminVars, requests>>

CommitSave(t) ==
  /\ tx[t].phase = "ready"
  /\ attendance' = [attendance EXCEPT ![tx[t].date] = Saved(t)]
  /\ audit' = [audit EXCEPT ![tx[t].date] = SaveAudit(t)]
  /\ CommitSession(t)

CommitRefresh(t) ==
  /\ tx[t].phase = "holding" /\ tx[t].act = "refresh"
  /\ CommitSession(t)
  /\ UNCHANGED <<attendance, audit>>

-----------------------------------------------------------------------------
(* A date and Student that could have Attendance, whatever the window. *)
Correctable(d, s, now) == RecordableDate(d, now) /\ RosteredOn(s, d)

(* POST correction-requests for Attendance, up to the wait for the date's   *)
(* lock.  The request's identity is fresh, so no other transaction has it.  *)
BeginRaise(t, p, r, d, s, after) ==
  /\ tx[t] = Idle
  /\ p \in admins \/ Teaches(p, today)
  /\ Correctable(d, s, today)
  /\ requests[r].state = "none"
  /\ \A u \in Txns : tx[u].req # r
  /\ Becomes(t, [Idle EXCEPT !.phase = "raising", !.act = "raise", !.who = p, !.date = d,
                             !.now = today, !.req = r, !.student = s, !.after = after])
  /\ UNCHANGED <<rosterVars, adminVars, recordVars, requests, lockVars>>

(* Raising or approving waits for the date's lock, then reads the mark. *)
HoldTarget(t) ==
  LET d == tx[t].date
  IN /\ tx[t].phase \in {"raising", "applying"}
     /\ SessionFree(d)
     /\ sessionLock' = [sessionLock EXCEPT ![d] = t]
     /\ Becomes(t, [tx[t] EXCEPT !.phase = IF @ = "raising" THEN "raised" ELSE "applied",
                                 !.rows = attendance[d]])
     /\ UNCHANGED <<rosterVars, adminVars, recordVars, requests, requestLock>>

CommitRaise(t) ==
  /\ tx[t].phase = "raised"
  /\ tx[t].rows[tx[t].student] # tx[t].after
  /\ requests' = [requests EXCEPT ![tx[t].req] =
       [state |-> "pending", date |-> tx[t].date, student |-> tx[t].student,
        before |-> tx[t].rows[tx[t].student], after |-> tx[t].after,
        by |-> tx[t].who, decidedBy |-> None, self |-> FALSE]]
  /\ Ended(t)
  /\ UNCHANGED <<rosterVars, adminVars, recordVars>>

(* PATCH correction-requests, up to the wait for the request's row.  The    *)
(* actor's standing is the one their memberships gave when it was resolved. *)
BeginDecide(t, p, r, act) ==
  /\ tx[t] = Idle
  /\ requests[r].state # "none"
  /\ \/ act \in {"approve", "reject"} /\ p \in admins
     \/ act = "withdraw" /\ p = requests[r].by
  /\ Becomes(t, [Idle EXCEPT !.phase = "deciding", !.act = act, !.who = p, !.now = today,
                             !.req = r, !.date = requests[r].date,
                             !.student = requests[r].student, !.after = requests[r].after])
  /\ UNCHANGED <<rosterVars, adminVars, recordVars, requests, lockVars>>

HoldRequest(t) ==
  /\ tx[t].phase = "deciding"
  /\ RequestFree(tx[t].req)
  /\ requestLock' = [requestLock EXCEPT ![tx[t].req] = t]
  /\ Becomes(t, [tx[t] EXCEPT !.phase = "judging"])
  /\ UNCHANGED <<rosterVars, adminVars, recordVars, requests, sessionLock>>

(* The actor's own request is theirs to decide only while the School counts *)
(* one active School Administrator.                                         *)
OwnRequest(t) == requests[tx[t].req].by = tx[t].who
MayDecide(t) == OwnRequest(t) => Cardinality(admins) = 1

(* Slip: the state found before the lock is trusted, or the mark at the raise. *)
FoundPending(t) == tx[t].phase = "judging"
AsRaised(t) == tx[t].phase = "applied"

StillPending(t) == requests[tx[t].req].state = "pending"
TargetUnchanged(t) == tx[t].rows[tx[t].student] = requests[tx[t].req].before

(* An approval that stands goes on to wait for its target. *)
Judge(t) ==
  /\ tx[t].phase = "judging" /\ tx[t].act = "approve"
  /\ StillPending(t)
  /\ MayDecide(t)
  /\ Correctable(tx[t].date, tx[t].student, tx[t].now)
  /\ Becomes(t, [tx[t] EXCEPT !.phase = "applying", !.self = OwnRequest(t)])
  /\ UNCHANGED <<rosterVars, adminVars, recordVars, requests, lockVars>>

CommitDecision(t) ==
  /\ tx[t].phase = "judging"
  /\ StillPending(t)
  /\ \E state \in {"rejected", "withdrawn"} :
       /\ \/ state = "withdrawn" /\ tx[t].act = "withdraw"
          \/ state = "rejected" /\ tx[t].act = "reject" /\ MayDecide(t)
       /\ requests' = [requests EXCEPT ![tx[t].req].state = state,
                                       ![tx[t].req].decidedBy = tx[t].who]
  /\ Ended(t)
  /\ UNCHANGED <<rosterVars, adminVars, recordVars>>

(* The target still holds the request's before value: the mark changes and  *)
(* the request is approved in one commit.                                   *)
CommitApproval(t) ==
  LET d == tx[t].date
      s == tx[t].student
      r == tx[t].req
  IN /\ tx[t].phase = "applied"
     /\ TargetUnchanged(t)
     /\ attendance' = [attendance EXCEPT ![d][s] = tx[t].after]
     /\ audit' = IF tx[t].rows[s] = None THEN audit
                 ELSE [audit EXCEPT ![d][s] = <<tx[t].rows[s], tx[t].after>>]
     /\ requests' = [requests EXCEPT ![r].state = "approved", ![r].decidedBy = tx[t].who,
                                     ![r].self = tx[t].self]
     /\ Ended(t)
     /\ UNCHANGED <<rosterVars, adminVars, opened, captured>>

-----------------------------------------------------------------------------
(* What the handlers refuse once they hold a lock: the transaction rolls    *)
(* back, a session it opened or captured with it.                           *)
Refusable(t) ==
  \/ /\ tx[t].phase = "holding" /\ tx[t].act = "save"
     /\ ~NamesCaptured(t)
  \/ tx[t].phase = "raised" /\ tx[t].rows[tx[t].student] = tx[t].after
  \/ /\ tx[t].phase = "judging"
     /\ \/ ~StillPending(t)
        \/ tx[t].act \in {"approve", "reject"} /\ ~MayDecide(t)
        \/ tx[t].act = "approve" /\ ~Correctable(tx[t].date, tx[t].student, tx[t].now)
  \/ tx[t].phase = "applied" /\ ~TargetUnchanged(t)

RolledBack(t) ==
  /\ Ended(t)
  /\ UNCHANGED <<rosterVars, adminVars, recordVars, requests>>

Refuse(t) == Refusable(t) /\ RolledBack(t)

(* The connection or the instance is lost: PostgreSQL rolls back. *)
Abort(t) == tx[t].phase \notin {"idle", "loaded"} /\ RolledBack(t)

(* A School Administrator membership granted by an active one, or revoked, *)
(* the last active one not excepted.                                       *)
GrantAdministrator(p) ==
  /\ admins # {} /\ p \notin admins
  /\ admins' = admins \union {p}

RevokeAdministrator(p) ==
  /\ p \in admins
  /\ admins' = admins \ {p}

AdministratorChange ==
  /\ adminMoves < MaxAdminMoves
  /\ adminMoves' = adminMoves + 1
  /\ \E p \in Persons : GrantAdministrator(p) \/ RevokeAdministrator(p)
  /\ UNCHANGED <<rosterVars, recordVars, requests, lockVars, tx>>

(* Slip: no snapshot keeps its memberships. *)
KeptNothing == {}

(* The memberships captures not yet committed hold, and those captured. *)
Held == UNION {tx[t].adds : t \in Txns}
Kept == UNION {captured[d] : d \in InstructionalDays}

RosterChange ==
  /\ RosterNext(Held, Kept)
  /\ UNCHANGED <<adminVars, recordVars, requests, lockVars, tx>>

-----------------------------------------------------------------------------
(* A step a transaction takes of itself, and one that waits its turn. *)
Proceed(t) == ReadSession(t) \/ CommitSave(t) \/ CommitRefresh(t) \/ CommitRaise(t)
              \/ Judge(t) \/ CommitDecision(t) \/ CommitApproval(t) \/ Refuse(t)
Acquire(t) == HoldSession(t) \/ HoldTarget(t) \/ HoldRequest(t)

Start(t) ==
  \/ \E want \in Rows, fill \in BOOLEAN : BeginSave(t, want, fill)
  \/ \E p \in Persons, d \in InstructionalDays : Load(t, p, d) \/ BeginRefresh(t, p, d)
  \/ \E p \in Persons, r \in Requests, d \in InstructionalDays, s \in Students, after \in Statuses :
       BeginRaise(t, p, r, d, s, after)
  \/ \E p \in Persons, r \in Requests, act \in {"approve", "reject", "withdraw"} :
       BeginDecide(t, p, r, act)

Next ==
  \/ \E t \in Txns : Start(t) \/ Acquire(t) \/ Proceed(t) \/ Abort(t)
  \/ AdministratorChange
  \/ RosterChange

Spec == Init /\ [][Next]_vars

(* PostgreSQL grants a lock in the order it was asked for, so a transaction *)
(* whose lock is released again and again gets it; a handler's next query   *)
(* is always sent.  No actor is obliged to start anything.                  *)
Fairness == \A t \in Txns : WF_vars(Proceed(t)) /\ SF_vars(Acquire(t))
FairSpec == Spec /\ Fairness

-----------------------------------------------------------------------------
(* No lost update: a save changes a mark only while it still says what the  *)
(* client had loaded, however many saves and approvals ran in between       *)
(* (attendance/routes.ts, the "stale" refusal under the session's lock).    *)
SavedOverLoaded ==
  [][\A t \in Txns, d \in InstructionalDays, s \in Students :
       tx[t].phase = "ready" /\ tx'[t] = Idle /\ attendance'[d][s] # attendance[d][s]
         => d = tx[t].date /\ attendance[d][s] = tx[t].view[s]]_vars

(* Nobody is marked on a date after the one on which their departure was    *)
(* committed, though departures run between a save's or an approval's checks *)
(* and its commit, and are dated by the day their transaction began, which   *)
(* may be an earlier one (sessions.ts capturedStudents, studentProblem;      *)
(* enrollments.ts, the date an Enrollment ends).                             *)
MarkedBeforeLeaving ==
  \A d \in InstructionalDays, s \in Students : attendance[d][s] # None => NotLeftBefore(s, d)

(* A Student marked on a date whose snapshot never captured them was marked *)
(* by an approved Correction request, as serveSession tells its reader.     *)
UncapturedOnlyByCorrection ==
  \A d \in InstructionalDays, s \in Students :
    attendance[d][s] # None /\ s \notin CapturedStudents(captured[d])
      => \E r \in Requests : /\ requests[r].state = "approved"
                             /\ requests[r].date = d /\ requests[r].student = s

(* A Roster snapshot refers to memberships that still exist, whatever moves, *)
(* endings and departures of the roster its captures ran between             *)
(* (captureRosters, and the foreign key of migrations/0022).                  *)
SnapshotMembersExist ==
  \A d \in InstructionalDays : \A m \in captured[d] : roster[m] # None

(* The trail of a mark leads to it: its latest Audit record says what it now *)
(* says, though saves write their records from what they read and approvals  *)
(* theirs (attendance/routes.ts recordChange; applyAttendance).               *)
AuditLeadsToTheMark ==
  \A d \in InstructionalDays, s \in Students :
    audit[d][s] # None => audit[d][s][2] = attendance[d][s]

(* A request becomes approved only from Pending, and in the very step in    *)
(* which its mark goes from its before value to its after value             *)
(* (correction-requests/routes.ts, PATCH, "approved").                      *)
ApprovalAppliesItsChange ==
  [][\A r \in Requests :
       requests[r].state # "approved" /\ requests'[r].state = "approved"
         => LET d == requests[r].date
                s == requests[r].student
            IN /\ requests[r].state = "pending"
               /\ attendance[d][s] = requests[r].before
               /\ attendance'[d][s] = requests[r].after]_vars

(* Behind its transactions, locks and stale reads, the component keeps the  *)
(* ledger's promise: atomic changes, truthful audit, requests decided once. *)
ImplementsLedger == Ledger!Spec

(* Every transaction begun ends: no cycle of waits among saves, raises and  *)
(* decisions, and no lock left held by a handler that has answered.         *)
EveryTransactionEnds ==
  \A t \in Txns : tx[t].phase \notin {"idle", "loaded"} ~> tx[t].phase = "idle"

(* What approverStanding says of deciding one's own request: "which they    *)
(* may only as the School's one active School Administrator".               *)
SelfApprovalBySoleAdministrator ==
  [][\A t \in Txns : ~tx[t].self /\ tx'[t].self => admins = {tx[t].who}]_vars

(* What endToday says of a participation it removes: "one that has not      *)
(* begun has held nothing", and so no Roster snapshot holds it.             *)
NotBegunHoldsNothing ==
  \A m \in Memberships, d \in InstructionalDays : Removes(m, today) => m \notin captured[d]

-----------------------------------------------------------------------------
(* The inductive invariant behind the theorems. *)
SessionPhases == {"holding", "ready", "raised", "applied"}
RequestPhases == {"judging", "applying", "applied"}
DecidingPhases == RequestPhases \union {"deciding"}
WritingPhases == {"waiting", "holding", "ready", "applying", "applied"}

(* A transaction past a wait holds the lock it waited for. *)
HoldsItsLocks(t) ==
  /\ tx[t].phase \in SessionPhases => sessionLock[tx[t].date] = t
  /\ tx[t].phase \in RequestPhases => requestLock[tx[t].req] = t

(* What a transaction read under its lock still stands. *)
ReadStands(t) ==
  /\ tx[t].phase \in {"ready", "raised", "applied"} => tx[t].rows = attendance[tx[t].date]
  /\ tx[t].phase \in {"applying", "applied"} =>
       /\ requests[tx[t].req].state = "pending"
       /\ tx[t].self = (requests[tx[t].req].by = tx[t].who)

(* What each phase of a save, and of a raise, knows of its own record. *)
SaveSound(t) ==
  /\ tx[t].phase = "ready" => tx[t].act = "save"
  /\ tx[t].adds # {} => tx[t].phase \in {"holding", "ready"}
  /\ tx[t].markable # {} => tx[t].phase = "ready"

RaiseSound(t) ==
  tx[t].phase \in {"raising", "raised"} =>
    /\ tx[t].req \in Requests /\ tx[t].student \in Students /\ tx[t].after \in Statuses
    /\ requests[tx[t].req].state = "none"
    /\ \A u \in Txns : tx[u].req = tx[t].req => u = t

(* A decision names a request raised, and its target. *)
DecisionSound(t) ==
  tx[t].phase \in DecidingPhases =>
    /\ tx[t].req \in Requests
    /\ requests[tx[t].req].state # "none"
    /\ tx[t].date = requests[tx[t].req].date /\ tx[t].student = requests[tx[t].req].student
    /\ tx[t].after = requests[tx[t].req].after
    /\ tx[t].act = "withdraw" => tx[t].who = requests[tx[t].req].by

(* Whoever writes a mark writes it on an Instructional day not after today. *)
DatesSound(t) ==
  /\ tx[t].phase # "idle" => tx[t].who \in Persons /\ tx[t].date \in InstructionalDays
  /\ tx[t].phase \notin {"idle", "loaded"} => tx[t].now \in Days /\ tx[t].now <= today
  /\ tx[t].phase \in WritingPhases => tx[t].date <= today

Sound(t) ==
  /\ HoldsItsLocks(t) /\ ReadStands(t) /\ SaveSound(t)
  /\ RaiseSound(t) /\ DecisionSound(t) /\ DatesSound(t)

TxSound == \A t \in Txns : Sound(t)

(* A request raised names a target of the offering, and would change it. *)
RequestsSound ==
  \A r \in Requests : requests[r].state # "none" =>
    /\ requests[r].date \in InstructionalDays /\ requests[r].student \in Students
    /\ requests[r].after \in Statuses /\ requests[r].by \in Persons
    /\ requests[r].before # requests[r].after

MembersExist ==
  /\ SnapshotMembersExist
  /\ \A t \in Txns : \A m \in tx[t].adds : roster[m] # None

MarksSound ==
  \A d \in InstructionalDays, s \in Students :
    /\ attendance[d][s] # None => d <= today
    /\ audit[d][s] # None => audit[d][s][2] = attendance[d][s]

IInv ==
  /\ TypeOK
  /\ TxSound
  /\ RequestsSound
  /\ MembersExist
  /\ MarksSound

(* An Enrollment ends no later than the day its ending commits, and whoever  *)
(* a transaction found it may mark on a date had not left before that date.  *)
LeavingSound ==
  /\ MarkedBeforeLeaving
  /\ \A s \in Students : enrolledTo[s] <= leftOn[s]
  /\ \A t \in Txns : \A s \in tx[t].markable : NotLeftBefore(s, tx[t].date)
  /\ \A t \in Txns : tx[t].phase \in {"applying", "applied"} => NotLeftBefore(tx[t].student, tx[t].date)

(* No mark is ever removed, so one a client loaded is still there. *)
LoadedSound ==
  \A t \in Txns, s \in Students :
    tx[t].view[s] # None => tx[t].phase # "idle" /\ attendance[tx[t].date][s] # None

(* Whoever a save found it may mark, its snapshot captured. *)
CapturedSound ==
  /\ UncapturedOnlyByCorrection
  /\ \A t \in Txns : \A s \in tx[t].markable : s \in CapturedStudents(Snapshot(t))

=============================================================================
