----------------------------- MODULE MarkLedger -----------------------------
(***************************************************************************)
(* What one Class Offering's Attendance promises its readers, with none of *)
(* the transactions, locks or loaded forms that keep the promise: a mark   *)
(* changes in one step, every change of a mark already there is audited    *)
(* with the value it replaced, and a Correction request is decided once    *)
(* and applied in the step that approves it.                               *)
(***************************************************************************)
CONSTANTS Dates,                \* School dates Attendance may be recorded on
          Students,
          Persons,              \* Faculty and School Administrators
          Requests,             \* identities a Correction request may take
          Statuses,
          AbsentPendingReview,  \* the status only an approved request resolves
          None

VARIABLES
  marks,     \* the status recorded for each date and Student, None where there is none
  audit,     \* the latest Audit record of each mark: <<before, after>>, None before any
  requests   \* the Correction requests

ledgerVars == <<marks, audit, requests>>

Rows == [Students -> Statuses \union {None}]
States == {"none", "pending", "approved", "rejected", "withdrawn"}

Request == [state: States, date: Dates \union {None}, student: Students \union {None},
            before: Statuses \union {None}, after: Statuses \union {None},
            by: Persons \union {None}, decidedBy: Persons \union {None}, self: BOOLEAN]

NoRequest == [state |-> "none", date |-> None, student |-> None, before |-> None,
              after |-> None, by |-> None, decidedBy |-> None, self |-> FALSE]

LedgerTypeOK ==
  /\ marks \in [Dates -> Rows]
  /\ audit \in [Dates -> [Students -> (Statuses \X Statuses) \union {None}]]
  /\ requests \in [Requests -> Request]

Init ==
  /\ marks = [d \in Dates |-> [s \in Students |-> None]]
  /\ audit = [d \in Dates |-> [s \in Students |-> None]]
  /\ requests = [r \in Requests |-> NoRequest]

-----------------------------------------------------------------------------
(* The Audit records a date's marks have once they become `new`. *)
Audited(d, new) ==
  [s \in Students |-> IF marks[d][s] # None /\ new[s] # marks[d][s]
                      THEN <<marks[d][s], new[s]>>
                      ELSE audit[d][s]]

Write(d, new) ==
  /\ marks' = [marks EXCEPT ![d] = new]
  /\ audit' = [audit EXCEPT ![d] = Audited(d, new)]

(* A save removes no mark, and leaves one pending review as it is. *)
Save(d, new) ==
  /\ \A s \in Students : new[s] # marks[d][s]
       => new[s] # None /\ marks[d][s] # AbsentPendingReview
  /\ Write(d, new)
  /\ UNCHANGED requests

Raise(r, d, s, after, p) ==
  /\ requests[r].state = "none"
  /\ after # marks[d][s]
  /\ requests' = [requests EXCEPT ![r] =
       [NoRequest EXCEPT !.state = "pending", !.date = d, !.student = s,
                         !.before = marks[d][s], !.after = after, !.by = p]]
  /\ UNCHANGED <<marks, audit>>

Approve(r, p) ==
  /\ requests[r].state = "pending"
  /\ LET d == requests[r].date
         s == requests[r].student
     IN /\ marks[d][s] = requests[r].before
        /\ Write(d, [marks[d] EXCEPT ![s] = requests[r].after])
  /\ requests' = [requests EXCEPT ![r].state = "approved", ![r].decidedBy = p,
                                  ![r].self = (requests[r].by = p)]

(* Rejected by a School Administrator, or withdrawn by its requester alone. *)
Close(r, p, state) ==
  /\ requests[r].state = "pending"
  /\ state \in {"rejected", "withdrawn"}
  /\ state = "withdrawn" => p = requests[r].by
  /\ requests' = [requests EXCEPT ![r].state = state, ![r].decidedBy = p]
  /\ UNCHANGED <<marks, audit>>

Next ==
  \/ \E d \in Dates, new \in Rows : Save(d, new)
  \/ \E r \in Requests, d \in Dates, s \in Students, after \in Statuses, p \in Persons :
       Raise(r, d, s, after, p)
  \/ \E r \in Requests, p \in Persons :
       Approve(r, p) \/ \E state \in {"rejected", "withdrawn"} : Close(r, p, state)

Spec == Init /\ [][Next]_ledgerVars

=============================================================================
