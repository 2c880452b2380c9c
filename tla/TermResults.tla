---------------------------- MODULE TermResults ----------------------------
(***************************************************************************)
(* Recording, publishing and correcting the Term results of one Class      *)
(* Offering, and saving the Result value scale they are chosen from.       *)
(*                                                                         *)
(* As in Attendance, every request of an actor runs as one transaction t,  *)
(* one action for each stretch of its handler between two points where     *)
(* another transaction may commit, and keeps what it read in tx[t].  The   *)
(* roster and the Term are the little of them a Publication asks about;    *)
(* who teaches the offering and who administers the School are fixed.      *)
(***************************************************************************)
EXTENDS Integers, Sequences, FiniteSets

CONSTANTS Students,
          Teachers,         \* Faculty whose Teaching assignment is active
          Administrators,   \* active School Administrators
          Labels,           \* labels a Result value may have
          Notes,            \* what a score and comment together may say
          Scales,           \* the lists of values a Result value scale may be saved as
          LabelsOf,         \* the labels each holds
          FirstScale,       \* the one the School starts with
          Requests,         \* identities a Correction request may take
          Txns,             \* transactions that may be under way at once
          LastDay,          \* the latest School date the Term may end on
          MaxRosterMoves,   \* bound: changes made to the roster
          MaxTermMoves,     \* bound: changes made to the Term's last date
          MaxVersions,      \* bound: a save of the scale begins while it has fewer versions
          None              \* nothing: no result, no value, nobody

Persons == Teachers \union Administrators

ASSUME TermResultsAssumption ==
  /\ LastDay \in Nat \ {0}
  /\ MaxRosterMoves \in Nat /\ MaxTermMoves \in Nat /\ MaxVersions \in Nat
  /\ FirstScale \in Scales
  /\ LabelsOf \in [Scales -> SUBSET Labels]
  /\ None \notin Labels /\ None \notin Notes /\ None \notin Requests
  /\ None \notin Students /\ None \notin Persons /\ None \notin Txns /\ None \notin Scales

VARIABLES
  results,      \* each Student's Term result, None before any
  audit,        \* the latest term_result.changed record of each, None before any
  scales,       \* the versions of the School's Result value scale, in order
  requests,     \* the Correction requests
  termLast,     \* the Term's last School date
  rosteredTo,   \* when each Student's latest Roster membership ends: Open without a
                \* last date, 0 when they were never rostered
  rosterMoves,  \* how many changes of the roster, for the bound alone
  termMoves,    \* and of the Term
  resultsLock,  \* who holds the offering's results
  scaleLock,    \* who holds the School's scale
  requestLock,  \* who holds each Correction request's row
  tx            \* each transaction's own state

recordVars == <<results, audit, scales, requests>>
rosterVars == <<termLast, rosteredTo, rosterMoves, termMoves>>
lockVars == <<resultsLock, scaleLock, requestLock>>
vars == <<recordVars, rosterVars, lockVars, tx>>

Ledger == INSTANCE ResultLedger

-----------------------------------------------------------------------------
Ends == 1..LastDay
Open == LastDay + 1

Content == Ledger!Content
Blank == Ledger!Blank

Phases == {"idle", "loaded",               \* no transaction yet
           "deciding", "judging",          \* waiting for a request's row, and holding it
           "waiting", "holding", "ready",  \* waiting for the results, holding them, all read
           "scaling", "scaled"}            \* waiting for the scale, and holding it

Acts == {"save", "publish", "raise", "approve", "reject", "withdraw", "scale"}

(* None is nothing a variable holds otherwise. *)
ASSUME NoneIsNothing ==
  None \notin Nat \union Acts \union Content \union Ledger!Result \union (Ledger!Recorded \X Ledger!Recorded)

Tx == [phase: Phases, act: Acts \union {None}, who: Persons \union {None},
       view: [Students -> Content],                   \* what its client had loaded
       want: [Students -> Content \union {None}],     \* what it asks for, None for a Student it does not name
       term: Ends \union {None},                      \* the Term's last date, read before the transaction
       rows: [Students -> Ledger!Result \union {None}], \* the results it read under the lock
       version: Nat,                                  \* the current scale version it read
       values: Scales \union {None},                  \* the scale it saves
       req: Requests \union {None}, student: Students \union {None},
       after: Content \union {None}, self: BOOLEAN]

NoRows == [s \in Students |-> None]
Idle == [phase |-> "idle", act |-> None, who |-> None,
         view |-> [s \in Students |-> Blank], want |-> NoRows, term |-> None, rows |-> NoRows,
         version |-> 0, values |-> None, req |-> None, student |-> None, after |-> None,
         self |-> FALSE]

TypeOK ==
  /\ Ledger!LedgerTypeOK
  /\ termLast \in Ends
  /\ rosteredTo \in [Students -> 0..Open]
  /\ rosterMoves \in 0..MaxRosterMoves /\ termMoves \in 0..MaxTermMoves
  /\ resultsLock \in Txns \union {None} /\ scaleLock \in Txns \union {None}
  /\ requestLock \in [Requests -> Txns \union {None}]
  /\ tx \in [Txns -> Tx]

(* Every Student rostered for the whole Term, or not at all. *)
Init ==
  /\ Ledger!Init
  /\ termLast = LastDay
  /\ rosteredTo \in [Students -> {0, Open}]
  /\ rosterMoves = 0 /\ termMoves = 0
  /\ resultsLock = None /\ scaleLock = None
  /\ requestLock = [r \in Requests |-> None]
  /\ tx = [t \in Txns |-> Idle]

-----------------------------------------------------------------------------
(* An operator marked "Slip:" is no part of the model: it is its neighbour *)
(* below as a plausible mistake in the code would have it.                 *)

Becomes(t, state) == tx' = [tx EXCEPT ![t] = state]

(* A transaction over, its locks with it. *)
Ended(t) ==
  /\ Becomes(t, Idle)
  /\ resultsLock' = IF resultsLock = t THEN None ELSE resultsLock
  /\ scaleLock' = IF scaleLock = t THEN None ELSE scaleLock
  /\ requestLock' = [r \in Requests |-> IF requestLock[r] = t THEN None ELSE requestLock[r]]

ResultsFree == resultsLock = None
RequestFree(r) == requestLock[r] = None

Rostered(s) == rosteredTo[s] # 0

(* Slip: whoever is rostered to the Term's last date has left too. *)
LeftEarly(s, last) == Rostered(s) /\ rosteredTo[s] <= last

(* A Student has left when their latest membership ended before the Term did. *)
Left(s, last) == Rostered(s) /\ rosteredTo[s] < last

(* An active roster member, by the Term ending on this date. *)
Active(s, last) == Rostered(s) /\ ~Left(s, last)

-----------------------------------------------------------------------------
(* GET term-results: what a client shows its Faculty member, to be sent *)
(* back as the content each draft was loaded with.                      *)
Load(t) ==
  /\ tx[t].phase \in {"idle", "loaded"}
  /\ Teachers # {}
  /\ Becomes(t, [Idle EXCEPT !.phase = "loaded", !.act = "save",
                             !.view = [s \in Students |-> Ledger!SaysOf(results[s])]])
  /\ UNCHANGED <<recordVars, rosterVars, lockVars>>

(* PATCH term-results, up to the wait for the offering's results. *)
BeginSave(t, want) ==
  /\ tx[t].phase = "loaded"
  /\ Becomes(t, [tx[t] EXCEPT !.phase = "waiting", !.want = want])
  /\ UNCHANGED <<recordVars, rosterVars, lockVars>>

(* POST publications: the offering and its Term are read before the *)
(* transaction that waits for the results.                          *)
BeginPublish(t) ==
  /\ tx[t] = Idle
  /\ Persons # {}
  /\ Becomes(t, [Idle EXCEPT !.phase = "waiting", !.act = "publish", !.term = termLast])
  /\ UNCHANGED <<recordVars, rosterVars, lockVars>>

(* POST correction-requests for a Term result.  The request's identity is *)
(* fresh, so no other transaction has it.                                 *)
BeginRaise(t, p, r, s, after) ==
  /\ tx[t] = Idle
  /\ requests[r].state = "none"
  /\ \A u \in Txns : tx[u].req # r
  /\ Becomes(t, [Idle EXCEPT !.phase = "waiting", !.act = "raise", !.who = p, !.req = r,
                             !.student = s, !.after = after])
  /\ UNCHANGED <<recordVars, rosterVars, lockVars>>

(* The results are granted, and read. *)
HoldResults(t) ==
  /\ tx[t].phase = "waiting"
  /\ ResultsFree
  /\ resultsLock' = t
  /\ Becomes(t, [tx[t] EXCEPT !.phase = "holding", !.rows = results])
  /\ UNCHANGED <<recordVars, rosterVars, scaleLock, requestLock>>

-----------------------------------------------------------------------------
Row(t) == tx[t].rows[tx[t].student]

TargetUnchanged(t) == Row(t).says = requests[tx[t].req].before

(* What a holder of the results must find before it reads on. *)
Proceeds(t) ==
  \/ tx[t].act = "save" /\ \A s \in Students : tx[t].want[s] # None => Rostered(s)
  \/ tx[t].act = "raise" /\ Ledger!Published(Row(t)) /\ Row(t).says # tx[t].after
  \/ tx[t].act = "approve" /\ TargetUnchanged(t)

(* A save, a raise and an approval read the current scale version. *)
ReadScale(t) ==
  /\ tx[t].phase = "holding"
  /\ Proceeds(t)
  /\ Becomes(t, [tx[t] EXCEPT !.phase = "ready", !.version = Len(scales)])
  /\ UNCHANGED <<recordVars, rosterVars, lockVars>>

(* A Publication's outlook: what it would publish, and whom it waits on. *)
Ready(t) == {s \in Students : Ledger!Publishable(tx[t].rows[s])}
Missing(t) == {s \in Students : Active(s, tx[t].term) /\ Ledger!SaysOf(tx[t].rows[s]).value = None}

ReadOutlook(t) ==
  /\ tx[t].phase = "holding" /\ tx[t].act = "publish"
  /\ Missing(t) = {} /\ Ready(t) # {}
  /\ Becomes(t, [tx[t] EXCEPT !.phase = "ready"])
  /\ UNCHANGED <<recordVars, rosterVars, lockVars>>

InScale(t, value) == value \in LabelsOf[scales[tx[t].version]]

(* A value left as it was, or none, or one of the current scale. *)
Allowed(t, old, new) == new.value \in {old.value, None} \/ InScale(t, new.value)

(* Slip: whatever value is saved is bound to the current version. *)
BoundAnew(t, row, says) == IF says.value = None THEN 0 ELSE tx[t].version

(* The version the value of a row now saying `says` is bound to. *)
Bound(t, row, says) ==
  IF says.value = Ledger!SaysOf(row).value THEN Ledger!VersionOf(row)
  ELSE IF says.value = None THEN 0 ELSE tx[t].version

-----------------------------------------------------------------------------
(* Slip: the content loaded is not compared. *)
AppliesOverAnything(t, s) ==
  LET held == Ledger!SaysOf(tx[t].rows[s])
      want == tx[t].want[s]
  IN want # None /\ ~Ledger!Published(tx[t].rows[s]) /\ want # held /\ Allowed(t, held, want)

(* A draft applies when its result is not published, still says what was *)
(* loaded, would change, and takes a value the scale holds.              *)
Applies(t, s) ==
  LET held == Ledger!SaysOf(tx[t].rows[s])
      want == tx[t].want[s]
  IN /\ want # None
     /\ ~Ledger!Published(tx[t].rows[s])
     /\ held = tx[t].view[s]
     /\ want # held
     /\ Allowed(t, held, want)

Draft(t, s) == [says |-> tx[t].want[s], version |-> Bound(t, tx[t].rows[s], tx[t].want[s]),
                published |-> FALSE]

Audits(t, s) == tx[t].rows[s] # None /\ Applies(t, s)

SaveRecord(t, s) ==
  <<IF tx[t].rows[s] = None THEN None ELSE Ledger!RecordOf(tx[t].rows[s]),
    Ledger!RecordOf(Draft(t, s))>>

CommitSave(t) ==
  /\ tx[t].phase = "ready" /\ tx[t].act = "save"
  /\ results' = [s \in Students |-> IF Applies(t, s) THEN Draft(t, s) ELSE results[s]]
  /\ audit' = [s \in Students |-> IF Audits(t, s) THEN SaveRecord(t, s) ELSE audit[s]]
  /\ Ended(t)
  /\ UNCHANGED <<scales, requests, rosterVars>>

Publishes(t) == Ready(t)

CommitPublication(t) ==
  /\ tx[t].phase = "ready" /\ tx[t].act = "publish"
  /\ results' = [s \in Students |-> IF s \in Publishes(t)
                                    THEN [results[s] EXCEPT !.published = TRUE] ELSE results[s]]
  /\ Ended(t)
  /\ UNCHANGED <<audit, scales, requests, rosterVars>>

CommitRaise(t) ==
  /\ tx[t].phase = "ready" /\ tx[t].act = "raise"
  /\ Allowed(t, Row(t).says, tx[t].after)
  /\ requests' = [requests EXCEPT ![tx[t].req] =
       [state |-> "pending", student |-> tx[t].student, before |-> Row(t).says,
        after |-> tx[t].after, by |-> tx[t].who, decidedBy |-> None, self |-> FALSE]]
  /\ Ended(t)
  /\ UNCHANGED <<results, audit, scales, rosterVars>>

-----------------------------------------------------------------------------
(* PATCH correction-requests, up to the wait for the request's row. *)
BeginDecide(t, p, r, act) ==
  /\ tx[t] = Idle
  /\ requests[r].state # "none"
  /\ \/ act \in {"approve", "reject"} /\ p \in Administrators
     \/ act = "withdraw" /\ p = requests[r].by
  /\ Becomes(t, [Idle EXCEPT !.phase = "deciding", !.act = act, !.who = p, !.req = r,
                             !.student = requests[r].student, !.after = requests[r].after])
  /\ UNCHANGED <<recordVars, rosterVars, lockVars>>

HoldRequest(t) ==
  /\ tx[t].phase = "deciding"
  /\ RequestFree(tx[t].req)
  /\ requestLock' = [requestLock EXCEPT ![tx[t].req] = t]
  /\ Becomes(t, [tx[t] EXCEPT !.phase = "judging"])
  /\ UNCHANGED <<recordVars, rosterVars, resultsLock, scaleLock>>

OwnRequest(t) == requests[tx[t].req].by = tx[t].who
MayDecide(t) == OwnRequest(t) => Cardinality(Administrators) = 1

(* Slip: the state found before the lock is trusted. *)
FoundPending(t) == tx[t].phase = "judging"

StillPending(t) == requests[tx[t].req].state = "pending"

(* An approval that stands goes on to wait for the results. *)
Judge(t) ==
  /\ tx[t].phase = "judging" /\ tx[t].act = "approve"
  /\ StillPending(t)
  /\ MayDecide(t)
  /\ Becomes(t, [tx[t] EXCEPT !.phase = "waiting", !.self = OwnRequest(t)])
  /\ UNCHANGED <<recordVars, rosterVars, lockVars>>

CommitDecision(t) ==
  /\ tx[t].phase = "judging"
  /\ StillPending(t)
  /\ \E state \in {"rejected", "withdrawn"} :
       /\ \/ state = "withdrawn" /\ tx[t].act = "withdraw"
          \/ state = "rejected" /\ tx[t].act = "reject" /\ MayDecide(t)
       /\ requests' = [requests EXCEPT ![tx[t].req].state = state,
                                       ![tx[t].req].decidedBy = tx[t].who]
  /\ Ended(t)
  /\ UNCHANGED <<results, audit, scales, rosterVars>>

(* The result takes the request's after content, audited, and the request *)
(* is approved, in one commit.                                            *)
CommitApproval(t) ==
  LET s == tx[t].student
      r == tx[t].req
      corrected == [says |-> tx[t].after, version |-> Bound(t, Row(t), tx[t].after),
                    published |-> TRUE]
  IN /\ tx[t].phase = "ready" /\ tx[t].act = "approve"
     /\ Allowed(t, Row(t).says, tx[t].after)
     /\ results' = [results EXCEPT ![s] = corrected]
     /\ audit' = [audit EXCEPT ![s] = <<Ledger!RecordOf(Row(t)), Ledger!RecordOf(corrected)>>]
     /\ requests' = [requests EXCEPT ![r].state = "approved", ![r].decidedBy = tx[t].who,
                                     ![r].self = tx[t].self]
     /\ Ended(t)
     /\ UNCHANGED <<scales, rosterVars>>

-----------------------------------------------------------------------------
(* POST result-value-scale: a School Administrator saves the whole scale, *)
(* once the versions saved before are committed.                          *)
BeginScale(t, values) ==
  /\ tx[t] = Idle
  /\ Administrators # {} /\ Len(scales) < MaxVersions
  /\ Becomes(t, [Idle EXCEPT !.phase = "scaling", !.act = "scale", !.values = values])
  /\ UNCHANGED <<recordVars, rosterVars, lockVars>>

HoldScale(t) ==
  /\ tx[t].phase = "scaling"
  /\ scaleLock = None
  /\ scaleLock' = t
  /\ Becomes(t, [tx[t] EXCEPT !.phase = "scaled", !.version = Len(scales)])
  /\ UNCHANGED <<recordVars, rosterVars, resultsLock, requestLock>>

(* Slip: what is saved is not compared with what is current. *)
AlwaysNew(t) == tx[t].phase = "scaled"

NewValues(t) == tx[t].values # scales[tx[t].version]

CommitScale(t) ==
  /\ tx[t].phase = "scaled"
  /\ NewValues(t)
  /\ scales' = Append(SubSeq(scales, 1, tx[t].version), tx[t].values)
  /\ Ended(t)
  /\ UNCHANGED <<results, audit, requests, rosterVars>>

-----------------------------------------------------------------------------
(* What the handlers refuse once they hold a lock. *)
Refusable(t) ==
  \/ tx[t].phase = "holding" /\ tx[t].act # "publish" /\ ~Proceeds(t)
  \/ tx[t].phase = "holding" /\ tx[t].act = "publish" /\ (Missing(t) # {} \/ Ready(t) = {})
  \/ /\ tx[t].phase = "ready" /\ tx[t].act \in {"raise", "approve"}
     /\ ~Allowed(t, Row(t).says, tx[t].after)
  \/ /\ tx[t].phase = "judging"
     /\ ~StillPending(t) \/ (tx[t].act # "withdraw" /\ ~MayDecide(t))
  \/ tx[t].phase = "scaled" /\ ~NewValues(t)

RolledBack(t) == Ended(t) /\ UNCHANGED <<recordVars, rosterVars>>

Refuse(t) == Refusable(t) /\ RolledBack(t)

(* The connection or the instance is lost: PostgreSQL rolls back. *)
Abort(t) == tx[t].phase \notin {"idle", "loaded"} /\ RolledBack(t)

-----------------------------------------------------------------------------
(* A Roster membership made, moved, ended or removed, inside the Term. *)
MoveRoster(s, to) ==
  /\ rosterMoves < MaxRosterMoves
  /\ to # rosteredTo[s]
  /\ to \in {0, Open} \/ to <= termLast
  /\ rosteredTo' = [rosteredTo EXCEPT ![s] = to]
  /\ rosterMoves' = rosterMoves + 1
  /\ UNCHANGED <<recordVars, termLast, termMoves, lockVars, tx>>

(* The Term shortened or extended, stranding no membership outside it. *)
MoveTerm(to) ==
  /\ termMoves < MaxTermMoves
  /\ to # termLast
  /\ \A s \in Students : rosteredTo[s] # Open => rosteredTo[s] <= to
  /\ termLast' = to
  /\ termMoves' = termMoves + 1
  /\ UNCHANGED <<recordVars, rosteredTo, rosterMoves, lockVars, tx>>

Start(t) ==
  \/ Load(t)
  \/ \E want \in [Students -> Content \union {None}] : BeginSave(t, want)
  \/ BeginPublish(t)
  \/ \E p \in Persons, r \in Requests, s \in Students, after \in Ledger!PublishedContent :
       BeginRaise(t, p, r, s, after)
  \/ \E p \in Persons, r \in Requests, act \in {"approve", "reject", "withdraw"} :
       BeginDecide(t, p, r, act)
  \/ \E values \in Scales : BeginScale(t, values)

Acquire(t) == HoldResults(t) \/ HoldRequest(t) \/ HoldScale(t)

Proceed(t) ==
  \/ ReadScale(t) \/ ReadOutlook(t) \/ Judge(t)
  \/ CommitSave(t) \/ CommitPublication(t) \/ CommitRaise(t)
  \/ CommitDecision(t) \/ CommitApproval(t) \/ CommitScale(t)
  \/ Refuse(t)

Next ==
  \/ \E t \in Txns : Start(t) \/ Acquire(t) \/ Proceed(t) \/ Abort(t)
  \/ \E s \in Students, to \in 0..Open : MoveRoster(s, to)
  \/ \E to \in Ends : MoveTerm(to)

Spec == Init /\ [][Next]_vars

-----------------------------------------------------------------------------
(* No lost update: a save changes a draft only while it still says what its *)
(* client had loaded, and never a published result, though saves and        *)
(* Publications of others commit in between (term-result-routes.ts, the     *)
(* "stale" and "published" refusals under the lock).                        *)
SavedOverLoaded ==
  [][\A t \in Txns, s \in Students :
       tx[t].act = "save" /\ tx'[t] = Idle /\ results'[s] # results[s]
         => Ledger!SaysOf(results[s]) = tx[t].view[s] /\ ~Ledger!Published(results[s])]_vars

(* Publication cannot be undone, and what it published changes only in the  *)
(* step that approves a request holding its content before and after, never *)
(* by a save that read the draft first (migrations/0026; CONTEXT.md:        *)
(* Publication).                                                            *)
PublishedOnlyCorrected ==
  [][\A s \in Students : Ledger!Published(results[s]) /\ results'[s] # results[s] =>
       /\ Ledger!Published(results'[s])
       /\ \E r \in Requests :
            /\ requests[r].state = "pending" /\ requests'[r].state = "approved"
            /\ requests[r].student = s
            /\ requests[r].before = results[s].says
            /\ requests[r].after = results'[s].says]_vars

(* A Publication goes on only once everyone on the roster until the last    *)
(* day of the Term, as it read that day before it waited, has a value, and  *)
(* the roster and the results as it finds them under the lock, however      *)
(* either and the Term itself have moved since (term-result-routes.ts,      *)
(* publicationOutlook over the Term of the offering it was asked about).    *)
PublicationWaitsByItsTerm ==
  [][\A t \in Txns :
       tx[t].act = "publish" /\ tx[t].phase = "holding" /\ tx'[t].phase = "ready"
         => \A s \in Students :
              rosteredTo[s] >= tx[t].term => Ledger!SaysOf(results[s]).value # None]_vars

(* By the Term as it stands then, what is documented of a Publication:      *)
(* whoever is on the roster until the Term's last day has a value           *)
(* (CONTEXT.md: Publication, "is refused while any active roster member's   *)
(* result lacks a value").  A Term shortened while the Publication waits    *)
(* breaks it (shortened.cfg).                                               *)
PublicationWaits ==
  [][\A t \in Txns :
       tx[t].act = "publish" /\ tx[t].phase = "holding" /\ tx'[t].phase = "ready"
         => \A s \in Students :
              rosteredTo[s] >= termLast => Ledger!SaysOf(results[s]).value # None]_vars

(* However the scale is saved meanwhile, a result's value is one its own    *)
(* version holds, it is bound to a version just when it has a value, and a  *)
(* published result has one (migrations/0025, 0026; boundValueId).          *)
ResultsBound ==
  \A s \in Students : results[s] # None =>
    /\ results[s].says.value = None <=> results[s].version = 0
    /\ results[s].says.value # None => Ledger!Holds(results[s].version, results[s].says.value)
    /\ results[s].published => results[s].says.value # None

(* The trail of a result leads to it: its latest Audit record says what it  *)
(* now says, bound to the version it is bound to (recordResultChange).      *)
TrailLeadsToTheResult ==
  \A s \in Students : audit[s] # None => audit[s][2] = Ledger!RecordOf(results[s])

(* Behind its transactions, locks and stale reads, the component keeps the *)
(* ledger's promise.                                                       *)
ImplementsResultLedger == Ledger!Spec

-----------------------------------------------------------------------------
(* The inductive invariant: who holds what, and what each still knows. *)
ResultsPhases == {"holding", "ready"}

HoldsItsLocks(t) ==
  /\ tx[t].phase \in ResultsPhases => resultsLock = t
  /\ tx[t].phase = "scaled" => scaleLock = t
  /\ tx[t].phase = "judging" \/ (tx[t].act = "approve" /\ tx[t].phase \in {"waiting", "holding", "ready"})
       => requestLock[tx[t].req] = t

ReadStands(t) ==
  /\ tx[t].phase \in ResultsPhases => tx[t].rows = results
  /\ tx[t].phase = "scaled" => tx[t].version = Len(scales)
  /\ tx[t].phase = "ready" /\ tx[t].act # "publish" => tx[t].version \in DOMAIN scales
  /\ tx[t].act = "approve" /\ tx[t].phase \in {"waiting", "holding", "ready"} =>
       /\ StillPending(t)
       /\ tx[t].self = OwnRequest(t)
  /\ tx[t].act = "approve" /\ tx[t].phase = "ready" => TargetUnchanged(t)

ActSound(t) ==
  /\ tx[t].phase = "loaded" => tx[t].act = "save"
  /\ tx[t].phase \in {"waiting"} \union ResultsPhases => tx[t].act \in {"save", "publish", "raise", "approve"}
  /\ tx[t].phase \in {"deciding", "judging"} => tx[t].act \in {"approve", "reject", "withdraw"}
  /\ tx[t].phase = "scaling" \/ tx[t].phase = "scaled" => tx[t].act = "scale" /\ tx[t].values # None
  /\ tx[t].act = "publish" => tx[t].term # None
  /\ tx[t].act = "publish" /\ tx[t].phase = "ready" => Ready(t) # {}

RaiseSound(t) ==
  tx[t].act = "raise" =>
    /\ tx[t].req \in Requests /\ tx[t].student \in Students /\ tx[t].who \in Persons
    /\ tx[t].after \in Ledger!PublishedContent
    /\ requests[tx[t].req].state = "none"
    /\ \A u \in Txns : tx[u].req = tx[t].req => u = t
    /\ tx[t].phase = "ready" => Ledger!Published(Row(t)) /\ Row(t).says # tx[t].after

DecisionSound(t) ==
  tx[t].act \in {"approve", "reject", "withdraw"} =>
    /\ tx[t].req \in Requests /\ tx[t].who \in Persons
    /\ requests[tx[t].req].state # "none"
    /\ tx[t].student = requests[tx[t].req].student
    /\ tx[t].after = requests[tx[t].req].after
    /\ tx[t].act = "withdraw" => tx[t].who = requests[tx[t].req].by

Sound(t) == HoldsItsLocks(t) /\ ReadStands(t) /\ ActSound(t) /\ RaiseSound(t) /\ DecisionSound(t)

TxSound == \A t \in Txns : Sound(t)

(* A request raised names a published result, and would change it. *)
RequestsSound ==
  \A r \in Requests : requests[r].state # "none" =>
    /\ requests[r].student \in Students /\ requests[r].by \in Persons
    /\ requests[r].before \in Ledger!PublishedContent
    /\ requests[r].after \in Ledger!PublishedContent
    /\ requests[r].before # requests[r].after
    /\ Ledger!Published(results[requests[r].student])

TrailSound == TrailLeadsToTheResult /\ \A s \in Students : audit[s] # None => results[s] # None

IInv == TypeOK /\ TxSound /\ RequestsSound /\ ResultsBound /\ TrailSound

=============================================================================
