---------------------------- MODULE ResultLedger ----------------------------
(***************************************************************************)
(* What one Class Offering's Term results promise their readers, with none *)
(* of the transactions, locks or loaded forms that keep the promise: every *)
(* result carrying a value is published in one step and stays published; a *)
(* published one changes only in the step that approves a Correction       *)
(* request; each change is audited with what it replaced; and a value is   *)
(* bound to a scale version that holds it until the value itself changes.  *)
(***************************************************************************)
EXTENDS Integers, Sequences

CONSTANTS Students,
          Persons,     \* Faculty and School Administrators
          Labels,      \* labels a Result value may have
          Notes,       \* what a score and comment together may say
          Scales,      \* the lists of values a Result value scale may be saved as
          LabelsOf,    \* the labels each holds
          FirstScale,  \* the one a School starts with
          Requests,    \* identities a Correction request may take
          None

VARIABLES
  results,   \* each Student's Term result, None before any
  audit,     \* the latest Audit record of each: <<before, after>>, None before any
  scales,    \* the versions of the School's Result value scale, in order
  requests   \* the Correction requests

ledgerVars == <<results, audit, scales, requests>>

Content == [value: Labels \union {None}, note: Notes \union {None}]
Blank == [value |-> None, note |-> None]
Result == [says: Content, version: Nat, published: BOOLEAN]
Recorded == [says: Content, version: Nat]

(* What a published result says: it carries a value. *)
PublishedContent == [value: Labels, note: Notes \union {None}]

States == {"none", "pending", "approved", "rejected", "withdrawn"}
Request == [state: States, student: Students \union {None},
            before: PublishedContent \union {None}, after: PublishedContent \union {None},
            by: Persons \union {None}, decidedBy: Persons \union {None}, self: BOOLEAN]
NoRequest == [state |-> "none", student |-> None, before |-> None, after |-> None,
              by |-> None, decidedBy |-> None, self |-> FALSE]

LedgerTypeOK ==
  /\ results \in [Students -> Result \union {None}]
  /\ audit \in [Students -> (Recorded \X Recorded) \union {None}]
  /\ scales \in Seq(Scales) /\ scales # <<>>
  /\ requests \in [Requests -> Request]

Init ==
  /\ results = [s \in Students |-> None]
  /\ audit = [s \in Students |-> None]
  /\ scales = <<FirstScale>>
  /\ requests = [r \in Requests |-> NoRequest]

-----------------------------------------------------------------------------
(* How a Student with no result reads: blank, and bound to no version. *)
SaysOf(result) == IF result = None THEN Blank ELSE result.says
VersionOf(result) == IF result = None THEN 0 ELSE result.version
Published(result) == result # None /\ result.published
RecordOf(result) == [says |-> result.says, version |-> result.version]

Holds(version, label) == version \in DOMAIN scales /\ label \in LabelsOf[scales[version]]

(* The version a result is bound to once it says `says`: its own while its *)
(* value is the same, none without one, and else one holding the value.    *)
BoundTo(result, says, version) ==
  IF says.value = SaysOf(result).value THEN version = VersionOf(result)
  ELSE IF says.value = None THEN version = 0
  ELSE Holds(version, says.value)

(* The Audit records of the results a step changes; a first one has none. *)
AuditChanges(changed) ==
  audit' = [s \in Students |->
              IF s \in changed /\ results[s] # None
              THEN <<RecordOf(results[s]), RecordOf(results'[s])>>
              ELSE audit[s]]

Changed == {s \in Students : results'[s] # results[s]}

(* A save changes drafts alone, and removes none. *)
Save ==
  /\ \A s \in Changed :
       /\ results'[s] # None
       /\ ~Published(results[s]) /\ ~Published(results'[s])
       /\ BoundTo(results[s], results'[s].says, results'[s].version)
  /\ AuditChanges(Changed)
  /\ UNCHANGED <<scales, requests>>

Publishable(result) == result # None /\ ~result.published /\ result.says.value # None

Publish ==
  /\ \E s \in Students : Publishable(results[s])
  /\ results' = [s \in Students |-> IF Publishable(results[s])
                                    THEN [results[s] EXCEPT !.published = TRUE]
                                    ELSE results[s]]
  /\ UNCHANGED <<audit, scales, requests>>

Raise(r, s, after, p) ==
  /\ requests[r].state = "none"
  /\ Published(results[s]) /\ results[s].says # after
  /\ requests' = [requests EXCEPT ![r] =
       [NoRequest EXCEPT !.state = "pending", !.student = s, !.before = results[s].says,
                         !.after = after, !.by = p]]
  /\ UNCHANGED <<results, audit, scales>>

Approve(r, p) ==
  LET s == requests[r].student
      after == requests[r].after
  IN /\ requests[r].state = "pending"
     /\ Published(results[s]) /\ results[s].says = requests[r].before
     /\ \E version \in 1..Len(scales) :
          /\ BoundTo(results[s], after, version)
          /\ results' = [results EXCEPT ![s] = [says |-> after, version |-> version,
                                                published |-> TRUE]]
     /\ AuditChanges({s})
     /\ requests' = [requests EXCEPT ![r].state = "approved", ![r].decidedBy = p,
                                     ![r].self = (requests[r].by = p)]
     /\ UNCHANGED scales

(* Rejected by a School Administrator, or withdrawn by its requester alone. *)
Close(r, p, state) ==
  /\ requests[r].state = "pending"
  /\ state \in {"rejected", "withdrawn"}
  /\ state = "withdrawn" => p = requests[r].by
  /\ requests' = [requests EXCEPT ![r].state = state, ![r].decidedBy = p]
  /\ UNCHANGED <<results, audit, scales>>

(* A version is added, never changed, and never repeats the one it follows. *)
SaveScale(values) ==
  /\ values # scales[Len(scales)]
  /\ scales' = Append(scales, values)
  /\ UNCHANGED <<results, audit, requests>>

Next ==
  \/ Save
  \/ Publish
  \/ \E r \in Requests, s \in Students, after \in PublishedContent, p \in Persons :
       Raise(r, s, after, p)
  \/ \E r \in Requests, p \in Persons :
       Approve(r, p) \/ \E state \in {"rejected", "withdrawn"} : Close(r, p, state)
  \/ \E values \in Scales : SaveScale(values)

Spec == Init /\ [][Next]_ledgerVars

=============================================================================
