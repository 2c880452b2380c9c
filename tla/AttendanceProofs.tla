--------------------------- MODULE AttendanceProofs ---------------------------
(***************************************************************************)
(* The inductive invariant IInv of Attendance, for every School, roster    *)
(* and number of transactions, and what follows from it at once.           *)
(*                                                                         *)
(* First what every roster change keeps: its types, the memberships some   *)
(* capture refers to, and who had not left before a date up to today.      *)
(* Then the initial states, and one lemma for each action: the step keeps  *)
(* every part of IInv.  Then the invariants it implies, that the marks,    *)
(* requests and audit are a MarkLedger, and the action properties.         *)
(***************************************************************************)
EXTENDS Attendance, TLAPS

-----------------------------------------------------------------------------
(* An ending leaves a membership its bounds in order, or removes it. *)
LEMMA EndedOnType ==
  ASSUME RosterTypeOK, NEW m \in Memberships, NEW day \in Days
  PROVE  EndedOn(m, day) \in Bounds \union {None}
<1>1. roster[m] \in Bounds \union {None}
  BY DEF RosterTypeOK
<1>2. CASE Removes(m, day) \/ ~RunsPast(m, day)
  BY <1>1, <1>2 DEF EndedOn
<1>3. CASE ~Removes(m, day) /\ RunsPast(m, day)
  <2>1. roster[m] \in Bounds /\ roster[m].first <= day
    BY <1>1, <1>3, RosterAssumption DEF Removes, RunsPast, Bounds, Days
  <2>2. [roster[m] EXCEPT !.last = day] \in Bounds
    BY <2>1 DEF Bounds
  <2>. QED
    BY <1>3, <2>2 DEF EndedOn
<1>. QED
  BY <1>2, <1>3

(* Only a membership not begun is removed, and one not begun runs past the day. *)
LEMMA EndedOnKeeps ==
  ASSUME RosterTypeOK, NEW m \in Memberships, NEW day \in Days, roster[m] # None
  PROVE  /\ ~Removes(m, day) => EndedOn(m, day) # None
         /\ Removes(m, day) => RunsPast(m, day)
<1>1. roster[m] \in Bounds
  BY DEF RosterTypeOK
<1>2. Removes(m, day) => RunsPast(m, day)
  BY <1>1, RosterAssumption DEF Bounds, Days, Removes, RunsPast
<1>3. ASSUME ~Removes(m, day) PROVE EndedOn(m, day) # None
  <2>1. CASE ~RunsPast(m, day)
    BY <1>3, <2>1 DEF EndedOn
  <2>2. CASE RunsPast(m, day)
    <3>1. roster[m].first <= day
      BY <1>1, <1>3, RosterAssumption DEF Removes, Bounds, Days
    <3>2. [roster[m] EXCEPT !.last = day] \in Bounds
      BY <1>1, <3>1 DEF Bounds
    <3>. QED
      BY <1>3, <2>2, <3>2, RosterAssumption DEF EndedOn
  <2>. QED
    BY <2>1, <2>2
<1>. QED
  BY <1>2, <1>3

(* Types, for every sequence of roster changes whatever snapshots hold. *)
LEMMA RosterNextTypeOK ==
  ASSUME RosterTypeOK, NEW held, NEW kept, RosterNext(held, kept)
  PROVE  RosterTypeOK'
<1>1. CASE Tick
  BY <1>1, RosterAssumption DEF Tick, RosterTypeOK, Days
<1>2. ASSUME NEW m \in Memberships, NEW b \in Bounds,
             RosterStudent(m, b) \/ MoveMembership(m, b, held)
      PROVE  RosterTypeOK'
  BY <1>2, RosterAssumption DEF RosterStudent, MoveMembership, RosterMove, RosterTypeOK
<1>3. ASSUME NEW m \in Memberships, EndMembership(m, held, kept)
      PROVE  RosterTypeOK'
  BY <1>3, EndedOnType, RosterAssumption DEF EndMembership, RosterMove, RosterTypeOK, EndingDays
<1>4. ASSUME NEW s \in Students, Enroll(s)
      PROVE  RosterTypeOK'
  BY <1>4, RosterAssumption DEF Enroll, RosterMove, RosterTypeOK, Open
<1>5. ASSUME NEW s \in Students, EndEnrollment(s, held, kept)
      PROVE  RosterTypeOK'
  BY <1>5, EndedOnType, RosterAssumption DEF EndEnrollment, RosterMove, RosterTypeOK, EndingDays, Open, Days
<1>. QED
  BY <1>1, <1>2, <1>3, <1>4, <1>5 DEF RosterNext

(* No roster change removes a membership a capture holds or a snapshot keeps, *)
(* and School dates never go back.                                            *)
LEMMA RosterNextKeeps ==
  ASSUME RosterTypeOK, NEW held, NEW kept, RosterNext(held, kept)
  PROVE  /\ today <= today'
         /\ \A m \in Memberships : (m \in held \/ m \in kept) /\ roster[m] # None => roster'[m] # None
<1>1. CASE Tick
  BY <1>1, RosterAssumption DEF Tick, RosterTypeOK, Days
<1>2. ASSUME NEW m \in Memberships, NEW b \in Bounds,
             RosterStudent(m, b) \/ MoveMembership(m, b, held)
      PROVE  /\ today <= today'
             /\ \A n \in Memberships : roster[n] # None => roster'[n] # None
  BY <1>2, RosterAssumption DEF RosterStudent, MoveMembership, RosterMove, RosterTypeOK, Days
<1>3. ASSUME NEW m \in Memberships, EndMembership(m, held, kept)
      PROVE  /\ today <= today'
             /\ \A n \in Memberships : (n \in held \/ n \in kept) /\ roster[n] # None => roster'[n] # None
  BY <1>3, EndedOnKeeps, RosterAssumption DEF EndMembership, RosterMove, RosterTypeOK, EndingDays, Days
<1>4. ASSUME NEW s \in Students, Enroll(s)
      PROVE  today <= today' /\ roster' = roster
  BY <1>4, RosterAssumption DEF Enroll, RosterMove, RosterTypeOK, Days
<1>5. ASSUME NEW s \in Students, EndEnrollment(s, held, kept)
      PROVE  /\ today <= today'
             /\ \A n \in Memberships : (n \in held \/ n \in kept) /\ roster[n] # None => roster'[n] # None
  BY <1>5, EndedOnKeeps, RosterAssumption DEF EndEnrollment, RosterMove, RosterTypeOK, EndingDays, Days
<1>. QED
  BY <1>1, <1>2, <1>3, <1>4, <1>5 DEF RosterNext

(* Whoever had not left before a date up to today has not done so since, and *)
(* an ending is dated no later than the day it commits.                      *)
LEMMA RosterNextLeaving ==
  ASSUME RosterTypeOK, NEW held, NEW kept, RosterNext(held, kept), NEW s \in Students
  PROVE  /\ \A d \in Days : d <= today /\ NotLeftBefore(s, d) => NotLeftBefore(s, d)'
         /\ enrolledTo[s] <= leftOn[s] => enrolledTo'[s] <= leftOn'[s]
<1>1. CASE Tick
  BY <1>1 DEF Tick, NotLeftBefore
<1>2. ASSUME NEW m \in Memberships, NEW b \in Bounds,
             RosterStudent(m, b) \/ MoveMembership(m, b, held)
      PROVE  enrolledTo' = enrolledTo /\ leftOn' = leftOn
  BY <1>2 DEF RosterStudent, MoveMembership
<1>3. ASSUME NEW m \in Memberships, EndMembership(m, held, kept)
      PROVE  enrolledTo' = enrolledTo /\ leftOn' = leftOn
  BY <1>3 DEF EndMembership
<1>4. ASSUME NEW p \in Students, Enroll(p)
      PROVE  /\ \A d \in Days : NotLeftBefore(s, d) => NotLeftBefore(s, d)'
             /\ enrolledTo[s] <= leftOn[s] => enrolledTo'[s] <= leftOn'[s]
  BY <1>4, RosterAssumption DEF Enroll, NotLeftBefore, RosterTypeOK, Open, Days
<1>5. ASSUME NEW p \in Students, EndEnrollment(p, held, kept)
      PROVE  /\ \A d \in Days : d <= today /\ NotLeftBefore(s, d) => NotLeftBefore(s, d)'
             /\ enrolledTo[s] <= leftOn[s] => enrolledTo'[s] <= leftOn'[s]
  <2>1. PICK day \in EndingDays : enrolledTo' = [enrolledTo EXCEPT ![p] = day]
    BY <1>5 DEF EndEnrollment
  <2>2. day <= today /\ leftOn' = [leftOn EXCEPT ![p] = today]
    BY <1>5 DEF EndEnrollment, EndingDays
  <2>. QED
    BY <2>1, <2>2 DEF NotLeftBefore, RosterTypeOK
<1>. QED
  BY <1>1, <1>2, <1>3, <1>4, <1>5 DEF RosterNext, NotLeftBefore

-----------------------------------------------------------------------------
(* A transaction not under way has a record like any other. *)
LEMMA IdleInTx == Idle \in Tx
BY AttendanceAssumption DEF Idle, Tx, Phases, Rows, Unmarked

(* Before anything has happened the invariant holds. *)
LEMMA InitIInv == Init => IInv
<1>. SUFFICES ASSUME Init PROVE IInv
  OBVIOUS
<1>1. RosterTypeOK
  BY RosterAssumption DEF Init, RosterInit, RosterTypeOK, Days, Bounds, Open
<1>2. Ledger!LedgerTypeOK
  BY DEF Init, Ledger!Init, Ledger!LedgerTypeOK, Ledger!Rows, Ledger!Request, Ledger!NoRequest, Ledger!States
<1>3. TypeOK
  BY <1>1, <1>2, IdleInTx, AttendanceAssumption DEF Init, TypeOK
<1>4. TxSound
  BY AttendanceAssumption DEF Init, Idle, TxSound, Sound, HoldsItsLocks, ReadStands, SaveSound, RaiseSound,
    DecisionSound, DatesSound, SessionPhases, RequestPhases, DecidingPhases, WritingPhases
<1>5. RequestsSound /\ MembersExist /\ MarksSound
  BY DEF Init, Ledger!Init, Ledger!NoRequest, Idle, RequestsSound, MembersExist, SnapshotMembersExist, MarksSound
<1>. QED
  BY <1>3, <1>4, <1>5 DEF IInv

-----------------------------------------------------------------------------
(* What the invariant says of one transaction. *)
LEMMA TxTyped ==
  ASSUME IInv, NEW t \in Txns
  PROVE  tx[t] \in Tx /\ Sound(t)
BY DEF IInv, TypeOK, TxSound

(* What it says of one date's marks. *)
LEMMA MarksTyped ==
  ASSUME IInv, NEW d \in InstructionalDays
  PROVE  /\ attendance[d] \in Rows
         /\ audit[d] \in [Students -> (Statuses \X Statuses) \union {None}]
         /\ d \in Days
BY AttendanceAssumption DEF IInv, TypeOK, Ledger!LedgerTypeOK, Ledger!Rows, Rows

(* What it says of the School's today. *)
LEMMA TodayTyped ==
  ASSUME IInv
  PROVE  today \in Days /\ today \in Nat /\ today <= today
BY RosterAssumption DEF IInv, TypeOK, RosterTypeOK, Days

(* A transaction stays sound while the step of another leaves alone what its *)
(* phase relies on: its locks, the marks it read, its request, and its name. *)
LEMMA OtherSound ==
  ASSUME IInv, NEW t \in Txns, NEW u \in Txns, u # t, \A v \in Txns \ {t} : tx'[v] = tx[v],
         today \in Days, today' \in Days, today <= today',
         tx[u].phase \in SessionPhases =>
           sessionLock'[tx[u].date] = sessionLock[tx[u].date] /\ attendance'[tx[u].date] = attendance[tx[u].date],
         tx[u].phase \in RequestPhases => requestLock'[tx[u].req] = requestLock[tx[u].req],
         tx[u].phase \in {"raising", "raised", "applying", "applied"} => requests'[tx[u].req] = requests[tx[u].req],
         tx[u].phase \in {"raising", "raised"} => tx'[t].req # tx[u].req,
         tx[u].phase \in DecidingPhases =>
           LET r == tx[u].req
           IN /\ requests'[r].state # "none" /\ requests'[r].date = requests[r].date
              /\ requests'[r].student = requests[r].student /\ requests'[r].after = requests[r].after
              /\ requests'[r].by = requests[r].by
  PROVE  Sound(u)'
<1>. tx[u] \in Tx /\ Sound(u) /\ tx'[u] = tx[u]
  BY TxTyped
<1>1. HoldsItsLocks(u)'
  BY DEF Sound, HoldsItsLocks, SessionPhases, RequestPhases
<1>2. ReadStands(u)'
  BY DEF Sound, ReadStands, SessionPhases
<1>3. SaveSound(u)'
  BY DEF Sound, SaveSound
<1>4. RaiseSound(u)'
  BY DEF Sound, RaiseSound
<1>5. DecisionSound(u)'
  BY DEF Sound, DecisionSound
<1>6. DatesSound(u)'
  <2>1. DatesSound(u)
    BY DEF Sound
  <2>2. ASSUME tx[u].phase \notin {"idle", "loaded"} PROVE tx[u].now \in Days /\ tx[u].now <= today'
    BY <2>1, <2>2, RosterAssumption DEF DatesSound, Days
  <2>3. ASSUME tx[u].phase \in WritingPhases PROVE tx[u].date <= today'
    <3>1. tx[u].date \in Days /\ tx[u].date <= today
      BY <2>1, <2>3, AttendanceAssumption DEF DatesSound, WritingPhases
    <3>. QED
      BY <3>1, RosterAssumption DEF Days
  <2>. QED
    BY <2>1, <2>2, <2>3 DEF DatesSound
<1>. QED
  BY <1>1, <1>2, <1>3, <1>4, <1>5, <1>6 DEF Sound

-----------------------------------------------------------------------------
(* Steps that move one transaction alone. *)
Private == UNCHANGED <<rosterVars, adminVars, recordVars, requests, lockVars>>

(* Such a step keeps every type. *)
LEMMA PrivateTypeOK ==
  ASSUME TypeOK, Private, tx' \in [Txns -> Tx]
  PROVE  TypeOK'
BY DEF Private, TypeOK, RosterTypeOK, Ledger!LedgerTypeOK, Ledger!Rows, Ledger!Request,
       rosterVars, adminVars, recordVars, lockVars

(* Such a step captures no membership and changes no mark or request. *)
LEMMA PrivateRecords ==
  ASSUME IInv, Private, NEW t \in Txns, \A u \in Txns \ {t} : tx'[u] = tx[u],
         tx'[t].adds \subseteq tx[t].adds
  PROVE  RequestsSound' /\ MembersExist' /\ MarksSound'
BY DEF IInv, Private, RequestsSound, MembersExist, SnapshotMembersExist, MarksSound, rosterVars, recordVars

(* Such a step leaves every other transaction as sound as it was. *)
LEMMA PrivateSound ==
  ASSUME IInv, Private, NEW t \in Txns, \A u \in Txns \ {t} : tx'[u] = tx[u], Sound(t)',
         \A u \in Txns \ {t} : tx[u].phase \in {"raising", "raised"} => tx'[t].req # tx[u].req
  PROVE  TxSound'
<1>1. ASSUME NEW u \in Txns, u # t PROVE Sound(u)'
  <2>1. today' = today /\ sessionLock' = sessionLock /\ requestLock' = requestLock
        /\ attendance' = attendance /\ requests' = requests
    BY DEF Private, rosterVars, recordVars, lockVars
  <2>2. Sound(u)
    BY TxTyped
  <2>. QED
    BY <1>1, <2>1, <2>2, OtherSound, TodayTyped DEF Sound, DecisionSound
<1>. QED
  BY <1>1 DEF TxSound

(* GET attendance-session keeps the invariant. *)
LEMMA LoadIInv ==
  ASSUME IInv, NEW t \in Txns, NEW p \in Persons, NEW d \in InstructionalDays, Load(t, p, d)
  PROVE  IInv'
<1>. DEFINE new == [Idle EXCEPT !.phase = "loaded", !.act = "save", !.who = p, !.date = d,
                                !.view = attendance[d]]
<1>1. new \in Tx
  BY IdleInTx, MarksTyped DEF Tx, Phases, Acts
<1>2. tx' = [tx EXCEPT ![t] = new] /\ tx'[t] = new
  BY DEF IInv, TypeOK, Load, Becomes
<1>3. /\ new.phase = "loaded" /\ new.who = p /\ new.date = d
      /\ new.req = None /\ new.adds = {} /\ new.markable = {}
  BY TxTyped DEF Tx, Idle
<1>. HIDE DEF new
<1>4. Private /\ \A u \in Txns \ {t} : tx'[u] = tx[u]
  BY <1>2 DEF Load, Private, IInv, TypeOK
<1>5. TypeOK'
  BY <1>1, <1>2, <1>4, PrivateTypeOK DEF IInv, TypeOK
<1>6. Sound(t)'
  BY <1>2, <1>3, <1>4, TxTyped, TodayTyped, AttendanceAssumption DEF Load, Private, rosterVars, recordVars, lockVars,
    Sound, HoldsItsLocks, ReadStands, SaveSound, RaiseSound, DecisionSound, DatesSound,
    SessionPhases, RequestPhases, DecidingPhases, WritingPhases
<1>7. \A u \in Txns \ {t} : tx[u].phase \in {"raising", "raised"} => tx'[t].req # tx[u].req
  BY <1>2, <1>3, TxTyped, AttendanceAssumption DEF Load, Sound, RaiseSound
<1>8. TxSound'
  BY <1>4, <1>6, <1>7, PrivateSound
<1>9. RequestsSound' /\ MembersExist' /\ MarksSound'
  BY <1>2, <1>3, <1>4, PrivateRecords
<1>. QED
  BY <1>5, <1>8, <1>9 DEF IInv

(* PATCH attendance-session, begun, keeps it. *)
LEMMA BeginSaveIInv ==
  ASSUME IInv, NEW t \in Txns, NEW want \in Rows, NEW fill \in BOOLEAN, BeginSave(t, want, fill)
  PROVE  IInv'
<1>. DEFINE new == [tx[t] EXCEPT !.phase = "waiting", !.now = today, !.want = want, !.fill = fill]
<1>1. new \in Tx
  <2>1. tx[t] \in Tx /\ today \in Days
    BY TxTyped, TodayTyped
  <2>. QED
    BY <2>1 DEF Tx, Phases
<1>2. tx' = [tx EXCEPT ![t] = new] /\ tx'[t] = new
  BY DEF IInv, TypeOK, BeginSave, Becomes
<1>3. /\ new.phase = "waiting" /\ new.who = tx[t].who /\ new.date = tx[t].date /\ new.now = today
      /\ new.req = tx[t].req /\ new.adds = tx[t].adds /\ new.markable = tx[t].markable
  BY TxTyped DEF Tx, Idle
<1>. HIDE DEF new
<1>4. Private /\ \A u \in Txns \ {t} : tx'[u] = tx[u]
  BY <1>2 DEF BeginSave, Private, IInv, TypeOK
<1>5. TypeOK'
  BY <1>1, <1>2, <1>4, PrivateTypeOK DEF IInv, TypeOK
<1>6. Sound(t)'
  BY <1>2, <1>3, <1>4, TxTyped, TodayTyped, AttendanceAssumption DEF BeginSave, Private, rosterVars, recordVars, lockVars,
    RecordableDate, Sound, HoldsItsLocks, ReadStands, SaveSound, RaiseSound, DecisionSound, DatesSound,
    SessionPhases, RequestPhases, DecidingPhases, WritingPhases
<1>7. \A u \in Txns \ {t} : tx[u].phase \in {"raising", "raised"} => tx'[t].req # tx[u].req
  BY <1>2, <1>3, TxTyped, AttendanceAssumption DEF BeginSave, Sound, RaiseSound
<1>8. TxSound'
  BY <1>4, <1>6, <1>7, PrivateSound
<1>9. RequestsSound' /\ MembersExist' /\ MarksSound'
  BY <1>2, <1>3, <1>4, PrivateRecords
<1>. QED
  BY <1>5, <1>8, <1>9 DEF IInv

(* POST attendance-session, begun, keeps it. *)
LEMMA BeginRefreshIInv ==
  ASSUME IInv, NEW t \in Txns, NEW p \in Persons, NEW d \in InstructionalDays, BeginRefresh(t, p, d)
  PROVE  IInv'
<1>. DEFINE new == [Idle EXCEPT !.phase = "waiting", !.act = "refresh", !.who = p, !.date = d,
                                !.now = today]
<1>1. new \in Tx
  BY IdleInTx, TodayTyped DEF Tx, Phases, Acts
<1>2. tx' = [tx EXCEPT ![t] = new] /\ tx'[t] = new
  BY DEF IInv, TypeOK, BeginRefresh, Becomes
<1>3. /\ new.phase = "waiting" /\ new.who = p /\ new.date = d /\ new.now = today
      /\ new.req = None /\ new.adds = {} /\ new.markable = {}
  BY TxTyped DEF Tx, Idle
<1>. HIDE DEF new
<1>4. Private /\ \A u \in Txns \ {t} : tx'[u] = tx[u]
  BY <1>2 DEF BeginRefresh, Private, IInv, TypeOK
<1>5. TypeOK'
  BY <1>1, <1>2, <1>4, PrivateTypeOK DEF IInv, TypeOK
<1>6. Sound(t)'
  BY <1>2, <1>3, <1>4, TxTyped, TodayTyped, AttendanceAssumption DEF BeginRefresh, Private, rosterVars, recordVars, lockVars,
    RecordableDate, Sound, HoldsItsLocks, ReadStands, SaveSound, RaiseSound, DecisionSound, DatesSound,
    SessionPhases, RequestPhases, DecidingPhases, WritingPhases
<1>7. \A u \in Txns \ {t} : tx[u].phase \in {"raising", "raised"} => tx'[t].req # tx[u].req
  BY <1>2, <1>3, TxTyped, AttendanceAssumption DEF BeginRefresh, Sound, RaiseSound
<1>8. TxSound'
  BY <1>4, <1>6, <1>7, PrivateSound
<1>9. RequestsSound' /\ MembersExist' /\ MarksSound'
  BY <1>2, <1>3, <1>4, PrivateRecords
<1>. QED
  BY <1>5, <1>8, <1>9 DEF IInv

(* A save's reads under its lock keep it. *)
LEMMA ReadSessionIInv ==
  ASSUME IInv, NEW t \in Txns, ReadSession(t)
  PROVE  IInv'
<1>. DEFINE new == [tx[t] EXCEPT !.phase = "ready", !.rows = attendance[tx[t].date],
                                !.markable = MarkableOn(Snapshot(t), tx[t].date)]
<1>1. new \in Tx
  <2>1. tx[t].date \in InstructionalDays
    BY TxTyped DEF Sound, DatesSound, ReadSession
  <2>2. attendance[tx[t].date] \in Rows /\ MarkableOn(Snapshot(t), tx[t].date) \in SUBSET Students
    BY <2>1, MarksTyped DEF MarkableOn
  <2>3. tx[t] \in Tx
    BY TxTyped
  <2>. QED
    BY <2>2, <2>3 DEF Tx, Phases
<1>2. tx' = [tx EXCEPT ![t] = new] /\ tx'[t] = new
  BY DEF IInv, TypeOK, ReadSession, Becomes
<1>3. /\ new.phase = "ready" /\ new.who = tx[t].who /\ new.date = tx[t].date /\ new.now = tx[t].now
      /\ new.act = tx[t].act /\ new.rows = attendance[tx[t].date]
      /\ new.req = tx[t].req /\ new.adds = tx[t].adds
  BY TxTyped DEF Tx, Idle
<1>. HIDE DEF new
<1>4. Private /\ \A u \in Txns \ {t} : tx'[u] = tx[u]
  BY <1>2 DEF ReadSession, Private, IInv, TypeOK
<1>5. TypeOK'
  BY <1>1, <1>2, <1>4, PrivateTypeOK DEF IInv, TypeOK
<1>6. Sound(t)'
  BY <1>2, <1>3, <1>4, TxTyped, TodayTyped, AttendanceAssumption DEF ReadSession, Private, rosterVars, recordVars, lockVars,
    Sound, HoldsItsLocks, ReadStands, SaveSound, RaiseSound, DecisionSound, DatesSound,
    SessionPhases, RequestPhases, DecidingPhases, WritingPhases
<1>7. \A u \in Txns \ {t} : tx[u].phase \in {"raising", "raised"} => tx'[t].req # tx[u].req
  BY <1>2, <1>3, TxTyped, AttendanceAssumption DEF ReadSession, Sound, RaiseSound
<1>8. TxSound'
  BY <1>4, <1>6, <1>7, PrivateSound
<1>9. RequestsSound' /\ MembersExist' /\ MarksSound'
  BY <1>2, <1>3, <1>4, PrivateRecords
<1>. QED
  BY <1>5, <1>8, <1>9 DEF IInv

(* POST correction-requests, begun, keeps it: the request it names is nobody else's. *)
LEMMA BeginRaiseIInv ==
  ASSUME IInv, NEW t \in Txns, NEW p \in Persons, NEW r \in Requests, NEW d \in InstructionalDays,
         NEW s \in Students, NEW after \in Statuses, BeginRaise(t, p, r, d, s, after)
  PROVE  IInv'
<1>. DEFINE new == [Idle EXCEPT !.phase = "raising", !.act = "raise", !.who = p, !.date = d,
                                !.now = today, !.req = r, !.student = s, !.after = after]
<1>1. new \in Tx
  BY IdleInTx, TodayTyped DEF Tx, Phases, Acts
<1>2. tx' = [tx EXCEPT ![t] = new] /\ tx'[t] = new
  BY DEF IInv, TypeOK, BeginRaise, Becomes
<1>3. /\ new.phase = "raising" /\ new.who = p /\ new.date = d /\ new.now = today
      /\ new.req = r /\ new.student = s /\ new.after = after /\ new.adds = {} /\ new.markable = {}
  BY TxTyped DEF Tx, Idle
<1>. HIDE DEF new
<1>4. Private /\ \A u \in Txns \ {t} : tx'[u] = tx[u]
  BY <1>2 DEF BeginRaise, Private, IInv, TypeOK
<1>5. TypeOK'
  BY <1>1, <1>2, <1>4, PrivateTypeOK DEF IInv, TypeOK
<1>6. Sound(t)'
  BY <1>2, <1>3, <1>4, TxTyped, TodayTyped, AttendanceAssumption DEF BeginRaise, Private, rosterVars, recordVars, lockVars,
    Sound, HoldsItsLocks, ReadStands, SaveSound, RaiseSound, DecisionSound, DatesSound,
    SessionPhases, RequestPhases, DecidingPhases, WritingPhases
<1>7. \A u \in Txns \ {t} : tx[u].phase \in {"raising", "raised"} => tx'[t].req # tx[u].req
  BY <1>2, <1>3, TxTyped, AttendanceAssumption DEF BeginRaise, Sound, RaiseSound
<1>8. TxSound'
  BY <1>4, <1>6, <1>7, PrivateSound
<1>9. RequestsSound' /\ MembersExist' /\ MarksSound'
  BY <1>2, <1>3, <1>4, PrivateRecords
<1>. QED
  BY <1>5, <1>8, <1>9 DEF IInv

(* PATCH correction-requests, begun, keeps it. *)
LEMMA BeginDecideIInv ==
  ASSUME IInv, NEW t \in Txns, NEW p \in Persons, NEW r \in Requests,
         NEW act \in {"approve", "reject", "withdraw"}, BeginDecide(t, p, r, act)
  PROVE  IInv'
<1>. DEFINE new == [Idle EXCEPT !.phase = "deciding", !.act = act, !.who = p, !.now = today,
                                !.req = r, !.date = requests[r].date,
                                !.student = requests[r].student, !.after = requests[r].after]
<1>1. new \in Tx
  <2>1. /\ requests[r].date \in InstructionalDays /\ requests[r].student \in Students
        /\ requests[r].after \in Statuses
    BY DEF IInv, RequestsSound, BeginDecide
  <2>. QED
    BY <2>1, IdleInTx, TodayTyped DEF Tx, Phases, Acts
<1>2. tx' = [tx EXCEPT ![t] = new] /\ tx'[t] = new
  BY DEF IInv, TypeOK, BeginDecide, Becomes
<1>3. /\ new.phase = "deciding" /\ new.act = act /\ new.who = p /\ new.date = requests[r].date /\ new.now = today
      /\ new.req = r /\ new.student = requests[r].student /\ new.after = requests[r].after
      /\ new.adds = {} /\ new.markable = {}
  BY TxTyped DEF Tx, Idle
<1>. HIDE DEF new
<1>4. Private /\ \A u \in Txns \ {t} : tx'[u] = tx[u]
  BY <1>2 DEF BeginDecide, Private, IInv, TypeOK
<1>5. TypeOK'
  BY <1>1, <1>2, <1>4, PrivateTypeOK DEF IInv, TypeOK
<1>6. Sound(t)'
  BY <1>2, <1>3, <1>4, TxTyped, TodayTyped, AttendanceAssumption DEF BeginDecide, Private, rosterVars, recordVars, lockVars,
    RequestsSound, IInv, Sound, HoldsItsLocks, ReadStands, SaveSound, RaiseSound, DecisionSound, DatesSound,
    SessionPhases, RequestPhases, DecidingPhases, WritingPhases
<1>7. \A u \in Txns \ {t} : tx[u].phase \in {"raising", "raised"} => tx'[t].req # tx[u].req
  BY <1>2, <1>3, TxTyped, AttendanceAssumption DEF BeginDecide, Sound, RaiseSound
<1>8. TxSound'
  BY <1>4, <1>6, <1>7, PrivateSound
<1>9. RequestsSound' /\ MembersExist' /\ MarksSound'
  BY <1>2, <1>3, <1>4, PrivateRecords
<1>. QED
  BY <1>5, <1>8, <1>9 DEF IInv

(* An approval judged under its request's lock keeps it. *)
LEMMA JudgeIInv ==
  ASSUME IInv, NEW t \in Txns, Judge(t)
  PROVE  IInv'
<1>. DEFINE new == [tx[t] EXCEPT !.phase = "applying", !.self = OwnRequest(t)]
<1>1. new \in Tx
  <2>1. OwnRequest(t) \in BOOLEAN
    BY DEF OwnRequest
  <2>2. tx[t] \in Tx
    BY TxTyped
  <2>. QED
    BY <2>1, <2>2 DEF Tx, Phases
<1>2. tx' = [tx EXCEPT ![t] = new] /\ tx'[t] = new
  BY DEF IInv, TypeOK, Judge, Becomes
<1>3. /\ new.phase = "applying" /\ new.act = tx[t].act /\ new.who = tx[t].who /\ new.date = tx[t].date
      /\ new.now = tx[t].now /\ new.self = OwnRequest(t)
      /\ new.req = tx[t].req /\ new.student = tx[t].student /\ new.after = tx[t].after
      /\ new.adds = tx[t].adds /\ new.markable = tx[t].markable
  BY TxTyped DEF Tx, Idle
<1>. HIDE DEF new
<1>4. Private /\ \A u \in Txns \ {t} : tx'[u] = tx[u]
  BY <1>2 DEF Judge, Private, IInv, TypeOK
<1>5. TypeOK'
  BY <1>1, <1>2, <1>4, PrivateTypeOK DEF IInv, TypeOK
<1>6. Sound(t)'
  BY <1>2, <1>3, <1>4, TxTyped, TodayTyped, AttendanceAssumption DEF Judge, Private, rosterVars, recordVars, lockVars,
    Correctable, RecordableDate, StillPending, OwnRequest, Days, Sound, HoldsItsLocks, ReadStands, SaveSound, RaiseSound, DecisionSound, DatesSound,
    SessionPhases, RequestPhases, DecidingPhases, WritingPhases
<1>7. \A u \in Txns \ {t} : tx[u].phase \in {"raising", "raised"} => tx'[t].req # tx[u].req
  BY <1>2, <1>3, TxTyped, AttendanceAssumption DEF Judge, Sound, RaiseSound
<1>8. TxSound'
  BY <1>4, <1>6, <1>7, PrivateSound
<1>9. RequestsSound' /\ MembersExist' /\ MarksSound'
  BY <1>2, <1>3, <1>4, PrivateRecords
<1>. QED
  BY <1>5, <1>8, <1>9 DEF IInv

-----------------------------------------------------------------------------
(* Steps that take a lock: it was free, so no other transaction relied on it. *)
LEMMA LockRecords ==
  ASSUME IInv, UNCHANGED <<rosterVars, adminVars, recordVars, requests>>,
         sessionLock' \in [InstructionalDays -> Txns \union {None}],
         requestLock' \in [Requests -> Txns \union {None}], tx' \in [Txns -> Tx]
  PROVE  TypeOK' /\ RequestsSound' /\ MarksSound' /\ SnapshotMembersExist'
BY DEF IInv, TypeOK, RosterTypeOK, Ledger!LedgerTypeOK, Ledger!Rows, Ledger!Request, RequestsSound, MembersExist,
       SnapshotMembersExist, MarksSound, rosterVars, adminVars, recordVars

(* Taking a free lock leaves every other transaction sound. *)
LEMMA LockSound ==
  ASSUME IInv, NEW t \in Txns, UNCHANGED <<rosterVars, adminVars, recordVars, requests>>,
         \A u \in Txns \ {t} : tx'[u] = tx[u], tx'[t].req = tx[t].req, Sound(t)',
         \A d \in InstructionalDays : sessionLock[d] # None => sessionLock'[d] = sessionLock[d],
         \A r \in Requests : requestLock[r] # None => requestLock'[r] = requestLock[r]
  PROVE  TxSound'
<1>1. ASSUME NEW u \in Txns, u # t PROVE Sound(u)'
  <2>1. tx[u] \in Tx /\ Sound(u)
    BY TxTyped
  <2>2. today' = today /\ attendance' = attendance /\ requests' = requests
    BY DEF rosterVars, recordVars
  <2>3. tx[u].phase \in SessionPhases => sessionLock'[tx[u].date] = sessionLock[tx[u].date]
    BY <2>1, AttendanceAssumption DEF Sound, HoldsItsLocks, DatesSound, SessionPhases
  <2>4. tx[u].phase \in RequestPhases => requestLock'[tx[u].req] = requestLock[tx[u].req]
    BY <2>1, AttendanceAssumption DEF Sound, HoldsItsLocks, DecisionSound, RequestPhases, DecidingPhases
  <2>5. tx[u].phase \in {"raising", "raised"} => tx'[t].req # tx[u].req
    BY <1>1, <2>1 DEF Sound, RaiseSound
  <2>6. tx[u].phase \in DecidingPhases => requests[tx[u].req].state # "none"
    BY <2>1 DEF Sound, DecisionSound
  <2>. QED
    BY <1>1, <2>2, <2>3, <2>4, <2>5, <2>6, OtherSound, TodayTyped
<1>. QED
  BY <1>1 DEF TxSound

(* A save or a refresh granted its date's lock keeps the invariant. *)
LEMMA HoldSessionIInv ==
  ASSUME IInv, NEW t \in Txns, HoldSession(t)
  PROVE  IInv'
<1>. DEFINE d == tx[t].date
            covering == {m \in Memberships : Covers(m, d)} \ captured[d]
            adds == IF d \notin opened \/ tx[t].act = "refresh" THEN covering ELSE {}
            new == [tx[t] EXCEPT !.phase = "holding", !.adds = adds]
<1>0. tx[t] \in Tx /\ Sound(t) /\ tx[t].phase = "waiting" /\ d \in InstructionalDays
  BY TxTyped DEF HoldSession, Sound, DatesSound
<1>1. new \in Tx
  <2>1. adds \in SUBSET Memberships
    OBVIOUS
  <2>. HIDE DEF adds
  <2>. QED
    BY <1>0, <2>1 DEF Tx, Phases
<1>2. tx' = [tx EXCEPT ![t] = new] /\ tx'[t] = new
  BY DEF IInv, TypeOK, HoldSession, Becomes
<1>3. /\ new.phase = "holding" /\ new.act = tx[t].act /\ new.who = tx[t].who /\ new.date = d
      /\ new.now = tx[t].now /\ new.req = tx[t].req /\ new.markable = tx[t].markable
      /\ new.adds \subseteq covering
  BY <1>0 DEF Tx
<1>. HIDE DEF new
<1>4. /\ sessionLock' = [sessionLock EXCEPT ![d] = t] /\ sessionLock[d] = None
      /\ requestLock' = requestLock
      /\ UNCHANGED <<rosterVars, adminVars, recordVars, requests>>
      /\ \A u \in Txns \ {t} : tx'[u] = tx[u]
  BY <1>2 DEF HoldSession, SessionFree, IInv, TypeOK
<1>5. TypeOK' /\ RequestsSound' /\ MarksSound' /\ SnapshotMembersExist'
  BY <1>1, <1>2, <1>4, LockRecords DEF IInv, TypeOK
<1>6. MembersExist'
  BY <1>2, <1>3, <1>4, <1>5 DEF MembersExist, IInv, Covers, rosterVars
<1>7. Sound(t)'
  BY <1>0, <1>2, <1>3, <1>4 DEF HoldSession, IInv, TypeOK, rosterVars, recordVars,
    Sound, HoldsItsLocks, ReadStands, SaveSound, RaiseSound, DecisionSound, DatesSound,
    SessionPhases, RequestPhases, DecidingPhases, WritingPhases
<1>8. TxSound'
  BY <1>2, <1>3, <1>4, <1>7, LockSound, AttendanceAssumption DEF IInv, TypeOK
<1>. QED
  BY <1>5, <1>6, <1>8 DEF IInv

(* So does a raise or an approval granted its date's lock, *)
LEMMA HoldTargetIInv ==
  ASSUME IInv, NEW t \in Txns, HoldTarget(t)
  PROVE  IInv'
<1>. DEFINE d == tx[t].date
            new == [tx[t] EXCEPT !.phase = IF @ = "raising" THEN "raised" ELSE "applied",
                                 !.rows = attendance[d]]
<1>0. tx[t] \in Tx /\ Sound(t) /\ tx[t].phase \in {"raising", "applying"} /\ d \in InstructionalDays
  BY TxTyped DEF HoldTarget, Sound, DatesSound
<1>1. new \in Tx
  <2>1. attendance[d] \in Rows
    BY <1>0, MarksTyped
  <2>. DEFINE phase == IF tx[t].phase = "raising" THEN "raised" ELSE "applied"
  <2>2. phase \in Phases /\ new = [tx[t] EXCEPT !.phase = phase, !.rows = attendance[d]]
    BY <1>0 DEF Phases, Tx
  <2>. HIDE DEF phase
  <2>. QED
    BY <1>0, <2>1, <2>2, ZenonT(60) DEF Tx
<1>2. tx' = [tx EXCEPT ![t] = new] /\ tx'[t] = new
  BY DEF IInv, TypeOK, HoldTarget, Becomes
<1>3. /\ tx[t].phase = "raising" => new.phase = "raised"
      /\ tx[t].phase = "applying" => new.phase = "applied"
      /\ new.act = tx[t].act /\ new.who = tx[t].who /\ new.date = d /\ new.rows = attendance[d]
      /\ new.now = tx[t].now /\ new.req = tx[t].req /\ new.student = tx[t].student /\ new.after = tx[t].after
      /\ new.self = tx[t].self /\ new.adds = tx[t].adds /\ new.markable = tx[t].markable
  BY <1>0 DEF Tx
<1>. HIDE DEF new
<1>4. /\ sessionLock' = [sessionLock EXCEPT ![d] = t] /\ sessionLock[d] = None
      /\ requestLock' = requestLock
      /\ UNCHANGED <<rosterVars, adminVars, recordVars, requests>>
      /\ \A u \in Txns \ {t} : tx'[u] = tx[u]
  BY <1>2 DEF HoldTarget, SessionFree, IInv, TypeOK
<1>5. TypeOK' /\ RequestsSound' /\ MarksSound' /\ SnapshotMembersExist'
  BY <1>1, <1>2, <1>4, LockRecords DEF IInv, TypeOK
<1>6. MembersExist'
  BY <1>2, <1>3, <1>4, <1>5 DEF MembersExist, IInv, rosterVars
<1>7. Sound(t)'
  BY <1>0, <1>2, <1>3, <1>4 DEF IInv, TypeOK, rosterVars, recordVars,
    Sound, HoldsItsLocks, ReadStands, SaveSound, RaiseSound, DecisionSound, DatesSound,
    SessionPhases, RequestPhases, DecidingPhases, WritingPhases
<1>8. TxSound'
  BY <1>2, <1>3, <1>4, <1>7, LockSound, AttendanceAssumption DEF IInv, TypeOK
<1>. QED
  BY <1>5, <1>6, <1>8 DEF IInv

(* and a decision granted its request's row. *)
LEMMA HoldRequestIInv ==
  ASSUME IInv, NEW t \in Txns, HoldRequest(t)
  PROVE  IInv'
<1>. DEFINE r == tx[t].req
            new == [tx[t] EXCEPT !.phase = "judging"]
<1>0. tx[t] \in Tx /\ Sound(t) /\ tx[t].phase = "deciding" /\ r \in Requests
  BY TxTyped DEF HoldRequest, Sound, DecisionSound, DecidingPhases
<1>1. new \in Tx
  BY <1>0 DEF Tx, Phases
<1>2. tx' = [tx EXCEPT ![t] = new] /\ tx'[t] = new
  BY DEF IInv, TypeOK, HoldRequest, Becomes
<1>3. /\ new.phase = "judging" /\ new.act = tx[t].act /\ new.who = tx[t].who /\ new.date = tx[t].date
      /\ new.now = tx[t].now /\ new.req = r /\ new.student = tx[t].student /\ new.after = tx[t].after
      /\ new.adds = tx[t].adds /\ new.markable = tx[t].markable
  BY <1>0 DEF Tx
<1>. HIDE DEF new
<1>4. /\ requestLock' = [requestLock EXCEPT ![r] = t] /\ requestLock[r] = None
      /\ sessionLock' = sessionLock
      /\ UNCHANGED <<rosterVars, adminVars, recordVars, requests>>
      /\ \A u \in Txns \ {t} : tx'[u] = tx[u]
  BY <1>2 DEF HoldRequest, RequestFree, IInv, TypeOK
<1>5. TypeOK' /\ RequestsSound' /\ MarksSound' /\ SnapshotMembersExist'
  BY <1>1, <1>2, <1>4, LockRecords DEF IInv, TypeOK
<1>6. MembersExist'
  BY <1>2, <1>3, <1>4, <1>5 DEF MembersExist, IInv, rosterVars
<1>7. Sound(t)'
  BY <1>0, <1>2, <1>3, <1>4 DEF IInv, TypeOK, rosterVars, recordVars,
    Sound, HoldsItsLocks, ReadStands, SaveSound, RaiseSound, DecisionSound, DatesSound,
    SessionPhases, RequestPhases, DecidingPhases, WritingPhases
<1>8. TxSound'
  BY <1>2, <1>3, <1>4, <1>7, LockSound, AttendanceAssumption DEF IInv, TypeOK
<1>. QED
  BY <1>5, <1>6, <1>8 DEF IInv

-----------------------------------------------------------------------------
(* Steps that end a transaction. *)
LEMMA EndedTyped ==
  ASSUME IInv, NEW t \in Txns, Ended(t)
  PROVE  /\ tx' \in [Txns -> Tx] /\ tx'[t] = Idle /\ \A u \in Txns \ {t} : tx'[u] = tx[u]
         /\ sessionLock' \in [InstructionalDays -> Txns \union {None}]
         /\ requestLock' \in [Requests -> Txns \union {None}]
BY IdleInTx DEF IInv, TypeOK, Ended

(* What it changed is what it had locked, so no other transaction relied on it. *)
LEMMA EndedSound ==
  ASSUME IInv, NEW t \in Txns, Ended(t), today' = today,
         \A d \in InstructionalDays : attendance'[d] # attendance[d] =>
           tx[t].phase \in SessionPhases /\ tx[t].date = d,
         \A r \in Requests : requests'[r] # requests[r] =>
           tx[t].phase \in RequestPhases \union {"raised"} /\ tx[t].req = r,
         \A r \in Requests : requests[r].state # "none" =>
           /\ requests'[r].state # "none" /\ requests'[r].date = requests[r].date
           /\ requests'[r].student = requests[r].student /\ requests'[r].after = requests[r].after
           /\ requests'[r].by = requests[r].by
  PROVE  TxSound'
<1>1. Sound(t)'
  BY EndedTyped, AttendanceAssumption DEF Idle, Sound, HoldsItsLocks, ReadStands, SaveSound, RaiseSound,
    DecisionSound, DatesSound, SessionPhases, RequestPhases, DecidingPhases, WritingPhases
<1>2. ASSUME NEW u \in Txns, u # t PROVE Sound(u)'
  <2>1. tx[u] \in Tx /\ Sound(u) /\ Sound(t)
    BY TxTyped
  <2>2. tx[u].phase \in SessionPhases =>
          /\ tx[u].date \in InstructionalDays /\ sessionLock[tx[u].date] = u
    BY <2>1 DEF Sound, HoldsItsLocks, DatesSound, SessionPhases
  <2>3. tx[u].phase \in SessionPhases =>
          sessionLock'[tx[u].date] = sessionLock[tx[u].date] /\ attendance'[tx[u].date] = attendance[tx[u].date]
    BY <1>2, <2>1, <2>2 DEF Ended, Sound, HoldsItsLocks
  <2>4. tx[u].phase \in RequestPhases => tx[u].req \in Requests /\ requestLock[tx[u].req] = u
    BY <2>1 DEF Sound, HoldsItsLocks, DecisionSound, RequestPhases, DecidingPhases
  <2>5. tx[u].phase \in RequestPhases => requestLock'[tx[u].req] = requestLock[tx[u].req]
    BY <1>2, <2>4 DEF Ended
  <2>6. tx[u].phase \in {"raising", "raised"} => requests'[tx[u].req] = requests[tx[u].req]
    <3>1. SUFFICES ASSUME tx[u].phase \in {"raising", "raised"}, requests'[tx[u].req] # requests[tx[u].req]
                   PROVE  FALSE
      OBVIOUS
    <3>2. tx[u].req \in Requests /\ tx[t].req # tx[u].req
      BY <1>2, <2>1, <3>1 DEF Sound, RaiseSound
    <3>. QED
      BY <3>1, <3>2
  <2>7. tx[u].phase \in {"applying", "applied"} => requests'[tx[u].req] = requests[tx[u].req]
    <3>1. SUFFICES ASSUME tx[u].phase \in {"applying", "applied"}, requests'[tx[u].req] # requests[tx[u].req]
                   PROVE  FALSE
      OBVIOUS
    <3>2. tx[u].req \in Requests /\ requestLock[tx[u].req] = u /\ requests[tx[u].req].state = "pending"
      BY <2>1, <2>4, <3>1 DEF RequestPhases, Sound, ReadStands
    <3>3. tx[t].phase \in RequestPhases \union {"raised"} /\ tx[t].req = tx[u].req
      BY <3>1, <3>2
    <3>. QED
      BY <1>2, <2>1, <3>2, <3>3 DEF Sound, HoldsItsLocks, RaiseSound
  <2>8. tx[u].phase \in {"raising", "raised"} => tx'[t].req # tx[u].req
    BY <2>1, EndedTyped, AttendanceAssumption DEF Idle, Sound, RaiseSound
  <2>9. tx[u].phase \in DecidingPhases => tx[u].req \in Requests /\ requests[tx[u].req].state # "none"
    BY <2>1 DEF Sound, DecisionSound
  <2>. QED
    BY <1>2, <2>3, <2>5, <2>6, <2>7, <2>8, <2>9, OtherSound, EndedTyped, TodayTyped
<1>. QED
  BY <1>1, <1>2 DEF TxSound

(* A rollback keeps the invariant. *)
LEMMA RolledBackIInv ==
  ASSUME IInv, NEW t \in Txns, RolledBack(t)
  PROVE  IInv'
<1>1. TypeOK' /\ RequestsSound' /\ MarksSound' /\ SnapshotMembersExist'
  BY EndedTyped, LockRecords DEF RolledBack
<1>2. TxSound'
  BY EndedSound DEF RolledBack, rosterVars, recordVars
<1>3. MembersExist'
  BY <1>1, EndedTyped DEF RolledBack, MembersExist, IInv, Idle, rosterVars
<1>. QED
  BY <1>1, <1>2, <1>3 DEF IInv

-----------------------------------------------------------------------------
(* What a save makes of one Student's mark, given that what it read stands. *)
LEMMA SavedMark ==
  ASSUME IInv, NEW t \in Txns, tx[t].phase = "ready", NEW s \in Students
  PROVE  LET now == attendance[tx[t].date][s]
             record == audit[tx[t].date][s]
         IN /\ tx[t].date \in InstructionalDays /\ now = tx[t].rows[s] /\ now \in Statuses \union {None}
            /\ Applies(t, s) => /\ Saved(t)[s] = tx[t].want[s] /\ tx[t].want[s] \in Statuses
                               /\ now # tx[t].want[s] /\ now = tx[t].view[s] /\ now # AbsentPendingReview
            /\ ~Applies(t, s) /\ Fills(t, s) => Saved(t)[s] = Present /\ now = None
            /\ ~Applies(t, s) /\ ~Fills(t, s) => Saved(t)[s] = now
            /\ Applies(t, s) /\ now # None => SaveAudit(t)[s] = <<now, tx[t].want[s]>>
            /\ ~(Applies(t, s) /\ now # None) => SaveAudit(t)[s] = record
            /\ record \in (Statuses \X Statuses) \union {None}
            /\ record # None => record[2] = now
<1>1. tx[t].date \in InstructionalDays /\ tx[t].rows = attendance[tx[t].date]
  BY TxTyped DEF Sound, DatesSound, ReadStands
<1>2. attendance[tx[t].date][s] \in Statuses \union {None}
      /\ audit[tx[t].date][s] \in (Statuses \X Statuses) \union {None}
      /\ (audit[tx[t].date][s] # None => audit[tx[t].date][s][2] = attendance[tx[t].date][s])
  BY <1>1, MarksTyped DEF Rows, IInv, MarksSound
<1>3. tx[t].want \in Rows
  BY TxTyped DEF Tx
<1>4. Fills(t, s) => ~Applies(t, s) /\ tx[t].rows[s] = None
  BY DEF Fills
<1>5. Applies(t, s) => Saved(t)[s] = tx[t].want[s]
  BY <1>4 DEF Saved
<1>6. ~Applies(t, s) /\ Fills(t, s) => Saved(t)[s] = Present
  BY DEF Saved
<1>7. ~Applies(t, s) /\ ~Fills(t, s) => Saved(t)[s] = attendance[tx[t].date][s]
  BY DEF Saved
<1>8. Applies(t, s) => /\ tx[t].want[s] \in Statuses /\ tx[t].rows[s] # tx[t].want[s]
                       /\ tx[t].rows[s] = tx[t].view[s] /\ tx[t].rows[s] # AbsentPendingReview
  BY <1>3 DEF Applies, Rows
<1>9. /\ Applies(t, s) /\ tx[t].rows[s] # None => SaveAudit(t)[s] = <<tx[t].rows[s], tx[t].want[s]>>
      /\ ~(Applies(t, s) /\ tx[t].rows[s] # None) => SaveAudit(t)[s] = audit[tx[t].date][s]
  BY DEF SaveAudit
<1>. QED
  BY <1>1, <1>2, <1>4, <1>5, <1>6, <1>7, <1>8, <1>9

(* A mark never recorded has no Audit record: one would lead to it. *)
LEMMA NoneUnaudited ==
  ASSUME IInv, NEW d \in InstructionalDays, NEW s \in Students, attendance[d][s] = None
  PROVE  audit[d][s] = None
<1>1. audit[d][s] \in (Statuses \X Statuses) \union {None}
  BY MarksTyped
<1>2. audit[d][s] # None => audit[d][s][2] = None
  BY DEF IInv, MarksSound
<1>3. \A pair \in Statuses \X Statuses : pair[2] # None
  BY AttendanceAssumption
<1>. QED
  BY <1>1, <1>2, <1>3

(* A save leaves each mark a status or none, and its audit trail leading to it. *)
LEMMA SavedTyped ==
  ASSUME IInv, NEW t \in Txns, tx[t].phase = "ready"
  PROVE  /\ Saved(t) \in Rows
         /\ SaveAudit(t) \in [Students -> (Statuses \X Statuses) \union {None}]
         /\ \A s \in Students : SaveAudit(t)[s] # None => SaveAudit(t)[s][2] = Saved(t)[s]
<1>1. ASSUME NEW s \in Students
      PROVE  /\ Saved(t)[s] \in Statuses \union {None}
             /\ SaveAudit(t)[s] \in (Statuses \X Statuses) \union {None}
             /\ SaveAudit(t)[s] # None => SaveAudit(t)[s][2] = Saved(t)[s]
  <2>. DEFINE now == attendance[tx[t].date][s]
              want == tx[t].want[s]
              record == audit[tx[t].date][s]
  <2>1. now \in Statuses \union {None} /\ Present \in Statuses /\ None \notin Statuses
    BY SavedMark, AttendanceAssumption
  <2>2. record \in (Statuses \X Statuses) \union {None} /\ (record # None => record[2] = now)
    BY SavedMark
  <2>3. CASE Applies(t, s)
    <3>1. Saved(t)[s] = want /\ want \in Statuses
      BY <2>3, SavedMark
    <3>2. CASE now = None
      <4>1. SaveAudit(t)[s] = record /\ record = None
        BY <3>2, <2>2, SavedMark, NoneUnaudited
      <4>. QED
        BY <4>1, <3>1
    <3>3. CASE now # None
      <4>1. SaveAudit(t)[s] = <<now, want>>
        BY <2>3, <3>3, SavedMark
      <4>. QED
        BY <4>1, <3>1, <3>3, <2>1
    <3>. QED
      BY <3>2, <3>3
  <2>4. CASE ~Applies(t, s)
    <3>1. SaveAudit(t)[s] = record
      BY <2>4, SavedMark
    <3>2. CASE Fills(t, s)
      <4>1. Saved(t)[s] = Present /\ now = None
        BY <2>4, <3>2, SavedMark
      <4>2. record = None
        BY <2>2, <4>1, SavedMark, NoneUnaudited
      <4>. QED
        BY <2>1, <3>1, <4>1, <4>2
    <3>3. CASE ~Fills(t, s)
      <4>1. Saved(t)[s] = now
        BY <2>4, <3>3, SavedMark
      <4>. QED
        BY <2>1, <2>2, <3>1, <4>1
    <3>. QED
      BY <3>2, <3>3
  <2>. QED
    BY <2>3, <2>4
<1>2. Saved(t) = [s \in Students |-> Saved(t)[s]] /\ SaveAudit(t) = [s \in Students |-> SaveAudit(t)[s]]
  BY DEF Saved, SaveAudit
<1>. QED
  BY <1>1, <1>2 DEF Rows

(* A save's commit keeps the invariant. *)
LEMMA CommitSaveIInv ==
  ASSUME IInv, NEW t \in Txns, CommitSave(t)
  PROVE  IInv'
<1>. DEFINE d == tx[t].date
<1>1. /\ tx[t] \in Tx /\ Sound(t) /\ tx[t].phase = "ready" /\ d \in InstructionalDays /\ d <= today
      /\ Ended(t) /\ UNCHANGED <<rosterVars, adminVars, requests>>
  BY TxTyped DEF CommitSave, CommitSession, Sound, DatesSound, WritingPhases
<1>2. /\ attendance' = [attendance EXCEPT ![d] = Saved(t)] /\ audit' = [audit EXCEPT ![d] = SaveAudit(t)]
      /\ captured' = [captured EXCEPT ![d] = Snapshot(t)] /\ opened' = opened \union {d}
  BY DEF CommitSave, CommitSession
<1>3. TypeOK'
  <2>1. Snapshot(t) \in SUBSET Memberships
    BY <1>1 DEF Snapshot, IInv, TypeOK, Tx
  <2>2. Ledger!LedgerTypeOK'
    BY <1>1, <1>2, SavedTyped DEF IInv, TypeOK, Ledger!LedgerTypeOK, Ledger!Rows, Ledger!Request, Rows
  <2>. QED
    BY <1>1, <1>2, <2>1, <2>2, EndedTyped DEF IInv, TypeOK, RosterTypeOK, rosterVars, adminVars
<1>4. TxSound'
  BY <1>1, <1>2, EndedSound DEF IInv, TypeOK, Ledger!LedgerTypeOK, rosterVars, SessionPhases
<1>5. RequestsSound'
  BY <1>1 DEF IInv, RequestsSound
<1>6. MembersExist'
  BY <1>1, <1>2, EndedTyped DEF IInv, TypeOK, MembersExist, SnapshotMembersExist, Snapshot, Idle, rosterVars
<1>7. MarksSound'
  BY <1>1, <1>2, SavedTyped DEF IInv, TypeOK, Ledger!LedgerTypeOK, MarksSound, rosterVars
<1>. QED
  BY <1>3, <1>4, <1>5, <1>6, <1>7 DEF IInv

(* So does a refresh's. *)
LEMMA CommitRefreshIInv ==
  ASSUME IInv, NEW t \in Txns, CommitRefresh(t)
  PROVE  IInv'
<1>. DEFINE d == tx[t].date
<1>1. /\ tx[t] \in Tx /\ Sound(t) /\ d \in InstructionalDays
      /\ Ended(t) /\ UNCHANGED <<rosterVars, adminVars, requests, attendance, audit>>
      /\ captured' = [captured EXCEPT ![d] = Snapshot(t)] /\ opened' = opened \union {d}
  BY TxTyped DEF CommitRefresh, CommitSession, Sound, DatesSound
<1>2. TypeOK'
  <2>1. Snapshot(t) \in SUBSET Memberships
    BY <1>1 DEF Snapshot, IInv, TypeOK, Tx
  <2>. QED
    BY <1>1, <2>1, EndedTyped DEF IInv, TypeOK, RosterTypeOK, Ledger!LedgerTypeOK, Ledger!Rows, Ledger!Request,
      rosterVars, adminVars
<1>3. TxSound'
  BY <1>1, EndedSound DEF rosterVars
<1>4. MembersExist'
  BY <1>1, EndedTyped DEF IInv, TypeOK, MembersExist, SnapshotMembersExist, Snapshot, Idle, rosterVars
<1>5. RequestsSound' /\ MarksSound'
  BY <1>1 DEF IInv, RequestsSound, MarksSound, rosterVars
<1>. QED
  BY <1>2, <1>3, <1>4, <1>5 DEF IInv

(* A raise's commit keeps the invariant: the request it writes is new. *)
LEMMA CommitRaiseIInv ==
  ASSUME IInv, NEW t \in Txns, CommitRaise(t)
  PROVE  IInv'
<1>. DEFINE d == tx[t].date
            s == tx[t].student
            r == tx[t].req
            raised == [state |-> "pending", date |-> d, student |-> s, before |-> tx[t].rows[s],
                       after |-> tx[t].after, by |-> tx[t].who, decidedBy |-> None, self |-> FALSE]
<1>1. /\ tx[t].phase = "raised" /\ d \in InstructionalDays /\ tx[t].who \in Persons
      /\ r \in Requests /\ s \in Students /\ tx[t].after \in Statuses
      /\ requests[r].state = "none"
  BY TxTyped DEF CommitRaise, Sound, DatesSound, RaiseSound
<1>2. tx[t].rows[s] \in Statuses \union {None} /\ tx[t].rows[s] # tx[t].after
  <2>1. tx[t].rows \in Rows
    BY TxTyped DEF Tx
  <2>. QED
    BY <1>1, <2>1 DEF CommitRaise, Rows
<1>3. /\ requests' = [requests EXCEPT ![r] = raised]
      /\ Ended(t) /\ UNCHANGED <<rosterVars, adminVars, recordVars>>
  BY DEF CommitRaise
<1>4. raised \in Ledger!Request
  BY <1>1, <1>2 DEF Ledger!Request, Ledger!States
<1>5. /\ raised.state = "pending" /\ raised.date = d /\ raised.student = s /\ raised.before = tx[t].rows[s]
      /\ raised.after = tx[t].after /\ raised.by = tx[t].who
  OBVIOUS
<1>. HIDE DEF raised
<1>6. requests' \in [Requests -> Ledger!Request] /\ requests'[r] = raised
      /\ \A q \in Requests \ {r} : requests'[q] = requests[q]
  BY <1>1, <1>3, <1>4 DEF IInv, TypeOK, Ledger!LedgerTypeOK
<1>7. TypeOK'
  BY <1>3, <1>6, EndedTyped DEF IInv, TypeOK, RosterTypeOK, Ledger!LedgerTypeOK, Ledger!Rows,
    rosterVars, adminVars, recordVars
<1>8. TxSound'
  BY <1>1, <1>3, <1>6, EndedSound DEF rosterVars, recordVars
<1>9. RequestsSound'
  BY <1>1, <1>2, <1>5, <1>6 DEF IInv, RequestsSound
<1>10. MembersExist' /\ MarksSound'
  BY <1>3, EndedTyped DEF IInv, MembersExist, SnapshotMembersExist, MarksSound, Idle, rosterVars, recordVars
<1>. QED
  BY <1>7, <1>8, <1>9, <1>10 DEF IInv

(* Deciding a request leaves it its target, its change and its requester. *)
LEMMA DecidedTyped ==
  ASSUME IInv, NEW t \in Txns, tx[t].phase \in RequestPhases, NEW state \in Ledger!States, NEW self \in BOOLEAN,
         state # "none",
         requests' = [requests EXCEPT ![tx[t].req].state = state, ![tx[t].req].decidedBy = tx[t].who,
                                      ![tx[t].req].self = self]
  PROVE  /\ tx[t].req \in Requests
         /\ requests' \in [Requests -> Ledger!Request]
         /\ requests'[tx[t].req].state = state
         /\ \A q \in Requests \ {tx[t].req} : requests'[q] = requests[q]
         /\ \A q \in Requests :
              /\ requests'[q].date = requests[q].date /\ requests'[q].student = requests[q].student
              /\ requests'[q].before = requests[q].before /\ requests'[q].after = requests[q].after
              /\ requests'[q].by = requests[q].by
              /\ requests[q].state # "none" => requests'[q].state # "none"
         /\ RequestsSound'
<1>. DEFINE r == tx[t].req
            decided == [requests[r] EXCEPT !.state = state, !.decidedBy = tx[t].who, !.self = self]
<1>1. r \in Requests /\ requests[r].state # "none" /\ tx[t].who \in Persons
  BY TxTyped DEF Sound, DecisionSound, DatesSound, DecidingPhases, RequestPhases
<1>2. requests \in [Requests -> Ledger!Request] /\ requests[r] \in Ledger!Request
  BY <1>1 DEF IInv, TypeOK, Ledger!LedgerTypeOK
<1>3. decided \in Ledger!Request
  BY <1>1, <1>2 DEF Ledger!Request
<1>4. requests' = [requests EXCEPT ![r] = decided]
  BY <1>1, <1>2
<1>5. /\ decided.state = state /\ decided.date = requests[r].date /\ decided.student = requests[r].student
      /\ decided.before = requests[r].before /\ decided.after = requests[r].after /\ decided.by = requests[r].by
  BY <1>2 DEF Ledger!Request
<1>. HIDE DEF decided
<1>6. requests' \in [Requests -> Ledger!Request] /\ requests'[r] = decided
      /\ \A q \in Requests \ {r} : requests'[q] = requests[q]
  <2>1. requests'[r] = decided /\ \A q \in Requests \ {r} : requests'[q] = requests[q]
    BY <1>1, <1>2, <1>4
  <2>2. requests' \in [Requests -> Ledger!Request]
    <3>. HIDE DEF r
    <3>. QED
      BY ONLY <1>1, <1>2, <1>3, <1>4
  <2>. QED
    BY <2>1, <2>2
<1>7. RequestsSound'
  <2>1. SUFFICES ASSUME NEW q \in Requests, requests'[q].state # "none"
                 PROVE  /\ requests[q].state # "none"
                        /\ requests'[q].date = requests[q].date /\ requests'[q].student = requests[q].student
                        /\ requests'[q].before = requests[q].before /\ requests'[q].after = requests[q].after
                        /\ requests'[q].by = requests[q].by
    BY DEF IInv, RequestsSound
  <2>. QED
    BY ONLY <1>1, <1>5, <1>6, <2>1
<1>. QED
  BY <1>1, <1>5, <1>6, <1>7

(* A rejection or a withdrawal keeps the invariant. *)
LEMMA CommitDecisionIInv ==
  ASSUME IInv, NEW t \in Txns, CommitDecision(t)
  PROVE  IInv'
<1>1. tx[t].phase = "judging" /\ Ended(t) /\ UNCHANGED <<rosterVars, adminVars, recordVars>>
  BY DEF CommitDecision
<1>2. PICK state \in {"rejected", "withdrawn"} :
        requests' = [requests EXCEPT ![tx[t].req].state = state, ![tx[t].req].decidedBy = tx[t].who]
  BY DEF CommitDecision
<1>3. tx[t].req \in Requests
  BY <1>1, TxTyped DEF Sound, DecisionSound, DecidingPhases, RequestPhases
<1>4. requests[tx[t].req] \in Ledger!Request
  BY <1>3 DEF IInv, TypeOK, Ledger!LedgerTypeOK
<1>5. requests' = [requests EXCEPT ![tx[t].req].state = state, ![tx[t].req].decidedBy = tx[t].who,
                                   ![tx[t].req].self = requests[tx[t].req].self]
  BY <1>2, <1>3, <1>4 DEF Ledger!Request, IInv, TypeOK, Ledger!LedgerTypeOK
<1>6. requests[tx[t].req].self \in BOOLEAN /\ state \in Ledger!States /\ state # "none"
  BY <1>4 DEF Ledger!Request, Ledger!States
<1>7. tx[t].phase \in RequestPhases
  BY <1>1 DEF RequestPhases
<1>8. TypeOK'
  BY <1>1, <1>5, <1>6, <1>7, DecidedTyped, EndedTyped, Zenon DEF IInv, TypeOK, RosterTypeOK, Ledger!LedgerTypeOK, Ledger!Rows,
    rosterVars, adminVars, recordVars
<1>9. TxSound'
  BY <1>1, <1>5, <1>6, <1>7, DecidedTyped, EndedSound, Zenon DEF rosterVars, recordVars
<1>10. RequestsSound'
  BY <1>5, <1>6, <1>7, DecidedTyped
<1>11. MembersExist' /\ MarksSound'
  BY <1>1, EndedTyped DEF IInv, MembersExist, SnapshotMembersExist, MarksSound, Idle, rosterVars, recordVars
<1>. QED
  BY <1>8, <1>9, <1>10, <1>11 DEF IInv

(* An approval's commit keeps the invariant: it wrote what it had locked. *)
LEMMA CommitApprovalIInv ==
  ASSUME IInv, NEW t \in Txns, CommitApproval(t)
  PROVE  IInv'
<1>. DEFINE d == tx[t].date
            s == tx[t].student
            r == tx[t].req
            now == attendance[d][s]
            want == tx[t].after
<1>1. /\ tx[t].phase = "applied" /\ tx[t].phase \in RequestPhases /\ Ended(t)
      /\ UNCHANGED <<rosterVars, adminVars, opened, captured>>
  BY DEF CommitApproval, RequestPhases
<1>2. /\ r \in Requests /\ d \in InstructionalDays /\ d <= today /\ s \in Students /\ want \in Statuses
      /\ tx[t].rows = attendance[d] /\ now \in Statuses \union {None} /\ None \notin Statuses
  <2>1. tx[t] \in Tx /\ Sound(t)
    BY TxTyped
  <2>2. r \in Requests /\ requests[r].state # "none" /\ s = requests[r].student /\ want = requests[r].after
        /\ d \in InstructionalDays /\ d <= today /\ tx[t].rows = attendance[d]
    BY <1>1, <2>1 DEF Sound, DecisionSound, DatesSound, ReadStands, DecidingPhases, RequestPhases, WritingPhases
  <2>3. s \in Students /\ want \in Statuses
    BY <2>2 DEF IInv, RequestsSound
  <2>. QED
    BY <2>2, <2>3, MarksTyped, AttendanceAssumption DEF Rows
<1>3. /\ attendance' = [attendance EXCEPT ![d][s] = want]
      /\ audit' = IF now = None THEN audit ELSE [audit EXCEPT ![d][s] = <<now, want>>]
      /\ requests' = [requests EXCEPT ![r].state = "approved", ![r].decidedBy = tx[t].who,
                                      ![r].self = tx[t].self]
  BY <1>2 DEF CommitApproval
<1>4. "approved" \in Ledger!States /\ tx[t].self \in BOOLEAN
  BY TxTyped DEF Ledger!States, Tx
<1>5. Ledger!LedgerTypeOK'
  <2>1. attendance' \in [InstructionalDays -> Ledger!Rows]
    BY <1>2, <1>3 DEF IInv, TypeOK, Ledger!LedgerTypeOK, Ledger!Rows
  <2>2. audit' \in [InstructionalDays -> [Students -> (Statuses \X Statuses) \union {None}]]
    <3>1. CASE now = None
      BY <1>3, <3>1 DEF IInv, TypeOK, Ledger!LedgerTypeOK
    <3>2. CASE now # None
      <4>1. <<now, want>> \in Statuses \X Statuses
        BY <1>2, <3>2
      <4>2. audit' = [audit EXCEPT ![d][s] = <<now, want>>]
        BY <1>3, <3>2
      <4>. QED
        BY <1>2, <4>1, <4>2 DEF IInv, TypeOK, Ledger!LedgerTypeOK
    <3>. QED
      BY <3>1, <3>2
  <2>. QED
    BY <1>1, <1>3, <1>4, <2>1, <2>2, DecidedTyped DEF Ledger!LedgerTypeOK
<1>6. TypeOK'
  BY <1>1, <1>5, EndedTyped DEF IInv, TypeOK, RosterTypeOK, rosterVars, adminVars
<1>7. TxSound'
  <2>1. \A e \in InstructionalDays : attendance'[e] # attendance[e] => e = d
    BY <1>2, <1>3 DEF IInv, TypeOK, Ledger!LedgerTypeOK, Ledger!Rows
  <2>2. \A q \in Requests : requests'[q] # requests[q] => q = r
    BY <1>1, <1>3, <1>4, DecidedTyped, Zenon
  <2>3. today' = today /\ tx[t].phase \in SessionPhases
    BY <1>1 DEF rosterVars, SessionPhases
  <2>. QED
    BY <1>1, <1>3, <1>4, <2>1, <2>2, <2>3, DecidedTyped, EndedSound, ZenonT(60)
<1>8. RequestsSound'
  BY <1>1, <1>3, <1>4, DecidedTyped
<1>9. MembersExist'
  BY <1>1, EndedTyped DEF IInv, MembersExist, SnapshotMembersExist, Idle, rosterVars
<1>10. MarksSound'
  <2>1. SUFFICES ASSUME NEW e \in InstructionalDays, NEW p \in Students
                 PROVE  /\ attendance'[e][p] # None => e <= today'
                        /\ audit'[e][p] # None => audit'[e][p][2] = attendance'[e][p]
    BY DEF MarksSound
  <2>2. today' = today /\ (attendance[e][p] # None => e <= today)
        /\ (audit[e][p] # None => audit[e][p][2] = attendance[e][p])
    BY <1>1 DEF rosterVars, IInv, MarksSound
  <2>3. CASE e = d /\ p = s
    <3>1. attendance'[d][s] = want
      BY <1>2, <1>3 DEF IInv, TypeOK, Ledger!LedgerTypeOK, Ledger!Rows
    <3>2. CASE now = None
      BY <1>2, <1>3, <2>2, <2>3, <3>1, <3>2, NoneUnaudited
    <3>3. CASE now # None
      <4>1. audit'[d][s] = <<now, want>>
        BY <1>2, <1>3, <3>3 DEF IInv, TypeOK, Ledger!LedgerTypeOK
      <4>. QED
        BY <1>2, <2>2, <2>3, <3>1, <4>1
    <3>. QED
      BY <3>2, <3>3
  <2>4. CASE ~(e = d /\ p = s)
    <3>1. attendance'[e][p] = attendance[e][p] /\ audit'[e][p] = audit[e][p]
      BY <1>2, <1>3, <2>4 DEF IInv, TypeOK, Ledger!LedgerTypeOK, Ledger!Rows
    <3>. QED
      BY <2>2, <3>1
  <2>. QED
    BY <2>3, <2>4
<1>. QED
  BY <1>6, <1>7, <1>8, <1>9, <1>10 DEF IInv

-----------------------------------------------------------------------------
(* Steps of nobody's transaction here. *)
LEMMA AdministratorChangeIInv ==
  ASSUME IInv, AdministratorChange
  PROVE  IInv'
<1>1. UNCHANGED <<rosterVars, recordVars, requests, lockVars, tx>>
  BY DEF AdministratorChange
<1>2. admins' \subseteq Persons /\ adminMoves' \in 0..MaxAdminMoves
  BY AttendanceAssumption DEF IInv, TypeOK, AdministratorChange, GrantAdministrator, RevokeAdministrator
<1>3. TypeOK'
  BY <1>1, <1>2 DEF IInv, TypeOK, RosterTypeOK, Ledger!LedgerTypeOK, Ledger!Rows, Ledger!Request,
    rosterVars, recordVars, lockVars
<1>4. TxSound'
  BY <1>1 DEF IInv, TxSound, Sound, HoldsItsLocks, ReadStands, SaveSound, RaiseSound, DecisionSound, DatesSound,
    rosterVars, recordVars, lockVars
<1>5. RequestsSound' /\ MembersExist' /\ MarksSound'
  BY <1>1 DEF IInv, RequestsSound, MembersExist, SnapshotMembersExist, MarksSound, rosterVars, recordVars
<1>. QED
  BY <1>3, <1>4, <1>5 DEF IInv

(* A roster change keeps it: Held and Kept hold what captures refer to. *)
LEMMA RosterChangeIInv ==
  ASSUME IInv, RosterChange
  PROVE  IInv'
<1>1. RosterTypeOK /\ RosterNext(Held, Kept) /\ UNCHANGED <<adminVars, recordVars, requests, lockVars, tx>>
  BY DEF IInv, TypeOK, RosterChange
<1>2. RosterTypeOK' /\ today <= today'
      /\ \A m \in Memberships : (m \in Held \/ m \in Kept) /\ roster[m] # None => roster'[m] # None
  BY <1>1, RosterNextTypeOK, RosterNextKeeps
<1>3. today \in Days /\ today' \in Days
  BY <1>1, <1>2 DEF RosterTypeOK
<1>4. TypeOK'
  BY <1>1, <1>2 DEF IInv, TypeOK, Ledger!LedgerTypeOK, Ledger!Rows, Ledger!Request, adminVars, recordVars, lockVars
<1>5. ASSUME NEW t \in Txns PROVE Sound(t)'
  <2>1. Sound(t) /\ tx' = tx /\ UNCHANGED <<attendance, requests, sessionLock, requestLock>>
    BY <1>1, TxTyped DEF recordVars, lockVars
  <2>2. DatesSound(t)'
    <3>1. DatesSound(t)
      BY <2>1 DEF Sound
    <3>2. ASSUME tx[t].phase \notin {"idle", "loaded"} PROVE tx[t].now \in Days /\ tx[t].now <= today'
      BY <3>1, <3>2, <1>2, <1>3, RosterAssumption DEF DatesSound, Days
    <3>3. ASSUME tx[t].phase \in WritingPhases PROVE tx[t].date <= today'
      <4>1. tx[t].date \in Days /\ tx[t].date <= today
        BY <3>1, <3>3, AttendanceAssumption DEF DatesSound, WritingPhases
      <4>. QED
        BY <4>1, <1>2, <1>3, RosterAssumption DEF Days
    <3>. QED
      BY <2>1, <3>1, <3>2, <3>3 DEF DatesSound
  <2>. QED
    BY <2>1, <2>2 DEF Sound, HoldsItsLocks, ReadStands, SaveSound, RaiseSound, DecisionSound
<1>6. MembersExist'
  BY <1>1, <1>2 DEF IInv, TypeOK, Tx, MembersExist, SnapshotMembersExist, Held, Kept, recordVars
<1>7. RequestsSound'
  BY <1>1 DEF IInv, RequestsSound
<1>8. MarksSound'
  <2>1. SUFFICES ASSUME NEW d \in InstructionalDays, NEW s \in Students
                 PROVE  /\ attendance'[d][s] # None => d <= today'
                        /\ audit'[d][s] # None => audit'[d][s][2] = attendance'[d][s]
    BY DEF MarksSound
  <2>2. d \in Days /\ attendance' = attendance /\ audit' = audit
    BY <1>1, MarksTyped DEF recordVars
  <2>. QED
    BY <1>2, <1>3, <2>2, RosterAssumption DEF IInv, MarksSound, Days
<1>. QED
  BY <1>4, <1>5, <1>6, <1>7, <1>8 DEF IInv, TxSound

(* And so does a step of something else. *)
LEMMA StutterIInv ==
  ASSUME IInv, UNCHANGED vars
  PROVE  IInv'
<1>1. UNCHANGED <<rosterVars, adminVars, recordVars, requests, lockVars, tx>>
  BY DEF vars
<1>2. TypeOK'
  BY <1>1 DEF IInv, TypeOK, RosterTypeOK, Ledger!LedgerTypeOK, Ledger!Rows, Ledger!Request,
    rosterVars, adminVars, recordVars, lockVars
<1>3. TxSound'
  BY <1>1 DEF IInv, TxSound, Sound, HoldsItsLocks, ReadStands, SaveSound, RaiseSound, DecisionSound, DatesSound,
    rosterVars, recordVars, lockVars
<1>4. RequestsSound' /\ MembersExist' /\ MarksSound'
  BY <1>1 DEF IInv, RequestsSound, MembersExist, SnapshotMembersExist, MarksSound, rosterVars, recordVars
<1>. QED
  BY <1>2, <1>3, <1>4 DEF IInv

(* Every first step of a transaction keeps the invariant. *)
LEMMA StartIInv ==
  ASSUME IInv, NEW t \in Txns, Start(t)
  PROVE  IInv'
<1>1. CASE \E want \in Rows, fill \in BOOLEAN : BeginSave(t, want, fill)
  BY <1>1, BeginSaveIInv
<1>2. CASE \E p \in Persons, d \in InstructionalDays : Load(t, p, d) \/ BeginRefresh(t, p, d)
  BY <1>2, LoadIInv, BeginRefreshIInv
<1>3. CASE \E p \in Persons, r \in Requests, d \in InstructionalDays, s \in Students, after \in Statuses :
             BeginRaise(t, p, r, d, s, after)
  BY <1>3, BeginRaiseIInv
<1>4. CASE \E p \in Persons, r \in Requests, act \in {"approve", "reject", "withdraw"} :
             BeginDecide(t, p, r, act)
  BY <1>4, BeginDecideIInv
<1>. QED
  BY <1>1, <1>2, <1>3, <1>4 DEF Start

(* Every step keeps the invariant. *)
LEMMA NextIInv ==
  ASSUME IInv, [Next]_vars
  PROVE  IInv'
<1>1. ASSUME NEW t \in Txns, Start(t) PROVE IInv'
  BY <1>1, StartIInv
<1>2. ASSUME NEW t \in Txns, Acquire(t) PROVE IInv'
  BY <1>2, HoldSessionIInv, HoldTargetIInv, HoldRequestIInv DEF Acquire
<1>3. ASSUME NEW t \in Txns, Proceed(t) PROVE IInv'
  BY <1>3, ReadSessionIInv, CommitSaveIInv, CommitRefreshIInv, CommitRaiseIInv, JudgeIInv, CommitDecisionIInv,
    CommitApprovalIInv, RolledBackIInv DEF Proceed, Refuse
<1>4. ASSUME NEW t \in Txns, Abort(t) PROVE IInv'
  BY <1>4, RolledBackIInv DEF Abort
<1>. QED
  BY <1>1, <1>2, <1>3, <1>4, AdministratorChangeIInv, RosterChangeIInv, StutterIInv DEF Next

-----------------------------------------------------------------------------
(* The inductive invariant: types, locks held where they are relied on,     *)
(* what was read under them still true at the commit, and requests and      *)
(* snapshots that name what exists (attendance and correction-requests      *)
(* routes, through their every interleaving).                               *)
THEOREM Invariance == Spec => []IInv
<1>. QED
  BY InitIInv, NextIInv, PTL DEF Spec

(* Every variable keeps its type, whatever the School's size. *)
THEOREM TypeCorrect == Spec => []TypeOK
<1>1. IInv => TypeOK
  BY DEF IInv
<1>. QED
  BY <1>1, Invariance, PTL

(* A mark's latest Audit record says what the mark says (recordChange and   *)
(* applyAttendance), for any number of concurrent saves and approvals.      *)
THEOREM TrailLeadsToTheMark == Spec => []AuditLeadsToTheMark
<1>1. IInv => AuditLeadsToTheMark
  BY DEF IInv, MarksSound, AuditLeadsToTheMark
<1>. QED
  BY <1>1, Invariance, PTL

(* No roster change takes away a membership a committed Roster snapshot     *)
(* captured (captureRosters against endToday, through their foreign key).   *)
THEOREM SnapshotsKeepTheirMembers == Spec => []SnapshotMembersExist
<1>1. IInv => SnapshotMembersExist
  BY DEF IInv, MembersExist
<1>. QED
  BY <1>1, Invariance, PTL

-----------------------------------------------------------------------------
(* Only four commits change a mark, its Audit record or a request. *)
LEMMA Writers ==
  ASSUME [Next]_vars
  PROVE  \/ \E t \in Txns : CommitSave(t) \/ CommitRaise(t) \/ CommitDecision(t) \/ CommitApproval(t)
         \/ UNCHANGED <<attendance, audit, requests>>
<1>1. ASSUME NEW t \in Txns, Start(t) PROVE UNCHANGED <<attendance, audit, requests>>
  BY <1>1 DEF Start, Load, BeginSave, BeginRefresh, BeginRaise, BeginDecide, recordVars
<1>2. ASSUME NEW t \in Txns, Acquire(t) PROVE UNCHANGED <<attendance, audit, requests>>
  BY <1>2 DEF Acquire, HoldSession, HoldTarget, HoldRequest, recordVars
<1>3. ASSUME NEW t \in Txns, ReadSession(t) \/ CommitRefresh(t) \/ Judge(t) \/ Refuse(t) \/ Abort(t)
      PROVE  UNCHANGED <<attendance, audit, requests>>
  BY <1>3 DEF ReadSession, CommitRefresh, CommitSession, Judge, Refuse, Abort, RolledBack, recordVars
<1>4. AdministratorChange \/ RosterChange => UNCHANGED <<attendance, audit, requests>>
  BY DEF AdministratorChange, RosterChange, recordVars
<1>5. UNCHANGED vars => UNCHANGED <<attendance, audit, requests>>
  BY DEF vars, recordVars
<1>. QED
  BY <1>1, <1>2, <1>3, <1>4, <1>5 DEF Next, Proceed

(* What each of the four is in the ledger. *)
LEMMA SaveIsLedgerSave ==
  ASSUME IInv, NEW t \in Txns, CommitSave(t)
  PROVE  tx[t].date \in InstructionalDays /\ Saved(t) \in Ledger!Rows /\ Ledger!Save(tx[t].date, Saved(t))
<1>. DEFINE d == tx[t].date
<1>1. tx[t].phase = "ready" /\ d \in InstructionalDays /\ UNCHANGED requests
      /\ attendance' = [attendance EXCEPT ![d] = Saved(t)] /\ audit' = [audit EXCEPT ![d] = SaveAudit(t)]
  BY TxTyped DEF CommitSave, CommitSession, Sound, DatesSound
<1>2. ASSUME NEW s \in Students
      PROVE  /\ Saved(t)[s] # attendance[d][s] => Saved(t)[s] # None /\ attendance[d][s] # AbsentPendingReview
             /\ SaveAudit(t)[s] = Ledger!Audited(d, Saved(t))[s]
  <2>. DEFINE now == attendance[d][s]
  <2>1. Present \in Statuses /\ AbsentPendingReview \in Statuses /\ None \notin Statuses
    BY AttendanceAssumption
  <2>2. Ledger!Audited(d, Saved(t))[s] =
          IF now # None /\ Saved(t)[s] # now THEN <<now, Saved(t)[s]>> ELSE audit[d][s]
    BY DEF Ledger!Audited
  <2>3. CASE Applies(t, s)
    BY <1>1, <2>1, <2>2, <2>3, SavedMark
  <2>4. CASE ~Applies(t, s) /\ Fills(t, s)
    BY <1>1, <2>1, <2>2, <2>4, SavedMark
  <2>5. CASE ~Applies(t, s) /\ ~Fills(t, s)
    BY <1>1, <2>1, <2>2, <2>5, SavedMark
  <2>. QED
    BY <2>3, <2>4, <2>5
<1>3. SaveAudit(t) = Ledger!Audited(d, Saved(t))
  <2>1. SaveAudit(t) = [s \in Students |-> SaveAudit(t)[s]]
    BY DEF SaveAudit
  <2>2. Ledger!Audited(d, Saved(t)) = [s \in Students |-> Ledger!Audited(d, Saved(t))[s]]
    BY DEF Ledger!Audited
  <2>3. [s \in Students |-> SaveAudit(t)[s]] = [s \in Students |-> Ledger!Audited(d, Saved(t))[s]]
    BY <1>2
  <2>. QED
    BY <2>1, <2>2, <2>3
<1>4. Saved(t) \in Ledger!Rows
  BY <1>1, SavedTyped DEF Rows, Ledger!Rows
<1>. QED
  BY <1>1, <1>2, <1>3, <1>4 DEF Ledger!Save, Ledger!Write

(* A raise is the ledger's Raise. *)
LEMMA RaiseIsLedgerRaise ==
  ASSUME IInv, NEW t \in Txns, CommitRaise(t)
  PROVE  \E r \in Requests, d \in InstructionalDays, s \in Students, after \in Statuses, p \in Persons :
           Ledger!Raise(r, d, s, after, p)
<1>1. /\ tx[t].req \in Requests /\ tx[t].date \in InstructionalDays /\ tx[t].student \in Students
      /\ tx[t].after \in Statuses /\ tx[t].who \in Persons
      /\ requests[tx[t].req].state = "none" /\ tx[t].rows = attendance[tx[t].date]
  BY TxTyped DEF CommitRaise, Sound, RaiseSound, DatesSound, ReadStands
<1>2. Ledger!Raise(tx[t].req, tx[t].date, tx[t].student, tx[t].after, tx[t].who)
  BY <1>1 DEF CommitRaise, Ledger!Raise, Ledger!NoRequest, recordVars
<1>. QED
  BY <1>1, <1>2

(* A rejection or a withdrawal is the ledger's Close. *)
LEMMA DecisionIsLedgerClose ==
  ASSUME IInv, NEW t \in Txns, CommitDecision(t)
  PROVE  \E r \in Requests, p \in Persons, state \in {"rejected", "withdrawn"} : Ledger!Close(r, p, state)
<1>1. /\ tx[t].req \in Requests /\ tx[t].who \in Persons
      /\ tx[t].act = "withdraw" => tx[t].who = requests[tx[t].req].by
  BY TxTyped DEF CommitDecision, Sound, DecisionSound, DatesSound, DecidingPhases, RequestPhases
<1>2. \E state \in {"rejected", "withdrawn"} : Ledger!Close(tx[t].req, tx[t].who, state)
  BY <1>1 DEF CommitDecision, StillPending, Ledger!Close, recordVars
<1>. QED
  BY <1>1, <1>2

(* An approval writes the change its request asked for, on the value it was raised over. *)
LEMMA ApprovalIsLedgerApprove ==
  ASSUME IInv, NEW t \in Txns, CommitApproval(t)
  PROVE  LET r == tx[t].req
         IN /\ r \in Requests /\ tx[t].who \in Persons /\ Ledger!Approve(r, tx[t].who)
            /\ requests[r].date = tx[t].date /\ requests[r].student = tx[t].student
            /\ requests[r].date \in InstructionalDays /\ requests[r].student \in Students
            /\ requests[r].after \in Statuses
<1>. DEFINE r == tx[t].req
            d == requests[r].date
            s == requests[r].student
            now == attendance[d][s]
            want == requests[r].after
            row == [attendance[d] EXCEPT ![s] = want]
<1>1. /\ tx[t].phase = "applied" /\ r \in Requests /\ tx[t].who \in Persons
      /\ tx[t].date = d /\ tx[t].student = s /\ tx[t].after = want
      /\ tx[t].rows = attendance[d] /\ requests[r].state = "pending"
      /\ tx[t].self = (requests[r].by = tx[t].who)
  BY TxTyped DEF CommitApproval, Sound, DecisionSound, DatesSound, ReadStands, DecidingPhases, RequestPhases
<1>2. d \in InstructionalDays /\ s \in Students /\ want \in Statuses /\ now # want /\ now = requests[r].before
  BY <1>1, Zenon DEF IInv, RequestsSound, CommitApproval, TargetUnchanged
<1>3. /\ attendance' = [attendance EXCEPT ![d][s] = want]
      /\ audit' = IF now = None THEN audit ELSE [audit EXCEPT ![d][s] = <<now, want>>]
      /\ requests' = [requests EXCEPT ![r].state = "approved", ![r].decidedBy = tx[t].who,
                                      ![r].self = (requests[r].by = tx[t].who)]
  BY <1>1, Zenon DEF CommitApproval
<1>4. attendance' = [attendance EXCEPT ![d] = row]
  BY <1>3
<1>5. audit' = [audit EXCEPT ![d] = Ledger!Audited(d, row)]
  <2>1. audit[d] \in [Students -> (Statuses \X Statuses) \union {None}] /\ attendance[d] \in [Students -> Statuses \union {None}]
    BY <1>2, MarksTyped DEF Rows
  <2>2. \A p \in Students : row[p] = IF p = s THEN want ELSE attendance[d][p]
    BY <2>1
  <2>. HIDE DEF row
  <2>3. CASE now = None
    <3>1. Ledger!Audited(d, row) = [p \in Students |-> audit[d][p]]
      BY <1>2, <2>2, <2>3 DEF Ledger!Audited
    <3>2. audit' = audit /\ audit = [audit EXCEPT ![d] = audit[d]]
      BY <1>2, <1>3, <2>3 DEF IInv, TypeOK, Ledger!LedgerTypeOK
    <3>. QED
      BY <2>1, <3>1, <3>2
  <2>4. CASE now # None
    <3>1. Ledger!Audited(d, row) = [audit[d] EXCEPT ![s] = <<now, want>>]
      BY <1>2, <2>1, <2>2, <2>4, Zenon DEF Ledger!Audited
    <3>. QED
      BY <1>3, <2>4, <3>1, Zenon
  <2>. QED
    BY <2>3, <2>4
<1>6. Ledger!Approve(r, tx[t].who)
  BY <1>1, <1>2, <1>3, <1>4, <1>5 DEF Ledger!Approve, Ledger!Write
<1>. QED
  BY <1>1, <1>2, <1>6

(* Every step is the ledger's, or leaves the ledger alone. *)
LEMMA NextIsLedgerNext ==
  ASSUME IInv, [Next]_vars
  PROVE  [Ledger!Next]_(Ledger!ledgerVars)
<1>1. ASSUME NEW t \in Txns, CommitSave(t) PROVE Ledger!Next
  BY <1>1, SaveIsLedgerSave DEF Ledger!Next
<1>2. ASSUME NEW t \in Txns, CommitRaise(t) PROVE Ledger!Next
  BY <1>2, RaiseIsLedgerRaise DEF Ledger!Next
<1>3. ASSUME NEW t \in Txns, CommitDecision(t) PROVE Ledger!Next
  BY <1>3, DecisionIsLedgerClose DEF Ledger!Next
<1>4. ASSUME NEW t \in Txns, CommitApproval(t) PROVE Ledger!Next
  BY <1>4, ApprovalIsLedgerApprove DEF Ledger!Next
<1>. QED
  BY <1>1, <1>2, <1>3, <1>4, Writers DEF Ledger!ledgerVars

(* The component implements the ledger: behind every interleaving of saves,  *)
(* refreshes, raises, decisions and roster changes, marks change atomically, *)
(* are audited truthfully, and each request is decided once.                 *)
THEOREM Refinement == Spec => ImplementsLedger
<1>1. Init => Ledger!Init
  BY DEF Init
<1>2. IInv /\ [Next]_vars => [Ledger!Next]_(Ledger!ledgerVars)
  BY NextIsLedgerNext
<1>. QED
  BY <1>1, <1>2, Invariance, PTL DEF Spec, ImplementsLedger, Ledger!Spec

(* A request is approved only from Pending, in the step that moves its mark *)
(* from its before value to its after value (PATCH correction-requests).    *)
THEOREM ApprovedOnce == Spec => ApprovalAppliesItsChange
<1>. DEFINE Applied(r) ==
       requests[r].state # "approved" /\ requests'[r].state = "approved"
         => LET d == requests[r].date
                s == requests[r].student
            IN /\ requests[r].state = "pending"
               /\ attendance[d][s] = requests[r].before
               /\ attendance'[d][s] = requests[r].after
<1>1. ASSUME IInv, [Next]_vars, NEW r \in Requests PROVE Applied(r)
  <2>1. CASE UNCHANGED requests
    BY <2>1
  <2>2. ASSUME NEW t \in Txns, CommitSave(t) PROVE UNCHANGED requests
    BY <2>2 DEF CommitSave, CommitSession
  <2>3. ASSUME NEW t \in Txns, CommitRaise(t) PROVE Applied(r)
    <3>1. requests'[r].state = "pending" \/ requests'[r] = requests[r]
      BY <1>1, <2>3 DEF CommitRaise, IInv, TypeOK, Ledger!LedgerTypeOK
    <3>. QED
      BY <3>1
  <2>4. ASSUME NEW t \in Txns, CommitDecision(t) PROVE Applied(r)
    <3>1. PICK q \in Requests, p \in Persons, state \in {"rejected", "withdrawn"} : Ledger!Close(q, p, state)
      BY <1>1, <2>4, DecisionIsLedgerClose
    <3>2. requests'[r].state = state \/ requests'[r] = requests[r]
      BY <1>1, <3>1 DEF Ledger!Close, IInv, TypeOK, Ledger!LedgerTypeOK, Ledger!Request
    <3>. QED
      BY <3>2
  <2>5. ASSUME NEW t \in Txns, CommitApproval(t) PROVE Applied(r)
    <3>1. CASE r # tx[t].req
      BY <1>1, <2>5, <3>1, ApprovalIsLedgerApprove, ZenonT(60) DEF Ledger!Approve, IInv, TypeOK, Ledger!LedgerTypeOK
    <3>2. CASE r = tx[t].req
      <4>1. /\ Ledger!Approve(r, tx[t].who)
            /\ requests[r].date \in InstructionalDays /\ requests[r].student \in Students
        BY <1>1, <2>5, <3>2, ApprovalIsLedgerApprove
      <4>. QED
        BY <1>1, <4>1 DEF Ledger!Approve, Ledger!Write, IInv, TypeOK, Ledger!LedgerTypeOK, Ledger!Rows
    <3>. QED
      BY <3>1, <3>2
  <2>. QED
    BY <1>1, <2>1, <2>2, <2>3, <2>4, <2>5, Writers
<1>2. IInv /\ [Next]_vars => \A r \in Requests : Applied(r)
  BY <1>1
<1>. QED
  BY <1>2, Invariance, PTL DEF Spec, ApprovalAppliesItsChange

-----------------------------------------------------------------------------
(* What a step makes of one transaction's own state. *)
LEMMA Moves ==
  ASSUME IInv, [Next]_vars, NEW t \in Txns
  PROVE  \/ tx'[t] = tx[t] \/ tx'[t] = Idle
         \/ Start(t) \/ Acquire(t) \/ ReadSession(t) \/ Judge(t)
<1>1. ASSUME NEW u \in Txns, u # t, Start(u) \/ Acquire(u) PROVE tx'[t] = tx[t]
  BY <1>1, ZenonT(60) DEF Start, Load, BeginSave, BeginRefresh, BeginRaise, BeginDecide, Acquire, HoldSession, HoldTarget,
    HoldRequest, Becomes, IInv, TypeOK
<1>2. ASSUME NEW u \in Txns, Proceed(u) \/ Abort(u)
      PROVE  tx'[t] = tx[t] \/ tx'[t] = Idle \/ ReadSession(t) \/ Judge(t)
  <2>1. CASE ReadSession(u) \/ Judge(u)
    BY <2>1 DEF ReadSession, Judge, Becomes, IInv, TypeOK
  <2>2. CASE Ended(u)
    BY <2>2, EndedTyped
  <2>. QED
    BY <1>2, <2>1, <2>2 DEF Proceed, CommitSave, CommitRefresh, CommitSession, CommitRaise, CommitDecision,
      CommitApproval, Refuse, Abort, RolledBack
<1>3. AdministratorChange \/ RosterChange \/ UNCHANGED vars => tx' = tx
  BY DEF AdministratorChange, RosterChange, vars
<1>. QED
  BY <1>1, <1>2, <1>3 DEF Next

(* A transaction just begun has judged nobody, and has only what its client loaded. *)
LEMMA BegunFields ==
  ASSUME IInv, NEW t \in Txns, Start(t), ~\E p \in Persons, d \in InstructionalDays : Load(t, p, d)
  PROVE  /\ tx'[t].phase \in {"waiting", "raising", "deciding"} /\ tx'[t].markable = {}
         /\ \/ tx'[t].view = Unmarked
            \/ tx'[t].view = tx[t].view /\ tx'[t].date = tx[t].date
<1>. tx[t] \in Tx /\ Sound(t) /\ tx \in [Txns -> Tx]
  BY TxTyped DEF IInv, TypeOK
<1>1. ASSUME NEW want \in Rows, NEW fill \in BOOLEAN, BeginSave(t, want, fill)
      PROVE  /\ tx'[t].phase = "waiting" /\ tx'[t].markable = tx[t].markable /\ tx[t].markable = {}
             /\ tx'[t].view = tx[t].view /\ tx'[t].date = tx[t].date
  <2>1. tx'[t] = [tx[t] EXCEPT !.phase = "waiting", !.now = today, !.want = want, !.fill = fill]
    BY <1>1 DEF BeginSave, Becomes
  <2>. QED
    BY <1>1, <2>1 DEF Tx, BeginSave, Sound, SaveSound
<1>2. ASSUME NEW p \in Persons, NEW d \in InstructionalDays, BeginRefresh(t, p, d)
      PROVE  tx'[t].phase = "waiting" /\ tx'[t].markable = {} /\ tx'[t].view = Unmarked
  BY <1>2 DEF BeginRefresh, Becomes, Idle
<1>3. ASSUME NEW p \in Persons, NEW r \in Requests, NEW d \in InstructionalDays,
             NEW s \in Students, NEW after \in Statuses, BeginRaise(t, p, r, d, s, after)
      PROVE  tx'[t].phase = "raising" /\ tx'[t].markable = {} /\ tx'[t].view = Unmarked
  BY <1>3 DEF BeginRaise, Becomes, Idle
<1>4. ASSUME NEW p \in Persons, NEW r \in Requests, NEW act \in {"approve", "reject", "withdraw"},
             BeginDecide(t, p, r, act)
      PROVE  tx'[t].phase = "deciding" /\ tx'[t].markable = {} /\ tx'[t].view = Unmarked
  BY <1>4 DEF BeginDecide, Becomes, Idle
<1>5. \/ \E want \in Rows, fill \in BOOLEAN : BeginSave(t, want, fill)
      \/ \E p \in Persons, d \in InstructionalDays : BeginRefresh(t, p, d)
      \/ \E p \in Persons, r \in Requests, d \in InstructionalDays, s \in Students, after \in Statuses :
           BeginRaise(t, p, r, d, s, after)
      \/ \E p \in Persons, r \in Requests, act \in {"approve", "reject", "withdraw"} :
           BeginDecide(t, p, r, act)
  BY Zenon DEF Start
<1>6. CASE \E want \in Rows, fill \in BOOLEAN : BeginSave(t, want, fill)
  BY <1>1, <1>6
<1>7. CASE \E p \in Persons, d \in InstructionalDays : BeginRefresh(t, p, d)
  BY <1>2, <1>7
<1>8. CASE \E p \in Persons, r \in Requests, d \in InstructionalDays, s \in Students, after \in Statuses :
             BeginRaise(t, p, r, d, s, after)
  BY <1>3, <1>8
<1>9. CASE \E p \in Persons, r \in Requests, act \in {"approve", "reject", "withdraw"} :
             BeginDecide(t, p, r, act)
  BY <1>4, <1>9
<1>. QED
  BY <1>5, <1>6, <1>7, <1>8, <1>9

(* One under way keeps what its client loaded and the date it is for. *)
LEMMA UnderWayFields ==
  ASSUME IInv, NEW t \in Txns, Acquire(t) \/ ReadSession(t) \/ Judge(t)
  PROVE  /\ tx'[t].view = tx[t].view /\ tx'[t].date = tx[t].date /\ tx'[t].student = tx[t].student
         /\ tx'[t].phase # "idle"
         /\ ~ReadSession(t) => tx'[t].markable = tx[t].markable
         /\ ReadSession(t) => tx'[t].markable = MarkableOn(Snapshot(t), tx[t].date) /\ tx'[t].adds = tx[t].adds
         /\ tx'[t].phase = "applied" => tx[t].phase = "applying"
         /\ tx'[t].phase = "applying" => Judge(t)
<1>. tx[t] \in Tx /\ tx \in [Txns -> Tx]
  BY TxTyped DEF IInv, TypeOK
<1>1. CASE HoldSession(t)
  <2>1. PICK adds : tx' = [tx EXCEPT ![t] = [tx[t] EXCEPT !.phase = "holding", !.adds = adds]]
    BY <1>1 DEF HoldSession, Becomes
  <2>. QED
    BY <1>1, <2>1 DEF Tx, HoldSession, ReadSession
<1>2. CASE HoldTarget(t)
  <2>1. PICK rows : tx' = [tx EXCEPT ![t] = [tx[t] EXCEPT !.phase = IF @ = "raising" THEN "raised" ELSE "applied",
                                                        !.rows = rows]]
    BY <1>2 DEF HoldTarget, Becomes
  <2>. QED
    BY <1>2, <2>1 DEF Tx, HoldTarget, ReadSession
<1>3. CASE HoldRequest(t)
  <2>1. tx' = [tx EXCEPT ![t] = [tx[t] EXCEPT !.phase = "judging"]]
    BY <1>3 DEF HoldRequest, Becomes
  <2>. QED
    BY <1>3, <2>1 DEF Tx, HoldRequest, ReadSession
<1>4. CASE ReadSession(t)
  <2>1. PICK rows : tx' = [tx EXCEPT ![t] = [tx[t] EXCEPT !.phase = "ready", !.rows = rows,
                                               !.markable = MarkableOn(Snapshot(t), tx[t].date)]]
    BY <1>4 DEF ReadSession, Becomes
  <2>. QED
    BY <1>4, <2>1 DEF Tx
<1>5. CASE Judge(t)
  <2>1. PICK self : tx' = [tx EXCEPT ![t] = [tx[t] EXCEPT !.phase = "applying", !.self = self]]
    BY <1>5 DEF Judge, Becomes
  <2>. QED
    BY <1>5, <2>1 DEF Tx, Judge, ReadSession
<1>. QED
  BY <1>1, <1>2, <1>3, <1>4, <1>5 DEF Acquire

(* Saves and approvals remove no mark. *)
LEMMA NoMarkRemoved ==
  ASSUME IInv, [Next]_vars, NEW d \in InstructionalDays, NEW s \in Students, attendance[d][s] # None
  PROVE  attendance'[d][s] # None
<1>1. ASSUME NEW t \in Txns, CommitSave(t) PROVE attendance'[d][s] # None
  <2>1. tx[t].date \in InstructionalDays /\ Ledger!Save(tx[t].date, Saved(t))
    BY <1>1, SaveIsLedgerSave
  <2>. QED
    BY <2>1 DEF Ledger!Save, Ledger!Write, IInv, TypeOK, Ledger!LedgerTypeOK
<1>2. ASSUME NEW t \in Txns, CommitApproval(t) PROVE attendance'[d][s] # None
  <2>1. /\ Ledger!Approve(tx[t].req, tx[t].who) /\ requests[tx[t].req].after # None
        /\ requests[tx[t].req].date \in InstructionalDays
    BY <1>2, ApprovalIsLedgerApprove, AttendanceAssumption
  <2>. QED
    BY <2>1 DEF Ledger!Approve, Ledger!Write, IInv, TypeOK, Ledger!LedgerTypeOK, Ledger!Rows
<1>3. ASSUME NEW t \in Txns, CommitRaise(t) \/ CommitDecision(t) PROVE attendance' = attendance
  BY <1>3 DEF CommitRaise, CommitDecision, recordVars
<1>. QED
  BY <1>1, <1>2, <1>3, Writers

(* What a client loaded stays recorded. *)
LEMMA NextLoadedSound ==
  ASSUME IInv, LoadedSound, [Next]_vars
  PROVE  LoadedSound'
<1>1. SUFFICES ASSUME NEW t \in Txns, NEW s \in Students, tx'[t].view[s] # None
               PROVE  tx'[t].phase # "idle" /\ attendance'[tx'[t].date][s] # None
  BY DEF LoadedSound
<1>. tx[t] \in Tx /\ Sound(t)
  BY TxTyped
<1>2. CASE /\ tx'[t].view = tx[t].view /\ tx'[t].date = tx[t].date
           /\ tx[t].phase # "idle" => tx'[t].phase # "idle"
  <2>1. tx[t].phase # "idle" /\ attendance[tx[t].date][s] # None
    BY <1>1, <1>2 DEF LoadedSound
  <2>2. tx[t].date \in InstructionalDays
    BY <2>1 DEF Sound, DatesSound
  <2>. QED
    BY <1>2, <2>1, <2>2, NoMarkRemoved
<1>3. CASE tx'[t].view = Unmarked
  BY <1>1, <1>3 DEF Unmarked
<1>4. ASSUME NEW p \in Persons, NEW d \in InstructionalDays, Load(t, p, d)
      PROVE  tx'[t].phase # "idle" /\ attendance'[tx'[t].date][s] # None
  <2>1. tx'[t] = [Idle EXCEPT !.phase = "loaded", !.act = "save", !.who = p, !.date = d, !.view = attendance[d]]
        /\ attendance' = attendance
    BY <1>4 DEF Load, Becomes, recordVars, IInv, TypeOK
  <2>2. tx'[t].date = d /\ tx'[t].view = attendance[d] /\ tx'[t].phase = "loaded"
    BY <2>1 DEF Idle
  <2>. QED
    BY <1>1, <2>1, <2>2
<1>5. ASSUME Start(t), ~\E p \in Persons, d \in InstructionalDays : Load(t, p, d)
      PROVE  \/ tx'[t].view = Unmarked
             \/ tx'[t].view = tx[t].view /\ tx'[t].date = tx[t].date /\ tx'[t].phase # "idle"
  BY <1>5, BegunFields
<1>6. ASSUME Acquire(t) \/ ReadSession(t) \/ Judge(t)
      PROVE  tx'[t].view = tx[t].view /\ tx'[t].date = tx[t].date /\ tx'[t].phase # "idle"
  BY <1>6, UnderWayFields
<1>7. CASE tx'[t] = tx[t] \/ tx'[t] = Idle
  BY <1>2, <1>3, <1>7 DEF Idle
<1>. QED
  BY <1>2, <1>3, <1>4, <1>5, <1>6, <1>7, Moves

(* No save overwrites a mark its client never loaded (attendance/routes.ts, *)
(* PATCH: "stale"), however many transactions ran in between.               *)
THEOREM NoLostUpdate == Spec => SavedOverLoaded
<1>. DEFINE Expected(t, d, s) ==
       tx[t].phase = "ready" /\ tx'[t] = Idle /\ attendance'[d][s] # attendance[d][s]
         => d = tx[t].date /\ attendance[d][s] = tx[t].view[s]
<1>1. Init => LoadedSound
  BY DEF Init, Idle, Unmarked, LoadedSound
<1>2. IInv /\ LoadedSound /\ [Next]_vars => LoadedSound'
  BY NextLoadedSound
<1>3. ASSUME IInv, LoadedSound, [Next]_vars, NEW t \in Txns, NEW d \in InstructionalDays, NEW s \in Students,
             tx[t].phase = "ready", tx'[t] = Idle, attendance'[d][s] # attendance[d][s]
      PROVE  d = tx[t].date /\ attendance[d][s] = tx[t].view[s]
  <2>1. PICK u \in Txns : CommitSave(u) \/ CommitApproval(u)
    BY <1>3, Writers DEF CommitRaise, CommitDecision, recordVars
  <2>2. u = t /\ CommitSave(t)
    <3>1. Ended(u)
      BY <2>1 DEF CommitSave, CommitSession, CommitApproval
    <3>2. tx'[t] = tx[t] \/ u = t
      BY <1>3, <3>1, EndedTyped
    <3>. QED
      BY <1>3, <2>1, <3>2 DEF Idle, CommitApproval
  <2>3. d = tx[t].date /\ Saved(t)[s] # attendance[d][s]
    BY <1>3, <2>2 DEF CommitSave, IInv, TypeOK, Ledger!LedgerTypeOK
  <2>4. CASE Applies(t, s)
    BY <1>3, <2>3, <2>4, SavedMark
  <2>5. CASE ~Applies(t, s)
    BY <1>3, <2>3, <2>5, SavedMark DEF LoadedSound
  <2>. QED
    BY <2>3, <2>4, <2>5
<1>4. IInv /\ LoadedSound /\ [Next]_vars
        => \A t \in Txns, d \in InstructionalDays, s \in Students : Expected(t, d, s)
  BY <1>3
<1>. QED
  BY <1>1, <1>2, <1>4, Invariance, PTL DEF Spec, SavedOverLoaded

-----------------------------------------------------------------------------
(* Where a commit writes a mark, its Student was found markable, or is the   *)
(* target of a request judged approvable.                                    *)
MayMark(t, s) ==
  \/ s \in tx[t].markable
  \/ tx[t].phase \in {"applying", "applied"} /\ s = tx[t].student

(* A mark changes only for whom its transaction may mark. *)
LEMMA MarkedByWhoMay ==
  ASSUME IInv, [Next]_vars, NEW d \in InstructionalDays, NEW s \in Students, attendance'[d][s] # attendance[d][s]
  PROVE  \E t \in Txns : MayMark(t, s) /\ tx[t].date = d /\ (CommitSave(t) \/ CommitApproval(t))
<1>1. PICK t \in Txns : CommitSave(t) \/ CommitApproval(t)
  BY Writers DEF CommitRaise, CommitDecision, recordVars
<1>2. CASE CommitSave(t)
  <2>1. tx[t].date = d /\ Saved(t)[s] # attendance[d][s] /\ tx[t].phase = "ready"
    BY <1>2 DEF CommitSave, IInv, TypeOK, Ledger!LedgerTypeOK
  <2>2. Applies(t, s) \/ Fills(t, s)
    BY <2>1, SavedMark
  <2>3. MayMark(t, s)
    BY <2>2 DEF Applies, Fills, MayMark
  <2>. QED
    BY <1>2, <2>1, <2>3
<1>3. CASE CommitApproval(t)
  <2>1. tx[t].date = d /\ tx[t].student = s /\ tx[t].phase = "applied"
    BY <1>3 DEF CommitApproval, IInv, TypeOK, Ledger!LedgerTypeOK, Ledger!Rows
  <2>. QED
    BY <1>3, <2>1 DEF MayMark
<1>. QED
  BY <1>1, <1>2, <1>3

(* Whoever may be marked on a date, after a step, could be before it, or was *)
(* found enrolled on it by that step; and the date is past or today.         *)
LEMMA MayMarkKept ==
  ASSUME IInv, [Next]_vars, NEW t \in Txns, NEW s \in Students, MayMark(t, s)'
  PROVE  /\ tx'[t].date \in InstructionalDays /\ tx'[t].date <= today
         /\ \/ MayMark(t, s) /\ tx'[t].date = tx[t].date
            \/ EnrolledOn(s, tx'[t].date)
<1>. tx[t] \in Tx /\ Sound(t)
  BY TxTyped
<1>0. ASSUME MayMark(t, s) PROVE tx[t].date \in InstructionalDays /\ tx[t].date <= today
  BY <1>0 DEF MayMark, Sound, SaveSound, DatesSound, WritingPhases
<1>1. CASE tx'[t] = tx[t]
  BY <1>0, <1>1 DEF MayMark
<1>2. CASE tx'[t] = Idle
  BY <1>2 DEF MayMark, Idle
<1>3. CASE Start(t)
  <2>1. CASE \E p \in Persons, d \in InstructionalDays : Load(t, p, d)
    BY <2>1 DEF Load, Becomes, Idle, MayMark, IInv, TypeOK
  <2>2. CASE ~\E p \in Persons, d \in InstructionalDays : Load(t, p, d)
    BY <1>3, <2>2, BegunFields DEF MayMark
  <2>. QED
    BY <2>1, <2>2
<1>4. CASE Acquire(t)
  <2>1. ~ReadSession(t) /\ ~Judge(t)
    BY <1>4 DEF Acquire, HoldSession, HoldTarget, HoldRequest, ReadSession, Judge
  <2>2. MayMark(t, s) /\ tx'[t].date = tx[t].date
    BY <1>4, <2>1, UnderWayFields DEF MayMark
  <2>. QED
    BY <1>0, <2>2
<1>5. CASE ReadSession(t)
  <2>1. ~Judge(t) /\ tx[t].phase = "holding"
    BY <1>5 DEF ReadSession, Judge
  <2>2. tx'[t].date = tx[t].date /\ s \in MarkableOn(Snapshot(t), tx[t].date)
    BY <1>5, <2>1, UnderWayFields DEF MayMark
  <2>3. EnrolledOn(s, tx[t].date)
    BY <2>2 DEF MarkableOn
  <2>. QED
    BY <2>1, <2>2, <2>3 DEF Sound, DatesSound, WritingPhases
<1>6. CASE Judge(t)
  <2>1. ~ReadSession(t) /\ tx[t].phase = "judging" /\ tx'[t].date = tx[t].date /\ tx'[t].student = tx[t].student
        /\ tx'[t].markable = tx[t].markable
    BY <1>6, UnderWayFields DEF ReadSession, Judge
  <2>2. tx[t].markable = {} /\ s = tx[t].student
    BY <2>1 DEF MayMark, Sound, SaveSound
  <2>3. RecordableDate(tx[t].date, tx[t].now) /\ RosteredOn(s, tx[t].date)
    BY <1>6, <2>2 DEF Judge, Correctable
  <2>4. tx[t].date \in InstructionalDays /\ tx[t].date <= tx[t].now /\ EnrolledOn(s, tx[t].date)
    BY <2>3 DEF RecordableDate, RosteredOn
  <2>5. tx[t].date \in Days /\ tx[t].now \in Days /\ tx[t].now <= today /\ today \in Days
    BY <2>1, <2>4, TodayTyped, AttendanceAssumption DEF Sound, DatesSound
  <2>. QED
    BY <2>1, <2>4, <2>5, RosterAssumption DEF Days
<1>. QED
  BY <1>1, <1>2, <1>3, <1>4, <1>5, <1>6, Moves

(* Not having left before a date up to today outlasts every step. *)
LEMMA LeavingKept ==
  ASSUME IInv, [Next]_vars, NEW s \in Students
  PROVE  /\ \A d \in Days : d <= today /\ NotLeftBefore(s, d) => NotLeftBefore(s, d)'
         /\ enrolledTo[s] <= leftOn[s] => enrolledTo'[s] <= leftOn'[s]
<1>1. CASE RosterChange
  BY <1>1, RosterNextLeaving DEF RosterChange, IInv, TypeOK
<1>2. CASE ~RosterChange
  <2>1. ASSUME NEW t \in Txns, Start(t) \/ Acquire(t) PROVE UNCHANGED <<enrolledTo, leftOn>>
    BY <2>1, Zenon DEF Start, Load, BeginSave, BeginRefresh, BeginRaise, BeginDecide, Acquire, HoldSession, HoldTarget,
      HoldRequest, rosterVars
  <2>2. ASSUME NEW t \in Txns, Proceed(t) \/ Abort(t) PROVE UNCHANGED <<enrolledTo, leftOn>>
    BY <2>2 DEF Proceed, ReadSession, CommitSave, CommitRefresh, CommitSession, CommitRaise, Judge, CommitDecision,
      CommitApproval, Refuse, Abort, RolledBack, rosterVars
  <2>3. AdministratorChange \/ UNCHANGED vars => UNCHANGED <<enrolledTo, leftOn>>
    BY DEF AdministratorChange, vars, rosterVars
  <2>4. UNCHANGED <<enrolledTo, leftOn>>
    BY <1>2, <2>1, <2>2, <2>3 DEF Next
  <2>. QED
    BY <2>4 DEF NotLeftBefore
<1>. QED
  BY <1>1, <1>2

(* Whoever may be marked on a date has not left before it. *)
LEMMA NextLeavingSound ==
  ASSUME IInv, LeavingSound, [Next]_vars
  PROVE  LeavingSound'
<1>1. ASSUME NEW t \in Txns, NEW s \in Students, MayMark(t, s) PROVE NotLeftBefore(s, tx[t].date)
  BY <1>1 DEF LeavingSound, MayMark
<1>2. ASSUME NEW s \in Students, NEW d \in Days, EnrolledOn(s, d) PROVE NotLeftBefore(s, d)
  <2>1. enrolledTo[s] \in Nat /\ leftOn[s] \in Nat /\ d \in Nat /\ enrolledTo[s] <= leftOn[s]
    BY RosterAssumption DEF LeavingSound, IInv, TypeOK, RosterTypeOK, Days, Open
  <2>. QED
    BY <1>2, <2>1 DEF EnrolledOn, NotLeftBefore
<1>3. ASSUME NEW t \in Txns, NEW s \in Students, MayMark(t, s)' PROVE NotLeftBefore(s, tx[t].date)'
  <2>1. tx'[t].date \in Days /\ tx'[t].date <= today /\ (NotLeftBefore(s, tx'[t].date) \/ EnrolledOn(s, tx'[t].date))
    BY <1>1, <1>3, MayMarkKept, AttendanceAssumption
  <2>2. PICK d \in Days : d = tx'[t].date /\ d <= today /\ (NotLeftBefore(s, d) \/ EnrolledOn(s, d))
    BY <2>1
  <2>3. NotLeftBefore(s, d)'
    BY <1>2, <2>2, LeavingKept
  <2>. QED
    BY <2>2, <2>3 DEF NotLeftBefore
<1>4. MarkedBeforeLeaving'
  <2>1. SUFFICES ASSUME NEW d \in InstructionalDays, NEW s \in Students, attendance'[d][s] # None
                 PROVE  NotLeftBefore(s, d)'
    BY DEF MarkedBeforeLeaving
  <2>2. d \in Days
    BY AttendanceAssumption
  <2>3. NotLeftBefore(s, d) /\ d <= today
    <3>1. CASE attendance'[d][s] = attendance[d][s]
      BY <2>1, <3>1 DEF LeavingSound, MarkedBeforeLeaving, IInv, MarksSound
    <3>2. CASE attendance'[d][s] # attendance[d][s]
      <4>1. PICK t \in Txns : MayMark(t, s) /\ tx[t].date = d
        BY <3>2, MarkedByWhoMay
      <4>2. d <= today
        BY <4>1, TxTyped DEF MayMark, Sound, SaveSound, DatesSound, WritingPhases, Tx
      <4>. QED
        BY <1>1, <4>1, <4>2
    <3>. QED
      BY <3>1, <3>2
  <2>. QED
    BY <2>2, <2>3, LeavingKept
<1>5. \A s \in Students : enrolledTo'[s] <= leftOn'[s]
  BY LeavingKept DEF LeavingSound
<1>6. \A t \in Txns : \A s \in tx'[t].markable : NotLeftBefore(s, tx[t].date)'
  <2>1. ASSUME NEW t \in Txns, NEW s \in tx'[t].markable PROVE s \in Students /\ MayMark(t, s)'
    <3>1. tx'[t] \in Tx
      BY NextIInv DEF IInv, TypeOK
    <3>. QED
      BY <3>1 DEF Tx, MayMark
  <2>. QED
    BY <1>3, <2>1
<1>7. \A t \in Txns : tx'[t].phase \in {"applying", "applied"} => NotLeftBefore(tx[t].student, tx[t].date)'
  <2>1. ASSUME NEW t \in Txns, tx'[t].phase \in {"applying", "applied"}
        PROVE  NotLeftBefore(tx[t].student, tx[t].date)'
    <3>1. tx'[t].student \in Students
      BY <2>1, NextIInv DEF IInv, TxSound, Sound, DecisionSound, DecidingPhases, RequestPhases, RequestsSound
    <3>2. PICK s \in Students : s = tx'[t].student
      BY <3>1
    <3>3. NotLeftBefore(s, tx[t].date)'
      BY <1>3, <2>1, <3>2 DEF MayMark
    <3>. QED
      BY <3>2, <3>3 DEF NotLeftBefore
  <2>. QED
    BY <2>1
<1>. QED
  BY <1>4, <1>5, <1>6, <1>7 DEF LeavingSound, NotLeftBefore

(* Nobody has Attendance on a date after the one their departure committed on *)
(* (CONTEXT.md, Roster snapshot), however departures interleave with saves    *)
(* and approvals, and whichever day before that the ending is dated.          *)
THEOREM NobodyMarkedAfterLeaving == Spec => []MarkedBeforeLeaving
<1>1. Init => LeavingSound
  <2>1. SUFFICES ASSUME Init PROVE LeavingSound
    OBVIOUS
  <2>2. \A s \in Students : enrolledTo[s] <= leftOn[s]
    <3>1. enrolledTo = [s \in Students |-> Open] /\ leftOn = [s \in Students |-> Open]
      BY <2>1 DEF Init, RosterInit
    <3>2. Open <= Open
      BY RosterAssumption DEF Open
    <3>. QED
      BY <3>1, <3>2
  <2>3. MarkedBeforeLeaving
    BY <2>1 DEF Init, Ledger!Init, MarkedBeforeLeaving
  <2>4. \A t \in Txns : tx[t].markable = {} /\ tx[t].phase = "idle"
    BY <2>1 DEF Init, Idle
  <2>5. \A t \in Txns : \A s \in tx[t].markable : NotLeftBefore(s, tx[t].date)
    BY <2>4
  <2>6. \A t \in Txns : tx[t].phase \in {"applying", "applied"} => NotLeftBefore(tx[t].student, tx[t].date)
    BY <2>4
  <2>. QED
    BY <2>2, <2>3, <2>5, <2>6 DEF LeavingSound
<1>2. IInv /\ LeavingSound /\ [Next]_vars => LeavingSound'
  BY NextLeavingSound
<1>3. LeavingSound => MarkedBeforeLeaving
  BY DEF LeavingSound
<1>. QED
  BY <1>1, <1>2, <1>3, Invariance, PTL DEF Spec

-----------------------------------------------------------------------------
(* Snapshots only grow, and an approved request stays approved. *)
LEMMA SnapshotsGrow ==
  ASSUME IInv, [Next]_vars, NEW d \in InstructionalDays
  PROVE  captured[d] \subseteq captured'[d]
<1>1. ASSUME NEW t \in Txns, CommitSession(t) PROVE captured[d] \subseteq captured'[d]
  BY <1>1 DEF CommitSession, Snapshot, IInv, TypeOK
<1>2. ASSUME NEW t \in Txns, Start(t) \/ Acquire(t) PROVE UNCHANGED captured
  BY <1>2, Zenon DEF Start, Load, BeginSave, BeginRefresh, BeginRaise, BeginDecide, Acquire, HoldSession, HoldTarget,
    HoldRequest, recordVars
<1>3. ASSUME NEW t \in Txns, Proceed(t) \/ Abort(t) PROVE CommitSession(t) \/ UNCHANGED captured
  BY <1>3 DEF Proceed, ReadSession, CommitSave, CommitRefresh, CommitRaise, Judge, CommitDecision,
    CommitApproval, Refuse, Abort, RolledBack, recordVars
<1>4. AdministratorChange \/ RosterChange \/ UNCHANGED vars => UNCHANGED captured
  BY DEF AdministratorChange, RosterChange, vars, recordVars
<1>. QED
  BY <1>1, <1>2, <1>3, <1>4 DEF Next

(* An approved request is never decided again. *)
LEMMA ApprovedStays ==
  ASSUME IInv, [Next]_vars, NEW r \in Requests, requests[r].state = "approved"
  PROVE  requests'[r].state = "approved" /\ requests'[r].date = requests[r].date
         /\ requests'[r].student = requests[r].student
<1>1. ASSUME NEW t \in Txns, CommitSave(t) PROVE UNCHANGED requests
  BY <1>1 DEF CommitSave, CommitSession
<1>2. ASSUME NEW t \in Txns, CommitRaise(t) PROVE requests'[r] = requests[r]
  <2>1. tx[t].req # r
    BY <1>2, TxTyped DEF CommitRaise, Sound, RaiseSound
  <2>. QED
    BY <1>2, <2>1 DEF CommitRaise, IInv, TypeOK, Ledger!LedgerTypeOK
<1>3. ASSUME NEW t \in Txns, CommitDecision(t) PROVE requests'[r] = requests[r]
  <2>1. tx[t].req # r
    BY <1>3 DEF CommitDecision, StillPending
  <2>. QED
    BY <1>3, <2>1 DEF CommitDecision, IInv, TypeOK, Ledger!LedgerTypeOK
<1>4. ASSUME NEW t \in Txns, CommitApproval(t) PROVE requests'[r] = requests[r]
  <2>1. tx[t].req # r
    BY <1>4, TxTyped DEF CommitApproval, Sound, ReadStands
  <2>. QED
    BY <1>4, <2>1 DEF CommitApproval, IInv, TypeOK, Ledger!LedgerTypeOK
<1>. QED
  BY <1>1, <1>2, <1>3, <1>4, Writers

(* Saves mark only whom their snapshot captured. *)
LEMMA NextCapturedSound ==
  ASSUME IInv, CapturedSound, [Next]_vars
  PROVE  CapturedSound'
<1>1. \A d \in InstructionalDays : CapturedStudents(captured[d]) \subseteq CapturedStudents(captured'[d])
  BY SnapshotsGrow DEF CapturedStudents
<1>2. UncapturedOnlyByCorrection'
  <2>1. SUFFICES ASSUME NEW d \in InstructionalDays, NEW s \in Students, attendance'[d][s] # None,
                        s \notin CapturedStudents(captured'[d])
                 PROVE  \E r \in Requests : /\ requests'[r].state = "approved"
                                            /\ requests'[r].date = d /\ requests'[r].student = s
    BY DEF UncapturedOnlyByCorrection, CapturedStudents
  <2>2. CASE attendance'[d][s] = attendance[d][s]
    <3>1. PICK r \in Requests : /\ requests[r].state = "approved"
                                /\ requests[r].date = d /\ requests[r].student = s
      BY <1>1, <2>1, <2>2 DEF CapturedSound, UncapturedOnlyByCorrection
    <3>. QED
      BY <3>1, ApprovedStays
  <2>3. CASE attendance'[d][s] # attendance[d][s]
    <3>1. PICK t \in Txns : MayMark(t, s) /\ tx[t].date = d /\ (CommitSave(t) \/ CommitApproval(t))
      BY <2>3, MarkedByWhoMay
    <3>2. CASE CommitSave(t)
      <4>1. captured'[d] = Snapshot(t) /\ tx[t].phase = "ready"
        BY <3>1, <3>2 DEF CommitSave, CommitSession, IInv, TypeOK
      <4>2. s \in CapturedStudents(Snapshot(t))
        BY <3>1, <4>1 DEF MayMark, CapturedSound
      <4>. QED
        BY <2>1, <4>1, <4>2
    <3>3. CASE CommitApproval(t)
      <4>. DEFINE r == tx[t].req
      <4>1. r \in Requests /\ requests[r].date = d /\ requests[r].student = tx[t].student
            /\ Ledger!Approve(r, tx[t].who)
        BY <3>1, <3>3, ApprovalIsLedgerApprove
      <4>2. s = tx[t].student
        BY <3>1, <3>3, TxTyped DEF CommitApproval, MayMark, Sound, SaveSound
      <4>3. requests'[r].state = "approved" /\ requests'[r].date = d /\ requests'[r].student = s
        BY <4>1, <4>2 DEF Ledger!Approve, IInv, TypeOK, Ledger!LedgerTypeOK, Ledger!Request
      <4>. QED
        BY <4>1, <4>3
    <3>. QED
      BY <3>1, <3>2, <3>3
  <2>. QED
    BY <2>2, <2>3
<1>3. ASSUME NEW t \in Txns, NEW s \in tx'[t].markable PROVE s \in CapturedStudents(Snapshot(t))'
  <2>1. CASE tx'[t] = Idle
    BY <1>3, <2>1 DEF Idle
  <2>2. CASE ReadSession(t)
    <3>1. s \in MarkableOn(Snapshot(t), tx[t].date) /\ tx'[t].adds = tx[t].adds /\ tx'[t].date = tx[t].date
          /\ captured' = captured
      BY <1>3, <2>2, UnderWayFields DEF ReadSession, recordVars
    <3>2. s \in CapturedStudents(Snapshot(t)) /\ Snapshot(t)' = Snapshot(t)
      BY <3>1 DEF MarkableOn, CapturedStudents, Snapshot
    <3>. QED
      BY <3>2 DEF CapturedStudents
  <2>3. CASE tx'[t] = tx[t]
    <3>1. tx[t].date \in InstructionalDays
      BY <1>3, <2>3, TxTyped DEF Sound, SaveSound, DatesSound
    <3>2. s \in CapturedStudents(Snapshot(t)) /\ Snapshot(t) \subseteq Snapshot(t)'
      BY <1>3, <2>3, <3>1, SnapshotsGrow DEF CapturedSound, Snapshot
    <3>. QED
      BY <3>2 DEF CapturedStudents
  <2>4. CASE Start(t)
    <3>1. CASE \E p \in Persons, d \in InstructionalDays : Load(t, p, d)
      BY <1>3, <3>1 DEF Load, Becomes, Idle, IInv, TypeOK
    <3>2. CASE ~\E p \in Persons, d \in InstructionalDays : Load(t, p, d)
      BY <1>3, <2>4, <3>2, BegunFields
    <3>. QED
      BY <3>1, <3>2
  <2>5. CASE Acquire(t) \/ Judge(t)
    <3>1. ~ReadSession(t) /\ tx[t].phase \notin {"ready"}
      BY <2>5 DEF Acquire, HoldSession, HoldTarget, HoldRequest, ReadSession, Judge
    <3>. QED
      BY <1>3, <2>5, <3>1, UnderWayFields, TxTyped DEF Sound, SaveSound
  <2>. QED
    BY <2>1, <2>2, <2>3, <2>4, <2>5, Moves
<1>4. \A t \in Txns : \A s \in tx'[t].markable : s \in CapturedStudents(Snapshot(t))'
  BY <1>3
<1>. QED
  BY <1>2, <1>4 DEF CapturedSound, CapturedStudents

(* A Student with Attendance on a date whose Roster snapshot never captured  *)
(* them owes it to an approved Correction request: no save marks outside its *)
(* snapshot, whatever the roster does meanwhile (capturedStudents).          *)
THEOREM OnlyCorrectionsReachTheUncaptured == Spec => []UncapturedOnlyByCorrection
<1>1. Init => CapturedSound
  BY DEF Init, Ledger!Init, Idle, CapturedSound, UncapturedOnlyByCorrection
<1>2. IInv /\ CapturedSound /\ [Next]_vars => CapturedSound'
  BY NextCapturedSound
<1>3. CapturedSound => UncapturedOnlyByCorrection
  BY DEF CapturedSound
<1>. QED
  BY <1>1, <1>2, <1>3, Invariance, PTL DEF Spec

=============================================================================
