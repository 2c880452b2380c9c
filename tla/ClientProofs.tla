----------------------------- MODULE ClientProofs -----------------------------
(***************************************************************************)
(* The inductive invariant IInv of Client, for any number of dates,        *)
(* Students and tasks: one lemma for each thing the user, the server or a  *)
(* task does, then what the sheet promises.                                *)
(***************************************************************************)
EXTENDS Client, TLAPS

-----------------------------------------------------------------------------
(* A task as it starts is a task, of the screen it starts on. *)
LEMMA NewTaskTyped ==
  ASSUME TypeOK, NEW id \in 1 .. MaxTasks,
         NEW does \in {"read", "save", "fill", "ask", "review", "publish", "shell"},
         NEW stage \in {"sending", "listing", "checking"}
  PROVE  NewTask(id, does, stage) \in Task
BY DEF TypeOK, NewTask, NoChoices, Task, Answers

(* Nothing on the screen changes with the one exception of the sheet, which  *)
(* stays the same sheet: what else the invariant says stays true.            *)
LEMMA SheetChanges ==
  ASSUME IInv,
         UNCHANGED <<kind, server, address, shown, records, busy, tasks, started>>,
         sheet' \in [id : Nat, choices : Choices, confirming : BOOLEAN], sheet'.id = sheet.id,
         \A s \in Students : Ready /\ sheet'.choices[s] # None => sheet'.choices[s].on = records.page,
         sheet'.confirming => sheet'.choices = NoChoices,
         \A t \in tasks : t.does \in {"review", "publish"} /\ UnderWay(t) /\ t.sheet = sheet.id
                            => sheet'.choices = NoChoices
  PROVE  IInv'
<1>1. TypeOK'
  BY DEF IInv, TypeOK, server, address
<1>2. ShownWasHeld' /\ (\A d \in Dates : mark[d] \in held[d])' /\ (Ready => route \in Dates)'
  BY DEF IInv, ShownWasHeld, Ready, server, address
<1>3. ChoicesStayOnTheirDate'
  BY DEF IInv, ChoicesStayOnTheirDate, Ready
<1>4. OneChange'
  BY DEF IInv, OneChange, UnderWay, Open, address
<1>5. ASSUME NEW t \in tasks PROVE TaskSound(t)' /\ NothingBeside(t)'
  BY DEF IInv, TaskSound, NothingBeside, UnderWay, Open, server, address
<1>. QED
  BY <1>1, <1>2, <1>3, <1>4, <1>5 DEF IInv

(* Choosing: only while nothing is under way and nothing waits to be confirmed. *)
LEMMA ChooseIInv ==
  ASSUME IInv, NEW s \in Students, NEW status \in Statuses, Choose(s, status)
  PROVE  IInv'
<1>. DEFINE choice == [status |-> status, on |-> records.page,
                       over |-> IF sheet.choices[s] = None THEN records.marks[s] ELSE sheet.choices[s].over]
<1>1. /\ records \in Records /\ sheet \in [id : Nat, choices : Choices, confirming : BOOLEAN]
      /\ Ready /\ ~ busy /\ ~ sheet.confirming
      /\ UNCHANGED <<kind, server, address, shown, records, busy, tasks, started>>
      /\ sheet' = [sheet EXCEPT !.choices[s] = choice]
  BY DEF IInv, TypeOK, Choose, Ready
<1>2. choice \in Choice /\ choice.on = records.page
  BY <1>1 DEF Records, Marks, Choice, Choices
<1>. HIDE DEF choice
<1>3. /\ sheet' \in [id : Nat, choices : Choices, confirming : BOOLEAN] /\ sheet'.id = sheet.id
      /\ ~ sheet'.confirming
      /\ sheet'.choices = [sheet.choices EXCEPT ![s] = choice]
  BY <1>1, <1>2 DEF Choices
<1>4. \A r \in Students : sheet'.choices[r] # None => sheet'.choices[r].on = records.page
  BY <1>1, <1>2, <1>3 DEF IInv, ChoicesStayOnTheirDate, Choices
<1>5. \A t \in tasks : UnderWay(t) => t.sheet # sheet.id
  BY <1>1 DEF IInv, OneChange, TaskSound
<1>. QED
  BY <1>1, <1>3, <1>4, <1>5, SheetChanges

(* A Publication waiting to be confirmed is given up. *)
LEMMA CancelIInv ==
  ASSUME IInv, Cancel
  PROVE  IInv'
<1>1. /\ sheet \in [id : Nat, choices : Choices, confirming : BOOLEAN]
      /\ UNCHANGED <<kind, server, address, shown, records, busy, tasks, started>>
      /\ sheet' = [sheet EXCEPT !.confirming = FALSE]
  BY DEF IInv, TypeOK, Cancel
<1>2. /\ sheet' \in [id : Nat, choices : Choices, confirming : BOOLEAN] /\ sheet'.id = sheet.id
      /\ ~ sheet'.confirming /\ sheet'.choices = sheet.choices
  BY <1>1
<1>3. /\ \A s \in Students : Ready /\ sheet'.choices[s] # None => sheet'.choices[s].on = records.page
      /\ \A t \in tasks : t.does \in {"review", "publish"} /\ UnderWay(t) /\ t.sheet = sheet.id
                            => sheet'.choices = NoChoices
  BY <1>2 DEF IInv, ChoicesStayOnTheirDate, NothingBeside
<1>. QED
  BY <1>1, <1>2, <1>3, SheetChanges

-----------------------------------------------------------------------------
(* A change is sent: the one under way, of the records now shown. *)
LEMMA SendIInv ==
  ASSUME IInv, NEW does \in {"save", "fill", "ask", "review", "publish"},
         NEW changes \in [Students -> Change \cup {None}], Send(does, changes),
         \A s \in Students : changes[s] # None => changes[s].on = records.page,
         does \in {"review", "publish"} => sheet.choices = NoChoices
  PROVE  IInv'
<1>. PICK new : new = [NewTask(started + 1, does, "sending")
                         EXCEPT !.on = records.page, !.list = route, !.changes = changes]
  OBVIOUS
<1>1. /\ Ready /\ ~ busy /\ started < MaxTasks
      /\ tasks' = tasks \cup {new} /\ started' = started + 1 /\ busy' = TRUE
      /\ UNCHANGED <<kind, server, address, shown, records, sheet>>
  BY DEF Send
<1>2. /\ started \in 0 .. MaxTasks /\ MaxTasks \in Nat /\ mount \in Nat /\ sheet.id \in Nat
      /\ records \in Records /\ records.page \in Dates /\ route \in Dates
  BY <1>1, ClientAssumption DEF IInv, TypeOK, Ready, Records
<1>3. new \in Task
  <2>1. NewTask(started + 1, does, "sending") \in Task
    BY <1>1, <1>2, NewTaskTyped DEF IInv
  <2>. QED
    BY <1>2, <2>1 DEF Task
<1>4. /\ new.does = does /\ new.stage = "sending" /\ new.on = records.page /\ new.list = route
      /\ new.mount = mount /\ new.sheet = sheet.id /\ new.changes = changes
      /\ new.answer = None /\ new.body = None
  BY DEF NewTask
<1>5. TypeOK'
  <2>1. /\ tasks' \subseteq Task /\ busy' \in BOOLEAN
        /\ started' \in 0 .. MaxTasks
    <3>1. tasks \subseteq Task
      BY DEF IInv, TypeOK
    <3>2. started + 1 \in 0 .. MaxTasks
      BY <1>1, <1>2
    <3>. QED
      BY <1>1, <1>3, <3>1, <3>2
  <2>. QED
    BY <1>1, <2>1 DEF IInv, TypeOK, server, address
<1>6. ShownWasHeld' /\ (\A d \in Dates : mark[d] \in held[d])' /\ (Ready => route \in Dates)'
      /\ (sheet.confirming => sheet.choices = NoChoices)'
  BY <1>1 DEF IInv, ShownWasHeld, Ready, server, address
<1>7. ChoicesStayOnTheirDate'
  <2>1. \A s \in Students : new.changes[s] # None => new.changes[s].on = new.on
    BY <1>4
  <2>2. \A t \in tasks, s \in Students : t.changes[s] # None => t.changes[s].on = t.on
    BY DEF IInv, ChoicesStayOnTheirDate
  <2>3. \A s \in Students : (Ready /\ sheet.choices[s] # None => sheet.choices[s].on = records.page)'
    BY <1>1 DEF IInv, ChoicesStayOnTheirDate, Ready
  <2>. QED
    BY <1>1, <2>1, <2>2, <2>3 DEF ChoicesStayOnTheirDate
<1>8. OneChange'
  <2>1. \A t \in tasks : ~ (UnderWay(t) /\ Open(t))
    BY <1>1 DEF IInv, OneChange
  <2>2. \A t \in tasks' : (UnderWay(t) /\ Open(t))' => t = new
    BY <1>1, <2>1 DEF UnderWay, Open, address
  <2>. QED
    BY <1>1, <2>2 DEF OneChange
<1>9. ASSUME NEW t \in tasks PROVE TaskSound(t)' /\ NothingBeside(t)'
  BY <1>1 DEF IInv, TaskSound, NothingBeside, UnderWay, Open, server, address
<1>10. TaskSound(new)' /\ NothingBeside(new)'
  <2>1. None \notin {"conflict", "ok"}
    BY ClientAssumption
  <2>2. /\ mount' = mount /\ sheet' = sheet /\ route' = route
    BY <1>1 DEF address
  <2>3. TaskSound(new)'
    BY <1>2, <1>4, <2>1, <2>2 DEF TaskSound, Open
  <2>4. NothingBeside(new)'
    BY <1>4, <2>2 DEF NothingBeside
  <2>. QED
    BY <2>3, <2>4
<1>. QED
  BY <1>1, <1>5, <1>6, <1>7, <1>8, <1>9, <1>10 DEF IInv

(* What is sent was chosen for the date of the records shown. *)
LEMMA SaveIInv ==
  ASSUME IInv, Save \/ MarkAllPresent
  PROVE  IInv'
<1>. DEFINE changes == [s \in Students |-> Chosen(s)]
<1>1. /\ Ready
      /\ Send("save", changes) \/ Send("fill", changes)
      /\ records \in Records /\ sheet.choices \in Choices
  BY DEF IInv, TypeOK, Save, MarkAllPresent, Ready
<1>2. ASSUME NEW s \in Students
      PROVE  Chosen(s) \in Change \cup {None} /\ (Chosen(s) # None => Chosen(s).on = records.page)
  <2>1. sheet.choices[s] \in Choice \cup {None} /\ records.marks[s] \in Statuses \cup {None}
    BY <1>1 DEF Choices, Records, Marks
  <2>2. sheet.choices[s] # None => sheet.choices[s].on = records.page
    BY <1>1 DEF IInv, ChoicesStayOnTheirDate
  <2>. QED
    BY <2>1, <2>2 DEF Chosen, Choice, Change
<1>3. changes \in [Students -> Change \cup {None}] /\ \A s \in Students : changes[s] # None => changes[s].on = records.page
  BY <1>2
<1>. HIDE DEF changes
<1>. QED
  BY <1>1, <1>3, SendIInv

(* Asking, reviewing and confirming send no marks. *)
LEMMA AskReviewConfirmIInv ==
  ASSUME IInv, Ask \/ Review \/ Confirm
  PROVE  IInv'
<1>1. NoChoices \in [Students -> Change \cup {None}] /\ \A s \in Students : NoChoices[s] = None
  BY DEF NoChoices
<1>2. CASE Ask
  BY <1>1, <1>2, SendIInv DEF Ask
<1>3. CASE Review
  BY <1>1, <1>3, SendIInv DEF Review
<1>4. CASE Confirm
  <2>1. sheet.choices = NoChoices /\ Send("publish", NoChoices)
    BY <1>4 DEF IInv, Confirm
  <2>. QED
    BY <1>1, <2>1, SendIInv
<1>. QED
  BY <1>2, <1>3, <1>4

-----------------------------------------------------------------------------
(* Whatever the server comes to hold, it has held it. *)
ServerGrows ==
  /\ mark' \in [Dates -> Marks] /\ held' \in [Dates -> SUBSET Marks]
  /\ live' \in BOOLEAN /\ others' \in 0 .. MaxOthers /\ failures' \in 0 .. MaxFailures
  /\ \A d \in Dates : held[d] \subseteq held'[d] /\ mark'[d] \in held'[d]

(* A server that stands still holds what it held. *)
LEMMA ServerStands ==
  ASSUME IInv, UNCHANGED <<mark, held, live, others>>, failures' \in 0 .. MaxFailures
  PROVE  ServerGrows
BY DEF IInv, TypeOK, ServerGrows

(* One task goes a statement further, and leaves the screen as it is but for *)
(* a change that is no longer under way: the invariant stays true.           *)
LEMMA TaskBecomes ==
  ASSUME IInv, NEW t \in tasks, NEW u \in Task, Becomes(t, u), ServerGrows,
         UNCHANGED <<kind, address, shown, records, sheet, started>>,
         busy' \in BOOLEAN, busy' = (busy /\ ~ (UnderWay(t) /\ Open(t) /\ ~ UnderWay(u))),
         u.mount = t.mount /\ u.sheet = t.sheet /\ u.does = t.does
           /\ u.on = t.on /\ u.list = t.list /\ u.changes = t.changes,
         u.stage = t.stage \/ u.stage = "checking" \/ (u.stage = "listing" /\ t.stage = "sending"),
         u.stage # "sending" => u.answer # "conflict",
         u.stage = "listing" /\ u.answer = "ok" => u.body # None,
         u.body # None => u.body.marks \in held'[u.body.page]
  PROVE  IInv'
<1>1. /\ tasks' = (tasks \ {t}) \cup {u} /\ tasks \subseteq Task
      /\ \A v \in tasks : TaskSound(v) /\ NothingBeside(v)
  BY DEF Becomes, Without, IInv, TypeOK
<1>2. UnderWay(u) => UnderWay(t)
  BY <1>1 DEF UnderWay, TaskSound, Task
<1>3. TypeOK'
  BY <1>1 DEF IInv, TypeOK, ServerGrows, address
<1>4. ShownWasHeld' /\ (\A d \in Dates : mark[d] \in held[d])' /\ (Ready => route \in Dates)'
      /\ (sheet.confirming => sheet.choices = NoChoices)'
  <2>1. Ready => records.page \in Dates /\ records.marks \in held[records.page]
    BY DEF IInv, TypeOK, Ready, ShownWasHeld, Records
  <2>. QED
    BY <2>1 DEF IInv, ShownWasHeld, Ready, ServerGrows, address
<1>5. ChoicesStayOnTheirDate'
  <2>1. \A v \in tasks', s \in Students : v.changes[s] # None => v.changes[s].on = v.on
    BY <1>1 DEF IInv, ChoicesStayOnTheirDate
  <2>. QED
    BY <2>1 DEF IInv, ChoicesStayOnTheirDate, Ready
<1>6. OneChange'
  <2>1. \A v \in tasks : (UnderWay(v) /\ Open(v))' <=> UnderWay(v) /\ Open(v)
    BY DEF UnderWay, Open, address
  <2>2. (UnderWay(u) /\ Open(u))' => UnderWay(t) /\ Open(t) /\ UnderWay(u)
    BY <1>2 DEF UnderWay, Open, address
  <2>3. \A v \in tasks \ {t} : UnderWay(v) /\ Open(v) => ~ (UnderWay(t) /\ Open(t)) /\ busy
    BY DEF IInv, OneChange
  <2>4. \A v \in tasks : UnderWay(v) /\ Open(v) => busy
    BY DEF IInv, OneChange
  <2>5. \A v, w \in tasks : UnderWay(v) /\ Open(v) /\ UnderWay(w) /\ Open(w) => v = w
    BY DEF IInv, OneChange
  <2>6. \A v \in tasks' : (UnderWay(v) /\ Open(v))' => busy'
    <3>1. \A v \in tasks \ {t} : (UnderWay(v) /\ Open(v))' => busy'
      BY <2>1, <2>3
    <3>2. (UnderWay(u) /\ Open(u))' => busy'
      BY <2>2, <2>4
    <3>. QED
      BY <1>1, <3>1, <3>2
  <2>7. \A v, w \in tasks' : (UnderWay(v) /\ Open(v) /\ UnderWay(w) /\ Open(w))' => v = w
    BY <1>1, <2>1, <2>2, <2>3, <2>5
  <2>. QED
    BY <2>6, <2>7 DEF OneChange
<1>7. ASSUME NEW v \in tasks PROVE TaskSound(v)' /\ NothingBeside(v)'
  <2>1. v.body # None => v.body.page \in Dates
    BY <1>1 DEF Task, Records
  <2>. QED
    BY <1>1, <2>1 DEF TaskSound, NothingBeside, UnderWay, Open, address, ServerGrows
<1>8. TaskSound(u)'
  BY <1>1 DEF TaskSound, Open, address
<1>9. NothingBeside(u)'
  BY <1>1, <1>2 DEF NothingBeside, UnderWay
<1>10. \A v \in tasks' : TaskSound(v)' /\ NothingBeside(v)'
  BY <1>1, <1>7, <1>8, <1>9
<1>. QED
  BY <1>3, <1>4, <1>5, <1>6, <1>10 DEF IInv

(* The server answers a change: a mark is saved where it is still the one loaded. *)
LEMMA ServeChangeIInv ==
  ASSUME IInv, NEW t \in tasks, ServeChange(t)
  PROVE  IInv'
<1>1. /\ t \in Task /\ TaskSound(t) /\ t.stage = "sending" /\ t.answer = None /\ t.on \in Dates
      /\ UNCHANGED <<kind, live, others, address, screen, started>>
      /\ mark \in [Dates -> Marks] /\ held \in [Dates -> SUBSET Marks] /\ mark[t.on] \in held[t.on]
      /\ failures \in 0 .. MaxFailures
  BY DEF IInv, TypeOK, ServeChange, TaskSound
<1>2. Saved(t) \in Marks
  BY <1>1, ClientAssumption DEF Saved, Marks, Task, Change
<1>3. PICK answer \in {"ok", "failed", "conflict"}, body \in Records \cup {None} :
        /\ Answered(t, answer, body)
        /\ \/ /\ mark' = [mark EXCEPT ![t.on] = Saved(t)]
              /\ held' = [held EXCEPT ![t.on] = @ \cup {Saved(t)}]
           \/ UNCHANGED <<mark, held>>
        /\ body # None => body.page = t.on /\ body.marks = Saved(t) /\ Saved(t) \in held'[t.on]
  <2>1. [page |-> t.on, marks |-> Saved(t)] \in Records
    BY <1>1, <1>2 DEF Records
  <2>. QED
    BY <1>1, <1>2, <2>1 DEF ServeChange
<1>4. ServerGrows
  <2>1. failures' \in 0 .. MaxFailures
    BY <1>1, <1>3, ClientAssumption DEF Answered
  <2>2. live' = live /\ others' = others
    BY <1>1
  <2>3. CASE UNCHANGED <<mark, held>>
    BY <2>1, <2>2, <2>3, ServerStands
  <2>4. CASE /\ mark' = [mark EXCEPT ![t.on] = Saved(t)]
             /\ held' = [held EXCEPT ![t.on] = @ \cup {Saved(t)}]
    <3>1. /\ mark' \in [Dates -> Marks] /\ held' \in [Dates -> SUBSET Marks]
          /\ \A d \in Dates : held[d] \subseteq held'[d]
      BY <1>1, <1>2, <2>4
    <3>2. \A d \in Dates : mark'[d] \in held'[d]
      BY <1>1, <1>2, <2>4 DEF IInv
    <3>. QED
      BY <2>1, <2>2, <3>1, <3>2 DEF IInv, TypeOK, ServerGrows
  <2>. QED
    BY <1>3, <2>3, <2>4
<1>. PICK new : new = [t EXCEPT !.answer = answer, !.body = body]
  OBVIOUS
<1>5. /\ new \in Task /\ new.mount = t.mount /\ new.sheet = t.sheet /\ new.does = t.does
      /\ new.on = t.on /\ new.list = t.list /\ new.changes = t.changes /\ new.stage = t.stage
      /\ new.answer = answer /\ new.body = body
  <2>1. answer \in Answers /\ body \in Records \cup {None} /\ t \in Task
    BY <1>1 DEF Answers
  <2>. QED
    BY <2>1 DEF Task
<1>6. Becomes(t, new)
  BY <1>3 DEF Answered
<1>7. busy' = busy /\ busy' \in BOOLEAN /\ UNCHANGED <<shown, records, sheet>>
  BY <1>1 DEF IInv, TypeOK, screen
<1>8. new.body # None => new.body.marks \in held'[new.body.page]
  BY <1>3, <1>5
<1>9. busy' = (busy /\ ~ (UnderWay(t) /\ Open(t) /\ ~ UnderWay(new)))
  BY <1>5, <1>7 DEF UnderWay
<1>. QED
  BY <1>1, <1>4, <1>5, <1>6, <1>7, <1>8, <1>9, TaskBecomes

(* The server answers a listing, or whether the session is live. *)
LEMMA ServeReadIInv ==
  ASSUME IInv, NEW t \in tasks, ServeRead(t)
  PROVE  IInv'
<1>1. /\ t \in Task /\ TaskSound(t) /\ t.stage # "sending" /\ t.stage \in {"listing", "checking"}
      /\ UNCHANGED <<kind, mark, held, live, others, address, screen, started>>
      /\ mark \in [Dates -> Marks] /\ failures \in 0 .. MaxFailures
      /\ t.stage = "listing" => t.list \in Dates
  BY ZenonT(60) DEF IInv, TypeOK, ServeRead, TaskSound, Task
<1>2. PICK answer \in {"ok", "failed"}, body \in Records \cup {None} :
        /\ Answered(t, answer, body)
        /\ answer = "ok" /\ t.stage = "listing" => body # None
        /\ body # None => body.page \in Dates /\ body.marks = mark[body.page]
  <2>1. t.stage = "listing" => /\ [page |-> t.list, marks |-> mark[t.list]] \in Records
                               /\ [page |-> t.list, marks |-> mark[t.list]] # None
    BY <1>1, NoneIsNothing DEF Records
  <2>2. CASE Answered(t, "failed", None)
    BY <2>2
  <2>3. CASE t.stage = "checking" /\ Answered(t, "ok", None)
    BY <2>3
  <2>4. CASE t.stage = "listing" /\ Answered(t, "ok", [page |-> t.list, marks |-> mark[t.list]])
    BY <1>1, <2>1, <2>4
  <2>. QED
    BY <2>2, <2>3, <2>4 DEF ServeRead
<1>3. ServerGrows
  <2>1. failures' \in 0 .. MaxFailures
    BY <1>1, <1>2, ClientAssumption DEF Answered
  <2>. QED
    BY <1>1, <2>1, ServerStands
<1>. PICK new : new = [t EXCEPT !.answer = answer, !.body = body]
  OBVIOUS
<1>4. /\ new \in Task /\ new.mount = t.mount /\ new.sheet = t.sheet /\ new.does = t.does
      /\ new.on = t.on /\ new.list = t.list /\ new.changes = t.changes /\ new.stage = t.stage
      /\ new.answer = answer /\ new.body = body
  <2>1. answer \in Answers /\ body \in Records \cup {None} /\ t \in Task
    BY <1>1 DEF Answers
  <2>. QED
    BY <2>1 DEF Task
<1>5. Becomes(t, new)
  BY <1>2 DEF Answered
<1>6. busy' = busy /\ busy' \in BOOLEAN /\ UNCHANGED <<shown, records, sheet>>
  BY <1>1 DEF IInv, TypeOK, screen
<1>7. new.body # None => new.body.marks \in held'[new.body.page]
  BY <1>1, <1>2, <1>4 DEF IInv
<1>8. busy' = (busy /\ ~ (UnderWay(t) /\ Open(t) /\ ~ UnderWay(new)))
  BY <1>4, <1>6 DEF UnderWay
<1>. QED
  BY <1>1, <1>2, <1>3, <1>4, <1>5, <1>6, <1>7, <1>8, TaskBecomes

(* What others do shows on no screen yet. *)
LEMMA ElsewhereIInv ==
  ASSUME IInv, Elsewhere
  PROVE  IInv'
<1>1. ServerGrows /\ UNCHANGED <<kind, address, screen, tasks, started>>
  <2>1. CASE SessionEnds
    BY <2>1 DEF IInv, TypeOK, SessionEnds, ServerGrows
  <2>2. ASSUME NEW d \in Dates, NEW s \in Students, NEW status \in Statuses, OtherChanges(d, s, status)
        PROVE  ServerGrows /\ UNCHANGED <<kind, address, screen, tasks, started>>
    <3>1. /\ mark \in [Dates -> Marks] /\ held \in [Dates -> SUBSET Marks] /\ \A e \in Dates : mark[e] \in held[e]
          /\ others \in 0 .. MaxOthers /\ others < MaxOthers /\ others' = others + 1
      BY <2>2 DEF IInv, TypeOK, OtherChanges
    <3>2. PICK now \in Marks : now = [mark[d] EXCEPT ![s] = status]
      BY <3>1 DEF Marks
    <3>3. mark' = [mark EXCEPT ![d] = now]
      BY <2>2, <3>2 DEF OtherChanges
    <3>4. mark' \in [Dates -> Marks] /\ mark'[d] = now
      BY <3>1, <3>3
    <3>5. held' = [held EXCEPT ![d] = @ \cup {now}]
      BY <2>2, <3>4 DEF OtherChanges
    <3>6. /\ held' \in [Dates -> SUBSET Marks]
          /\ \A e \in Dates : held[e] \subseteq held'[e] /\ mark'[e] \in held'[e]
      BY <3>1, <3>3, <3>5
    <3>7. others' \in 0 .. MaxOthers
      BY <3>1, ClientAssumption
    <3>. QED
      BY <2>2, <3>4, <3>6, <3>7 DEF IInv, TypeOK, OtherChanges, ServerGrows
  <2>. QED
    BY <2>1, <2>2 DEF Elsewhere
<1>2. TypeOK'
  BY <1>1 DEF IInv, TypeOK, ServerGrows, address, screen
<1>3. /\ ShownWasHeld' /\ (\A d \in Dates : mark[d] \in held[d])' /\ (Ready => route \in Dates)'
      /\ (sheet.confirming => sheet.choices = NoChoices)'
  <2>1. Ready => records.page \in Dates /\ records.marks \in held[records.page]
    BY DEF IInv, TypeOK, Ready, ShownWasHeld, Records
  <2>. QED
    BY <1>1, <2>1 DEF IInv, ShownWasHeld, Ready, ServerGrows, address, screen
<1>4. ChoicesStayOnTheirDate' /\ OneChange'
  BY <1>1 DEF IInv, ChoicesStayOnTheirDate, OneChange, UnderWay, Open, Ready, address, screen
<1>5. ASSUME NEW t \in tasks PROVE TaskSound(t)' /\ NothingBeside(t)'
  <2>1. t.body # None => t.body.page \in Dates
    BY DEF IInv, TypeOK, Task, Records
  <2>. QED
    BY <1>1, <2>1 DEF IInv, TaskSound, NothingBeside, UnderWay, Open, address, screen, ServerGrows
<1>. QED
  BY <1>1, <1>2, <1>3, <1>4, <1>5 DEF IInv

-----------------------------------------------------------------------------
(* A change that was answered goes on to list, or, failed, to ask whether the *)
(* session is live, and its screen is busy no more.                           *)
LEMMA ResumeSentIInv ==
  ASSUME IInv, NEW t \in tasks, ResumeSent(t)
  PROVE  IInv'
<1>1. /\ t \in Task /\ TaskSound(t) /\ t.stage = "sending" /\ t.answer # None
      /\ UNCHANGED <<kind, server, address, shown, records, sheet, started>> /\ busy \in BOOLEAN
      /\ t.does \notin {"read", "shell"} /\ failures \in 0 .. MaxFailures
  BY DEF IInv, TypeOK, ResumeSent, TaskSound
<1>2. ServerGrows
  BY <1>1, ServerStands DEF server
<1>. PICK new : new = [t EXCEPT !.sent = t.answer, !.read = t.body, !.answer = None, !.body = None,
                                !.stage = IF t.answer = "failed" THEN "checking" ELSE "listing"]
  OBVIOUS
<1>3. /\ new \in Task /\ new.mount = t.mount /\ new.sheet = t.sheet /\ new.does = t.does
      /\ new.on = t.on /\ new.list = t.list /\ new.changes = t.changes
      /\ new.stage = IF t.answer = "failed" THEN "checking" ELSE "listing"
      /\ new.answer = None /\ new.body = None
  <2>1. None \in Answers
    BY DEF Answers
  <2>. QED
    BY <1>1, <2>1 DEF Task
<1>4. Becomes(t, new) /\ busy' = IF t.answer = "failed" /\ Open(t) THEN FALSE ELSE busy
  BY DEF ResumeSent
<1>5. UnderWay(t) /\ (UnderWay(new) <=> t.answer # "failed")
  BY <1>1, <1>3 DEF UnderWay
<1>6. Open(t) => busy
  BY <1>5 DEF IInv, OneChange
<1>7. busy' \in BOOLEAN
  BY <1>1, <1>4
<1>8. busy' = (busy /\ ~ (UnderWay(t) /\ Open(t) /\ ~ UnderWay(new)))
  BY <1>1, <1>4, <1>5
<1>9. /\ new.stage # "sending" => new.answer # "conflict"
      /\ new.stage = "listing" /\ new.answer = "ok" => new.body # None
  BY <1>3, ClientAssumption
<1>. QED
  BY <1>1, <1>2, <1>3, <1>4, <1>7, <1>8, <1>9, TaskBecomes, ZenonT(60)

(* A task ends, and leaves on the screen what was confirmed and a sheet that *)
(* is the same, or let go of, or another: the invariant stays true.          *)
LEMMA TaskEnds ==
  ASSUME IInv, NEW t \in tasks, tasks' = tasks \ {t},
         UNCHANGED <<kind, server, address, started>>,
         shown' \in {"nothing", "loading", "not available", "ready"},
         records' \in Records \cup {None}, records' # None <=> shown' = "ready",
         Ready' => route \in Dates /\ records'.marks \in held[records'.page],
         sheet' \in [id : Nat, choices : Choices, confirming : BOOLEAN], sheet'.id >= sheet.id,
         sheet'.id = sheet.id /\ sheet.choices = NoChoices => sheet'.choices = NoChoices,
         sheet'.confirming => sheet'.choices = NoChoices,
         \A s \in Students : Ready' /\ sheet'.choices[s] # None => sheet'.choices[s].on = records'.page,
         busy' \in BOOLEAN, busy => busy' \/ (UnderWay(t) /\ Open(t))
  PROVE  IInv'
<1>1. TypeOK'
  BY DEF IInv, TypeOK, server, address
<1>2. ShownWasHeld' /\ (\A d \in Dates : mark[d] \in held[d])' /\ (Ready => route \in Dates)'
      /\ ChoicesStayOnTheirDate'
  BY DEF IInv, ShownWasHeld, ChoicesStayOnTheirDate, server, address
<1>3. OneChange'
  <2>1. \A v \in tasks' : v \in tasks /\ v # t /\ ((UnderWay(v) /\ Open(v))' <=> UnderWay(v) /\ Open(v))
    BY DEF UnderWay, Open, address
  <2>2. \A v \in tasks : UnderWay(v) /\ Open(v) => busy
    BY DEF IInv, OneChange
  <2>3. \A v, w \in tasks : UnderWay(v) /\ Open(v) /\ UnderWay(w) /\ Open(w) => v = w
    BY DEF IInv, OneChange
  <2>4. \A v \in tasks' : (UnderWay(v) /\ Open(v))' => busy'
    BY <2>1, <2>2, <2>3
  <2>5. \A v, w \in tasks' : (UnderWay(v) /\ Open(v) /\ UnderWay(w) /\ Open(w))' => v = w
    BY <2>1, <2>3
  <2>. QED
    BY <2>4, <2>5 DEF OneChange
<1>4. ASSUME NEW v \in tasks PROVE TaskSound(v)' /\ NothingBeside(v)'
  <2>1. /\ v.sheet \in Nat /\ sheet.id \in Nat /\ sheet'.id \in Nat
        /\ v.sheet <= sheet.id /\ sheet.id <= sheet'.id
    BY DEF IInv, TypeOK, Task, TaskSound
  <2>2. v.sheet <= sheet'.id /\ (v.sheet < sheet.id => v.sheet < sheet'.id)
        /\ (v.sheet = sheet'.id => sheet'.id = sheet.id)
    BY ONLY <2>1
  <2>3. TaskSound(v)'
    BY <2>2 DEF IInv, TaskSound, Open, server, address
  <2>4. NothingBeside(v)'
    BY <2>2 DEF IInv, NothingBeside, UnderWay
  <2>. QED
    BY <2>3, <2>4
<1>. QED
  BY <1>1, <1>2, <1>3, <1>4 DEF IInv

(* Another sheet is blank. *)
LEMMA BlankTyped ==
  ASSUME NEW id \in Nat
  PROVE  /\ BlankSheet(id) \in [id : Nat, choices : Choices, confirming : BOOLEAN]
         /\ BlankSheet(id).id = id /\ BlankSheet(id).choices = NoChoices /\ ~ BlankSheet(id).confirming
         /\ \A s \in Students : NoChoices[s] = None
BY DEF BlankSheet, Choices, NoChoices

(* The records a task listed are shown where its screen is still there, and *)
(* its own sheet's handler does what follows; a listing that failed asks    *)
(* whether the session is live.                                             *)
LEMMA ResumeListedIInv ==
  ASSUME IInv, NEW t \in tasks, ResumeListed(t)
  PROVE  IInv'
<1>1. /\ t \in Task /\ TaskSound(t) /\ NothingBeside(t) /\ t.stage = "listing" /\ t.answer # None
      /\ UNCHANGED <<kind, server, address, started>> /\ busy \in BOOLEAN
      /\ t.does # "shell" /\ (UnderWay(t) <=> t.does # "read") /\ failures \in 0 .. MaxFailures
      /\ busy' = IF t.does # "read" /\ Open(t) THEN FALSE ELSE busy
      /\ busy' \in BOOLEAN
  BY DEF IInv, TypeOK, ResumeListed, TaskSound, UnderWay
<1>2. (UnderWay(t) /\ Open(t)) => busy
  BY DEF IInv, OneChange
<1>3. CASE t.answer = "failed"
  <2>1. ServerGrows
    BY <1>1, ServerStands DEF server
  <2>. PICK new : new = [t EXCEPT !.answer = None, !.stage = "checking"]
    OBVIOUS
  <2>2. /\ new \in Task /\ new.mount = t.mount /\ new.sheet = t.sheet /\ new.does = t.does
        /\ new.on = t.on /\ new.list = t.list /\ new.changes = t.changes
        /\ new.stage = "checking" /\ new.answer = None /\ new.body = t.body
    <3>1. None \in Answers
      BY DEF Answers
    <3>. QED
      BY <1>1, <3>1 DEF Task
  <2>3. Becomes(t, new) /\ UNCHANGED <<shown, records, sheet>>
    BY <1>3 DEF ResumeListed
  <2>4. busy' = (busy /\ ~ (UnderWay(t) /\ Open(t) /\ ~ UnderWay(new)))
    <3>1. ~ UnderWay(new)
      BY <2>2 DEF UnderWay
    <3>. QED
      BY <1>1, <3>1
  <2>5. new.answer # "conflict" /\ (new.body # None => new.body.marks \in held'[new.body.page])
    BY <1>1, <2>2, ClientAssumption DEF TaskSound, server
  <2>. QED
    BY <1>1, <2>1, <2>2, <2>3, <2>4, <2>5, TaskBecomes
<1>4. CASE t.answer # "failed"
  <2>1. /\ tasks' = tasks \ {t}
        /\ shown' = IF Open(t) THEN "ready" ELSE shown
        /\ records' = IF Open(t) THEN t.body ELSE records
        /\ sheet' = Concluded(t, IF Open(t) THEN SheetShowing(t.body) ELSE sheet)
    BY <1>4 DEF ResumeListed, Without
  <2>2. t.body \in Records /\ t.body # None /\ t.body.marks \in held[t.body.page]
    <3>1. t.answer = "ok"
      BY <1>1, <1>4 DEF Task, Answers, TaskSound
    <3>. QED
      BY <1>1, <3>1 DEF Task, TaskSound
  <2>3. /\ sheet \in [id : Nat, choices : Choices, confirming : BOOLEAN] /\ sheet.id \in Nat
        /\ shown \in {"nothing", "loading", "not available", "ready"}
        /\ records \in Records \cup {None} /\ (records # None <=> Ready)
        /\ Ready => route \in Dates /\ records.marks \in held[records.page]
        /\ sheet.confirming => sheet.choices = NoChoices
        /\ \A s \in Students : Ready /\ sheet.choices[s] # None => sheet.choices[s].on = records.page
        /\ t.sheet \in Nat /\ t.sheet <= sheet.id
    BY <1>1 DEF IInv, TypeOK, Ready, ShownWasHeld, ChoicesStayOnTheirDate, Task, TaskSound
  <2>4. busy => busy' \/ (UnderWay(t) /\ Open(t))
    BY <1>1
  <2>5. CASE ~ Open(t)
    <3>1. sheet' = sheet
      <4>0. sheet.id \in Nat /\ t.sheet \in Nat /\ t.sheet < sheet.id
        BY <1>1, <2>3, <2>5 DEF TaskSound
      <4>1. sheet.id # t.sheet
        BY ONLY <4>0
      <4>. QED
        BY <2>1, <2>5, <4>1 DEF Concluded
    <3>2. shown' = shown /\ records' = records /\ (Ready' <=> Ready)
      BY <2>1, <2>5 DEF Ready
    <3>3. /\ shown' \in {"nothing", "loading", "not available", "ready"}
          /\ records' \in Records \cup {None} /\ (records' # None <=> shown' = "ready")
          /\ Ready' => route \in Dates /\ records'.marks \in held[records'.page]
      BY <2>3, <3>2 DEF Ready
    <3>5. sheet'.id >= sheet.id
      <4>1. sheet.id \in Nat /\ sheet'.id = sheet.id
        BY <2>3, <3>1
      <4>. QED
        BY ONLY <4>1
    <3>4. \A s \in Students : Ready' /\ sheet'.choices[s] # None => sheet'.choices[s].on = records'.page
      BY <2>3, <3>1, <3>2
    <3>. QED
      BY <1>1, <2>1, <2>3, <2>4, <3>1, <3>3, <3>4, <3>5, TaskEnds
  <2>6. CASE Open(t)
    <3>. DEFINE on == SheetShowing(t.body)
    <3>1. shown' = "ready" /\ records' = t.body /\ Ready' /\ sheet' = Concluded(t, on) /\ route \in Dates
      BY <1>1, <2>1, <2>6 DEF Ready, TaskSound
    <3>2. /\ on \in [id : Nat, choices : Choices, confirming : BOOLEAN]
          /\ \/ on = sheet /\ Ready /\ t.body.page = records.page
             \/ on.id = sheet.id + 1 /\ on.choices = NoChoices /\ ~ on.confirming
      <4>1. CASE Ready /\ t.body.page = records.page
        BY <2>3, <4>1 DEF SheetShowing
      <4>2. CASE ~ (Ready /\ t.body.page = records.page)
        <5>1. on = BlankSheet(sheet.id + 1)
          BY <4>2 DEF SheetShowing
        <5>2. sheet.id + 1 \in Nat
          <6>1. sheet.id \in Nat
            BY <2>3
          <6>. QED
            BY ONLY <6>1
        <5>. HIDE DEF on
        <5>. QED
          BY <5>1, <5>2, BlankTyped
      <4>. QED
        BY <4>1, <4>2
    <3>. HIDE DEF on
    <3>3. /\ sheet' \in [id : Nat, choices : Choices, confirming : BOOLEAN] /\ sheet'.id = on.id
          /\ sheet'.choices = on.choices \/ sheet'.choices = NoChoices
          /\ sheet'.confirming => on.confirming \/ (t.does = "review" /\ on.id = t.sheet)
      <4>1. NoChoices \in Choices
        BY DEF NoChoices, Choices
      <4>2. CASE on.id # t.sheet \/ t.does \notin {"save", "fill", "review", "publish"}
        BY <3>1, <3>2, <4>2 DEF Concluded
      <4>3. CASE on.id = t.sheet /\ t.does \in {"save", "fill"}
        BY <3>1, <3>2, <4>1, <4>3 DEF Concluded
      <4>4. CASE on.id = t.sheet /\ t.does = "review"
        <5>1. (t.sent = "ok" /\ Complete(t.read.marks)) \in BOOLEAN
          BY DEF Complete
        <5>2. sheet' = [on EXCEPT !.confirming = t.sent = "ok" /\ Complete(t.read.marks)]
          BY <3>1, <4>4 DEF Concluded
        <5>. QED
          BY <3>2, <4>4, <5>1, <5>2
      <4>5. CASE on.id = t.sheet /\ t.does = "publish"
        BY <3>1, <3>2, <4>5 DEF Concluded
      <4>. QED
        BY <4>2, <4>3, <4>4, <4>5
    <3>4. \A s \in Students : NoChoices[s] = None
      BY DEF NoChoices
    <3>5. \A s \in Students : sheet'.choices[s] # None => sheet'.choices[s].on = records'.page
      BY <2>3, <3>1, <3>2, <3>3, <3>4
    <3>6. /\ sheet'.id >= sheet.id
          /\ sheet'.id = sheet.id /\ sheet.choices = NoChoices => sheet'.choices = NoChoices
      <4>1. on.id = sheet.id \/ on.id = sheet.id + 1
        BY <3>2
      <4>2. sheet'.id >= sheet.id /\ (sheet'.id = sheet.id => on.id # sheet.id + 1)
        <5>1. sheet.id \in Nat /\ sheet'.id = on.id
          BY <2>3, <3>3
        <5>. QED
          BY ONLY <4>1, <5>1
      <4>. QED
        BY <3>2, <3>3, <4>2
    <3>7. sheet'.confirming => sheet'.choices = NoChoices
      <4>1. t.does = "review" /\ sheet.id = t.sheet => sheet.choices = NoChoices
        BY <1>1 DEF NothingBeside
      <4>2. on.id = t.sheet => on = sheet
        <5>1. t.sheet \in Nat /\ sheet.id \in Nat /\ t.sheet <= sheet.id
          BY <2>3
        <5>2. t.sheet # sheet.id + 1
          BY ONLY <5>1
        <5>. QED
          BY <3>2, <5>2
      <4>. QED
        BY <2>3, <3>2, <3>3, <4>1, <4>2
    <3>. QED
      BY <1>1, <2>1, <2>2, <2>4, <3>1, <3>3, <3>5, <3>6, <3>7, TaskEnds DEF server
  <2>. QED
    BY <2>5, <2>6
<1>. QED
  BY <1>3, <1>4

-----------------------------------------------------------------------------
(* Moving on: a task left behind belongs to a screen that is gone, or the   *)
(* same screen lists another date.                                          *)
LEMMA MoveToIInv ==
  ASSUME IInv, NEW to \in Dates \cup {"elsewhere", "signIn"}, NEW remaining \in SUBSET tasks,
         MoveTo(to, remaining), UNCHANGED <<kind, server>>,
         to # "signIn" => started + 2 <= MaxTasks
  PROVE  IInv'
<1>. DEFINE listing == to \in Dates
            stays == listing /\ route \in Dates
<1>1. /\ started \in 0 .. MaxTasks /\ MaxTasks \in Nat /\ mount \in Nat /\ sheet.id \in Nat
      /\ sheet \in [id : Nat, choices : Choices, confirming : BOOLEAN] /\ tasks \subseteq Task
      /\ listing => to # "signIn"
  BY ClientAssumption DEF IInv, TypeOK
<1>2. /\ route' = to
      /\ mount' = IF stays THEN mount ELSE mount + 1
      /\ mount' \in Nat
      /\ started' = started + (IF to = "signIn" THEN 0 ELSE IF listing THEN 2 ELSE 1)
      /\ IF stays THEN UNCHANGED screen
         ELSE /\ shown' = IF listing THEN "loading" ELSE "nothing"
              /\ records' = None /\ busy' = FALSE /\ sheet' = BlankSheet(sheet.id + 1)
  BY <1>1 DEF MoveTo
<1>3. started' \in 0 .. MaxTasks
  BY <1>1, <1>2
<1>. PICK shell : shell = NewTask(started + 1, "shell", "checking")
  OBVIOUS
<1>. PICK base : base = NewTask(started + 2, "read", "listing")
  OBVIOUS
<1>. PICK read : read = [base EXCEPT !.list = to, !.mount = mount']
  OBVIOUS
<1>4. tasks' = {t \in remaining : t.does # "shell"}
               \cup (IF to = "signIn" THEN {} ELSE {shell}) \cup (IF listing THEN {read} ELSE {})
  BY DEF MoveTo
<1>5. /\ to # "signIn" => shell \in Task
      /\ shell.does = "shell" /\ shell.stage = "checking" /\ shell.mount = mount /\ shell.sheet = sheet.id
      /\ shell.answer = None /\ shell.body = None /\ shell.changes = NoChoices
  <2>1. to # "signIn" => started + 1 \in 1 .. MaxTasks
    BY <1>1
  <2>2. to # "signIn" => shell \in Task
    BY <2>1, NewTaskTyped DEF IInv
  <2>. QED
    BY <2>2 DEF NewTask
<1>6. /\ listing => read \in Task
      /\ read.does = "read" /\ read.stage = "listing" /\ read.mount = mount' /\ read.sheet = sheet.id
      /\ read.answer = None /\ read.body = None /\ read.changes = NoChoices /\ read.list = to
  <2>1. listing => started + 2 \in 1 .. MaxTasks
    BY <1>1
  <2>2. listing => base \in Task
    BY <2>1, NewTaskTyped DEF IInv
  <2>3. listing => read \in Task
    BY <1>2, <2>2, ZenonT(60) DEF Task
  <2>. QED
    BY <2>3 DEF NewTask
<1>7. /\ sheet' \in [id : Nat, choices : Choices, confirming : BOOLEAN]
      /\ sheet.id \in Nat /\ sheet'.id \in Nat /\ sheet.id <= sheet'.id
      /\ ~ stays => sheet.id < sheet'.id /\ sheet'.choices = NoChoices /\ ~ sheet'.confirming
      /\ stays => sheet' = sheet
      /\ \A s \in Students : NoChoices[s] = None
  <2>1. sheet.id + 1 \in Nat
    BY ONLY <1>1
  <2>2. CASE stays
    BY <1>1, <1>2, <2>2, BlankTyped DEF screen
  <2>3. CASE ~ stays
    <3>1. /\ sheet' \in [id : Nat, choices : Choices, confirming : BOOLEAN]
          /\ sheet'.id = sheet.id + 1 /\ sheet'.choices = NoChoices /\ ~ sheet'.confirming
          /\ \A s \in Students : NoChoices[s] = None
      BY <1>2, <2>1, <2>3, BlankTyped
    <3>2. sheet.id \in Nat
      BY <1>1
    <3>3. sheet'.id \in Nat /\ sheet.id <= sheet'.id /\ sheet.id < sheet'.id
      BY ONLY <3>1, <3>2
    <3>. QED
      BY <2>3, <3>1, <3>2, <3>3
  <2>. QED
    BY <2>2, <2>3
<1>8. TypeOK'
  <2>1. tasks' \subseteq Task
    BY <1>1, <1>4, <1>5, <1>6
  <2>2. route' \in Dates \cup {"elsewhere", "signIn"}
    BY <1>2
  <2>3. /\ shown' \in {"nothing", "loading", "not available", "ready"}
        /\ records' \in Records \cup {None} /\ (records' # None <=> shown' = "ready")
        /\ busy' \in BOOLEAN
    BY <1>2 DEF IInv, TypeOK, screen
  <2>. QED
    BY <1>2, <1>3, <1>7, <2>1, <2>2, <2>3 DEF IInv, TypeOK, server
<1>9. /\ ShownWasHeld' /\ (\A d \in Dates : mark[d] \in held[d])' /\ (Ready => route \in Dates)'
      /\ (sheet.confirming => sheet.choices = NoChoices)'
  BY <1>2, <1>7 DEF IInv, ShownWasHeld, Ready, server, screen
<1>10. ChoicesStayOnTheirDate'
  <2>1. \A t \in tasks', s \in Students : t.changes[s] # None => t.changes[s].on = t.on
    <3>1. \A s \in Students : shell.changes[s] = None /\ read.changes[s] = None
      BY <1>5, <1>6, <1>7
    <3>2. \A t \in tasks, s \in Students : t.changes[s] # None => t.changes[s].on = t.on
      BY DEF IInv, ChoicesStayOnTheirDate
    <3>3. \A t \in tasks' : t \in tasks \/ t = shell \/ t = read
      BY <1>4
    <3>. QED
      BY <3>1, <3>2, <3>3
  <2>2. \A s \in Students : (Ready /\ sheet.choices[s] # None => sheet.choices[s].on = records.page)'
    BY <1>2, <1>7 DEF IInv, ChoicesStayOnTheirDate, Ready, screen
  <2>. QED
    BY <2>1, <2>2 DEF ChoicesStayOnTheirDate
<1>11. ASSUME NEW t \in tasks
       PROVE  /\ t.mount \in Nat /\ t.mount <= mount /\ t.sheet \in Nat
              /\ TaskSound(t)' /\ NothingBeside(t)'
              /\ Open(t)' => stays /\ Open(t)
  <2>1. t \in Task /\ TaskSound(t) /\ NothingBeside(t) /\ t.mount \in Nat /\ t.sheet \in Nat
        /\ t.mount <= mount /\ t.sheet <= sheet.id /\ (~ Open(t) => t.sheet < sheet.id)
    BY DEF IInv, TypeOK, Task, TaskSound
  <2>2. /\ t.mount <= mount' /\ (Open(t)' => stays /\ Open(t))
    <3>1. t.mount \in Nat /\ t.mount <= mount /\ mount \in Nat /\ mount' = IF stays THEN mount ELSE mount + 1
      BY <1>1, <1>2, <2>1
    <3>2. t.mount <= mount' /\ (t.mount = mount' => stays /\ t.mount = mount)
      BY ONLY <3>1
    <3>. QED
      BY <3>2 DEF Open
  <2>3. t.sheet <= sheet'.id /\ (~ Open(t)' => t.sheet < sheet'.id)
    <3>1. stays => (Open(t)' <=> Open(t)) /\ sheet'.id = sheet.id
      BY <1>2, <1>7 DEF Open
    <3>2. CASE stays
      BY <2>1, <3>1, <3>2
    <3>3. CASE ~ stays
      <4>1. t.sheet \in Nat /\ t.sheet <= sheet.id /\ sheet.id \in Nat /\ sheet'.id \in Nat /\ sheet.id < sheet'.id
        BY <1>7, <2>1, <3>3
      <4>. QED
        BY ONLY <4>1
    <3>. QED
      BY <3>2, <3>3
  <2>4. Open(t)' => route' \in Dates
    BY <1>2, <2>2
  <2>5. TaskSound(t)'
    BY <2>1, <2>2, <2>3, <2>4 DEF TaskSound, server
  <2>6. NothingBeside(t)'
    <3>1. t.sheet = sheet'.id => stays
      <4>1. CASE ~ stays
        <5>1. t.sheet \in Nat /\ t.sheet <= sheet.id /\ sheet.id \in Nat /\ sheet'.id \in Nat /\ sheet.id < sheet'.id
          BY <1>7, <2>1, <4>1
        <5>. QED
          BY ONLY <5>1
      <4>. QED
        BY <4>1
    <3>. QED
      BY <1>7, <2>1, <3>1 DEF NothingBeside, UnderWay
  <2>. QED
    BY <2>1, <2>2, <2>5, <2>6
<1>12. to # "signIn" => TaskSound(shell)' /\ NothingBeside(shell)' /\ ~ UnderWay(shell)'
  <2>1. mount <= mount' /\ (mount' # mount => sheet.id < sheet'.id)
    <3>1. mount \in Nat /\ mount' = IF stays THEN mount ELSE mount + 1
      BY <1>1, <1>2
    <3>2. mount <= mount' /\ (mount' # mount => ~ stays)
      BY ONLY <3>1
    <3>. QED
      BY <1>7, <3>2
  <2>. QED
    BY <1>5, <1>7, <2>1, ClientAssumption DEF TaskSound, NothingBeside, UnderWay, Open
<1>13. listing => TaskSound(read)' /\ NothingBeside(read)' /\ ~ UnderWay(read)'
  <2>1. mount' <= mount'
    BY <1>2
  <2>. QED
    BY <1>2, <1>6, <1>7, <2>1, ClientAssumption DEF TaskSound, NothingBeside, UnderWay, Open
<1>14. \A t \in tasks' : /\ TaskSound(t)' /\ NothingBeside(t)'
                         /\ (UnderWay(t) /\ Open(t))' => t \in tasks /\ stays /\ UnderWay(t) /\ Open(t)
  BY <1>4, <1>11, <1>12, <1>13 DEF UnderWay
<1>15. OneChange'
  <2>1. stays => busy' = busy
    BY <1>2 DEF screen
  <2>2. \A v \in tasks : UnderWay(v) /\ Open(v) => busy
    BY DEF IInv, OneChange
  <2>3. \A v, w \in tasks : UnderWay(v) /\ Open(v) /\ UnderWay(w) /\ Open(w) => v = w
    BY DEF IInv, OneChange
  <2>4. \A v \in tasks' : (UnderWay(v) /\ Open(v))' => busy'
    BY <1>14, <2>1, <2>2
  <2>5. \A v, w \in tasks' : (UnderWay(v) /\ Open(v) /\ UnderWay(w) /\ Open(w))' => v = w
    BY <1>14, <2>3
  <2>. QED
    BY <2>4, <2>5 DEF OneChange
<1>. QED
  BY <1>8, <1>9, <1>10, <1>14, <1>15 DEF IInv

(* A user moves on, or back. *)
LEMMA NavigateIInv ==
  ASSUME IInv, NEW to \in Dates \cup {"elsewhere"}, Navigate(to)
  PROVE  IInv'
<1>1. MoveTo(to, tasks) /\ UNCHANGED <<kind, server>> /\ started + 2 <= MaxTasks
  BY DEF Navigate
<1>. QED
  BY <1>1, MoveToIInv

(* A task that asked about the session ends, or leads to the sign-in screen. *)
LEMMA ResumeShellIInv ==
  ASSUME IInv, NEW t \in tasks, ResumeShell(t)
  PROVE  IInv'
<1>1. UNCHANGED <<kind, server>> /\ Without(t) \in SUBSET tasks /\ "signIn" \in Dates \cup {"elsewhere", "signIn"}
  BY DEF ResumeShell, Without
<1>2. CASE t.answer = "failed"
  <2>1. MoveTo("signIn", Without(t))
    BY <1>2 DEF ResumeShell
  <2>. QED
    BY <1>1, <2>1, MoveToIInv
<1>3. CASE t.answer # "failed"
  <2>1. tasks' = tasks \ {t} /\ UNCHANGED <<address, screen, started>>
    BY <1>3 DEF ResumeShell, Without
  <2>2. /\ shown \in {"nothing", "loading", "not available", "ready"}
        /\ records \in Records \cup {None} /\ (records # None <=> Ready)
        /\ Ready => route \in Dates /\ records.marks \in held[records.page]
        /\ sheet \in [id : Nat, choices : Choices, confirming : BOOLEAN] /\ sheet.id \in Nat
        /\ sheet.confirming => sheet.choices = NoChoices
        /\ \A s \in Students : Ready /\ sheet.choices[s] # None => sheet.choices[s].on = records.page
        /\ busy \in BOOLEAN
    BY DEF IInv, TypeOK, Ready, ShownWasHeld, ChoicesStayOnTheirDate
  <2>3. UNCHANGED <<shown, records, busy, sheet>> /\ Ready' = Ready
    BY <2>1 DEF screen, Ready
  <2>4. sheet'.id >= sheet.id
    <3>1. sheet.id \in Nat /\ sheet'.id = sheet.id
      BY <2>2, <2>3
    <3>. QED
      BY ONLY <3>1
  <2>. QED
    BY <1>1, <2>1, <2>2, <2>3, <2>4, TaskEnds DEF Ready, server
<1>. QED
  BY <1>2, <1>3

(* A task that asked after its listing or its change failed shows that nothing *)
(* is available, or leads to the sign-in screen.                               *)
LEMMA ResumeCheckedIInv ==
  ASSUME IInv, NEW t \in tasks, ResumeChecked(t)
  PROVE  IInv'
<1>1. UNCHANGED <<kind, server>> /\ Without(t) \in SUBSET tasks /\ "signIn" \in Dates \cup {"elsewhere", "signIn"}
  BY DEF ResumeChecked, Without
<1>2. CASE Open(t) /\ t.answer = "failed"
  <2>1. MoveTo("signIn", Without(t))
    BY <1>2 DEF ResumeChecked
  <2>. QED
    BY <1>1, <2>1, MoveToIInv
<1>3. CASE ~ (Open(t) /\ t.answer = "failed")
  <2>1. /\ tasks' = tasks \ {t} /\ UNCHANGED <<address, busy, started>>
        /\ shown' = IF Open(t) THEN "not available" ELSE shown
        /\ records' = IF Open(t) THEN None ELSE records
        /\ sheet' = IF Open(t) THEN BlankSheet(sheet.id + 1) ELSE sheet
    BY <1>3 DEF ResumeChecked, Without
  <2>2. /\ shown \in {"nothing", "loading", "not available", "ready"}
        /\ records \in Records \cup {None} /\ (records # None <=> Ready)
        /\ Ready => route \in Dates /\ records.marks \in held[records.page]
        /\ sheet \in [id : Nat, choices : Choices, confirming : BOOLEAN] /\ sheet.id \in Nat
        /\ sheet.confirming => sheet.choices = NoChoices
        /\ \A s \in Students : Ready /\ sheet.choices[s] # None => sheet.choices[s].on = records.page
        /\ busy \in BOOLEAN
    BY DEF IInv, TypeOK, Ready, ShownWasHeld, ChoicesStayOnTheirDate
  <2>3. /\ sheet' \in [id : Nat, choices : Choices, confirming : BOOLEAN]
        /\ sheet' = sheet \/ (sheet'.id = sheet.id + 1 /\ sheet'.choices = NoChoices /\ ~ sheet'.confirming)
    <3>1. sheet.id \in Nat
      BY <2>2
    <3>2. sheet.id + 1 \in Nat
      BY ONLY <3>1
    <3>. QED
      BY <2>1, <2>2, <3>2, BlankTyped
  <2>4. sheet'.id >= sheet.id
    <3>1. sheet.id \in Nat /\ (sheet'.id = sheet.id \/ sheet'.id = sheet.id + 1)
      BY <2>2, <2>3
    <3>. QED
      BY ONLY <3>1
  <2>5. /\ shown' \in {"nothing", "loading", "not available", "ready"}
        /\ records' \in Records \cup {None} /\ (records' # None <=> shown' = "ready")
        /\ Ready' => Ready /\ records' = records /\ sheet' = sheet
    BY <2>1, <2>2 DEF Ready
  <2>6. \A s \in Students : Ready' /\ sheet'.choices[s] # None => sheet'.choices[s].on = records'.page
    BY <2>2, <2>5
  <2>. QED
    BY <1>1, <2>1, <2>2, <2>3, <2>4, <2>5, <2>6, TaskEnds DEF server
<1>. QED
  BY <1>2, <1>3

-----------------------------------------------------------------------------
(* Before anything has happened the invariant holds. *)
LEMMA InitIInv == Init => IInv
<1>. SUFFICES ASSUME Init PROVE IInv
  OBVIOUS
<1>1. /\ BlankSheet(0) \in [id : Nat, choices : Choices, confirming : BOOLEAN]
      /\ BlankSheet(0).choices = NoChoices /\ ~ BlankSheet(0).confirming
  BY BlankTyped
<1>2. /\ \A d \in Dates : mark[d] \in Marks /\ held[d] = {mark[d]}
      /\ mark \in [Dates -> Marks] /\ held \in [Dates -> SUBSET Marks]
  BY DEF Init, Marks
<1>3. TypeOK
  <2>1. others \in 0 .. MaxOthers /\ failures \in 0 .. MaxFailures /\ started \in 0 .. MaxTasks /\ mount \in Nat
    BY ClientAssumption DEF Init
  <2>2. records \in Records \cup {None} /\ (records # None <=> shown = "ready") /\ sheet = BlankSheet(0)
    BY DEF Init
  <2>3. /\ kind \in Kinds /\ live \in BOOLEAN /\ busy \in BOOLEAN /\ tasks \subseteq Task
        /\ shown \in {"nothing", "loading", "not available", "ready"}
        /\ route \in Dates \cup {"elsewhere", "signIn"}
    BY DEF Init
  <2>. QED
    BY <1>1, <1>2, <2>1, <2>2, <2>3 DEF TypeOK
<1>4. ShownWasHeld /\ ChoicesStayOnTheirDate /\ OneChange /\ (Ready => route \in Dates)
  BY DEF Init, ShownWasHeld, ChoicesStayOnTheirDate, OneChange, Ready
<1>. QED
  BY <1>1, <1>2, <1>3, <1>4 DEF IInv, Init

(* Whatever happens, the invariant stays true. *)
LEMMA NextIInv ==
  ASSUME IInv, [Next]_vars
  PROVE  IInv'
<1>1. CASE User
  <2>1. ASSUME NEW to \in Dates \cup {"elsewhere"}, Navigate(to) PROVE IInv'
    BY <2>1, NavigateIInv
  <2>2. ASSUME NEW s \in Students, NEW status \in Statuses, Choose(s, status) PROVE IInv'
    BY <2>2, ChooseIInv
  <2>3. CASE Save \/ MarkAllPresent \/ Ask \/ Review \/ Confirm \/ Cancel
    BY <2>3, SaveIInv, AskReviewConfirmIInv, CancelIInv
  <2>. QED
    BY <1>1, <2>1, <2>2, <2>3 DEF User
<1>2. CASE Elsewhere
  BY <1>2, ElsewhereIInv
<1>3. ASSUME NEW t \in tasks, Serve(t) \/ Resume(t) PROVE IInv'
  BY <1>3, ServeChangeIInv, ServeReadIInv, ResumeSentIInv, ResumeListedIInv, ResumeCheckedIInv, ResumeShellIInv
     DEF Serve, Resume
<1>4. CASE UNCHANGED vars
  <2>1. ServerGrows /\ UNCHANGED <<kind, address, shown, records, busy, sheet, tasks, started>>
    <3>1. UNCHANGED <<mark, held, live, others>> /\ failures' \in 0 .. MaxFailures
      BY <1>4 DEF vars, server, IInv, TypeOK
    <3>. QED
      BY <1>4, <3>1, ServerStands DEF vars, screen
  <2>2. UNCHANGED server
    BY <1>4 DEF vars
  <2>3. /\ sheet \in [id : Nat, choices : Choices, confirming : BOOLEAN]
        /\ \A s \in Students : Ready /\ sheet.choices[s] # None => sheet.choices[s].on = records.page
        /\ \A t \in tasks : t.does \in {"review", "publish"} /\ UnderWay(t) /\ t.sheet = sheet.id
                              => sheet.choices = NoChoices
        /\ sheet.confirming => sheet.choices = NoChoices
    BY DEF IInv, TypeOK, ChoicesStayOnTheirDate, NothingBeside
  <2>. QED
    BY <2>1, <2>2, <2>3, SheetChanges
<1>. QED
  BY <1>1, <1>2, <1>3, <1>4 DEF Next

-----------------------------------------------------------------------------
(* The inductive invariant holds throughout: a change stays the only one of  *)
(* its screen while it is under way, every answer on its way to a screen is  *)
(* what the server once held, and nothing unsaved is on a sheet whose        *)
(* Publication is reviewed or sent.                                          *)
THEOREM SheetsInvariance == Spec => []IInv
<1>. QED
  BY InitIInv, NextIInv, PTL DEF Spec

(* Server, screen and tasks keep their types. *)
THEOREM SheetsTyped == Spec => []TypeOK
<1>1. IInv => TypeOK
  BY DEF IInv
<1>. QED
  BY <1>1, SheetsInvariance, PTL

(* Records on the screen are marks the server held of that date at some       *)
(* moment, however its answers overtake each other: nothing is shown before   *)
(* the server has confirmed it.                                               *)
THEOREM OnlyConfirmedShown == Spec => []ShownWasHeld
<1>1. IInv => ShownWasHeld
  BY DEF IInv
<1>. QED
  BY <1>1, SheetsInvariance, PTL

(* A choice is kept on the sheet of its own date, and sent as that date's,    *)
(* whichever dates the user moves to while answers are on their way.          *)
THEOREM ChoicesKeepTheirDate == Spec => []ChoicesStayOnTheirDate
<1>1. IInv => ChoicesStayOnTheirDate
  BY DEF IInv
<1>. QED
  BY <1>1, SheetsInvariance, PTL

(* Nothing chosen and unsaved is on the sheet while its Publication waits to  *)
(* be confirmed or is being sent.                                             *)
THEOREM PublishedIsSaved == Spec => []NothingUnsavedPublished
<1>1. IInv => NothingUnsavedPublished
  BY DEF IInv, NothingUnsavedPublished, NothingBeside, UnderWay
<1>. QED
  BY <1>1, SheetsInvariance, PTL

=============================================================================
