------------------------------- MODULE Client -------------------------------
(***************************************************************************)
(* One browser tab on a sheet that records something of each Student: the  *)
(* Attendance session of a date, or a Class Offering's Term results.  The  *)
(* sheet lists its records, holds what is chosen and not yet saved, sends  *)
(* changes and lists again.  Each of these runs as a task that waits for   *)
(* one answer at a time; the server answers in any order, others change    *)
(* the same records, answers get lost, the session ends elsewhere, and the *)
(* user moves on whenever they like.                                       *)
(***************************************************************************)
EXTENDS Integers, FiniteSets

CONSTANTS
  Kinds,       \* the sheets a behaviour may be about: "attendance", "results"
  Dates,       \* the School dates whose Attendance session has its own address
  Students,
  Statuses,    \* what a Student may be marked, or given
  Present,     \* the one of them that Mark all Present gives
  None,
  MaxTasks,    \* bound: tasks the tab starts
  MaxOthers,   \* bound: changes others make
  MaxFailures  \* bound: requests that fail though the Session is live

ASSUME ClientAssumption ==
  /\ Kinds \subseteq {"attendance", "results"} /\ Kinds # {} /\ Present \in Statuses
  /\ None \notin Statuses \cup Dates \cup {"ok", "conflict", "failed"}
  /\ Dates \cap {"elsewhere", "signIn"} = {}
  /\ MaxTasks \in Nat /\ MaxOthers \in Nat /\ MaxFailures \in Nat

VARIABLES
  kind,       \* which sheet this behaviour is about
  mark,       \* the server: what each Student holds on each date, or None
  held,       \* every state of a date's marks the server has held so far
  live,       \* whether the browser's Session is live
  others,     \* how many changes others have made
  failures,   \* how many requests with a live Session failed, or lost their answer
  route,      \* the address: a date, "elsewhere" in the app, or "signIn"
  mount,      \* counts the instances of the screen's component
  shown,      \* what the screen shows: "nothing", "loading", "not available" or "ready"
  records,    \* the records it shows when ready
  busy,       \* a change of this screen's is in flight
  sheet,      \* the sheet on the screen: what is chosen on it and not yet saved
  tasks,      \* the async functions under way
  started     \* how many were started

server == <<mark, held, live, others, failures>>
address == <<route, mount>>
screen == <<shown, records, busy, sheet>>
vars == <<kind, server, address, screen, tasks, started>>

Marks == [Students -> Statuses \cup {None}]
Records == [page : Dates, marks : Marks]

(* A choice remembers the date it was made on and the mark it covers.      *)
Choice == [status : Statuses, on : Dates, over : Statuses \cup {None}]
Choices == [Students -> Choice \cup {None}]
NoChoices == [s \in Students |-> None]

(* A change as sent: each choice beside the mark the page says it read.    *)
Change == [status : Statuses, on : Dates, over : Statuses \cup {None}, loaded : Statuses \cup {None}]

ASSUME NoneIsNothing == None \notin Records \cup Choice \cup Change

Answers == {None, "ok", "conflict", "failed"}

Task ==
  [id : 1 .. MaxTasks, does : {"read", "save", "fill", "ask", "review", "publish", "shell"},
   stage : {"sending", "listing", "checking"}, on : Dates \cup {None}, list : Dates \cup {None},
   mount : Nat, sheet : Nat, changes : [Students -> Change \cup {None}],
   sent : Answers, read : Records \cup {None}, answer : Answers, body : Records \cup {None}]

TypeOK ==
  /\ kind \in Kinds
  /\ mark \in [Dates -> Marks] /\ held \in [Dates -> SUBSET Marks]
  /\ live \in BOOLEAN /\ others \in 0 .. MaxOthers /\ failures \in 0 .. MaxFailures
  /\ route \in Dates \cup {"elsewhere", "signIn"} /\ mount \in Nat
  /\ shown \in {"nothing", "loading", "not available", "ready"}
  /\ records \in Records \cup {None} /\ (records # None <=> shown = "ready")
  /\ busy \in BOOLEAN
  /\ sheet \in [id : Nat, choices : Choices, confirming : BOOLEAN]
  /\ tasks \subseteq Task /\ started \in 0 .. MaxTasks

-----------------------------------------------------------------------------
Ready == shown = "ready"
Complete(marks) == \A s \in Students : marks[s] # None
Without(t) == tasks \ {t}
Becomes(t, u) == tasks' = Without(t) \cup {u}

(* A task's `open.current`: one flag for as long as the component is on    *)
(* the page, whichever address it was mounted or is now shown at.          *)
Open(t) == t.mount = mount

NewTask(id, does, stage) ==
  [id |-> id, does |-> does, stage |-> stage, on |-> None, list |-> None, mount |-> mount,
   sheet |-> sheet.id, changes |-> NoChoices, sent |-> None, read |-> None,
   answer |-> None, body |-> None]

BlankSheet(id) == [id |-> id, choices |-> NoChoices, confirming |-> FALSE]

(* Slip: the sheet has no key of its own.                               *)
SheetKept(now) == IF Ready THEN sheet ELSE BlankSheet(sheet.id + 1)

(* The sheet is keyed by its date: other records' is another sheet.        *)
SheetShowing(now) ==
  IF Ready /\ now.page = records.page THEN sheet ELSE BlankSheet(sheet.id + 1)

(* Moving within the app: the shell reads the session again, giving up its *)
(* last reading.  A move from one date to another keeps the component,     *)
(* what it shows and its flag, and lists the new date's records; any other *)
(* makes or removes one.                                                   *)
MoveTo(to, remaining) ==
  LET listing == to \in Dates
      stays   == listing /\ route \in Dates
      shell   == NewTask(started + 1, "shell", "checking")
      read    == [NewTask(started + 2, "read", "listing") EXCEPT !.list = to, !.mount = mount']
  IN  /\ route' = to
      /\ mount' = IF stays THEN mount ELSE mount + 1
      /\ started' = started + (IF to = "signIn" THEN 0 ELSE IF listing THEN 2 ELSE 1)
      /\ tasks' = {t \in remaining : t.does # "shell"}
                  \cup (IF to = "signIn" THEN {} ELSE {shell}) \cup (IF listing THEN {read} ELSE {})
      /\ IF stays THEN UNCHANGED screen
         ELSE /\ shown' = IF listing THEN "loading" ELSE "nothing"
              /\ records' = None /\ busy' = FALSE /\ sheet' = BlankSheet(sheet.id + 1)

-----------------------------------------------------------------------------
Init ==
  /\ kind \in Kinds
  /\ mark = [d \in Dates |-> [s \in Students |-> None]]
  /\ held = [d \in Dates |-> {mark[d]}]
  /\ live = TRUE /\ others = 0 /\ failures = 0
  /\ route = "elsewhere" /\ mount = 0
  /\ shown = "nothing" /\ records = None /\ busy = FALSE /\ sheet = BlankSheet(0)
  /\ tasks = {} /\ started = 0

(* A click on a link, a date picked, the browser's back and forward.       *)
Navigate(to) ==
  /\ route \notin {"signIn", to} /\ started + 2 <= MaxTasks
  /\ kind = "results" => {route, to} \cap Dates \subseteq {CHOOSE d \in Dates : TRUE}
  /\ MoveTo(to, tasks)
  /\ UNCHANGED <<kind, server>>

(* A status is chosen for a Student, or a field of a result edited.        *)
Choose(s, status) ==
  /\ Ready /\ ~ busy /\ ~ sheet.confirming
  /\ sheet' = [sheet EXCEPT !.choices[s] =
                 [status |-> status, on |-> records.page,
                  over |-> IF @ = None THEN records.marks[s] ELSE @.over]]
  /\ UNCHANGED <<kind, server, address, shown, records, busy, tasks, started>>

(* Slip: what was chosen is shown as though it were saved.              *)
SendOptimistically(does, changes) ==
  /\ Ready /\ ~ busy /\ started < MaxTasks
  /\ tasks' = tasks \cup {[NewTask(started + 1, does, "sending")
                             EXCEPT !.on = records.page, !.list = route, !.changes = changes]}
  /\ records' = [records EXCEPT !.marks =
                   [s \in Students |-> IF changes[s] = None THEN @[s] ELSE changes[s].status]]
  /\ started' = started + 1 /\ busy' = TRUE
  /\ UNCHANGED <<kind, server, address, shown, sheet>>

(* change(): what is sent is held against the records now shown, and the   *)
(* records of the address are listed again afterwards.                     *)
Send(does, changes) ==
  /\ Ready /\ ~ busy /\ started < MaxTasks
  /\ tasks' = tasks \cup {[NewTask(started + 1, does, "sending")
                             EXCEPT !.on = records.page, !.list = route, !.changes = changes]}
  /\ started' = started + 1
  /\ busy' = TRUE
  /\ UNCHANGED <<kind, server, address, shown, records, sheet>>

(* What a save carries: of a result, only what differs from the one shown. *)
Chosen(s) ==
  LET choice == sheet.choices[s] IN
  IF choice = None \/ (kind = "results" /\ choice.status = records.marks[s]) THEN None
  ELSE [status |-> choice.status, on |-> choice.on, over |-> choice.over, loaded |-> records.marks[s]]

Save ==
  /\ Ready /\ ~ sheet.confirming /\ sheet.choices # NoChoices
  /\ Send("save", [s \in Students |-> Chosen(s)])

(* Mark all Present: what is chosen is sent along, and whoever is still    *)
(* unmarked is to be Present.                                              *)
MarkAllPresent ==
  /\ kind = "attendance" /\ Ready /\ \E s \in Students : records.marks[s] = None /\ sheet.choices[s] = None
  /\ Send("fill", [s \in Students |-> Chosen(s)])

(* Refreshing the roster, requesting a correction: choices are kept.       *)
Ask == Ready /\ ~ sheet.confirming /\ Send("ask", NoChoices)

(* Slip: a Publication may be reviewed with choices unsaved.            *)
ReviewUnsaved ==
  /\ kind = "results" /\ Ready /\ ~ sheet.confirming
  /\ Send("review", NoChoices)

(* Publishing is reviewed before it is confirmed, and only once all that   *)
(* was chosen is saved.                                                    *)
Review ==
  /\ kind = "results" /\ Ready /\ ~ sheet.confirming /\ sheet.choices = NoChoices
  /\ Send("review", NoChoices)

Confirm == sheet.confirming /\ Send("publish", NoChoices)

Cancel ==
  /\ Ready /\ sheet.confirming
  /\ sheet' = [sheet EXCEPT !.confirming = FALSE]
  /\ UNCHANGED <<kind, server, address, shown, records, busy, tasks, started>>

-----------------------------------------------------------------------------
(* The server, as far as the sheet can tell: a mark is saved where it is   *)
(* still the one loaded; any request may be refused, throttled or lost on  *)
(* the way; and its answer may be lost once it is done.                    *)
Answered(t, answer, body) ==
  /\ Becomes(t, [t EXCEPT !.answer = answer, !.body = body])
  /\ failures' = failures + (IF live /\ answer = "failed" THEN 1 ELSE 0)
  /\ failures' <= MaxFailures

Saved(t) ==
  LET applied(s) == IF t.changes[s] # None /\ mark[t.on][s] = t.changes[s].loaded
                    THEN t.changes[s].status ELSE mark[t.on][s]
  IN [s \in Students |-> IF t.does = "fill" /\ applied(s) = None THEN Present ELSE applied(s)]

ServeChange(t) ==
  /\ t \in tasks /\ t.stage = "sending" /\ t.answer = None
  /\ \/ /\ live
        /\ t.does = "publish" => Complete(mark[t.on])
        /\ mark' = [mark EXCEPT ![t.on] = Saved(t)]
        /\ held' = [held EXCEPT ![t.on] = @ \cup {Saved(t)}]
        /\ Answered(t, "ok", [page |-> t.on, marks |-> Saved(t)]) \/ Answered(t, "failed", None)
     \/ Answered(t, "failed", None) /\ UNCHANGED <<mark, held>>
     \/ /\ live /\ t.does \in {"ask", "publish"} \cup (IF kind = "attendance" THEN {"save", "fill"} ELSE {})
        /\ Answered(t, "conflict", None)
        /\ UNCHANGED <<mark, held>>
  /\ UNCHANGED <<kind, live, others, address, screen, started>>

ServeRead(t) ==
  /\ t \in tasks /\ t.stage # "sending" /\ t.answer = None
  /\ \/ Answered(t, "failed", None)
     \/ live /\ t.stage = "checking" /\ Answered(t, "ok", None)
     \/ live /\ t.stage = "listing" /\ Answered(t, "ok", [page |-> t.list, marks |-> mark[t.list]])
  /\ UNCHANGED <<kind, mark, held, live, others, address, screen, started>>

(* A co-teacher changes a mark; the session ends elsewhere, or expires.    *)
OtherChanges(d, s, status) ==
  /\ others < MaxOthers /\ mark[d][s] # status
  /\ others' = others + 1
  /\ mark' = [mark EXCEPT ![d][s] = status]
  /\ held' = [held EXCEPT ![d] = @ \cup {mark'[d]}]
  /\ UNCHANGED <<kind, live, failures, address, screen, tasks, started>>

SessionEnds ==
  /\ live /\ live' = FALSE
  /\ UNCHANGED <<kind, mark, held, others, failures, address, screen, tasks, started>>

-----------------------------------------------------------------------------
(* The change was answered: what it answered is kept, and the records are  *)
(* listed again, unless it failed, which is settled as a failed listing.   *)
ResumeSent(t) ==
  /\ t \in tasks /\ t.stage = "sending" /\ t.answer # None
  /\ Becomes(t, [t EXCEPT !.sent = t.answer, !.read = t.body, !.answer = None, !.body = None,
                          !.stage = IF t.answer = "failed" THEN "checking" ELSE "listing"])
  /\ busy' = IF t.answer = "failed" /\ Open(t) THEN FALSE ELSE busy
  /\ UNCHANGED <<kind, server, address, shown, records, sheet, started>>

(* What the sheet's own handler does once its change has settled, if the   *)
(* sheet it ran on is still there: a save that was answered lets go of the *)
(* choices, Attendance's also after a conflict; a review asks to confirm   *)
(* only what can be published.                                             *)
Concluded(t, on) ==
  IF on.id # t.sheet THEN on
  ELSE CASE t.does \in {"save", "fill"} ->
              IF t.sent = "ok" \/ (t.sent = "conflict" /\ kind = "attendance")
              THEN [on EXCEPT !.choices = NoChoices] ELSE on
         [] t.does = "review" -> [on EXCEPT !.confirming = t.sent = "ok" /\ Complete(t.read.marks)]
         [] t.does = "publish" -> [on EXCEPT !.confirming = FALSE]
         [] OTHER             -> on

(* settle(): records are shown if the screen is open; anything else asks   *)
(* whether the session is live.                                            *)
ResumeListed(t) ==
  /\ t \in tasks /\ t.stage = "listing" /\ t.answer # None
  /\ busy' = IF t.does # "read" /\ Open(t) THEN FALSE ELSE busy
  /\ IF t.answer = "failed"
     THEN Becomes(t, [t EXCEPT !.answer = None, !.stage = "checking"]) /\ UNCHANGED <<shown, records, sheet>>
     ELSE /\ tasks' = Without(t)
          /\ shown' = IF Open(t) THEN "ready" ELSE shown
          /\ records' = IF Open(t) THEN t.body ELSE records
          /\ sheet' = Concluded(t, IF Open(t) THEN SheetShowing(t.body) ELSE sheet)
  /\ UNCHANGED <<kind, server, address, started>>

(* Slip: a failed listing under a live session is not settled.          *)
ResumeCheckedUnsettled(t) ==
  /\ t \in tasks /\ t.stage = "checking" /\ t.does # "shell" /\ t.answer # None
  /\ IF Open(t) /\ t.answer = "failed"
     THEN MoveTo("signIn", Without(t))
     ELSE tasks' = Without(t) /\ UNCHANGED <<address, screen, started>>
  /\ UNCHANGED <<kind, server>>

ResumeChecked(t) ==
  /\ t \in tasks /\ t.stage = "checking" /\ t.does # "shell" /\ t.answer # None
  /\ IF Open(t) /\ t.answer = "failed"
     THEN MoveTo("signIn", Without(t))
     ELSE /\ tasks' = Without(t)
          /\ shown' = IF Open(t) THEN "not available" ELSE shown
          /\ records' = IF Open(t) THEN None ELSE records
          /\ sheet' = IF Open(t) THEN BlankSheet(sheet.id + 1) ELSE sheet
          /\ UNCHANGED <<address, busy, started>>
  /\ UNCHANGED <<kind, server>>

(* Without a live session the way on is to sign in again.                  *)
ResumeShell(t) ==
  /\ t \in tasks /\ t.does = "shell" /\ t.answer # None
  /\ IF t.answer = "failed"
     THEN MoveTo("signIn", Without(t))
     ELSE tasks' = Without(t) /\ UNCHANGED <<address, screen, started>>
  /\ UNCHANGED <<kind, server>>

Serve(t) == ServeChange(t) \/ ServeRead(t)
Resume(t) == ResumeSent(t) \/ ResumeListed(t) \/ ResumeChecked(t) \/ ResumeShell(t)

User ==
  \/ \E to \in Dates \cup {"elsewhere"} : Navigate(to)
  \/ \E s \in Students, status \in Statuses : Choose(s, status)
  \/ Save \/ MarkAllPresent \/ Ask \/ Review \/ Confirm \/ Cancel

Elsewhere ==
  \/ \E d \in Dates, s \in Students, status \in Statuses : OtherChanges(d, s, status)
  \/ SessionEnds

Next == User \/ Elsewhere \/ \E t \in tasks : Serve(t) \/ Resume(t)

Spec == Init /\ [][Next]_vars

(* A request is answered or fails in the end, and a promise that is        *)
(* resolved is continued.                                                  *)
Fairness ==
  \A id \in 1 .. MaxTasks : WF_vars(\E t \in tasks : t.id = id /\ (Serve(t) \/ Resume(t)))

FairSpec == Spec /\ Fairness

-----------------------------------------------------------------------------
(* Nothing is shown before the server has confirmed it: records on the     *)
(* screen are the marks the server held of that date at some moment.       *)
ShownWasHeld == Ready => records.marks \in held[records.page]

(* Nothing chosen for one date carries to another: a choice is sent, and   *)
(* kept, only for the date it was made on.                                 *)
ChoicesStayOnTheirDate ==
  /\ \A s \in Students : Ready /\ sheet.choices[s] # None => sheet.choices[s].on = records.page
  /\ \A t \in tasks, s \in Students : t.changes[s] # None => t.changes[s].on = t.on

(* Only saved results are published: nothing chosen and unsaved is on the  *)
(* sheet while its Publication waits to be confirmed or is being sent.     *)
NothingUnsavedPublished ==
  /\ sheet.confirming => sheet.choices = NoChoices
  /\ \A t \in tasks : t.does = "publish" /\ t.stage = "sending" /\ t.sheet = sheet.id
                        => sheet.choices = NoChoices

(* A screen does not stay loading: it shows its records, or the one        *)
(* not-available state, or the user has gone or is sent to sign in.        *)
LoadingEnds == shown = "loading" ~> shown # "loading"

(* Records of the date the address names are shown, once all is answered.  *)
ShownIsAsked == tasks = {} /\ Ready => records.page = route

(* A mark that changed is never overwritten unseen: what a save says was   *)
(* loaded is the mark its maker saw when choosing.                         *)
SavesWhatWasSeen ==
  \A t \in tasks, s \in Students :
    t.stage = "sending" /\ t.changes[s] # None => t.changes[s].loaded = t.changes[s].over

-----------------------------------------------------------------------------
(* The inductive invariant.  A change is under way until its listing has   *)
(* been answered; while it is, and its screen is still there, the screen   *)
(* is busy, and only one is.                                               *)
UnderWay(t) == t.does \notin {"read", "shell"} /\ t.stage \in {"sending", "listing"}

OneChange ==
  /\ \A t \in tasks : UnderWay(t) /\ Open(t) => busy
  /\ \A t, u \in tasks : UnderWay(t) /\ Open(t) /\ UnderWay(u) /\ Open(u) => t = u

(* A task belongs to the screen it was started on, or to one since gone,   *)
(* and what it was answered is what the server once held.                  *)
TaskSound(t) ==
  /\ t.mount <= mount /\ t.sheet <= sheet.id /\ (~ Open(t) => t.sheet < sheet.id)
  /\ Open(t) /\ t.does # "shell" => route \in Dates
  /\ t.does = "shell" => t.stage = "checking"
  /\ t.stage = "sending" => t.does # "read" /\ t.on \in Dates
  /\ t.stage \in {"sending", "listing"} => t.list \in Dates
  /\ t.stage # "sending" => t.answer # "conflict"
  /\ t.stage = "listing" /\ t.answer = "ok" => t.body # None
  /\ t.body # None => t.body.marks \in held[t.body.page]

(* Nothing is on the sheet beside the Publication that is reviewed or sent. *)
NothingBeside(t) ==
  t.does \in {"review", "publish"} /\ UnderWay(t) /\ t.sheet = sheet.id => sheet.choices = NoChoices

IInv ==
  /\ TypeOK /\ ShownWasHeld /\ ChoicesStayOnTheirDate /\ OneChange
  /\ \A d \in Dates : mark[d] \in held[d]
  /\ Ready => route \in Dates
  /\ sheet.confirming => sheet.choices = NoChoices
  /\ \A t \in tasks : TaskSound(t) /\ NothingBeside(t)

=============================================================================
