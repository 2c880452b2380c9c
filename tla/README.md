# SchoolGrid: a verification development

TLA+ models of SchoolGrid's server (`src/src`, `src/migrations`) and of the parts
of its web app that decide something (`src/web/src`), configurations that check
them with TLC, and proofs that TLAPS checks. SchoolGrid is a school
administration service: a Fastify application over one PostgreSQL database, every
handler of which runs one transaction at READ COMMITTED
(`src/src/db/transaction.ts`), and a React app over its API. The server's logic is
what those transactions refuse and what the locks they take keep true when they
overlap; the web app's is what it shows, keeps and sends while answers are under
way. That is what is modelled.

Contents: [1 Inventory](#1-inventory) - [2 Modules](#2-modules-and-how-they-correspond-to-the-code) -
[3 Runs](#3-what-each-run-checks) - [4 Proofs](#4-what-is-proved) -
[5 Disagreements](#5-disagreements-between-code-and-documentation) -
[6 Abstractions](#6-abstractions-and-what-they-leave-out) - [7 Plan](#7-plan)

## 1 Inventory

How the parts meet: a request reaches a School scope (`http/school-scope.ts`),
which resolves the actor - their Person and the roles their memberships give them
now - **before** the handler's transaction begins. The handler asks the Access
module for a decision, opens its transaction, takes its locks, reads again under
them, refuses or writes, appends Audit records and commits. Parts never message
each other; they interact through shared rows, row locks (`FOR UPDATE`,
`FOR SHARE`), foreign keys, exclusion constraints, triggers and
transaction-scoped advisory locks. `now()` is the instant the transaction began,
not the one it commits at. The web app holds what it was told: the roles of the
last `GET /session`, the last listing of a page, and what is chosen and not saved.

| Component | State it keeps | Operations | What is hard | What makes it correct |
|---|---|---|---|---|
| Attendance sessions (`attendance/`) | sessions, Roster snapshots, marks | open, refresh, load, save, mark all present | saves from forms loaded long before; first marks have no row to lock; who is markable is read before the write | no lost update; marks only for Students captured, rostered and enrolled; a trail that leads to each mark |
| Correction requests (`correction-requests/`) | requests and their states | raise, approve, reject, withdraw | two decisions at once; a target that changes while a request is Pending; who may decide their own | decided once; approval applies exactly before -> after, in the same commit |
| Enrollments, Roster memberships (`access/`) | Enrollments, dated memberships of offerings | enroll, depart, roster, move, end | departure ends memberships; ended ones are kept, unbegun ones deleted; dates cross midnight; row locks taken in several orders | nothing outlives the Enrollment it stands on, or leaves its Term; the trail says each change |
| Teaching assignments (`access/`) | dated assignments | assign, move, end | as Roster memberships, with Faculty memberships over them | none outlives the Faculty membership it stands on |
| School memberships (`access/memberships.ts`) | role grants with bounds | grant, narrow, revoke | the role read at resolution against a count read later; time that stands still while a lock is waited for | an act is by someone who held its role; what is revoked stays so |
| Guardian links (`access/`) | links, Access profiles | link, change, end | ended with the Enrollment they are held under | reach ends with the link |
| Access decisions (`access/index.ts`, `http/school-scope.ts`, `web/src/routes.ts`, `Shell.tsx`) | none: decided anew | resolve an Actor, decide an endpoint; choose pages, links and what is offered | resolution in several statements; the web app repeats the server's decisions from older facts | nothing is served without grounds held; the app leads nobody into a refusal |
| Term results, Publication (`results/`) | drafts, published results, Publications | load, save drafts, publish | a save racing a Publication; a Term and a roster read at different times | what is published changes only by correction; nobody active is left without a value |
| Result value scale (`results/index.ts`) | versions, values | save a version | two saves at once; values bound while a version is added | versions are final; a value stays bound to a version holding it |
| Academic structure (`academic-structure/`, `web/src/AcademicYears.tsx`) | years, Terms, exceptions, courses, offerings | make, redraw and delete years; except dates; offer courses | two redraws at once; a Term offered while it is left out; exclusion constraints that wait for each other | Terms cover a year exactly; no constraint nobody named is met |
| Invitations (`identity/`) | invitations with expiry | issue, supersede, redeem, revoke | issue and redeem lock in opposite orders; redemption sent twice, or late | one pending per Person; an account attached once |
| Trial Schools (`trials/`) | Trial Schools, visitors | start, enter, switch role, sweep | a capacity counted under a lock while others expire | never over capacity; one live per visitor; only expired ones deleted |
| Authentication (`authentication/`) | Sessions, cookies | sign in, replace, end | replacement racing use; expiry | an ended Session never authenticates; no sign-in comes to hold two |
| Migrations (`db/migrate.ts`) | record of applied migrations | migrate, verify, serve | several processes and images at once; a stop in between | each applied once, in order; none serves a database short of its image |
| Web client: sheets (`web/src/screen.ts`, `AttendanceSession.tsx`, `TermResults.tsx`, `Shell.tsx`) | listings, choices, tasks under way | list, choose, save, publish, move on | answers late, lost or overtaken; choices made over an older listing | shows only what the server held; publishes only what is saved; never stays loading |
| Attendance totals, Term reports | none | reads | - | who is answered which |
| Identity, School settings, Platform administration | Persons, School settings, Schools | single-row changes | the timezone, fixed by the first year | - |
| Calendar (`calendar/`) | none: the School's today from its timezone | today | midnight between two reads | - |
| Audit (`audit/`) | append-only records | append, page | written in the transaction it describes | a record for each change, saying what changed |
| HTTP layer | rate-limit windows | parse, serve, refuse | - | - |

`PROJECT.json` lists each component with its status, and each hazard at its line
with the properties that would catch it.

## 2 Modules, and how they correspond to the code

| Module | What it is |
|---|---|
| `Roster` | One offering's roster and its Students' Enrollments as Attendance reads them: each action one committed transaction of `access/*-routes.ts` |
| `MarkLedger` | Abstract: what an offering's Attendance promises - atomic changes, truthful audit, requests decided once |
| `Attendance` | The handlers of `attendance/` and `correction-requests/` over `Roster`; refines `MarkLedger` |
| `ResultLedger` | Abstract: what an offering's Term results promise |
| `TermResults` | The handlers of `results/`, and of `correction-requests/` for results; refines `ResultLedger` |
| `Participation` | The handlers of `access/*-routes.ts` statement by statement: their row locks, triggers and constraints, the Audit records of each change, and a Term that moves |
| `Access` | How an Actor is resolved and what each endpoint answers them, beside what the web app's navigation, screens and links make of the facts it was told |
| `Offers` | Abstract: what Invitations promise |
| `Invitations` | Issuing, revoking and redeeming, statement by statement; refines `Offers` |
| `Trials` | Trial Schools, the sign-in flow, changes of role, Sessions and the sweep |
| `AcademicStructure` | Years, Terms, exceptions, Courses and offerings under two Administrators' requests, with the editor of a year |
| `Client` | One browser tab on a sheet that records something of each Student |
| `Migrations` | Processes that start, migrate, stop and serve |
| `MCAttendance`, `MCTermResults`, `MCParticipation`, `MCAccess`, `MCInvitations`, `MCTrials`, `MCAcademicStructure`, `MCClient`, `MCMigrations` | Their instances for TLC |
| `AttendanceProofs` (with `Roster`'s), `TermResultsProofs`, `ParticipationProofs`, `InvitationsProofs`, `AcademicStructureProofs`, `AccessProofs`, `ClientProofs` | What is proved of the module each is named after |
| `DeploymentProofs` | What is proved of `Migrations` and of `Trials`, which share no state: what a deployment of the service rests on |

The modules compose by what one leaves fixed and another moves. `Attendance`
stands on `Roster`'s committed changes of the roster; `Participation` is the
inside of those changes. `TermResults` takes the Term as something that moves;
`Participation` and `AcademicStructure` have what moves it. `Access` takes what a
Person holds as changing in any way `Participation` may change it. `Client` takes
the server as `Attendance` and `TermResults` promise it: a change is applied if the
record still says what was loaded.

**Transactions** (`Attendance`, `TermResults`). `tx[t]` is the record of
transaction slot `t`: the phase its handler has reached and everything it has read
or will write and nobody else can see. A handler is cut at exactly the points
where another transaction can commit between two of its statements *and* the
difference matters: what the client had loaded; the reads before any lock; each
wait for a lock together with the reads made under it; the commit. So one handler
is several actions:

| Handler | `Attendance` | `TermResults` |
|---|---|---|
| GET, later sent back as "loaded" | `Load` | `Load` |
| PATCH session / results | `BeginSave`, `HoldSession`, `ReadSession`, `CommitSave` | `BeginSave`, `HoldResults`, `ReadScale`, `CommitSave` |
| POST session (refresh) | `BeginRefresh`, `HoldSession`, `CommitRefresh` | |
| POST publications | | `BeginPublish`, `HoldResults`, `ReadOutlook`, `CommitPublication` |
| POST correction-requests | `BeginRaise`, `HoldTarget`, `CommitRaise` | `BeginRaise`, `HoldResults`, `ReadScale`, `CommitRaise` |
| PATCH correction-requests | `BeginDecide`, `HoldRequest`, `Judge`, `HoldTarget`, `CommitApproval` or `CommitDecision` | the same, with `HoldResults` and `ReadScale` |
| POST result-value-scale | | `BeginScale`, `HoldScale`, `CommitScale` |
| a refusal, a lost connection | `Refuse`, `Abort` | `Refuse`, `Abort` |

A commit writes every row the handler writes, its Audit records included, and
releases its locks (`Ended`). A refusal after a lock rolls everything back, a
session the transaction opened with it. Refusals before any lock leave no trace
and are the begin actions' guards.

**Locks** (`Attendance`, `TermResults`). `sessionLock[d]` is the advisory lock on
(offering, date) (`holdAttendanceOn`), `resultsLock` the one on the offering's
results (`holdTermResults`), `scaleLock` the School's scale's, `requestLock[r]` the
`FOR UPDATE` of a request's row. The foreign key from a Roster snapshot to a
membership acts in two ways on whoever deletes or changes one: an insertion not
yet committed makes them wait (`Held`), a committed one makes a deletion fail and
the transaction roll back (`Kept`).

**Recording rule** (`Attendance`). `RecordableDate` and `InWindow` are
`dateProblem`, `MayRecord` is `recordingRefusal`, `MarkableOn` is
`capturedStudents`, and `Applies` and `Fills` are the loop of the PATCH and its
"all present" part. `RosteredOn` and `EnrolledOn` are `studentProblem`.

**Result rule** (`TermResults`). `Applies` is the loop of the PATCH
(`published`, then `stale`, then `value_not_in_scale`); `Bound` is
`boundValueId`; `Missing` and `Ready` are `publicationOutlook`, `Left` is
`leftOn`. A Publication's Term date, `tx[t].term`, is the one read with the
offering *before* the transaction (`readableOffering`), its roster the one read
after the wait.

**Statements and row locks** (`Participation`, `Invitations`,
`AcademicStructure`). These cut finer: a request is at a statement, holds the rows
it has locked or written, and its next statement runs only when nobody else holds
what it needs. `Participation` states a request's course as a sequence of phases
(`Statements`), and the rows, index entries and grounds each phase takes
(`Wants`); a request waits for whoever holds one of them (`WaitsFor`). What two
transactions can each wait for in the other is a deadlock, and PostgreSQL ends one
of them (`AbortDeadlock`, `EndDeadlock`). A statement that waited reads the row
again as the one it waited for left it. A constraint is judged where PostgreSQL
judges it: a unique or exclusion constraint after the row is written, by waiting
for the other writer to end; a trigger within its statement; a foreign key by the
shared lock it takes on the row referred to. An instant `tx[r].at`, or an
Invitation statement's stamp, is `now()` or `statement_timestamp()` as the code
asks.

**Participation.** One table of rows, `row`, with the tables' names as kinds:
Enrollments (`stay`), School memberships (`member`), Guardian links (`link`),
Roster memberships and Teaching assignments (`part`, the two being one mechanism
in `participation.ts`), and the offering's Term. `Place`, `Move`, `EndPart`,
`Enroll`, `Depart`, `Grant`, `EndMembership`, `MakeLink`, `ChangeProfile`,
`Unlink` and `MoveTerm` are the handlers' judgements and writes; `LockRow`,
`HoldGround`, `LockLinks`, `ListRows`, `LockNextRow` the waits before them. A
participation's *ground* is the Student's open Enrollment or the Person's Faculty
membership.

**Access.** `Relations` is `resolveActor`, and the operators from `Administers` to
`Withdraws` are the `authorize...` and `may...` of `access/index.ts`; `Served` is what
each endpoint then answers. `ReachedBy`, `SectionsFor` and `Landing` are
those of `routes.ts`; each `...Screen` is what that page of the web app reads, links to
and offers, given the facts it has and what it read. `ReadRoles` and `TellFacts`
are `GET /session`; `ResolveRoles`, `ResolveRelations` and `Answer` one request of
the screen, whose grounds may change between its statements.

**Trials.** `EnterTrialSchool` and `CommitEntry` are the callback's transaction,
cut where it holds the start lock; `Decided` is what it decides by its own `now()`.
`SwitchRole` with `AddSession` or `ReplaceSession`, `SignOut`, `StartSession` and
`Deliver` are the Sessions and the cookies that carry them; `Sweep` is the daily
workflow, `SchoolsAfter`, `SessionsAfter` and `GuestAfter` what deleting a School
cascades to.

**AcademicStructure.** A redraw of a year is `LockYear`, `CheckYear` if its bounds
move, `DeleteTerm` for each Term left out, then `CommitChange`. `Covers` is
`coverConflict`, said by the neighbours of each Term where the code sorts them;
`Listed` is a year's Terms in the order of their dates, and `Written` the Terms as
the change leaves them. `WaitsFor` is whom a request's next statement waits for, one
disjunct for each kind of statement. `editor[a]` is the page's editor: `SetFirstDay`, `SetLastDay`,
`AddTerm`, `RemoveTerm` are its edits, which join each Term to the next, and `Save`
sends what it holds.

**Client.** A task is one async function of a screen: it sends, is served, and
resumes. `mount` counts the component's instances, since a flag kept by the
component outlives a change of its address (`screen.ts`). `Choose`, `Save`,
`MarkAllPresent`, `Ask`, `Review`, `Confirm`, `Cancel` and `Navigate` are the user; `ServeChange` and
`ServeRead` the server; `ResumeListed`, `ResumeSent`, `ResumeChecked` and
`ResumeShell` what the code after each `await` does.

**Migrations.** A process reads the record (`ReadRecord`, `AssertMigrated`), and
one with the owner's credentials applies what is pending one transaction at a
time: `Begin`, `Execute` (its statements and the row that records it), `Commit`.
There is no lock but the record's key: `Beside` is who has put down the same key.

**Slips.** An operator whose comment begins "Slip:" is not part of the model: no
definition uses it. It is a plausible mistake in the operator below it - a lock
not taken, a comparison left out, an off-by-one - put in its place to confirm
that a property would notice (`PROJECT.json`, "mutants").

## 3 What each run checks

Two actors at once are enough for most hazards below: a race here is between one
that read and one that committed in between. Three would add orders of waiting,
and every lock hands on the same fresh reads whoever waited. Counts are distinct
states.

| Run | Instance | Shows | States |
|---|---|---|---|
| `corrections` | 1 Student, 1 date, 1 request, 2 transactions, fairness | raise, approve, reject, withdraw and saves in every interleaving: `ImplementsLedger`, `ApprovalAppliesItsChange`, `SavedOverLoaded` (no lost update), `AuditLeadsToTheMark`, and `EveryTransactionEnds` | 152 k |
| `returns` | 1 Student, 2 memberships, 2 dates, 2 roster changes, a revocation | departure and return around saves and approvals, a departure perhaps dated by the day before its commit: `MarkedBeforeLeaving`, `UncapturedOnlyByCorrection`, `SnapshotMembersExist` | 1.62 M |
| `publications` | 2 Students, 2 transactions, 1 roster change, 1 of the Term | `PublicationWaitsByItsTerm` for everyone rostered to its end | 311 k |
| `regrades` | 1 Student, 2 requests, a scale that drops the label, 2 transactions | `ResultsBound`, `PublishedOnlyCorrected`, `ImplementsResultLedger`; `SavedOverLoaded` where only the note differs | 1.13 M |
| `participation` | 1 Student, 1 teacher, 1 Guardian, 2 requests of any two kinds | `NothingOutlivesItsGround`; `OutsideOnlyAsWritten` by a Term that moves; `TrailLeadsToTheRow`; which waits can close a cycle: `OnlyEndingsDeadlock` | 234 k |
| `access` | one Person of each kind and pair of roles; six of whom change once | `GroundsWereHeld` by whoever is served; `NavigationMirrors` the server; `NeverLedIntoARefusal` by a link; `OffersStand` while nothing changes | 216 k |
| `invitations` | 2 Persons, 2 accounts, 3 requests, 2 ticks | `ImplementsOffers`, `OneRedemptionAttaches`, `ConstraintsNeverHit`, `OnlyIssueMeetsRedemption`, `NobodyStuck` | 256 k |
| `trials` | 2 browsers, 2 visitors, 1 guest, a cap of 1 or 2 | `WithinTheCap`, `OneTrialEach`, `SessionsNeverFork` | 2.56 M |
| `structure` | 2 Administrators, 2 requests, 2 edits, 3 dates, 3 situations | `EveryDateInOneTerm`, `OnlyNamedConflicts`, `OnlyOverlapsDeadlock`, `JoinedTermsCover` | 893 k |
| `client` | 2 dates, 1 Student, 4 tasks, 1 change by others, 1 failure, fairness | `ShownWasHeld`, `ChoicesStayOnTheirDate`, `NothingUnsavedPublished`, `LoadingEnds` | 159 k |
| `migrations` | 4 processes of 3 images, 2 stops, fairness | `TakesEffectOnce`, `InOrder`, `EventuallyServes` | 7.3 k |
| `outside` | `participation`'s, made small | a counterexample to `InsideItsTerm` (section 5) | - |

Nine configurations more are beside these, one for each other disagreement of
section 5 that is a property; TLC finds each violated.

Bounds, by constant:

- `Attendance`. `MaxRosterMoves` counts changes of the roster: two are enough to
  depart and return, or to move a membership and end it, with saves anywhere in
  between. `EndLag` is how many midnights may pass between an ending's transaction
  beginning and its commit: 1 in `returns`, and 0 in `corrections`, which has one date;
  the lag re-dates an ending from the past, so it is sound for one ending at a time.
  `leftOn` remembers the day an ending committed, which the date it bears may precede:
  that is the day `MarkedBeforeLeaving` goes by.
  `MaxAdminMoves`: one grant or revocation. `LastDay`: two dates show a departure's
  "after". `Window` 0 makes a date close as it passes. `Statuses` are two: one a
  save may set and replace, and the one only an approval resolves; all others behave
  as the first. What both runs check is proved for every value of these (section 4).
- `TermResults`. One roster change is enough in `publications`: a Publication asks
  each Student alone. `regrades` has one label and one note, so a draft can change
  while its value stays (the case the binding is for), and two scales, one without
  the label. `MaxVersions` = 2 is asked when a save begins, so two begun at once
  make three versions. `MaxTermMoves` is 1 in
  `publications`: one move can come between a Publication's read of the Term and its
  lock. `PublicationWaitsByItsTerm` goes by the Term that was read, `PublicationWaits`
  by the Term as it is then, which `shortened` shows broken. `regrades` has the only
  notes, so it is where a draft can be stale though its value is not.
- `Participation`. Each School date is one instant, the clock moves at most once
  (`MaxTime` 1, so a request may begin before midnight and commit after), and four
  dates are the Term's first, the one a request states, and the two a Term may end
  on. `FirstDates` are the Term's first and one past the earlier of `TermEnds`,
  so that the triggers' gap of section 5 is met, and `OutsideOnlyAsWritten` says what
  the triggers hold all the same. Two requests, of any pair of kinds, from a start where each kind of
  row may or may not be there: every property is of a row and the one ground it
  stands on, so two writers are what it takes to miss each other.
- `Access`. One Class Offering, one linked Student, and one request of a screen at a
  time. `Starts` are the holdings: at most two roles that stand still, and six that
  change once - one change being what can happen between two statements of one
  request, or between what the app was told and what it asks.
- `Invitations`. An Invitation stays pending for one tick (`Life`) of a clock with
  two, so one may expire and another be issued and expire after it; three requests
  are an issue, a redemption and one that comes between. `SlowStatements` is TRUE: the
  clock may move between the moment a statement goes by and its effect.
- `Trials`. A School lives one tick, a Session three, a flow one, in a clock of two:
  Schools expire under live Sessions, and a second School follows a first. Two
  Schools are at or over every cap of `Caps`; three Sessions are a sign-in and two
  changes of role at once.
- `AcademicStructure`. Three dates, of which the planned year has two, so that a year
  may grow, shrink and be met by another; four Terms are the two there are and two
  added. `MaxRequests` and `MaxEdits` are totals over both Administrators.
- `Client`. Four tasks are a listing, a save, the listing after it and one of the
  date moved to. One Student is marked by `Save` with a choice and by `MarkAllPresent`
  without. One failure or lost answer, and one change by others, each at any
  moment.
- `Migrations`. `older` and `newer` share their first migrations, `edited` had its
  second changed after it was written, `bare` cannot migrate; two processes may be
  stopped at any statement.

Symmetry is over what an instance tells apart by nothing - transactions, requests,
browsers, visitors, Administrators - and in no run that checks liveness.
`CHECK_DEADLOCK FALSE` stands where a behaviour may end: its requests, its clock or
its tasks are used up.

**Fairness.** In `corrections`, `WF(Proceed(t))`: a handler that can take its next
step takes it - its code always sends the next query, and a refusal is such a step.
`SF(Acquire(t))`: PostgreSQL queues the waiters for a lock and grants it in order,
so one whose lock is released again and again gets it though others take it in
between. Nothing obliges an actor to load, save, raise or decide, nor time to pass,
nor anything to abort. In `client`, a request is answered or fails, and the code
after an `await` runs once its promise is settled; nothing obliges the user. In
`migrations`, `WF(Proceed(p))`: a running process runs on, and the platform starts a
stopped one again.

No lock orders a departure and a save. `MarkedBeforeLeaving` holds because whoever a
transaction found enrolled on a date had not left before it, and a date later than
today is not recordable; a departure may commit between the two on that very date.

## 4 What is proved

Each theorem below is checked by TLAPS and holds for every value of the constants
that meets the assumptions of its module; the run that checks the property shows it
on one instance. Next to each module with proofs is `...Invariance`, that its `IInv`
always holds, and from it that `TypeOK` does. `Invariance` and `TypeCorrect` are
those of `Attendance`; `DeploymentProofs` proves what is said of `Trials` and of
`Migrations`, whose own are `MigrationInvariance` and `MigrationTypes`.

| Module | Theorem | Says |
|---|---|---|
| `Attendance` | `TrailLeadsToTheMark` | `Spec => []AuditLeadsToTheMark` |
| | `SnapshotsKeepTheirMembers` | `Spec => []SnapshotMembersExist` |
| | `Refinement` | `Spec => ImplementsLedger` |
| | `ApprovedOnce` | `Spec => ApprovalAppliesItsChange` |
| | `NoLostUpdate` | `Spec => SavedOverLoaded` |
| | `NobodyMarkedAfterLeaving` | `Spec => []MarkedBeforeLeaving`, whatever `EndLag` is |
| | `OnlyCorrectionsReachTheUncaptured` | `Spec => []UncapturedOnlyByCorrection` |
| `TermResults` | `ResultsStayBound` | `Spec => []ResultsBound` |
| | `TrailsLeadToResults` | `Spec => []TrailLeadsToTheResult` |
| | `ResultsRefinement` | `Spec => ImplementsResultLedger` |
| | `OnlyApprovalsCorrect` | `Spec => PublishedOnlyCorrected` |
| | `NoLostDraft` | `Spec => SavedOverLoaded` |
| | `PublicationsWait` | `Spec => PublicationWaitsByItsTerm`: for whoever is rostered to the last date of the Term *the Publication read* |
| `Participation` | `PartsOnTheirGround` | `Spec => []NothingOutlivesItsGround` |
| | `TermMovesStrandNone` | `Spec => OutsideOnlyAsWritten`, whatever dates are asked for |
| | `TrailsLeadToTheRow` | `Spec => []TrailLeadsToTheRow` |
| | `OnlyEndingsWaitInCircles` | `Spec => []OnlyEndingsDeadlock` |
| `Invitations` | `ConstraintsUnmet` | `Spec => []ConstraintsNeverHit` |
| | `RedemptionsAttachOnce` | `Spec => []OneRedemptionAttaches`, slow statements or not |
| | `OffersImplemented` | `Spec => ImplementsOffers`, slow statements or not |
| | `OnlyIssuesMeetRedemptions` | `Spec => []OnlyIssueMeetsRedemption`: which requests can wait in a circle |
| `AcademicStructure` | `DatesInOneTerm` | `Spec => []EveryDateInOneTerm` |
| | `ConflictsNamed` | `Spec => []OnlyNamedConflicts` |
| | `OverlapsAloneDeadlock` | `Spec => []OnlyOverlapsDeadlock` |
| | `JoinedCover` | `Spec => []JoinedTermsCover` |
| `Trials` | `CapKept` | `Spec => []WithinTheCap` |
| | `OneTrialKept` | `Spec => []OneTrialEach` |
| | `VisitorsOnlyWithSchools` | `Spec => []VisitorsForgotten` |
| | `RolesNeverFork` | `Spec => []SessionsNeverFork` |
| `Access` | `OnlyTheHeldIsKnown` | `Spec => []GroundsWereHeld` |
| | `NavigationAgrees` | `Spec => []NavigationMirrors` |
| | `NotLedIntoARefusal` | `Spec => []NeverLedIntoARefusal` |
| | `OffersAreGood` | `Spec => []OffersStand` |
| `Client` | `OnlyConfirmedShown` | `Spec => []ShownWasHeld` |
| | `ChoicesKeepTheirDate` | `Spec => []ChoicesStayOnTheirDate` |
| | `PublishedIsSaved` | `Spec => []NothingUnsavedPublished` |
| `Migrations` | `AppliedOnce` | `MigrationSpec => []TakesEffectOnce` |
| | `AppliedInOrder` | `MigrationSpec => []InOrder` |
| | `MigratedBeforeServing` | `MigrationSpec => []ServesOnlyMigrated` |

No theorem has a hypothesis on what the environment may do. Where the code keeps less
than its documentation says, the theorem states what the code keeps, and a run of
section 5 shows the difference: `MarkedBeforeLeaving` by the day a departure commits,
`PublicationWaitsByItsTerm` by the Term that was read, `OneRedemptionAttaches` and
`Offers` with redemptions that come too late, `OutsideOnlyAsWritten` but for what was
written outside.

**Assumptions.** Types of the constants and bounds, that `Persons` and `Requests` of
`Invitations` are finite, and two kinds more. `None` is none of the values it stands
in for, records included (`NoneIsNothing`, `NoneIsNoAccount`); `Start` and `Busy` are
no number and not each other, no account is one of the outcomes a request may have,
and no date is `"elsewhere"`: what a model value is by being one, and what TLAPS must
be told. `OpenedAssumption` of `Access` says that the addresses opened are
pages, or the choice of School. `SituationsAssumption` of `AcademicStructure` says that
a School starts as one that was soundly planned, its Terms covering each divided
year: that is an initial condition, and every step is shown to keep it. TLC evaluates
all of them in each run.

**The inductive invariant of `Attendance`.** None of the properties is inductive:
from a state where two transactions believe they hold one lock, a commit breaks any
of them. `IInv` adds what makes the locks work: a transaction past a wait holds the
lock it waited for (`HoldsItsLocks`) - with the lock a function, at most one does -
and what it read there still stands (`ReadStands`), since whoever could change it
needs that lock. The rest says what a handler knows of itself: a save's record,
that a raise's request is nobody else's, that a decision names a raised request
and its target, that no date written is after today; and that what a capture will
insert exists (`MembersExist`). `AttendanceProofs` shows each action preserves it,
by three lemmas for the three kinds of step: a private one that changes one
transaction's record (`PrivateSound`), one that takes a lock (`LockSound`), and
one that ends a transaction (`EndedSound`), for which the writer's lock is what
leaves every other's reads standing (`OtherSound`). Its first lemmas say what
a step of the roster preserves: types, memberships kept, enrollment for dates up
to today.

**Refinement.** `Writers` finds the four steps that touch marks, audit or
requests; each is shown to be the ledger's step of its name, which is where
`ReadStands` is used - what was read under the lock is the ledger's current
value - and all others are stutters.

**Strengthenings of their own.** Three theorems need one invariant more each, and
state it in `Attendance`: `LoadedSound` (no mark is removed, so one loaded is
still there), `LeavingSound` (no ending is dated later than the day it commits, so
whoever a transaction found it may mark on a date had not left before it), and
`CapturedSound` (and was captured).

**The inductive invariant of `TermResults`** is `Attendance`'s in kind: `TxSound` is
that each transaction holds the locks its phase says, what it read under them still
stands, and its act knows its request; `RequestsSound` that a raised request names a
published result it would change, which no later step unpublishes. `ResultsBound` is
of its own invariant: a value bound to a version is in that version, because a save
reads the version under the results' lock - not the scale's, so that the scale may
have moved on, but a version is never changed (`CommitScale` appends). `TrailSound`
adds to `TrailLeadsToTheResult` that a trail is of something. Lemmas of their own
say what each commit makes of one Student's result, so that the commit's lemma is one
argument for all of them.

**The inductive invariants of `Participation`.** `IInv` is of what a request knows:
its statements are its kind's (`CourseSound`), the row it names stays as it saw it
once locked (`RowSound`), and so do the ground and the links it holds
(`GroundSound`, `LinksSound`) and the participations it listed (`ListSound`); what it
is to commit changes each row once, from what the row is to what its kind may leave
(`WriteSound`, `ChangeSound`). With locks that exclude each other (`Exclusive`) and
rows not known before they are committed (`KnownSound`) the chain of Audit records
follows, and that no link is without an Enrollment. Of the Term, `RunsInsideTerm` is
what the triggers hold of every participation, that it ends no later than the Term;
where it also begins no later, it is inside. A move of the Term is refused if it would
leave one outside, and it holds the Term alone while it looks (`TermMoveKeepsInside`);
so one that is outside has no end of its own (`OutsideIsOpen`) and came to be so by a
writing of itself.

`LInv` adds what each lock tells of its holder: that whoever holds an offering, a
role, a ground or a row is of a kind and at a statement that may (`LockSound`).
`WaitIs` reads off it whom a request may wait for, and `CirclesAre` follows a
circle of any length: it comes past an ending, and that one waits for a move or for
another ending of the same Person's.

`GInv` is of the ground. That a participation is inside *something* its Person holds
is not inductive: an ending could take that away while another request relies on it.
So each stands on one row (`Supports`), whoever is ending that row has listed the
participation or need not, and what a request is to write stays on the ground it
holds or ends no later than it did (`PartSound`). A placement keeps this because it
holds its ground shared, and who ends a ground holds it alone *before* listing; an
ending, because what it listed it holds, and what it did not list it saw inside;
and a Term that moves, because of what `stretched` names.

**The inductive invariant of `Invitations`.** `Apart` is that, of one Person's Invitations
neither revoked nor redeemed, each expires before the next is created, `Exclusive` that a row is locked by one request, and
`RequestSound` what each phase has locked and found: whoever is about to issue holds
the Person's row and the row of the only Invitation of theirs still pending
(`IssueSound`), whoever is about to redeem the Invitation's (`RedeemSound`). That no
constraint is ever met follows. `AttachedByRedeeming` is
that a Person is attached once an Invitation of theirs is redeemed, and to an account
that redeemed one: with `Apart` it gives `OneRedemptionAttaches`.
`PromptSound` says what holds besides when statements take no time: a claim's stamp
is then the moment it is judged at. Otherwise a claim may come after its Invitation
expired and another attached the Person: `Offers` counts such an Invitation as `Late`,
and redeeming it as `TakeInVain`. The refinement maps a request to the offer's
step at the statement that decides, and everything else to stutters. Apart from it,
`HoldsTell` is that a request which still waits holds only what its statement says;
in a circle of any length each request holds a row and waits for another, and reading
off who may do both leaves an issue and a redemption of one Person's Invitations.
Such circles do arise: PostgreSQL's deadlock detector ends them.

**The inductive invariant of `AcademicStructure`.** That every date is in one Term is
kept by what each request read under its locks and what nobody else may then change.
`Apart` is that no two requests hold one year or one Course, or create one year, and
that the School's row, locked whole, is held beside nobody. `ReadStands` is what a
request found there and would find still: a change, that what it proposes covers the
bounds it proposes and every exception, and that the Terms it read are the year's
(`ChangeSound`); a deletion, that its year is empty; an exception, that its date is in
the year and free; an offering, that its Term will not be deleted under it by a change
that left it out. Years are set against each other rather than locked: `MeetsNone` is
that bounds past their check meet no other year's, *nor any that another request has
checked and not committed*, which holds because a check waits for whoever is writing
a year it might meet. `CommitChange` then follows from `Written` being, for the year
changed, the drafts one for one (`WrittenAs` names no Term twice), so that `Covers`
carries over. Which requests wait for each other (`OverlapsAloneDeadlock`) is read off
`WaitsFor`: every lock but the exclusion constraint's is taken in one order - a year,
a Course or an offering, then a Term, then the School. `EditorSound` is of the page
alone: until a first day or the very last one is set by hand, each edit leaves the
Terms joined, and joined Terms that may be sent cover their year.

**The inductive invariant of `Trials`.** `LockSound` is that one browser holds the start
lock, `EntrySound` that what it counted still bounds what there is: while the lock is
held Schools only go, so a count below the cap stays below it, and a visitor found
without a live Trial is still without one. `TokensSound` is that tokens and lines are
numbered by issue; a Session replaced keeps its line, and is replaced only while it is
there, so a line has at most one. `AccountsSound` is what a deletion's cascade keeps.

**The inductive invariant of `Access`.** `RequestSound` says that what a request in
progress has resolved was read, part by part, of something held since it began
(`Founded`): the roles of one moment, the link or the teaching perhaps of another.
Each endpoint then gives only what such a standing grants, one lemma for each
(`GroundsWereHeld`). `ScreenSound` is that a screen was answered only what it asks.
`SteadySound` and `LedSound` are of the time in which nothing held has changed since the
app was told: then the facts are the Person's, each answer is what the server would
give now, and a link followed leads to a page whose every read is served. That last
part is one case for each page and each kind of link, over every combination of
roles and of what is held - not the ones `Starts` lists.

**The inductive invariant of `Client`.** `OneChange` is that at most one change of the
screen that is open is under way, and that the screen is busy for as long; it is
what keeps a Publication's review, its confirmation and its sending from meeting a
choice (`NothingBeside`). `TaskSound` says that a task belongs to the component's
instance that started it or to one that is gone, and that whatever it was answered
was held by the server then.

**The inductive invariant of `Migrations`.** A process applies what it found pending
when it read the record, long before: `PendingSound` says that whatever else its image
holds is recorded as the image has it, and stays so, because a row once there never
changes. `OpenSound` and `Apart` are what the record's key gives: past its statements,
a transaction has put down the only row for its migration, so that a commit records
what is not yet recorded. `InOrder` then follows from names being taken least first
(`FirstIn`).

**What the proofs changed.** In `Participation` the history `stretched` was too small.
With five requests - two moves of the Term, a grant of a later membership, an
assignment up to it, a revocation - a participation stretched and then reached again
by the grant was forgotten, and `NothingOutlivesItsGround` false; the run's two
requests never meet it. `Stretched` now says what is added and what is forgotten by
what was written and what reaches it. And `OnlyEndingsDeadlock` had named moves alone:
two endings of one Person's memberships can wait for each other too, for they list
that Person's assignments at different times.

`AcademicStructure` took the most. `Covers` and `Listed` sorted by a comparison that
is no order where two Terms begin on one date; they are restated by the neighbours of
a Term and by its rank. `WaitsFor` was a CASE whose guards could hold at once, and is a
disjunction. Nothing had said that two creations under way are of different years
(`Unused`: the database draws a new identifier for each), nor that the situations a
School starts from are sound.

Two more definitions had a CASE whose conditions could hold at
once: `Concluded` of `Client`, and in `Access` what a screen shows and where a link
leads. TLC takes the first that holds; TLA+ says any may be taken, and the theorem
was false of the others. They are IF and ELSE now, or disjuncts that exclude each
other, in the code's order.

**Only model-checked.** Liveness under fairness, and anything with ENABLED, is beyond
the prover used: `EveryTransactionEnds`, `LoadingEnds`, `EventuallyServes`,
`NobodyStuck`. So is induction over data: its induction theorems take an operator as a
parameter. The modules with proofs declare no RECURSIVE operator. Every other
property a run checks is proved: the invariants, the action properties and the
refinements. `TypeOK` is in no configuration, so that a run asks only what is in doubt.
`TrailLeadsToTheResult`, `VisitorsForgotten` and `ServesOnlyMigrated` are proved and in
no run. The inductive invariants were held against instances of their own before they
were proved, `GInv` with up to four requests, that of `AcademicStructure` with
three; no configuration here names them.

## 5 Disagreements between code and documentation

Each was met as a counterexample, and all but the last have a configuration, named in
the table, under which TLC finds it again: `outside` is a run and the finding of
`PROJECT.json`; for any of the others,
`tlc -config sole.cfg MCAttendance` and its like.

| Where | Configuration | Property |
|---|---|---|
| `src/migrations/0017_roster_memberships.sql:53` | `outside.cfg` | `InsideItsTerm` in `Participation` |
| `src/src/access/index.ts:1355` | `sole.cfg` | `SelfApprovalBySoleAdministrator` in `Attendance` |
| `src/src/access/participation.ts:356` | `unbegun.cfg` | `NotBegunHoldsNothing` in `Attendance` |
| `src/src/results/term-result-routes.ts:348` | `shortened.cfg` | `PublicationWaits` in `TermResults` |
| `src/src/identity/invitations.ts:180` | `late.cfg` | `RedeemedAttaches` in `Invitations` |
| `src/web/src/screen.ts:72` | `departed.cfg` | `ShownIsAsked` in `Client` |
| `src/web/src/AttendanceSession.tsx:196` | `overwritten.cfg` | `SavesWhatWasSeen` in `Client` |
| `src/src/access/routes.ts:114` | `revived.cfg` | `EndedStaysEnded` in `Participation` |
| `src/src/access/index.ts:1299` | `unlisted.cfg` | `RaisersListTheirOwn` in `Access` |
| `src/src/authentication/index.ts:245` | `comeback.cfg` | `NoSessionComesBack` in `Trials` |
| `src/src/access/enrollments.ts:108` | - | a departure dated by an earlier day, `leftOn` in `Roster` |

- **Outside its Term.** "A membership falls inside its offering's Term, held by a
  trigger on each side" (`0017_roster_memberships.sql:37`). The trigger compares the
  first date with the Term's first and the last with its last, and takes the Term's
  last for a membership with none: one with no end that begins after the Term's last
  date passes, and no handler compares the two. The trigger for assignments
  (`0016_teaching_assignments.sql:58`) is the same. From then on every move of that
  Term is refused for stranding it.
- **Deciding one's own request.** An Administrator may, "only as the School's one
  active School Administrator" (`access/index.ts:1341`, `CONTEXT.md:156`). The role is
  read when the actor is resolved, the count inside the transaction, without asking
  that the one counted is the actor: revoked in between, they are no Administrator
  and the one counted is somebody else.
- **Not begun, and held.** "One that has not begun has held nothing, and is removed"
  (`participation.ts:341`). A membership a session captured can be moved to begin
  after today; ending it, or the Enrollment, then hits the snapshot's foreign key
  (`0022_attendance_sessions.sql:29`) and answers 500.
- **Across midnight.** No Attendance for dates after an Enrollment ended
  (`CONTEXT.md:136`). The end is dated `now()`, when the departure's transaction
  began: one that crosses midnight and commits after a save of the new date is dated
  the day before. `returns` has this with `EndLag` 1; by the day the departure
  commits, `leftOn`, nobody is marked too late (`MarkedBeforeLeaving`).
- **A Term shortened under a Publication.** Publication "is refused while any active
  roster member's result lacks a value" (`CONTEXT.md:152`). The Term is read before
  the transaction and the roster after the wait for the results; a membership ended
  early and the Term shortened to that day in between make an active member count as
  having left.
- **A redemption that attaches nobody.** Both conditions are "checked in the same
  statement so two simultaneous redemptions produce exactly one winner"
  (`invitations.ts:165`). The statement counts only the claimed Invitation: one whose
  Person is already claimed still answers success. It comes to that when a redemption
  begun before its Invitation expires is carried out after, and another was issued
  meanwhile. `SlowStatements` lets the clock move between a statement's time and its
  effect.
- **A listing of the date left.** The flag of `screen.ts:36` is to drop a request
  still in flight when the actor moves on. It belongs to the component, and the
  effect that runs when the date changes sets it again: a listing of the date left,
  answered after that of the date moved to, is shown under the other's address.
- **A newer mark under an older choice.** "A mark someone else changed after you
  opened it is not overwritten" (`AttendanceSession.tsx:256`). A choice not saved
  survives a refresh or a request, which lists newer marks; the save takes "loaded"
  from the newer listing and overwrites what nobody was shown. `TermResults.tsx:212`
  does the same.
- **A revoked membership revived.** "A membership that has ended cannot change"
  (`access/routes.ts:115`). Whether it has ended is judged at the transaction's own
  time: a change that began before a revocation and got the row after it finds an end
  later than its own time and gives it a later one. The assignments the revocation
  ended stay ended.
- **One's own requests, unlisted.** "Anyone else who may raise one, or ever could,
  their own alone" (`access/index.ts:1291`). The code asks whether the actor is
  Faculty or ever taught: who raised requests as an Administrator and holds only a
  Student's or Guardian's role is refused the list, though they may still withdraw.
- **A Session that comes back.** An account created in a Trial School "holds no live
  Session once it has expired" (`authentication/index.ts:67`, `CONTEXT.md:40`). One
  with a Person in another School outlives the deletion
  (`0028_trial_visitors.sql:77`) as created in none, and the Session that stopped
  being live at the expiry is live again.

Two more are of less weight and have no definition: changing a School membership's
end to one later is not checked against the Person's other memberships in the role
(`access/routes.ts`, where a grant is); and an Enrollment ended on its Term's last
date leaves a participation with no end, which a Term extended later stretches past
the Enrollment (`CONTEXT.md:90`; `stretched`, section 6).

## 6 Abstractions, and what they leave out

Attendance and Term results:

- One Class Offering. Locks and rows of two offerings meet only in a Student's
  Enrollment and in a School's scale.
- `Roster` has one Term, fixed, which begins the run on its first day; a
  membership without a last date runs to `LastDay`. A Student's Enrollments are
  the latest one's end. Its handlers are atomic; their insides are `Participation`.
- `Assigned` gives each Person one set of dates; every Person keeps some
  membership of the School, so a requester can always withdraw.
- `TermResults` keeps of the roster only when each Student's latest membership
  ends, of the Term only its last date, and lets both move as their triggers
  allow: more than Academic structure's other checks would. Teachers and
  Administrators are fixed there; that their standing changes under a decision is
  in `Attendance`. A result's score and comment are one value, compared whole.
- The audit trail is the latest record of each mark or result; that records are
  only ever appended is the database's grant. `attendance.changed` and
  `term_result.changed` are modelled, other actions' records are not.
- Statements between two cuts of a handler are one step. Under READ COMMITTED each
  reads its own snapshot; where two are merged, no property relates what they
  read, or a lock keeps it still.
- A request's identity is taken when its raise begins; the code takes it at the
  insertion. Nobody can name it before the commit either way.
- `recordTakenSessions` and `recordTermResults`, which fill an invented School
  before anyone can reach it, and the deletion of an expired Trial School under a
  transaction of its own visitors, are left out.

Participation:

- One Class Offering; the deletion of one is in `AcademicStructure`, and so are the
  Term's first date and the year around it. Deletions of participations take the
  Term's lock shared, as their triggers do.
- `stretched` names the participations with no end that a later end of their Term, or
  a reading of the Term from before it, made run past every ground that reaches them
  and is not about to end: what `NothingOutlivesItsGround` excuses and nothing else. One
  leaves it only when a later write makes it run longer, on ground of its own.
- Audit records are those of these tables; their actor and time are left out.

Access:

- One linked Student, one Class Offering, one School. What is out of the actor's
  reach answers as what does not exist, and the record of a refused attempt is left
  out.
- A screen's requests run one at a time, in a fixed order; several at once would read
  the same facts. After a refusal the screen shows "not available" and no navigation.
- `enrolled` gates no decision; it is what a Roster membership stands on.
- `NeverLedIntoARefusal` excuses two links and says so: from a Correction request one
  raised as an Administrator to its Class Offering, for who has never taught, and from
  one's own Attendance to its, for who is no longer a Student. The link to the requests
  shown after raising one is left out.
- `steady` says that nothing changed since the Person last moved, when the app's facts
  and the server's agree.

Invitations, Trials and Sessions:

- An Invitation's secret is the Invitation; its hash, link and Audit records are left
  out, as are reads. The provider's own exchange is one step with the callback; who
  waits for the start lock gets it in any order.
- A flow's cookie ends at the decision. A role's account redeems no Invitation.
  Bearer Sessions, passwords, rate limits, the timezone and checks of the Origin are
  left out. A new School's contents are data.
- The deletion of expired Schools is lazy, by the next entry or the daily sweep; the
  page that tells a visitor their School "has been deleted" may say so before.

Academic structure:

- Names, codes, labels and weekday patterns. Two years whose dates meet may deadlock
  in their exclusion constraint; one of them then ends as a server error rather than a
  conflict.
- A year saved from an older listing deletes the Terms another Administrator added
  since: the handler means it, a Term left out of a change being deleted.

Client:

- The two sheets are one machine, and of the sheet of results one page: moves between
  offerings through the history are left out. The sheet is one the user may record on.
  Signing in again and the Trial's bar of the shell are left out.

Migrations: what a migration's statements do. That they fail is a stop.

Not modelled anywhere: validation of request bodies, paging, names, headers, static
files; `Platform administration`, which inserts Schools and lists them, with no state
two requests share; the sums of Attendance totals and Term reports; the arithmetic of
timezones; rate limits, which are one counter in one process.

## 7 Plan

Order is by how much of the School rests on it.

1. *Done:* every module of section 2, checked, and every safety property of a run
   proved but the one stated with ENABLED.
2. That `Participation` refines `Roster`'s atomic actions. `Roster` keeps of a Student
   only the end of the latest Enrollment, and one fixed Term, where `Participation` has
   several rows of each kind and a Term that moves: `Roster` is to take those first.
3. Whether a redraw of a year is refused for stranding is a choice in
   `AcademicStructure` (`Stranded`); composed with `Participation`'s `MoveTerm` it would
   be decided.
