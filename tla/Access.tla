--------------------------------- MODULE Access --------------------------------
(***************************************************************************)
(* What the server decides one Person may read and do in a School, and     *)
(* what the web app shows them of it.  The two are written apart: the      *)
(* server resolves an Actor on every request, in statements of its own     *)
(* moments, and decides each endpoint; the web app knows only the facts    *)
(* the session last told it, and from them chooses its navigation, what    *)
(* each screen asks for, where it links and what it offers.  Meanwhile     *)
(* School Administrators change what the Person holds.                     *)
(*                                                                         *)
(* The Person is one the School holds beside a Student they may be linked  *)
(* to and a Class Offering they may teach or be rostered in; there is      *)
(* always another School Administrator.                                    *)
(***************************************************************************)
EXTENDS Integers, FiniteSets

CONSTANTS
  Starts,    \* what the Person may hold at first, each with how many changes may follow
  Profiles,  \* the Access profiles a Guardian link may carry
  Opened,    \* the pages the app may be opened at, or "schools" for none yet
  None

Roles == {"school_administrator", "faculty", "student", "guardian"}
Permissions == {"attendanceRead", "resultsRead"}
Spans == {"never", "coming", "running", "over"}

VARIABLES
  held,     \* what the Person holds, as committed
  left,     \* bound: the changes still to come
  session,  \* the session's read: out, with the roles it has read, or None
  facts,    \* what the session last told the web app
  screen,   \* the page shown, and what it has read
  request,  \* the screen's request, and what was held while it ran
  steady    \* history: nothing has changed since the Person last moved

vars == <<held, left, session, facts, screen, request, steady>>

InForce(h) == {r \in Roles : h.roles[r] = "held"}
Ever(span) == span # "never"

(* A Teaching assignment stands on a Faculty membership, a Roster          *)
(* membership on an open Enrollment; a Guardian link outlasts its role.    *)
Holdings == {h \in [roles : [Roles -> {"none", "coming", "held"}], link : Profiles \cup {None},
                    enrolled : BOOLEAN, taught : Spans, rostered : Spans, raised : BOOLEAN] :
  /\ h.taught \in {"coming", "running"} => h.roles["faculty"] = "held"
  /\ h.rostered \in {"coming", "running"} => h.enrolled}

ASSUME AccessAssumption ==
  /\ Starts \subseteq Holdings \X Nat
  /\ Profiles \subseteq SUBSET Permissions /\ None \notin Profiles

-----------------------------------------------------------------------------
(* What the Person holds, as School Administrators change it and as time   *)
(* passes.                                                                 *)

(* One not begun is removed; one that ran is kept, ended.                  *)
Ended(span) == CASE span = "coming" -> "never" [] span = "running" -> "over" [] OTHER -> span
Made(span) == CASE span = "never" -> {"coming", "running"} [] span = "over" -> {"running"} [] OTHER -> {}

Becomes(h) ==
  /\ left > 0 /\ h # held
  /\ left' = left - 1
  /\ held' = h
  /\ steady' = FALSE
  /\ request' = IF request = None \/ request.stage = "answered" THEN request
                ELSE [request EXCEPT !.seen = @ \cup {h}]
  /\ UNCHANGED <<session, facts, screen>>

GrantRole(r, to) == held.roles[r] = "none" /\ Becomes([held EXCEPT !.roles[r] = to])
RoleBegins(r) == held.roles[r] = "coming" /\ Becomes([held EXCEPT !.roles[r] = "held"])
RoleEnds(r) ==
  /\ held.roles[r] # "none"
  /\ Becomes([held EXCEPT !.roles[r] = "none", !.taught = IF r = "faculty" THEN Ended(@) ELSE @])

LinkStudent(p) == held.link = None /\ held.roles["guardian"] # "none" /\ Becomes([held EXCEPT !.link = p])
SetProfile(p) == held.link # None /\ Becomes([held EXCEPT !.link = p])
EndLink == Becomes([held EXCEPT !.link = None])

Enroll == held.roles["student"] # "none" /\ Becomes([held EXCEPT !.enrolled = TRUE])
EndEnrollment == Becomes([held EXCEPT !.enrolled = FALSE, !.rostered = Ended(@)])

AssignTeaching(span) ==
  held.roles["faculty"] = "held" /\ span \in Made(held.taught) /\ Becomes([held EXCEPT !.taught = span])
RosterStudent(span) == held.enrolled /\ span \in Made(held.rostered) /\ Becomes([held EXCEPT !.rostered = span])
SpanBegins == \/ held.taught = "coming" /\ Becomes([held EXCEPT !.taught = "running"])
              \/ held.rostered = "coming" /\ Becomes([held EXCEPT !.rostered = "running"])
SpanEnds == Becomes([held EXCEPT !.taught = Ended(@)]) \/ Becomes([held EXCEPT !.rostered = Ended(@)])

-----------------------------------------------------------------------------
(* Resolving an Actor: the roles first, then what they let stand.          *)

RelationsUnderNoRole(roles, h) ==
  [roles |-> roles, link |-> h.link, taught |-> Ever(h.taught), rostered |-> Ever(h.rostered)]

Relations(roles, h) ==
  [roles    |-> roles,
   link     |-> IF "guardian" \in roles THEN h.link ELSE None,
   taught   |-> Ever(h.taught),
   rostered |-> "student" \in roles /\ Ever(h.rostered)]

StandingOf(h) == Relations(InForce(h), h)

(* The decisions.                                                          *)
Administers(s) == "school_administrator" \in s.roles
ReadsStudent(s) == Administers(s) \/ s.link # None
ReadsOwnClassOfferings(s) == "faculty" \in s.roles \/ s.taught
ReadsOwnRosterMemberships(s) == "student" \in s.roles
ReadsClassRecords(s) == Administers(s) \/ s.taught
ReadsClassOffering(s) == Administers(s) \/ s.taught \/ s.rostered
ReadsRoster(s) == Administers(s) \/ s.taught
ReadsAttendanceOfStudent(s) == Administers(s) \/ (s.link # None /\ "attendanceRead" \in s.link)
TermReportParts(s) == IF Administers(s) THEN Permissions ELSE IF s.link = None THEN {} ELSE s.link
ReadsResultValueScale(s) == Administers(s) \/ "faculty" \in s.roles

(* A Teaching assignment active now is read as the handler runs.           *)
Teaches(s, h) == "faculty" \in s.roles /\ h.taught = "running"
MayRecord(s, h) == Teaches(s, h)
MayPublish(s, h) == Administers(s) \/ Teaches(s, h)
MayRaise(s, h) == Administers(s) \/ Teaches(s, h)

(* Everyone's requests, one's own, or none.                                *)
ReadsCorrectionRequests(s) ==
  IF Administers(s) THEN {"everyone"} ELSE IF "faculty" \in s.roles \/ s.taught THEN {"own"} ELSE {}
Withdraws(h) == h.raised

(* The endpoints of the one decision on managing a School.                 *)
ManagedPersons == {"createPerson", "invitations", "issueInvitation", "revokeInvitation"}
ManagedSchool == {"auditRecords", "schoolSettings", "setTimezone", "previewAttendanceWindow",
                  "setAttendanceWindow", "saveResultValueScale", "schoolDate"}
ManagedYears == {"academicYears", "createAcademicYear", "changeAcademicYear", "deleteAcademicYear",
                 "setWeekdayPattern", "addInstructionalDayException", "removeInstructionalDayException"}
ManagedCourses == {"courses", "createCourse", "changeCourse", "deleteCourse", "classOfferings", "offerCourse",
                   "relabelClassOffering", "deleteClassOffering"}
ManagedRelationships == {"memberships", "grantMembership", "narrowMembership", "revokeMembership",
                         "membershipConsequences", "guardianLinks", "linkGuardian", "setAccessProfile",
                         "endGuardianLink", "enrollments", "enroll", "endEnrollment", "enrollmentConsequences"}
ManagedParticipation == {"assignTeaching", "changeTeachingAssignment", "endTeachingAssignment",
                         "rosterStudents", "changeRosterMembership", "endRosterMembership"}
Managed == ManagedPersons \cup ManagedSchool \cup ManagedYears \cup ManagedCourses
           \cup ManagedRelationships \cup ManagedParticipation \cup {"decideCorrectionRequest"}

-----------------------------------------------------------------------------
(* What each endpoint serves an Actor, and what it reads for itself.       *)

If(b, items) == IF b THEN items ELSE {}

OwnAccount(s, h) ==
  {"account"} \cup If("student" \in s.roles /\ h.enrolled, {"enrollment"})
              \cup If("guardian" \in s.roles /\ h.link # None, {"linked"} \cup h.link)
PersonsServed(s) == {"self"} \cup If(ReadsStudent(s), {"student"}) \cup If(Administers(s), {"claimed"})
OwnClassOfferings(h) == {"classes"} \cup If(Ever(h.taught), {"taughtOffering"})
OwnRosterMemberships(h) == {"classes"} \cup If(Ever(h.rostered), {"ownRosterMembership"})
ClassOfferingServed(s) == {"offering"} \cup If(ReadsRoster(s), {"roster"})
SessionServed(s, h) == {"classMarks"} \cup If(MayRecord(s, h), {"recordable"})
ResultsServed(s, h) ==
  {"drafts"} \cup If(MayRecord(s, h), {"recordable"}) \cup If(MayPublish(s, h), {"publishable"})
             \cup If(MayRaise(s, h), {"correctable"})
OfferingMarks == {"classMarks"}
StudentMarks == {"studentsMarks"}
OwnMarks(h) == {"ownMarks"} \cup If(Ever(h.rostered), {"ownRosterMembership"})
ReportOf(part) == IF part = "attendanceRead" THEN "reportedAttendance" ELSE "reportedResults"
TermReportServed(s) == {ReportOf(part) : part \in TermReportParts(s)}
RequestsServed(s, h) ==
  LET whose == ReadsCorrectionRequests(s)
  IN If(whose # {}, {"requests"}) \cup If("everyone" \in whose, {"othersRequest"})
     \cup If(whose # {} /\ h.raised, {"ownRequest"})

(* What a request is answered: nothing when it is refused, as every one is *)
(* of a Person with no role in force.                                      *)
Served(e, s, h) == If(s.roles # {},
  CASE e \in Managed                 -> If(Administers(s), {"managed"})
    [] e = "account"                 -> OwnAccount(s, h)
    [] e = "persons"                 -> PersonsServed(s)
    [] e = "ownClassOfferings"       -> If(ReadsOwnClassOfferings(s), OwnClassOfferings(h))
    [] e = "ownRosterMemberships"    -> If(ReadsOwnRosterMemberships(s), OwnRosterMemberships(h))
    [] e = "classOffering"           -> If(ReadsClassOffering(s), ClassOfferingServed(s))
    [] e = "classOfferingAttendance" -> If(ReadsClassRecords(s), OfferingMarks)
    [] e = "attendanceSession"       -> If(ReadsClassRecords(s), SessionServed(s, h))
    [] e = "classOfferingResults"    -> If(ReadsClassRecords(s), ResultsServed(s, h))
    [] e \in {"openAttendanceSession", "saveAttendance", "saveTermResults"}
                                     -> If(ReadsClassRecords(s) /\ MayRecord(s, h), {"recordable"})
    [] e = "publishTermResults"      -> If(ReadsClassRecords(s) /\ MayPublish(s, h), {"publishable"})
    [] e = "raiseCorrectionRequest"  -> If(ReadsClassRecords(s) /\ MayRaise(s, h), {"correctable"})
    [] e = "correctionRequests"      -> RequestsServed(s, h)
    [] e = "withdrawCorrectionRequest" -> If(Withdraws(h), {"ownRequest"})
    [] e = "ownAttendance"           -> OwnMarks(h)
    [] e = "studentAttendance"       -> If(ReadsAttendanceOfStudent(s), StudentMarks)
    [] e = "ownTermReport"           -> {"ownReport"}
    [] e = "studentTermReport"       -> TermReportServed(s)
    [] e = "resultValueScale"        -> If(ReadsResultValueScale(s), {"scale"}))

-----------------------------------------------------------------------------
(* The web app.  The navigation, from the facts the session told it.       *)

FactsOf(h) == [roles |-> InForce(h), taught |-> Ever(h.taught)]

TeachesBy(f) == "faculty" \in f.roles \/ f.taught

AdministratorSections == {"invitations", "memberships", "enrollments", "guardianLinks", "academicYears",
                          "courses", "classOfferings", "auditRecords", "settings"}
Sections == {"account", "persons", "classes", "yourAttendance", "yourTermReport", "correctionRequests"}
            \cup AdministratorSections
ReachedBy == [s \in Sections |->
  CASE s \in {"account", "persons"}                -> Roles
    [] s = "classes"                               -> {"faculty", "student"}
    [] s \in {"yourAttendance", "yourTermReport"}  -> {"student"}
    [] s = "correctionRequests"                    -> {"school_administrator", "faculty"}
    [] s \in AdministratorSections                 -> {"school_administrator"}]
ReachedByTaught == {"classes", "correctionRequests"}

SectionsForRoles(f) == {s \in Sections : f.roles \cap ReachedBy[s] # {}}

SectionsFor(f) == {s \in Sections : f.roles \cap ReachedBy[s] # {} \/ (s \in ReachedByTaught /\ f.taught)}

Landing(f) == IF Administers(f) THEN "persons" ELSE "account"

Pages == Sections \cup {"classOffering", "attendance", "attendanceOn", "termResults", "termReport"}

ASSUME OpenedAssumption == Opened \subseteq Pages \cup {"schools"}

(* Each screen: what it asks for, given what it has been served; and, once *)
(* it has all of it, where it links and what it offers to change.          *)
AccountScreenOfAll(f, got) == [
  reads |-> {"account"} \cup If("linked" \in got /\ "attendanceRead" \in got, {"studentAttendance"}),
  links |-> {"classes"} \cup If("guardian" \in f.roles /\ got \cap Permissions # {}, {"termReport"}),
  offers |-> {}]

AccountScreen(f, got) == [
  reads |-> {"account"} \cup If("linked" \in got /\ "attendanceRead" \in got, {"studentAttendance"}),
  links |-> If(TeachesBy(f) \/ "student" \in f.roles, {"classes"})
            \cup If("guardian" \in f.roles /\ got \cap Permissions # {}, {"termReport"}),
  offers |-> {}]

YourClasses(f, got) ==
  LET rostered == "student" \in f.roles
  IN [reads |-> If(TeachesBy(f) \/ ~rostered, {"ownClassOfferings"}) \cup If(rostered, {"ownRosterMemberships"}),
      links |-> If(got \cap {"taughtOffering", "ownRosterMembership"} # {}, {"classOffering"}),
      offers |-> {}]

YourAttendance(f, got) == [
  reads |-> {"ownAttendance"},
  links |-> If("ownRosterMembership" \in got, {"classOffering"}),
  offers |-> {}]

TermReportScreen(of) == [reads |-> {of}, links |-> {}, offers |-> {}]

PersonsScreen(f, got) == [
  reads |-> {"persons"}, links |-> {},
  offers |-> If(Administers(f), {"createPerson"} \cup If("claimed" \in got, {"issueInvitation"}))]

InvitationsScreen == [reads |-> {"invitations"}, links |-> {"persons"}, offers |-> {"revokeInvitation"}]

NarrowAndRevoke == {"narrowMembership", "revokeMembership", "membershipConsequences"}
MembershipsScreen == [
  reads |-> {"memberships", "persons", "schoolDate"}, links |-> {},
  offers |-> {"grantMembership"} \cup NarrowAndRevoke]

EnrollAndEnd == {"enroll", "endEnrollment", "enrollmentConsequences"}
EnrollmentsScreen == [
  reads |-> {"enrollments", "persons", "memberships", "guardianLinks"},
  links |-> {"termReport", "memberships"},
  offers |-> EnrollAndEnd]

PermitAndEnd == {"linkGuardian", "setAccessProfile", "endGuardianLink"}
GuardianLinksScreen == [
  reads |-> {"guardianLinks", "persons", "memberships", "enrollments"},
  links |-> {"memberships", "enrollments"},
  offers |-> PermitAndEnd]

AuditScreen == [reads |-> {"auditRecords", "persons"}, links |-> {}, offers |-> {}]

YearEditor == {"changeAcademicYear", "deleteAcademicYear"}
WeekdayPattern == {"setWeekdayPattern"}
MonthCalendar == {"addInstructionalDayException", "removeInstructionalDayException"}
YearsScreen == [
  reads |-> {"academicYears"}, links |-> {"settings"},
  offers |-> {"createAcademicYear"} \cup YearEditor \cup WeekdayPattern \cup MonthCalendar]

CourseEditor == {"changeCourse", "deleteCourse"}
CoursesScreen == [
  reads |-> {"courses", "classOfferings"}, links |-> {"classOfferings", "classOffering"},
  offers |-> {"createCourse"} \cup CourseEditor]

OfferCourse == {"offerCourse"}
OfferingsScreen == [
  reads |-> {"classOfferings", "academicYears", "courses"},
  links |-> {"academicYears", "classOffering", "courses"}, offers |-> OfferCourse]

SettingsSheet == {"setTimezone", "previewAttendanceWindow", "setAttendanceWindow"}
ScaleEditor == {"saveResultValueScale"}
SettingsScreen == [
  reads |-> {"schoolSettings", "resultValueScale"}, links |-> {"academicYears"},
  offers |-> SettingsSheet \cup ScaleEditor]

TeachingOffered == {"assignTeaching", "changeTeachingAssignment", "endTeachingAssignment"}
RosterOffered == {"rosterStudents", "changeRosterMembership", "endRosterMembership"}
OfferingOffered == {"relabelClassOffering", "deleteClassOffering"}

(* A School Administrator's reads are made at once; anyone else's second   *)
(* follows from being sent the roster.                                     *)
OfferingScreen(f, got) == [
  reads |-> {"classOffering"}
            \cup If(Administers(f) \/ "roster" \in got, {"classOfferingAttendance"})
            \cup If(Administers(f), {"memberships", "persons", "enrollments"}),
  links |-> {IF Administers(f) THEN "classOfferings" ELSE "classes"}
            \cup If("classMarks" \in got, {"termResults", "attendance", "attendanceOn"})
            \cup If(Administers(f), {"memberships", "enrollments"}),
  offers |-> If(Administers(f), TeachingOffered \cup RosterOffered \cup OfferingOffered)]

Recording(got) == If("recordable" \in got, {"openAttendanceSession", "saveAttendance"})
Requesting(f, got) == If(Administers(f) \/ "recordable" \in got, {"raiseCorrectionRequest"})

(* Reading a session the actor may record, that nobody has opened, opens it. *)
SessionScreen(f, got) == [
  reads |-> {"classOffering", "attendanceSession"} \cup If("recordable" \in got, {"openAttendanceSession"}),
  links |-> {"classOffering", "attendanceOn"},
  offers |-> Recording(got) \cup Requesting(f, got)]

ResultsScreenByFacts(f, got) == [
  reads |-> {"classOffering", "classOfferingResults"},
  links |-> {"classOffering"},
  offers |-> If(TeachesBy(f), {"saveTermResults"}) \cup If("publishable" \in got, {"publishTermResults"})
             \cup If("correctable" \in got, {"raiseCorrectionRequest"})]

ResultsScreen(f, got) == [
  reads |-> {"classOffering", "classOfferingResults"},
  links |-> {"classOffering"},
  offers |-> If("recordable" \in got, {"saveTermResults"}) \cup If("publishable" \in got, {"publishTermResults"})
             \cup If("correctable" \in got, {"raiseCorrectionRequest"})]

Decide(f, got) == If(Administers(f) /\ got \cap {"ownRequest", "othersRequest"} # {}, {"decideCorrectionRequest"})
RequestsScreen(f, got) == [
  reads |-> {"correctionRequests"},
  links |-> If(got \cap {"ownRequest", "othersRequest"} # {}, {"attendanceOn", "termResults"}),
  offers |-> Decide(f, got) \cup If("ownRequest" \in got, {"withdrawCorrectionRequest"})]

SchoolScreen(page, f, got) ==
  CASE page = "account"                        -> AccountScreen(f, got)
    [] page = "classes"                        -> YourClasses(f, got)
    [] page = "yourAttendance"                 -> YourAttendance(f, got)
    [] page = "yourTermReport"                 -> TermReportScreen("ownTermReport")
    [] page = "termReport"                     -> TermReportScreen("studentTermReport")
    [] page = "persons"                        -> PersonsScreen(f, got)
    [] page = "invitations"                    -> InvitationsScreen
    [] page = "memberships"                    -> MembershipsScreen
    [] page = "enrollments"                    -> EnrollmentsScreen
    [] page = "guardianLinks"                  -> GuardianLinksScreen
    [] page = "auditRecords"                   -> AuditScreen
    [] page = "academicYears"                  -> YearsScreen
    [] page = "courses"                        -> CoursesScreen
    [] page = "classOfferings"                 -> OfferingsScreen
    [] page = "settings"                       -> SettingsScreen
    [] page = "classOffering"                  -> OfferingScreen(f, got)
    [] page \in {"attendance", "attendanceOn"} -> SessionScreen(f, got)
    [] page = "termResults"                    -> ResultsScreen(f, got)
    [] page = "correctionRequests"             -> RequestsScreen(f, got)

-----------------------------------------------------------------------------
(* The session is read again on every move, and told what it found last.   *)

Blank(page, led) == [page |-> page, led |-> led, shown |-> "loading", answered |-> {}, got |-> {}]
Asked == [roles |-> None]

ReadRoles ==
  /\ session = Asked
  /\ session' = [roles |-> InForce(held)]
  /\ UNCHANGED <<held, left, facts, screen, request, steady>>

(* A School the account does not reach is not available.  A screen whose   *)
(* read follows from the facts is read afresh when they change.            *)
TellFacts ==
  /\ session # None /\ session # Asked
  /\ LET told == [roles |-> session.roles, taught |-> Ever(held.taught)]
         Wanted(f) == SchoolScreen(screen.page, f, {}).reads
         afresh == facts = None \/ facts.roles = {} \/ Wanted(facts) # Wanted(told)
     IN /\ facts' = told
        /\ \/ /\ screen.page = "schools" /\ told.roles = {}
              /\ screen' = [screen EXCEPT !.shown = "ready"]
              /\ session' = None /\ request' = request
           \/ /\ screen.page = "schools" /\ told.roles # {}
              /\ screen' = Blank(Landing(told), "navigation")
              /\ session' = Asked /\ request' = request
           \/ /\ screen.page # "schools" /\ told.roles = {}
              /\ screen' = [Blank(screen.page, screen.led) EXCEPT !.shown = "notAvailable"]
              /\ session' = None /\ request' = None
           \/ /\ screen.page # "schools" /\ told.roles # {}
              /\ screen' = IF afresh THEN Blank(screen.page, screen.led) ELSE screen
              /\ request' = IF afresh THEN None ELSE request
              /\ session' = None
  /\ UNCHANGED <<held, left, steady>>

(* One of the screen's requests at a time, in some order of its own; each  *)
(* is resolved to an Actor, decided and answered.                          *)
Reached == facts # None /\ facts.roles # {} /\ screen.page \in Pages
Shown == SchoolScreen(screen.page, facts, screen.got)

Unasked == request # None => request.stage = "answered"

Ask ==
  /\ Reached /\ screen.shown = "loading" /\ Unasked
  /\ request' = [asks |-> CHOOSE e \in Shown.reads \ screen.answered : TRUE,
                  stage |-> "asked", standing |-> None, seen |-> {held}, items |-> {}]
  /\ UNCHANGED <<held, left, session, facts, screen, steady>>

ResolveRoles ==
  /\ request # None /\ request.stage = "asked"
  /\ request' = [request EXCEPT !.stage = "roles", !.standing = [roles |-> InForce(held)]]
  /\ UNCHANGED <<held, left, session, facts, screen, steady>>

ResolveRelations ==
  /\ request # None /\ request.stage = "roles"
  /\ request' = [request EXCEPT !.stage = "resolved", !.standing = Relations(@.roles, held)]
  /\ UNCHANGED <<held, left, session, facts, screen, steady>>

(* A linked Student whose Attendance is refused is left out alone; any     *)
(* other refusal is the whole screen's.                                    *)
Alone(page, e) == page = "account" /\ e = "studentAttendance"

Answer ==
  /\ request # None /\ request.stage = "resolved"
  /\ LET items == Served(request.asks, request.standing, held)
         refused == items = {} /\ ~Alone(screen.page, request.asks)
         got == screen.got \cup items
         answered == screen.answered \cup {request.asks}
     IN /\ request' = [request EXCEPT !.stage = "answered", !.items = items]
        /\ screen' = [screen EXCEPT
             !.got = got, !.answered = answered,
             !.shown = IF refused THEN "notAvailable"
                       ELSE IF SchoolScreen(screen.page, facts, got).reads \subseteq answered THEN "ready"
                       ELSE "loading"]
  /\ UNCHANGED <<held, left, session, facts, steady>>

(* The Person follows the navigation, or a link of the sheet shown; what   *)
(* is not available shows neither, but a way to their Schools, and to the  *)
(* only one if it is.                                                      *)
Ways == IF screen.shown = "notAvailable" THEN {"schools"}
        ELSE IF ~Reached THEN {}
        ELSE SectionsFor(facts) \cup If(screen.shown = "ready", Shown.links)

Follow(to) ==
  /\ facts # None /\ to # screen.page /\ to \in Ways
  /\ LET page == IF to = "schools" /\ facts.roles # {} THEN Landing(facts) ELSE to
         led == IF ~steady \/ session # None THEN "stale"
                ELSE IF to = "schools" \/ to \in SectionsFor(facts) THEN "navigation"
                ELSE screen.page
     IN screen' = Blank(page, led)
  /\ session' = Asked /\ request' = None /\ steady' = TRUE
  /\ UNCHANGED <<held, left, facts>>

(* The Person raises a Correction request from the sheet that offers it.   *)
RaiseCorrectionRequest ==
  /\ Reached /\ screen.shown = "ready" /\ "raiseCorrectionRequest" \in Shown.offers
  /\ Served("raiseCorrectionRequest", StandingOf(held), held) # {}
  /\ Becomes([held EXCEPT !.raised = TRUE])

Init ==
  /\ \E start \in Starts : held = start[1] /\ left = start[2]
  /\ session = Asked /\ facts = None /\ request = None /\ steady = TRUE
  /\ screen \in {Blank(page, "address") : page \in Opened}

Change ==
  \/ \E r \in Roles : (\E to \in {"coming", "held"} : GrantRole(r, to)) \/ RoleBegins(r) \/ RoleEnds(r)
  \/ \E p \in Profiles : LinkStudent(p) \/ SetProfile(p)
  \/ EndLink \/ Enroll \/ EndEnrollment
  \/ \E span \in {"coming", "running"} : AssignTeaching(span) \/ RosterStudent(span)
  \/ SpanBegins \/ SpanEnds

Next ==
  \/ Change \/ RaiseCorrectionRequest
  \/ ReadRoles \/ TellFacts
  \/ Ask \/ ResolveRoles \/ ResolveRelations \/ Answer
  \/ \E to \in Pages \cup {"schools"} : Follow(to)

Spec == Init /\ [][Next]_vars

-----------------------------------------------------------------------------
(* Types.                                                                  *)
Items == {"account", "enrollment", "linked", "self", "student", "claimed", "classes", "taughtOffering",
          "ownRosterMembership", "offering", "roster", "classMarks", "recordable", "drafts", "publishable",
          "correctable", "ownMarks", "studentsMarks", "ownReport", "requests", "ownRequest",
          "othersRequest", "scale", "managed",
          "reportedAttendance", "reportedResults"} \cup Permissions

(* The Person holds what the rules on participation allow, the app knows   *)
(* only facts a session could tell, and a request is answered in items.    *)
TypeOK ==
  /\ held \in Holdings /\ left \in Nat /\ steady \in BOOLEAN
  /\ session \in {None, Asked} \cup [roles : SUBSET Roles]
  /\ facts \in {None} \cup [roles : SUBSET Roles, taught : BOOLEAN]
  /\ screen.page \in Pages \cup {"schools"} /\ screen.shown \in {"loading", "ready", "notAvailable"}
  /\ screen.got \subseteq Items
  /\ request # None => /\ request.stage \in {"asked", "roles", "resolved", "answered"}
                       /\ request.items \subseteq Items /\ request.seen \subseteq Holdings

(* On what grounds each item may be known: a role, and what the Person     *)
(* holds by it.                                                            *)
Holds(what, h) == CASE what = "nothingMore" -> TRUE
                    [] what = "linked"      -> h.link # None
                    [] what \in Permissions -> h.link # None /\ what \in h.link
                    [] what = "enrolled"    -> h.enrolled
                    [] what = "taught"      -> Ever(h.taught)
                    [] what = "teaches"     -> h.taught = "running"
                    [] what = "rostered"    -> Ever(h.rostered)
                    [] what = "raised"      -> h.raised
AnyRole(what) == Roles \X {what}
ByAdministrator == {<<"school_administrator", "nothingMore">>}
Grounds(item) ==
  CASE item \in {"account", "self", "classes", "ownMarks", "ownReport"} -> AnyRole("nothingMore")
    [] item = "enrollment"            -> {<<"student", "enrolled">>}
    [] item = "linked"                -> {<<"guardian", "linked">>}
    [] item \in Permissions           -> {<<"guardian", item>>}
    [] item \in {"managed", "claimed", "othersRequest"} -> ByAdministrator
    [] item = "student"               -> ByAdministrator \cup {<<"guardian", "linked">>}
    [] item = "studentsMarks"         -> ByAdministrator \cup {<<"guardian", "attendanceRead">>}
    [] item = "reportedAttendance"    -> ByAdministrator \cup {<<"guardian", "attendanceRead">>}
    [] item = "reportedResults"       -> ByAdministrator \cup {<<"guardian", "resultsRead">>}
    [] item = "taughtOffering"        -> AnyRole("taught")
    [] item = "ownRosterMembership"   -> AnyRole("rostered")
    [] item = "offering"              -> ByAdministrator \cup AnyRole("taught") \cup {<<"student", "rostered">>}
    [] item \in {"roster", "classMarks", "drafts"} -> ByAdministrator \cup AnyRole("taught")
    [] item = "recordable"            -> {<<"faculty", "teaches">>}
    [] item \in {"publishable", "correctable"} -> ByAdministrator \cup {<<"faculty", "teaches">>}
    [] item = "scale"                 -> ByAdministrator \cup {<<"faculty", "nothingMore">>}
    [] item = "requests"              -> ByAdministrator \cup {<<"faculty", "nothingMore">>} \cup AnyRole("taught")
    [] item = "ownRequest"            -> AnyRole("raised")

(* Whatever a request is answered, the Person held a role that lets it be  *)
(* known, and what that role stands on, while the request ran; nothing is  *)
(* known of what was never held (access/index.ts, school-scope.ts).        *)
GroundsWereHeld ==
  request # None => \A item \in request.items : \E g \in Grounds(item) :
    (\E h \in request.seen : g[1] \in InForce(h)) /\ (\E h \in request.seen : Holds(g[2], h))

(* The web app's navigation, decided from facts alone, reaches exactly the *)
(* sections the server would serve, but for one's own records, which the   *)
(* server serves anyone and only a Student is shown (routes.ts, index.ts). *)
OwnRecords == {"yourAttendance", "yourTermReport"}
Opens(section) == \A e \in SchoolScreen(section, FactsOf(held), {}).reads : Served(e, StandingOf(held), held) # {}
NavigationMirrors ==
  InForce(held) # {} =>
    /\ \A s \in SectionsFor(FactsOf(held)) : Opens(s)
    /\ \A s \in Sections \ (SectionsFor(FactsOf(held)) \cup OwnRecords) : ~Opens(s)

(* Moving by what the web app itself shows never ends at a page that is    *)
(* not available unless something changed, but for two: a request raised   *)
(* as School Administrator by one who has never taught leads to its Class  *)
(* Offering, and so does the Attendance of one no longer a Student.        *)
NeverLedIntoARefusal ==
  screen.shown = "notAvailable" /\ steady /\ screen.led \notin {"address", "stale"} =>
    \/ screen.led = "correctionRequests" /\ held.raised /\ ~ReadsClassRecords(StandingOf(held))
    \/ screen.led = "yourAttendance" /\ "student" \notin InForce(held)

(* Every change a screen offers is one the server would make, unless what  *)
(* the Person holds changed after they moved there: the screens decide     *)
(* what to offer from what they were answered and from the facts.          *)
OffersStand ==
  screen.shown = "ready" /\ screen.page \in Pages /\ steady /\ session = None =>
    \A e \in Shown.offers : Served(e, StandingOf(held), held) # {}

(* Whoever has ever raised a Correction request and still reaches the      *)
(* School may list their own.                                              *)
RaisersListTheirOwn ==
  held.raised /\ InForce(held) # {} => Served("correctionRequests", StandingOf(held), held) # {}
-----------------------------------------------------------------------------
(* The inductive invariant.  What the app and a request under way know is  *)
(* founded on what was held, and while nothing changes it is all true.     *)
Endpoints == Managed \cup {
  "account", "persons", "ownClassOfferings", "ownRosterMemberships", "classOffering", "classOfferingAttendance",
  "attendanceSession", "classOfferingResults", "openAttendanceSession", "saveAttendance", "saveTermResults",
  "publishTermResults", "raiseCorrectionRequest", "correctionRequests", "withdrawCorrectionRequest",
  "ownAttendance", "studentAttendance", "ownTermReport", "studentTermReport", "resultValueScale"}

RolesRead == [roles : SUBSET Roles]
Told == [roles : SUBSET Roles, taught : BOOLEAN]
Resolved == [roles : SUBSET Roles, link : Profiles \cup {None}, taught : BOOLEAN, rostered : BOOLEAN]
Screens == [page : Pages \cup {"schools"}, led : Pages \cup {"address", "navigation", "stale", "schools"},
            shown : {"loading", "ready", "notAvailable"}, answered : SUBSET Endpoints, got : SUBSET Items]
Stages == {"asked", "roles", "resolved", "answered"}
RequestsMade == [asks : Endpoints, stage : Stages, standing : {None} \cup RolesRead \cup Resolved,
                 seen : SUBSET Holdings, items : SUBSET Items]

(* None is no record: what has not been read differs from all that can be. *)
ASSUME NoneIsNothing ==
  None \notin {Asked} \cup RolesRead \cup Told \cup RequestsMade

AllTyped ==
  /\ held \in Holdings /\ left \in Nat /\ steady \in BOOLEAN
  /\ session \in {None, Asked} \cup RolesRead
  /\ facts \in {None} \cup Told
  /\ screen \in Screens
  /\ request \in {None} \cup RequestsMade

(* Each part of a standing was read of what was held at some moment.       *)
Founded(s, seen) ==
  /\ \E h \in seen : s.roles = InForce(h)
  /\ s.link # None => "guardian" \in s.roles /\ \E h \in seen : h.link = s.link
  /\ s.taught => \E h \in seen : Ever(h.taught)
  /\ s.rostered => "student" \in s.roles /\ \E h \in seen : Ever(h.rostered)

RequestSound == request # None /\ request.stage # "answered" =>
  /\ Reached /\ screen.shown = "loading" /\ request.asks \in Shown.reads
  /\ held \in request.seen /\ request.items = {}
  /\ request.stage = "roles" => \E h \in request.seen : request.standing = [roles |-> InForce(h)]
  /\ request.stage = "resolved" => request.standing \in Resolved /\ Founded(request.standing, request.seen)

(* A screen has been answered only what it asks for, and all of it once it *)
(* is ready; one that loads lacks something yet.                           *)
ScreenSound ==
  /\ Reached => screen.answered \subseteq Shown.reads
  /\ Reached /\ screen.shown = "loading" => ~(Shown.reads \subseteq screen.answered)
  /\ screen.page \in Pages /\ screen.shown = "ready" => Reached /\ Shown.reads \subseteq screen.answered
  /\ screen.page = "schools" => screen.shown # "notAvailable"

ServedNow(e) == Served(e, StandingOf(held), held)

SteadySound == steady =>
  /\ session = None => facts = FactsOf(held)
  /\ session \notin {None, Asked} => session.roles = InForce(held)
  /\ request # None /\ request.stage = "roles" => request.standing.roles = InForce(held)
  /\ request # None /\ request.stage = "resolved" => request.standing = StandingOf(held)
  /\ screen.got = UNION {ServedNow(e) : e \in screen.answered}
  /\ screen.shown # "notAvailable" => \A e \in screen.answered : ServedNow(e) # {} \/ Alone(screen.page, e)

(* Where the app leads, on facts still true, the server follows.           *)
Opening(page) == \A e \in SchoolScreen(page, FactsOf(held), {}).reads : ServedNow(e) # {}
FromOnesRequest == screen.led = "correctionRequests" /\ held.raised /\ ~ReadsClassRecords(StandingOf(held))
FromOnesMarks == screen.led = "yourAttendance" /\ "student" \notin InForce(held)
LedSound == steady /\ screen.led \notin {"address", "stale"} =>
  /\ facts = FactsOf(held)
  /\ screen.page \in Pages =>
       facts.roles # {} /\ (Opening(screen.page) \/ FromOnesRequest \/ FromOnesMarks)

IInv ==
  /\ AllTyped
  /\ RequestSound
  /\ GroundsWereHeld
  /\ ScreenSound
  /\ SteadySound
  /\ LedSound
  /\ NeverLedIntoARefusal
=============================================================================
