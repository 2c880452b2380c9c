------------------------------ MODULE AccessProofs ------------------------------
(***************************************************************************)
(* What Access promises, for every School, Person, Access profile and      *)
(* number of changes.                                                      *)
(*                                                                         *)
(* First the decisions and the screens, one endpoint and one page at a     *)
(* time: what is served is grounded, and a screen reads and offers only    *)
(* what follows from the facts and from what it was served.  Then the      *)
(* inductive invariant IInv, one lemma for each action, and the theorems.  *)
(***************************************************************************)
EXTENDS Access, TLAPS

-----------------------------------------------------------------------------
(* The decisions.  The endpoints of the one decision on managing a School  *)
(* are none of those that decide for themselves.                           *)
LEMMA ManagedApart ==
  Managed \cap {"account", "persons", "ownClassOfferings", "ownRosterMemberships", "classOffering",
    "classOfferingAttendance", "attendanceSession", "classOfferingResults", "openAttendanceSession",
    "saveAttendance", "saveTermResults", "publishTermResults", "raiseCorrectionRequest",
    "correctionRequests", "withdrawCorrectionRequest", "ownAttendance", "studentAttendance",
    "ownTermReport", "studentTermReport", "resultValueScale"} = {}
BY DEF Managed, ManagedPersons, ManagedSchool, ManagedYears, ManagedCourses, ManagedRelationships,
  ManagedParticipation

-----------------------------------------------------------------------------
(* The grounds of an item: a role the Person had, and what they held by it. *)
InRole(seen, r) == \E h \in seen : r \in InForce(h)
Once(seen, what) == \E h \in seen : Holds(what, h)
Grounded(item, seen) == \E g \in Grounds(item) : InRole(seen, g[1]) /\ Once(seen, g[2])

(* What each item may be known by. *)
LEMMA GroundsByName ==
  /\ \A item \in {"account", "self", "classes", "ownMarks", "ownReport"} :
       Grounds(item) = AnyRole("nothingMore")
  /\ Grounds("enrollment") = {<<"student", "enrolled">>}
  /\ Grounds("linked") = {<<"guardian", "linked">>}
  /\ \A item \in Permissions : Grounds(item) = {<<"guardian", item>>}
  /\ \A item \in {"managed", "claimed", "othersRequest"} : Grounds(item) = ByAdministrator
  /\ Grounds("student") = ByAdministrator \cup {<<"guardian", "linked">>}
  /\ Grounds("studentsMarks") = ByAdministrator \cup {<<"guardian", "attendanceRead">>}
  /\ Grounds("reportedAttendance") = ByAdministrator \cup {<<"guardian", "attendanceRead">>}
  /\ Grounds("reportedResults") = ByAdministrator \cup {<<"guardian", "resultsRead">>}
  /\ Grounds("taughtOffering") = AnyRole("taught")
  /\ Grounds("ownRosterMembership") = AnyRole("rostered")
  /\ Grounds("offering") = ByAdministrator \cup AnyRole("taught") \cup {<<"student", "rostered">>}
  /\ \A item \in {"roster", "classMarks", "drafts"} : Grounds(item) = ByAdministrator \cup AnyRole("taught")
  /\ Grounds("recordable") = {<<"faculty", "teaches">>}
  /\ \A item \in {"publishable", "correctable"} : Grounds(item) = ByAdministrator \cup {<<"faculty", "teaches">>}
  /\ Grounds("scale") = ByAdministrator \cup {<<"faculty", "nothingMore">>}
  /\ Grounds("requests") = ByAdministrator \cup {<<"faculty", "nothingMore">>} \cup AnyRole("taught")
  /\ Grounds("ownRequest") = AnyRole("raised")
BY DEF Grounds, Permissions

(* What each ground asks of what the Person holds. *)
LEMMA HoldsByName ==
  ASSUME NEW h
  PROVE  /\ Holds("nothingMore", h)
         /\ Holds("linked", h) <=> h.link # None
         /\ \A p \in Permissions : Holds(p, h) <=> h.link # None /\ p \in h.link
         /\ Holds("enrolled", h) = h.enrolled
         /\ Holds("taught", h) = Ever(h.taught)
         /\ Holds("teaches", h) <=> h.taught = "running"
         /\ Holds("rostered", h) = Ever(h.rostered)
         /\ Holds("raised", h) = h.raised
BY DEF Holds, Permissions

(* From a role and what is held by it to the items they let be known. *)
LEMMA GroundedByName ==
  ASSUME NEW seen, seen # {}
  PROVE  /\ InRole(seen, "school_administrator") =>
              \A item \in {"managed", "claimed", "othersRequest", "student", "studentsMarks",
                           "reportedAttendance", "reportedResults", "offering", "roster", "classMarks",
                           "drafts", "publishable", "correctable", "scale", "requests"} : Grounded(item, seen)
         /\ InRole(seen, "faculty") => \A item \in {"scale", "requests"} : Grounded(item, seen)
         /\ InRole(seen, "faculty") /\ Once(seen, "teaches") =>
              \A item \in {"recordable", "publishable", "correctable"} : Grounded(item, seen)
         /\ InRole(seen, "student") /\ Once(seen, "enrolled") => Grounded("enrollment", seen)
         /\ InRole(seen, "student") /\ Once(seen, "rostered") => Grounded("offering", seen)
         /\ InRole(seen, "guardian") /\ Once(seen, "linked") =>
              Grounded("linked", seen) /\ Grounded("student", seen)
         /\ \A p \in Permissions : InRole(seen, "guardian") /\ Once(seen, p) =>
              Grounded(p, seen) /\ Grounded(ReportOf(p), seen)
         /\ InRole(seen, "guardian") /\ Once(seen, "attendanceRead") => Grounded("studentsMarks", seen)
         /\ \A r \in Roles : InRole(seen, r) =>
              /\ \A item \in {"account", "self", "classes", "ownMarks", "ownReport"} : Grounded(item, seen)
              /\ Once(seen, "taught") =>
                   \A item \in {"taughtOffering", "offering", "roster", "classMarks", "drafts", "requests"} :
                     Grounded(item, seen)
              /\ Once(seen, "rostered") => Grounded("ownRosterMembership", seen)
              /\ Once(seen, "raised") => Grounded("ownRequest", seen)
<1>1. Once(seen, "nothingMore")
  BY HoldsByName DEF Once
<1>2. ASSUME NEW item, NEW r, NEW what, <<r, what>> \in Grounds(item), InRole(seen, r), Once(seen, what)
      PROVE  Grounded(item, seen)
  BY <1>2 DEF Grounded
<1>3. ASSUME InRole(seen, "school_administrator"),
             NEW item \in {"managed", "claimed", "othersRequest", "student", "studentsMarks",
                           "reportedAttendance", "reportedResults", "offering", "roster", "classMarks",
                           "drafts", "publishable", "correctable", "scale", "requests"}
      PROVE  Grounded(item, seen)
  <2>1. <<"school_administrator", "nothingMore">> \in Grounds(item)
    BY <1>3, GroundsByName DEF ByAdministrator
  <2> QED
    BY <2>1, <1>1, <1>2, <1>3
<1>4. /\ \A item \in {"scale", "requests"} : <<"faculty", "nothingMore">> \in Grounds(item)
      /\ \A item \in {"recordable", "publishable", "correctable"} : <<"faculty", "teaches">> \in Grounds(item)
      /\ <<"student", "enrolled">> \in Grounds("enrollment")
      /\ <<"student", "rostered">> \in Grounds("offering")
      /\ <<"guardian", "linked">> \in Grounds("linked") /\ <<"guardian", "linked">> \in Grounds("student")
      /\ <<"guardian", "attendanceRead">> \in Grounds("studentsMarks")
  BY GroundsByName
<1>5. \A p \in Permissions : <<"guardian", p>> \in Grounds(p) /\ <<"guardian", p>> \in Grounds(ReportOf(p))
  BY GroundsByName DEF Permissions, ReportOf
<1>6. ASSUME NEW r \in Roles
      PROVE  /\ \A item \in {"account", "self", "classes", "ownMarks", "ownReport"} :
                  <<r, "nothingMore">> \in Grounds(item)
             /\ \A item \in {"taughtOffering", "offering", "roster", "classMarks", "drafts", "requests"} :
                  <<r, "taught">> \in Grounds(item)
             /\ <<r, "rostered">> \in Grounds("ownRosterMembership")
             /\ <<r, "raised">> \in Grounds("ownRequest")
  BY GroundsByName DEF AnyRole
<1>7. InRole(seen, "faculty") => \A item \in {"scale", "requests"} : Grounded(item, seen)
  BY <1>1, <1>2, <1>4
<1>8. InRole(seen, "faculty") /\ Once(seen, "teaches") =>
        \A item \in {"recordable", "publishable", "correctable"} : Grounded(item, seen)
  BY <1>2, <1>4
<1>9. /\ InRole(seen, "student") /\ Once(seen, "enrolled") => Grounded("enrollment", seen)
      /\ InRole(seen, "student") /\ Once(seen, "rostered") => Grounded("offering", seen)
      /\ InRole(seen, "guardian") /\ Once(seen, "linked") =>
           Grounded("linked", seen) /\ Grounded("student", seen)
      /\ InRole(seen, "guardian") /\ Once(seen, "attendanceRead") => Grounded("studentsMarks", seen)
  BY <1>2, <1>4
<1>10. \A p \in Permissions : InRole(seen, "guardian") /\ Once(seen, p) =>
         Grounded(p, seen) /\ Grounded(ReportOf(p), seen)
  BY <1>2, <1>5
<1>11. ASSUME NEW r \in Roles, InRole(seen, r)
       PROVE  /\ \A item \in {"account", "self", "classes", "ownMarks", "ownReport"} : Grounded(item, seen)
              /\ Once(seen, "taught") =>
                   \A item \in {"taughtOffering", "offering", "roster", "classMarks", "drafts", "requests"} :
                     Grounded(item, seen)
              /\ Once(seen, "rostered") => Grounded("ownRosterMembership", seen)
              /\ Once(seen, "raised") => Grounded("ownRequest", seen)
  BY <1>1, <1>2, <1>6, <1>11
<1> QED
  BY <1>3, <1>7, <1>8, <1>9, <1>10, <1>11

(* What is served to an Actor whose standing is founded on what the Person *)
(* held, the handler's own reads included, has its grounds among it.       *)
LEMMA ServedIsGrounded ==
  ASSUME NEW seen \in SUBSET Holdings, NEW s \in Resolved, Founded(s, seen), NEW h \in seen, NEW e \in Endpoints,
         NEW item \in Served(e, s, h)
  PROVE  Grounded(item, seen)
<1>1. s.roles # {} /\ s.roles \subseteq Roles /\ (s.link # None => s.link \subseteq Permissions)
  <2>1. s.roles # {}
    BY DEF Served, If
  <2> QED
    BY <2>1, AccessAssumption DEF Resolved
<1>2. seen # {} /\ \A r \in s.roles : InRole(seen, r)
  BY DEF Founded, InRole
<1>3. /\ s.link # None => /\ InRole(seen, "guardian") /\ Once(seen, "linked")
                          /\ \A p \in s.link : Once(seen, p)
      /\ s.taught => Once(seen, "taught")
      /\ s.rostered => InRole(seen, "student") /\ Once(seen, "rostered")
  <2>1. ASSUME s.link # None
        PROVE  InRole(seen, "guardian") /\ Once(seen, "linked") /\ \A p \in s.link : Once(seen, p)
    <3>1. PICK at \in seen : at.link = s.link
      BY <2>1 DEF Founded
    <3>2. Holds("linked", at) /\ \A p \in s.link : Holds(p, at)
      BY <3>1, <2>1, <1>1, HoldsByName
    <3> QED
      BY <3>2, <2>1, <1>2 DEF Once, Founded
  <2>2. s.taught => Once(seen, "taught")
    BY HoldsByName DEF Founded, Once
  <2>3. s.rostered => InRole(seen, "student") /\ Once(seen, "rostered")
    BY HoldsByName, <1>2 DEF Founded, Once
  <2> QED
    BY <2>1, <2>2, <2>3
<1>4. /\ h.taught = "running" => Once(seen, "teaches")
      /\ Ever(h.taught) => Once(seen, "taught")
      /\ Ever(h.rostered) => Once(seen, "rostered")
      /\ h.raised => Once(seen, "raised")
      /\ h.enrolled => Once(seen, "enrolled")
      /\ h.link # None => Once(seen, "linked") /\ \A p \in Permissions : p \in h.link => Once(seen, p)
  BY HoldsByName DEF Once
<1>5. PICK r \in Roles : InRole(seen, r)
  BY <1>1, <1>2
<1>6. /\ \A i \in {"account", "self", "classes", "ownMarks", "ownReport"} : Grounded(i, seen)
      /\ Once(seen, "taught") =>
           \A i \in {"taughtOffering", "offering", "roster", "classMarks", "drafts", "requests"} :
             Grounded(i, seen)
      /\ Once(seen, "rostered") => Grounded("ownRosterMembership", seen)
      /\ Once(seen, "raised") => Grounded("ownRequest", seen)
  BY <1>5, <1>2, GroundedByName
<1>7. Administers(s) =>
        \A i \in {"managed", "claimed", "othersRequest", "student", "studentsMarks",
                  "reportedAttendance", "reportedResults", "offering", "roster", "classMarks",
                  "drafts", "publishable", "correctable", "scale", "requests"} : Grounded(i, seen)
  BY <1>2, GroundedByName DEF Administers
<1>8. Teaches(s, h) => \A i \in {"recordable", "publishable", "correctable"} : Grounded(i, seen)
  BY <1>2, <1>4, GroundedByName DEF Teaches
<1>9. ReadsClassRecords(s) => \A i \in {"classMarks", "drafts"} : Grounded(i, seen)
  BY <1>3, <1>6, <1>7 DEF ReadsClassRecords
<1>10. CASE e \in Managed
  <2>1. item \in If(s.roles # {}, If(Administers(s), {"managed"}))
    BY <1>10, ManagedApart DEF Served
  <2> QED
    BY <2>1, <1>7 DEF If
<1>11. CASE e = "account"
  <2>1. item \in OwnAccount(s, h)
    BY <1>11, ManagedApart DEF Served, If
  <2>2. \/ item = "account"
        \/ item = "enrollment" /\ "student" \in s.roles /\ h.enrolled
        \/ item \in {"linked"} \cup h.link /\ "guardian" \in s.roles /\ h.link # None
    BY <2>1 DEF OwnAccount, If
  <2>3. h.link # None => h.link \subseteq Permissions
    BY AccessAssumption DEF Founded, Holdings
  <2> QED
    BY <2>2, <2>3, <1>2, <1>4, <1>6, GroundedByName
<1>12. CASE e = "persons"
  <2>1. item \in PersonsServed(s)
    BY <1>12, ManagedApart DEF Served, If
  <2>2. s.link # None => Grounded("student", seen)
    BY <1>2, <1>3, GroundedByName
  <2> QED
    BY <2>1, <2>2, <1>6, <1>7 DEF If, PersonsServed, ReadsStudent
<1>13. CASE e = "ownClassOfferings"
  <2>1. item \in OwnClassOfferings(h)
    BY <1>13, ManagedApart DEF Served, If
  <2> QED
    BY <2>1, <1>4, <1>6 DEF If, OwnClassOfferings
<1>14. CASE e = "ownRosterMemberships"
  <2>1. item \in OwnRosterMemberships(h)
    BY <1>14, ManagedApart DEF Served, If
  <2> QED
    BY <2>1, <1>4, <1>6 DEF If, OwnRosterMemberships
<1>15. CASE e = "classOffering"
  <2>1. ReadsClassOffering(s) /\ item \in ClassOfferingServed(s)
    BY <1>15, ManagedApart DEF Served, If
  <2>2. s.rostered => Grounded("offering", seen)
    BY <1>2, <1>3, GroundedByName
  <2> QED
    BY <2>1, <2>2, <1>3, <1>6, <1>7 DEF If, ClassOfferingServed, ReadsClassOffering, ReadsRoster
<1>16. CASE e = "classOfferingAttendance"
  <2>1. ReadsClassRecords(s) /\ item \in OfferingMarks
    BY <1>16, ManagedApart DEF Served, If
  <2> QED
    BY <2>1, <1>9 DEF OfferingMarks
<1>17. CASE e = "attendanceSession"
  <2>1. ReadsClassRecords(s) /\ item \in SessionServed(s, h)
    BY <1>17, ManagedApart DEF Served, If
  <2> QED
    BY <2>1, <1>8, <1>9 DEF If, SessionServed, MayRecord
<1>18. CASE e = "classOfferingResults"
  <2>1. ReadsClassRecords(s) /\ item \in ResultsServed(s, h)
    BY <1>18, ManagedApart DEF Served, If
  <2> QED
    BY <2>1, <1>7, <1>8, <1>9 DEF If, ResultsServed, MayRecord, MayPublish, MayRaise
<1>19. CASE e \in {"openAttendanceSession", "saveAttendance", "saveTermResults"}
  <2>1. MayRecord(s, h) /\ item = "recordable"
    BY <1>19, ManagedApart DEF Served, If
  <2> QED
    BY <2>1, <1>8 DEF MayRecord
<1>20. CASE e \in {"publishTermResults", "raiseCorrectionRequest"}
  <2>1. (Administers(s) \/ Teaches(s, h)) /\ item \in {"publishable", "correctable"}
    BY <1>20, ManagedApart DEF Served, If, MayPublish, MayRaise
  <2> QED
    BY <2>1, <1>7, <1>8
<1>21. CASE e = "correctionRequests"
  <2>1. item \in RequestsServed(s, h)
    BY <1>21, ManagedApart DEF Served, If
  <2>2. ReadsCorrectionRequests(s) # {} => Grounded("requests", seen)
    BY <1>2, <1>3, <1>6, <1>7, GroundedByName DEF ReadsCorrectionRequests
  <2>3. "everyone" \in ReadsCorrectionRequests(s) => Grounded("othersRequest", seen)
    BY <1>7 DEF ReadsCorrectionRequests
  <2> QED
    BY <2>1, <2>2, <2>3, <1>4, <1>6 DEF If, RequestsServed
<1>22. CASE e = "withdrawCorrectionRequest"
  <2>1. item \in If(s.roles # {}, If(Withdraws(h), {"ownRequest"}))
    BY <1>22, ManagedApart DEF Served
  <2> QED
    BY <2>1, <1>4, <1>6 DEF If, Withdraws
<1>23. CASE e = "ownAttendance"
  <2>1. item \in OwnMarks(h)
    BY <1>23, ManagedApart DEF Served, If
  <2> QED
    BY <2>1, <1>4, <1>6 DEF If, OwnMarks
<1>24. CASE e = "studentAttendance"
  <2>1. item \in If(s.roles # {}, If(ReadsAttendanceOfStudent(s), StudentMarks))
    BY <1>24, ManagedApart DEF Served
  <2>2. s.link # None /\ "attendanceRead" \in s.link => Grounded("studentsMarks", seen)
    BY <1>2, <1>3, GroundedByName
  <2> QED
    BY <2>1, <2>2, <1>7 DEF ReadsAttendanceOfStudent, If, StudentMarks
<1>25. CASE e = "ownTermReport"
  <2>1. item \in If(s.roles # {}, {"ownReport"})
    BY <1>25, ManagedApart DEF Served
  <2> QED
    BY <2>1, <1>6 DEF If
<1>26. CASE e = "studentTermReport"
  <2>1. item \in {ReportOf(part) : part \in TermReportParts(s)}
    BY <1>26, ManagedApart DEF Served, If, TermReportServed
  <2>2. PICK part \in TermReportParts(s) : item = ReportOf(part)
    BY <2>1
  <2>3. CASE Administers(s)
    BY <2>2, <2>3, <1>7 DEF ReportOf
  <2>4. CASE ~Administers(s)
    <3>1. s.link # None /\ part \in s.link
      BY <2>2, <2>4 DEF TermReportParts
    <3> QED
      BY <2>2, <3>1, <1>1, <1>2, <1>3, GroundedByName
  <2> QED
    BY <2>3, <2>4
<1>27. CASE e = "resultValueScale"
  BY <1>27, <1>2, <1>7, GroundedByName, ManagedApart DEF Served, If, ReadsResultValueScale
<1> QED
  BY <1>10, <1>11, <1>12, <1>13, <1>14, <1>15, <1>16, <1>17, <1>18, <1>19, <1>20, <1>21, <1>22, <1>23, <1>24,
    <1>25, <1>26, <1>27 DEF Endpoints

(* What is served is among the items there are. *)
LEMMA ServedIsItems ==
  ASSUME NEW s \in Resolved, NEW h \in Holdings, NEW e \in Endpoints
  PROVE  Served(e, s, h) \subseteq Items
<1>1. /\ s.link # None => s.link \subseteq Permissions
      /\ h.link # None => h.link \subseteq Permissions
  BY AccessAssumption DEF Resolved, Holdings
<1>2. /\ h.link # None => OwnAccount(s, h) \subseteq Items
      /\ h.link = None => OwnAccount(s, h) \subseteq Items
  BY <1>1 DEF OwnAccount, If, Items
<1>3. TermReportServed(s) \subseteq Items
  BY DEF TermReportServed, ReportOf, Items
<1>4. /\ PersonsServed(s) \subseteq Items /\ OwnClassOfferings(h) \subseteq Items
      /\ OwnRosterMemberships(h) \subseteq Items /\ ClassOfferingServed(s) \subseteq Items
      /\ OfferingMarks \subseteq Items /\ SessionServed(s, h) \subseteq Items
      /\ ResultsServed(s, h) \subseteq Items
  BY DEF PersonsServed, OwnClassOfferings, OwnRosterMemberships, ClassOfferingServed, OfferingMarks,
    SessionServed, ResultsServed, If, Items
<1>5. RequestsServed(s, h) \subseteq Items /\ OwnMarks(h) \subseteq Items /\ StudentMarks \subseteq Items
  BY DEF RequestsServed, OwnMarks, StudentMarks, If, Items
<1>6. {"managed", "recordable", "publishable", "correctable", "ownRequest", "ownReport", "scale"} \subseteq Items
  BY DEF Items
<1>7. CASE e \in Managed
  BY <1>6, <1>7, ManagedApart DEF Served, If
<1>8. CASE e \notin Managed
  BY <1>2, <1>3, <1>4, <1>5, <1>6, <1>8 DEF Endpoints, Served, If
<1> QED
  BY <1>7, <1>8

-----------------------------------------------------------------------------
(* The screens.  Most pages ask for the same whatever the app knows. *)
Steadfast == Pages \ {"account", "classes", "classOffering", "attendance", "attendanceOn"}

(* They ask for something, of endpoints there are, and nothing more later. *)
LEMMA SteadfastReads ==
  ASSUME NEW page \in Steadfast, NEW f, NEW got, NEW g, NEW more
  PROVE  /\ SchoolScreen(page, f, got).reads = SchoolScreen(page, g, more).reads
         /\ SchoolScreen(page, f, got).reads \subseteq Endpoints
         /\ SchoolScreen(page, f, got).reads # {}
<1>1. CASE page \in {"yourAttendance", "yourTermReport", "termReport"}
  BY <1>1 DEF SchoolScreen, YourAttendance, TermReportScreen, Endpoints
<1>2. CASE page \in {"persons", "invitations", "memberships"}
  BY <1>2 DEF SchoolScreen, PersonsScreen, InvitationsScreen, MembershipsScreen, Endpoints, Managed,
    ManagedPersons, ManagedRelationships, ManagedSchool
<1>3. CASE page \in {"enrollments", "guardianLinks", "auditRecords"}
  BY <1>3 DEF SchoolScreen, EnrollmentsScreen, GuardianLinksScreen, AuditScreen, Endpoints, Managed,
    ManagedRelationships, ManagedSchool
<1>4. CASE page \in {"academicYears", "courses", "classOfferings"}
  BY <1>4 DEF SchoolScreen, YearsScreen, CoursesScreen, OfferingsScreen, Endpoints, Managed,
    ManagedYears, ManagedCourses
<1>5. CASE page \in {"settings", "termResults", "correctionRequests"}
  BY <1>5 DEF SchoolScreen, SettingsScreen, ResultsScreen, RequestsScreen, Endpoints, Managed, ManagedSchool
<1> QED
  BY <1>1, <1>2, <1>3, <1>4, <1>5 DEF Steadfast, Pages, Sections, AdministratorSections

(* What every page asks for. *)
LEMMA ReadsAre ==
  ASSUME NEW page \in Pages, NEW f, NEW got
  PROVE  SchoolScreen(page, f, got).reads \subseteq Endpoints /\ SchoolScreen(page, f, got).reads # {}
<1>1. CASE page \in Steadfast
  BY <1>1, SteadfastReads
<1>2. CASE page = "account"
  BY <1>2 DEF SchoolScreen, AccountScreen, Endpoints, If
<1>3. CASE page = "classes"
  BY <1>3 DEF SchoolScreen, YourClasses, Endpoints, If
<1>4. CASE page = "classOffering"
  BY <1>4 DEF SchoolScreen, OfferingScreen, Endpoints, If, Managed, ManagedPersons, ManagedRelationships,
    ManagedSchool
<1>5. CASE page \in {"attendance", "attendanceOn"}
  BY <1>5 DEF SchoolScreen, SessionScreen, Endpoints, If
<1> QED
  BY <1>1, <1>2, <1>3, <1>4, <1>5 DEF Steadfast

(* The more a screen is served the more it may ask for, and never less. *)
LEMMA ReadsGrow ==
  ASSUME NEW page \in Pages, NEW f, NEW got, NEW more, got \subseteq more
  PROVE  SchoolScreen(page, f, got).reads \subseteq SchoolScreen(page, f, more).reads
<1>1. CASE page \in Steadfast
  BY <1>1, SteadfastReads
<1>2. CASE page = "account"
  BY <1>2 DEF SchoolScreen, AccountScreen, If
<1>3. CASE page = "classes"
  BY <1>3 DEF SchoolScreen, YourClasses, If
<1>4. CASE page = "classOffering"
  BY <1>4 DEF SchoolScreen, OfferingScreen, If
<1>5. CASE page \in {"attendance", "attendanceOn"}
  BY <1>5 DEF SchoolScreen, SessionScreen, If
<1> QED
  BY <1>1, <1>2, <1>3, <1>4, <1>5 DEF Steadfast

(* Facts that ask for the same at first go on asking for the same: that a  *)
(* screen is kept across a session's read loses none of its reads.         *)
LEMMA ReadsFollowTheFirst ==
  ASSUME NEW page \in Pages, NEW f, NEW g, NEW got,
         SchoolScreen(page, f, {}).reads = SchoolScreen(page, g, {}).reads
  PROVE  SchoolScreen(page, f, got).reads = SchoolScreen(page, g, got).reads
<1>1. CASE page \in Steadfast
  BY <1>1, SteadfastReads
<1>2. CASE page = "account"
  BY <1>2 DEF SchoolScreen, AccountScreen
<1>3. CASE page = "classes"
  BY <1>3 DEF SchoolScreen, YourClasses
<1>4. CASE page = "classOffering"
  <2>1. Administers(f) <=> Administers(g)
    BY <1>4 DEF SchoolScreen, OfferingScreen, If
  <2> QED
    BY <1>4, <2>1 DEF SchoolScreen, OfferingScreen, If
<1>5. CASE page \in {"attendance", "attendanceOn"}
  BY <1>5 DEF SchoolScreen, SessionScreen
<1> QED
  BY <1>1, <1>2, <1>3, <1>4, <1>5 DEF Steadfast

-----------------------------------------------------------------------------
(* A Person who holds h throughout.  Their standing is what h lets stand. *)
LEMMA StandingStands ==
  ASSUME NEW h \in Holdings
  PROVE  /\ StandingOf(h) \in Resolved /\ Founded(StandingOf(h), {h})
         /\ StandingOf(h).roles = InForce(h)
         /\ StandingOf(h).taught = Ever(h.taught)
         /\ StandingOf(h).rostered <=> "student" \in InForce(h) /\ Ever(h.rostered)
         /\ StandingOf(h).link = IF "guardian" \in InForce(h) THEN h.link ELSE None
         /\ FactsOf(h) \in Told /\ FactsOf(h).roles = InForce(h) /\ FactsOf(h).taught = Ever(h.taught)
BY DEF StandingOf, Relations, Resolved, Founded, InForce, Holdings, Ever, FactsOf, Told

(* What is served to them they hold the grounds of. *)
LEMMA ServedOfWhatIsHeld ==
  ASSUME NEW h \in Holdings, NEW e \in Endpoints, NEW item \in Served(e, StandingOf(h), h)
  PROVE  Grounded(item, {h})
BY StandingStands, ServedIsGrounded

(* So the items a screen decides by tell what is true of the Person. *)
LEMMA ItemsTell ==
  ASSUME NEW h \in Holdings, NEW e \in Endpoints, NEW item \in Served(e, StandingOf(h), h)
  PROVE  /\ item = "recordable" => Teaches(StandingOf(h), h)
         /\ item \in {"publishable", "correctable"} => MayPublish(StandingOf(h), h) /\ MayRaise(StandingOf(h), h)
         /\ item = "ownRequest" => h.raised
         /\ item \in {"managed", "claimed", "othersRequest"} => Administers(StandingOf(h))
         /\ item \in {"roster", "classMarks"} => ReadsClassRecords(StandingOf(h)) /\ ReadsRoster(StandingOf(h))
         /\ item = "taughtOffering" => StandingOf(h).taught
         /\ item = "ownRosterMembership" => Ever(h.rostered)
         /\ item \in Permissions => StandingOf(h).link # None /\ item \in StandingOf(h).link
<1>1. PICK g \in Grounds(item) : InRole({h}, g[1]) /\ Once({h}, g[2])
  BY ServedOfWhatIsHeld DEF Grounded
<1>2. g[1] \in StandingOf(h).roles /\ Holds(g[2], h)
  BY <1>1, StandingStands DEF InRole, Once
<1>3. item = "recordable" => Teaches(StandingOf(h), h)
  <2>1. item = "recordable" => g = <<"faculty", "teaches">>
    BY DEF Grounds, Permissions
  <2>2. Holds("teaches", h) <=> h.taught = "running"
    BY HoldsByName
  <2> QED
    BY <2>1, <2>2, <1>2 DEF Teaches
<1>4. item \in {"managed", "claimed", "othersRequest"} => Administers(StandingOf(h))
  <2>1. item \in {"managed", "claimed", "othersRequest"} => Grounds(item) = ByAdministrator
    BY GroundsByName
  <2>2. \A x \in ByAdministrator : x = <<"school_administrator", "nothingMore">>
    BY DEF ByAdministrator
  <2> QED
    BY <2>1, <2>2, <1>2 DEF Administers
<1>5. item \in {"publishable", "correctable"} => Administers(StandingOf(h)) \/ Teaches(StandingOf(h), h)
  <2>0. item \in {"publishable", "correctable"} =>
          Grounds(item) = ByAdministrator \cup {<<"faculty", "teaches">>}
    BY GroundsByName
  <2>1. item \in {"publishable", "correctable"} =>
          g = <<"school_administrator", "nothingMore">> \/ g = <<"faculty", "teaches">>
    BY <2>0 DEF ByAdministrator
  <2>2. Holds("teaches", h) <=> h.taught = "running"
    BY HoldsByName
  <2> QED
    BY <2>1, <2>2, <1>2 DEF Administers, Teaches
<1>6. item = "ownRequest" => h.raised
  <2>1. item = "ownRequest" => g[2] = "raised"
    BY DEF Grounds, Permissions, AnyRole
  <2>2. Holds("raised", h) = h.raised
    BY HoldsByName
  <2> QED
    BY <2>1, <2>2, <1>2
<1>7. /\ item \in {"roster", "classMarks"} => Administers(StandingOf(h)) \/ Ever(h.taught)
      /\ item = "taughtOffering" => Ever(h.taught)
  <2>0. item \in {"roster", "classMarks"} => Grounds(item) = ByAdministrator \cup AnyRole("taught")
    BY GroundsByName
  <2>1. item \in {"roster", "classMarks"} =>
          g = <<"school_administrator", "nothingMore">> \/ g[2] = "taught"
    BY <2>0 DEF ByAdministrator, AnyRole
  <2>2. item = "taughtOffering" => g[2] = "taught"
    BY DEF Grounds, Permissions, AnyRole
  <2>3. Holds("taught", h) = Ever(h.taught)
    BY HoldsByName
  <2> QED
    BY <2>1, <2>2, <2>3, <1>2 DEF Administers
<1>8. item = "ownRosterMembership" => Ever(h.rostered)
  <2>1. item = "ownRosterMembership" => g[2] = "rostered"
    BY DEF Grounds, Permissions, AnyRole
  <2>2. Holds("rostered", h) = Ever(h.rostered)
    BY HoldsByName
  <2> QED
    BY <2>1, <2>2, <1>2
<1>9. ASSUME item \in Permissions
      PROVE  StandingOf(h).link # None /\ item \in StandingOf(h).link
  <2>1. g = <<"guardian", item>>
    BY <1>9 DEF Grounds, Permissions
  <2>2. "guardian" \in InForce(h) /\ Holds(item, h)
    BY <2>1, <1>2, StandingStands
  <2> QED
    BY <2>2, <1>9, HoldsByName, StandingStands
<1> QED
  BY <1>3, <1>4, <1>5, <1>6, <1>7, <1>8, <1>9, StandingStands DEF MayPublish, MayRaise, ReadsClassRecords, ReadsRoster

(* A School Administrator is served all but what is a Student's own. *)
LEMMA AdministratorsAreServed ==
  ASSUME NEW h \in Holdings, Administers(StandingOf(h)),
         NEW e \in Managed \cup {"account", "persons", "classOffering", "classOfferingAttendance", "attendanceSession",
                                 "classOfferingResults", "publishTermResults", "raiseCorrectionRequest",
                                 "correctionRequests", "studentTermReport", "resultValueScale"}
  PROVE  Served(e, StandingOf(h), h) # {}
<1>1. StandingOf(h).roles # {}
  BY DEF Administers
<1>2. CASE e \in Managed
  BY <1>1, <1>2, ManagedApart DEF Served, If
<1>3. CASE e \in {"account", "persons"}
  BY <1>1, <1>3, ManagedApart DEF Served, If, OwnAccount, PersonsServed
<1>4. CASE e \in {"classOffering", "classOfferingAttendance", "attendanceSession", "classOfferingResults"}
  BY <1>1, <1>4, ManagedApart DEF Served, If, ReadsClassOffering, ReadsClassRecords, ClassOfferingServed,
    OfferingMarks, SessionServed, ResultsServed
<1>5. CASE e \in {"publishTermResults", "raiseCorrectionRequest", "resultValueScale"}
  BY <1>1, <1>5, ManagedApart DEF Served, If, ReadsClassRecords, MayPublish, MayRaise, ReadsResultValueScale
<1>6. CASE e = "correctionRequests"
  BY <1>1, <1>6, ManagedApart DEF Served, If, RequestsServed, ReadsCorrectionRequests
<1>7. CASE e = "studentTermReport"
  BY <1>1, <1>7, ManagedApart DEF Served, If, TermReportServed, TermReportParts, Permissions
<1> QED
  BY <1>2, <1>3, <1>4, <1>5, <1>6, <1>7

(* The navigation mirrors the decisions: what it shows opens, and what it  *)
(* leaves out does not, a Student's own records apart.                     *)
LEMMA Mirrors ==
  ASSUME NEW h \in Holdings, InForce(h) # {}, NEW page \in Sections
  PROVE  /\ page \in SectionsFor(FactsOf(h)) =>
              \A e \in SchoolScreen(page, FactsOf(h), {}).reads : Served(e, StandingOf(h), h) # {}
         /\ page \notin SectionsFor(FactsOf(h)) \cup OwnRecords =>
              \E e \in SchoolScreen(page, FactsOf(h), {}).reads : Served(e, StandingOf(h), h) = {}
<1> DEFINE s == StandingOf(h)
           f == FactsOf(h)
<1>1. /\ s.roles = InForce(h) /\ s.taught = Ever(h.taught)
      /\ f.roles = InForce(h) /\ f.taught = Ever(h.taught)
      /\ s.roles # {} /\ s.roles \subseteq Roles
  BY StandingStands DEF InForce
<1>2. Administers(f) <=> Administers(s)
  BY <1>1 DEF Administers
<1> HIDE DEF s, f
<1>3. ASSUME page \in {"invitations", "memberships", "enrollments", "guardianLinks", "auditRecords",
                       "academicYears", "courses", "classOfferings", "settings"}
      PROVE  /\ page \in SectionsFor(f) <=> Administers(s)
             /\ SchoolScreen(page, f, {}).reads \subseteq Managed \cup {"persons", "resultValueScale"}
             /\ SchoolScreen(page, f, {}).reads \cap Managed # {}
  <2>1. page \in SectionsFor(f) <=> Administers(s)
    BY <1>3, <1>1 DEF SectionsFor, ReachedBy, Sections, AdministratorSections, ReachedByTaught, Administers
  <2>2. CASE page \in {"invitations", "memberships", "enrollments"}
    BY <2>1, <2>2 DEF SchoolScreen, InvitationsScreen, MembershipsScreen, EnrollmentsScreen, Managed,
      ManagedPersons, ManagedRelationships, ManagedSchool
  <2>3. CASE page \in {"guardianLinks", "auditRecords", "settings"}
    BY <2>1, <2>3 DEF SchoolScreen, GuardianLinksScreen, AuditScreen, SettingsScreen, Managed,
      ManagedRelationships, ManagedSchool
  <2>4. CASE page \in {"academicYears", "courses", "classOfferings"}
    BY <2>1, <2>4 DEF SchoolScreen, YearsScreen, CoursesScreen, OfferingsScreen, Managed,
      ManagedYears, ManagedCourses
  <2> QED
    BY <1>3, <2>2, <2>3, <2>4
<1>4. ASSUME NEW e \in Managed, ~Administers(s)
      PROVE  Served(e, s, h) = {}
  BY <1>4, ManagedApart DEF Served, If
<1>5. CASE page \in AdministratorSections
  <2>1. Administers(s) => \A e \in Managed \cup {"persons", "resultValueScale"} : Served(e, s, h) # {}
    BY AdministratorsAreServed DEF s
  <2> QED
    BY <1>3, <1>4, <1>5, <2>1 DEF AdministratorSections, s, f
<1>6. CASE page = "account"
  <2>1. page \in SectionsFor(f)
    BY <1>6, <1>1 DEF SectionsFor, ReachedBy, Sections, AdministratorSections
  <2>2. SchoolScreen(page, f, {}).reads = {"account"}
    BY <1>6 DEF SchoolScreen, AccountScreen, If
  <2>3. Served("account", s, h) # {}
    BY <1>1, ManagedApart DEF Served, If, OwnAccount
  <2> QED
    BY <2>1, <2>2, <2>3 DEF s, f
<1>7. CASE page = "persons"
  <2>1. page \in SectionsFor(f)
    BY <1>7, <1>1 DEF SectionsFor, ReachedBy, Sections, AdministratorSections
  <2>2. SchoolScreen(page, f, {}).reads = {"persons"}
    BY <1>7 DEF SchoolScreen, PersonsScreen
  <2>3. Served("persons", s, h) # {}
    BY <1>1, ManagedApart DEF Served, If, PersonsServed
  <2> QED
    BY <2>1, <2>2, <2>3 DEF s, f
<1>8. CASE page = "classes"
  <2>1. page \in SectionsFor(f) <=> TeachesBy(f) \/ "student" \in f.roles
    BY <1>8 DEF SectionsFor, ReachedBy, Sections, AdministratorSections, ReachedByTaught, TeachesBy
  <2>2. SchoolScreen(page, f, {}).reads =
          If(TeachesBy(f) \/ "student" \notin f.roles, {"ownClassOfferings"})
          \cup If("student" \in f.roles, {"ownRosterMemberships"})
    BY <1>8 DEF SchoolScreen, YourClasses
  <2>3. Served("ownClassOfferings", s, h) # {} <=> TeachesBy(f)
    BY <1>1, ManagedApart DEF Served, If, ReadsOwnClassOfferings, OwnClassOfferings, TeachesBy
  <2>4. Served("ownRosterMemberships", s, h) # {} <=> "student" \in f.roles
    BY <1>1, ManagedApart DEF Served, If, ReadsOwnRosterMemberships, OwnRosterMemberships
  <2>5. page \in SectionsFor(f) => \A e \in SchoolScreen(page, f, {}).reads : Served(e, s, h) # {}
    BY <2>1, <2>2, <2>3, <2>4 DEF If
  <2>6. page \notin SectionsFor(f) => \E e \in SchoolScreen(page, f, {}).reads : Served(e, s, h) = {}
    BY <2>1, <2>2, <2>3 DEF If
  <2> QED
    BY <2>5, <2>6 DEF s, f
<1>9. CASE page = "yourAttendance"
  <2>1. SchoolScreen(page, f, {}).reads = {"ownAttendance"}
    BY <1>9 DEF SchoolScreen, YourAttendance
  <2>2. Served("ownAttendance", s, h) # {}
    BY <1>1, ManagedApart DEF Served, If, OwnMarks
  <2> QED
    BY <1>9, <2>1, <2>2 DEF s, f, OwnRecords
<1>10. CASE page = "yourTermReport"
  <2>1. SchoolScreen(page, f, {}).reads = {"ownTermReport"}
    BY <1>10 DEF SchoolScreen, TermReportScreen
  <2>2. Served("ownTermReport", s, h) # {}
    BY <1>1, ManagedApart DEF Served, If
  <2> QED
    BY <1>10, <2>1, <2>2 DEF s, f, OwnRecords
<1>11. CASE page = "correctionRequests"
  <2>1. page \in SectionsFor(f) <=> Administers(f) \/ TeachesBy(f)
    BY <1>11 DEF SectionsFor, ReachedBy, Sections, AdministratorSections, ReachedByTaught, TeachesBy, Administers
  <2>2. SchoolScreen(page, f, {}).reads = {"correctionRequests"}
    BY <1>11 DEF SchoolScreen, RequestsScreen
  <2>3. Served("correctionRequests", s, h) = RequestsServed(s, h)
    BY <1>1, ManagedApart DEF Served, If
  <2>4. ReadsCorrectionRequests(s) # {} <=> Administers(f) \/ TeachesBy(f)
    BY <1>1 DEF ReadsCorrectionRequests, TeachesBy, Administers
  <2>5. RequestsServed(s, h) # {} <=> ReadsCorrectionRequests(s) # {}
    BY DEF RequestsServed, If
  <2> QED
    BY <2>1, <2>2, <2>3, <2>4, <2>5 DEF s, f
<1> QED
  BY <1>5, <1>6, <1>7, <1>8, <1>9, <1>10, <1>11 DEF Sections

-----------------------------------------------------------------------------
(* A screen that has been told and served what is true of the Person.      *)
Would(h, e) == Served(e, StandingOf(h), h)
OpensTo(h, page) == \A e \in SchoolScreen(page, FactsOf(h), {}).reads : Would(h, e) # {}
Got(h, answered) == UNION {Would(h, e) : e \in answered}

Truthful(h, page, answered) ==
  /\ h \in Holdings /\ InForce(h) # {} /\ page \in Pages /\ answered \subseteq Endpoints
  /\ \A e \in answered : Would(h, e) # {} \/ Alone(page, e)

(* What the items on it tell. *)
LEMMA GotTells ==
  ASSUME NEW h \in Holdings, NEW answered \in SUBSET Endpoints
  PROVE  /\ "recordable" \in Got(h, answered) => Teaches(StandingOf(h), h)
         /\ Got(h, answered) \cap {"publishable", "correctable"} # {} =>
              MayPublish(StandingOf(h), h) /\ MayRaise(StandingOf(h), h)
         /\ "ownRequest" \in Got(h, answered) => h.raised
         /\ Got(h, answered) \cap {"claimed", "othersRequest"} # {} => Administers(StandingOf(h))
         /\ Got(h, answered) \cap {"roster", "classMarks"} # {} =>
              ReadsClassRecords(StandingOf(h)) /\ ReadsRoster(StandingOf(h))
         /\ "taughtOffering" \in Got(h, answered) => StandingOf(h).taught
         /\ "ownRosterMembership" \in Got(h, answered) => Ever(h.rostered)
         /\ Got(h, answered) \cap Permissions # {} => TermReportParts(StandingOf(h)) # {}
<1>1. ASSUME NEW item \in Got(h, answered)
      PROVE  \E e \in Endpoints : item \in Served(e, StandingOf(h), h)
  BY DEF Got, Would
<1>2. /\ "recordable" \in Got(h, answered) => Teaches(StandingOf(h), h)
      /\ "ownRequest" \in Got(h, answered) => h.raised
      /\ "taughtOffering" \in Got(h, answered) => StandingOf(h).taught
      /\ "ownRosterMembership" \in Got(h, answered) => Ever(h.rostered)
  BY <1>1, ItemsTell
<1>3. Got(h, answered) \cap {"publishable", "correctable"} # {} =>
        MayPublish(StandingOf(h), h) /\ MayRaise(StandingOf(h), h)
  BY <1>1, ItemsTell
<1>4. Got(h, answered) \cap {"claimed", "othersRequest"} # {} => Administers(StandingOf(h))
  BY <1>1, ItemsTell
<1>5. Got(h, answered) \cap {"roster", "classMarks"} # {} =>
        ReadsClassRecords(StandingOf(h)) /\ ReadsRoster(StandingOf(h))
  BY <1>1, ItemsTell
<1>6. ASSUME NEW item \in Got(h, answered) \cap Permissions
      PROVE  TermReportParts(StandingOf(h)) # {}
  <2>1. StandingOf(h).link # None /\ item \in StandingOf(h).link
    BY <1>1, ItemsTell
  <2> QED
    BY <2>1 DEF TermReportParts, Permissions
<1> QED
  BY <1>2, <1>3, <1>4, <1>5, <1>6

(* Once it has been served all it asks for, every change such a screen     *)
(* offers is one the server would make.                                    *)
LEMMA OffersWouldStand ==
  ASSUME NEW h, NEW page, NEW answered, Truthful(h, page, answered),
         SchoolScreen(page, FactsOf(h), Got(h, answered)).reads \subseteq answered,
         NEW e \in SchoolScreen(page, FactsOf(h), Got(h, answered)).offers
  PROVE  Would(h, e) # {}
<1> DEFINE s == StandingOf(h)
           f == FactsOf(h)
           got == Got(h, answered)
<1>1. /\ h \in Holdings /\ answered \in SUBSET Endpoints /\ s.roles = InForce(h) /\ s.roles # {}
      /\ s.taught = Ever(h.taught) /\ f.roles = InForce(h)
      /\ Administers(f) <=> Administers(s)
  BY StandingStands DEF Truthful, Administers
<1>2. Administers(s) /\ e \in Managed => Would(h, e) # {}
  BY <1>1, AdministratorsAreServed DEF Would
<1>3. ASSUME NEW a \in Managed, a \in answered, page # "account"
      PROVE  Administers(s)
  <2>1. Served(a, s, h) # {}
    BY <1>3 DEF Truthful, Would, Alone
  <2> QED
    BY <2>1, ManagedApart DEF Served, If
<1>4. Teaches(s, h) \/ Administers(s) =>
        /\ ReadsClassRecords(s) /\ MayPublish(s, h) /\ MayRaise(s, h)
  BY <1>1 DEF Teaches, ReadsClassRecords, MayPublish, MayRaise, Ever
<1>5. /\ "recordable" \in got => Teaches(s, h)
      /\ got \cap {"publishable", "correctable"} # {} => MayPublish(s, h) /\ MayRaise(s, h)
      /\ "ownRequest" \in got => h.raised
  BY <1>1, GotTells
<1>6. /\ Teaches(s, h) => \A c \in {"openAttendanceSession", "saveAttendance", "saveTermResults"} : Would(h, c) # {}
      /\ MayPublish(s, h) => Would(h, "publishTermResults") # {}
      /\ MayRaise(s, h) => Would(h, "raiseCorrectionRequest") # {}
      /\ h.raised => Would(h, "withdrawCorrectionRequest") # {}
  <2>1. Teaches(s, h) => \A c \in {"openAttendanceSession", "saveAttendance", "saveTermResults"} : Would(h, c) # {}
    BY <1>1, <1>4, ManagedApart DEF Would, Served, If, MayRecord
  <2>2. MayPublish(s, h) => Would(h, "publishTermResults") # {}
    BY <1>1, <1>4, ManagedApart DEF Would, Served, If, MayPublish
  <2>3. MayRaise(s, h) => Would(h, "raiseCorrectionRequest") # {}
    BY <1>1, <1>4, ManagedApart DEF Would, Served, If, MayRaise
  <2>4. h.raised => Would(h, "withdrawCorrectionRequest") # {}
    BY <1>1, ManagedApart DEF Would, Served, If, Withdraws
  <2> QED
    BY <2>1, <2>2, <2>3, <2>4
<1> HIDE DEF s, f, got
<1>7. SchoolScreen(page, f, got).reads \subseteq answered /\ e \in SchoolScreen(page, f, got).offers
  BY DEF f, got
<1>8. CASE page \in {"account", "classes", "yourAttendance", "yourTermReport", "termReport", "auditRecords"}
  BY <1>7, <1>8 DEF SchoolScreen, AccountScreen, YourClasses, YourAttendance, TermReportScreen, AuditScreen
<1>9. CASE page = "persons"
  <2>1. e \in {"createPerson", "issueInvitation"} /\ Administers(f)
    BY <1>7, <1>9 DEF SchoolScreen, PersonsScreen, If
  <2> QED
    BY <2>1, <1>1, <1>2 DEF Managed, ManagedPersons
<1>10. CASE page \in {"invitations", "memberships", "enrollments", "guardianLinks"}
  <2>1. e \in Managed /\ SchoolScreen(page, f, got).reads \cap Managed # {}
    BY <1>7, <1>10 DEF SchoolScreen, InvitationsScreen, MembershipsScreen, EnrollmentsScreen,
      GuardianLinksScreen, EnrollAndEnd, PermitAndEnd, NarrowAndRevoke, Managed, ManagedPersons,
      ManagedRelationships, ManagedSchool
  <2> QED
    BY <2>1, <1>2, <1>3, <1>7, <1>10
<1>11. CASE page \in {"academicYears", "courses", "classOfferings", "settings"}
  <2>1. e \in Managed /\ SchoolScreen(page, f, got).reads \cap Managed # {}
    BY <1>7, <1>11 DEF SchoolScreen, YearsScreen, CoursesScreen, OfferingsScreen, SettingsScreen, YearEditor,
      WeekdayPattern, MonthCalendar, CourseEditor, OfferCourse, SettingsSheet, ScaleEditor, Managed,
      ManagedYears, ManagedCourses, ManagedSchool
  <2> QED
    BY <2>1, <1>2, <1>3, <1>7, <1>11
<1>12. CASE page = "classOffering"
  <2>1. e \in TeachingOffered \cup RosterOffered \cup OfferingOffered /\ Administers(f)
    BY <1>7, <1>12 DEF SchoolScreen, OfferingScreen, If
  <2> QED
    BY <2>1, <1>1, <1>2 DEF TeachingOffered, RosterOffered, OfferingOffered, Managed, ManagedParticipation,
      ManagedCourses
<1>13. CASE page \in {"attendance", "attendanceOn"}
  <2>1. \/ "recordable" \in got /\ e \in {"openAttendanceSession", "saveAttendance"}
        \/ (Administers(f) \/ "recordable" \in got) /\ e = "raiseCorrectionRequest"
    BY <1>7, <1>13 DEF SchoolScreen, SessionScreen, Recording, Requesting, If
  <2> QED
    BY <2>1, <1>1, <1>4, <1>5, <1>6
<1>14. CASE page = "termResults"
  <2>1. \/ "recordable" \in got /\ e = "saveTermResults"
        \/ "publishable" \in got /\ e = "publishTermResults"
        \/ "correctable" \in got /\ e = "raiseCorrectionRequest"
    BY <1>7, <1>14 DEF SchoolScreen, ResultsScreen, If
  <2> QED
    BY <2>1, <1>5, <1>6
<1>15. CASE page = "correctionRequests"
  <2>1. \/ Administers(f) /\ e = "decideCorrectionRequest"
        \/ "ownRequest" \in got /\ e = "withdrawCorrectionRequest"
    BY <1>7, <1>15 DEF SchoolScreen, RequestsScreen, Decide, If
  <2> QED
    BY <2>1, <1>1, <1>2, <1>5, <1>6 DEF Managed
<1> QED
  BY <1>8, <1>9, <1>10, <1>11, <1>12, <1>13, <1>14, <1>15
  DEF Truthful, Pages, Sections, AdministratorSections

(* The pages beside the sections open to those the decisions let read them. *)
LEMMA PagesOpen ==
  ASSUME NEW h \in Holdings, InForce(h) # {}
  PROVE  /\ \A page \in SectionsFor(FactsOf(h)) : OpensTo(h, page)
         /\ ReadsClassOffering(StandingOf(h)) => OpensTo(h, "classOffering")
         /\ ReadsClassRecords(StandingOf(h)) =>
              /\ ReadsClassOffering(StandingOf(h))
              /\ \A page \in {"attendance", "attendanceOn", "termResults"} : OpensTo(h, page)
         /\ TermReportParts(StandingOf(h)) # {} => OpensTo(h, "termReport")
<1> DEFINE s == StandingOf(h)
           f == FactsOf(h)
<1>1. s.roles # {} /\ (Administers(f) <=> Administers(s))
  BY StandingStands DEF Administers
<1>2. \A page \in SectionsFor(f) : OpensTo(h, page)
  BY Mirrors DEF OpensTo, Would, SectionsFor
<1>3. ReadsClassRecords(s) => ReadsClassOffering(s)
  BY DEF ReadsClassRecords, ReadsClassOffering
<1>4. ReadsClassOffering(s) => Would(h, "classOffering") # {}
  BY <1>1, ManagedApart DEF Would, Served, If, ClassOfferingServed
<1>5. ReadsClassRecords(s) => Would(h, "attendanceSession") # {} /\ Would(h, "classOfferingResults") # {}
  BY <1>1, ManagedApart DEF Would, Served, If, SessionServed, ResultsServed
<1>6. TermReportParts(s) # {} => Would(h, "studentTermReport") # {}
  BY <1>1, ManagedApart DEF Would, Served, If, TermReportServed
<1>7. Administers(s) =>
        \A e \in {"classOfferingAttendance", "memberships", "persons", "enrollments"} : Would(h, e) # {}
  BY AdministratorsAreServed DEF Would, Managed, ManagedRelationships
<1> HIDE DEF s, f
<1>8. SchoolScreen("classOffering", f, {}).reads =
        {"classOffering"} \cup If(Administers(f), {"classOfferingAttendance"})
        \cup If(Administers(f), {"memberships", "persons", "enrollments"})
  BY DEF SchoolScreen, OfferingScreen, If
<1>9. ReadsClassOffering(s) => OpensTo(h, "classOffering")
  BY <1>1, <1>4, <1>7, <1>8 DEF OpensTo, If, f
<1>10. /\ \A page \in {"attendance", "attendanceOn"} :
            SchoolScreen(page, f, {}).reads = {"classOffering", "attendanceSession"}
       /\ SchoolScreen("termResults", f, {}).reads = {"classOffering", "classOfferingResults"}
       /\ SchoolScreen("termReport", f, {}).reads = {"studentTermReport"}
  BY DEF SchoolScreen, SessionScreen, ResultsScreen, TermReportScreen, If
<1>11. ReadsClassRecords(s) => \A page \in {"attendance", "attendanceOn", "termResults"} : OpensTo(h, page)
  BY <1>3, <1>4, <1>5, <1>10 DEF OpensTo, f
<1>12. TermReportParts(s) # {} => OpensTo(h, "termReport")
  BY <1>6, <1>10 DEF OpensTo, f
<1> QED
  BY <1>2, <1>3, <1>9, <1>11, <1>12 DEF s, f

(* Once such a screen has been served all it asks for, its links lead to   *)
(* pages that open, the two exceptions apart.                              *)
LEMMA LinksLead ==
  ASSUME NEW h, NEW page, NEW answered, Truthful(h, page, answered),
         SchoolScreen(page, FactsOf(h), Got(h, answered)).reads = answered,
         NEW to \in SchoolScreen(page, FactsOf(h), Got(h, answered)).links
  PROVE  /\ to \in Pages
         /\ \/ OpensTo(h, to)
            \/ page = "correctionRequests" /\ h.raised /\ ~ReadsClassRecords(StandingOf(h))
            \/ page = "yourAttendance" /\ "student" \notin InForce(h)
<1> DEFINE s == StandingOf(h)
           f == FactsOf(h)
           got == Got(h, answered)
<1>1. /\ h \in Holdings /\ InForce(h) # {} /\ InForce(h) \subseteq Roles /\ answered \in SUBSET Endpoints
      /\ s.roles = InForce(h) /\ s.roles # {} /\ s.taught = Ever(h.taught) /\ f.roles = InForce(h)
      /\ f.taught = Ever(h.taught) /\ (Administers(f) <=> Administers(s))
  BY StandingStands DEF Truthful, Administers, InForce
<1>2. s.rostered <=> "student" \in InForce(h) /\ Ever(h.rostered)
  BY <1>1, StandingStands
<1>3. /\ "recordable" \in got => Teaches(s, h)
      /\ got \cap {"claimed", "othersRequest"} # {} => Administers(s)
      /\ got \cap {"roster", "classMarks"} # {} => ReadsClassRecords(s)
      /\ "taughtOffering" \in got => s.taught
      /\ "ownRequest" \in got => h.raised
      /\ "ownRosterMembership" \in got => Ever(h.rostered)
      /\ got \cap Permissions # {} => TermReportParts(s) # {}
  BY <1>1, GotTells
<1>4. /\ \A p \in SectionsFor(f) : OpensTo(h, p)
      /\ ReadsClassOffering(s) => OpensTo(h, "classOffering")
      /\ ReadsClassRecords(s) =>
           /\ ReadsClassOffering(s)
           /\ \A p \in {"attendance", "attendanceOn", "termResults"} : OpensTo(h, p)
      /\ TermReportParts(s) # {} => OpensTo(h, "termReport")
  BY <1>1, PagesOpen
<1>5. Administers(s) =>
        /\ ReadsClassRecords(s) /\ TermReportParts(s) # {}
        /\ AdministratorSections \cup {"persons", "correctionRequests"} \subseteq SectionsFor(f)
  BY <1>1 DEF ReadsClassRecords, TermReportParts, Permissions, SectionsFor, Sections, ReachedBy,
    AdministratorSections, Administers, Roles
<1>6. /\ TeachesBy(f) \/ "student" \in f.roles => "classes" \in SectionsFor(f)
      /\ "persons" \in SectionsFor(f)
  BY <1>1 DEF SectionsFor, Sections, ReachedBy, AdministratorSections, ReachedByTaught, TeachesBy
<1>7. ASSUME NEW a \in Managed, a \in answered, page # "account"
      PROVE  Administers(s)
  <2>1. Served(a, s, h) # {}
    BY <1>7 DEF Truthful, Would, Alone
  <2> QED
    BY <2>1, ManagedApart DEF Served, If
<1> HIDE DEF s, f, got
<1>8. SchoolScreen(page, f, got).reads = answered /\ to \in SchoolScreen(page, f, got).links
  BY DEF f, got
<1>9. AdministratorSections \cup {"persons", "classes", "classOffering", "attendance", "attendanceOn",
        "termResults", "termReport"} \subseteq Pages
  BY DEF Pages, Sections
<1>10. CASE page = "account"
  <2>1. \/ to = "classes" /\ (TeachesBy(f) \/ "student" \in f.roles)
        \/ to = "termReport" /\ got \cap Permissions # {}
    BY <1>8, <1>10 DEF SchoolScreen, AccountScreen, If
  <2> QED
    BY <2>1, <1>3, <1>4, <1>6, <1>9
<1>11. CASE page = "classes"
  <2>1. to = "classOffering" /\ (Got(h, answered) \cap {"taughtOffering", "ownRosterMembership"} # {})
    BY <1>8, <1>11 DEF SchoolScreen, YourClasses, If, got
  <2>2. answered \subseteq {"ownClassOfferings", "ownRosterMemberships"}
    BY <1>8, <1>11 DEF SchoolScreen, YourClasses, If
  <2>3. "ownRosterMembership" \in got => "ownRosterMemberships" \in answered
    <3>1. "ownRosterMembership" \notin Would(h, "ownClassOfferings")
      BY ManagedApart DEF Would, Served, If, OwnClassOfferings
    <3> QED
      BY <2>2, <3>1 DEF got, Got
  <2>4. "ownRosterMemberships" \in answered => "student" \in s.roles
    <3>1. "ownRosterMemberships" \in answered => Served("ownRosterMemberships", s, h) # {}
      BY <1>11 DEF Truthful, Would, Alone, s
    <3>2. Served("ownRosterMemberships", s, h) # {} => "student" \in s.roles
      BY ManagedApart DEF Served, If, ReadsOwnRosterMemberships
    <3> QED
      BY <3>1, <3>2
  <2>5. s.taught \/ s.rostered
    BY <2>1, <2>3, <2>4, <1>1, <1>2, <1>3 DEF got
  <2> QED
    BY <2>1, <2>5, <1>4, <1>9 DEF ReadsClassOffering
<1>12. CASE page = "yourAttendance"
  <2>1. to = "classOffering" /\ "ownRosterMembership" \in got
    BY <1>8, <1>12 DEF SchoolScreen, YourAttendance, If
  <2>2. "student" \in InForce(h) => s.rostered
    BY <2>1, <1>2, <1>3
  <2> QED
    BY <2>1, <2>2, <1>4, <1>9, <1>12 DEF ReadsClassOffering
<1>13. CASE page \in {"yourTermReport", "termReport", "persons", "memberships", "auditRecords"}
  BY <1>8, <1>13 DEF SchoolScreen, TermReportScreen, PersonsScreen, MembershipsScreen, AuditScreen
<1>14. CASE page = "invitations"
  <2>1. to = "persons"
    BY <1>8, <1>14 DEF SchoolScreen, InvitationsScreen
  <2> QED
    BY <2>1, <1>4, <1>6, <1>9
<1>15. CASE page \in {"enrollments", "guardianLinks", "academicYears", "courses", "classOfferings", "settings"}
  <2>1. /\ SchoolScreen(page, f, got).reads \cap Managed # {}
        /\ to \in AdministratorSections \cup {"termReport", "classOffering"}
    BY <1>8, <1>15 DEF SchoolScreen, EnrollmentsScreen, GuardianLinksScreen, YearsScreen, CoursesScreen,
      OfferingsScreen, SettingsScreen, AdministratorSections, Managed, ManagedRelationships, ManagedYears,
      ManagedCourses, ManagedSchool
  <2>2. Administers(s)
    BY <2>1, <1>7, <1>8, <1>15
  <2> QED
    BY <2>1, <2>2, <1>4, <1>5, <1>9
<1>16. CASE page = "classOffering"
  <2>1. ReadsClassOffering(s)
    <3>1. "classOffering" \in answered
      BY <1>8, <1>16 DEF SchoolScreen, OfferingScreen
    <3>2. Served("classOffering", s, h) # {}
      BY <3>1, <1>16 DEF Truthful, Would, Alone, s
    <3> QED
      BY <3>2, ManagedApart DEF Served, If
  <2>2. \/ Administers(f) /\ to \in {"classOfferings", "memberships", "enrollments"}
        \/ ~Administers(f) /\ to = "classes"
        \/ "classMarks" \in got /\ to \in {"termResults", "attendance", "attendanceOn"}
    BY <1>8, <1>16 DEF SchoolScreen, OfferingScreen, If
  <2>3. ~Administers(f) => TeachesBy(f) \/ "student" \in f.roles
    BY <2>1, <1>1, <1>2 DEF ReadsClassOffering, TeachesBy
  <2>4. {"classOfferings", "memberships", "enrollments"} \subseteq AdministratorSections
    BY DEF AdministratorSections
  <2> QED
    BY <2>2, <2>3, <2>4, <1>1, <1>3, <1>4, <1>5, <1>6, <1>9
<1>17. CASE page \in {"attendance", "attendanceOn", "termResults"}
  <2>1. /\ to \in {"classOffering", "attendanceOn"} /\ (page = "termResults" => to = "classOffering")
        /\ answered \cap {"attendanceSession", "classOfferingResults"} # {}
    BY <1>8, <1>17 DEF SchoolScreen, SessionScreen, ResultsScreen
  <2>2. PICK a \in {"attendanceSession", "classOfferingResults"} : a \in answered
    BY <2>1
  <2>3. Served(a, s, h) # {}
    BY <2>2, <1>17 DEF Truthful, Would, Alone, s
  <2>4. ReadsClassRecords(s)
    BY <2>2, <2>3, ManagedApart DEF Served, If
  <2> QED
    BY <2>1, <2>4, <1>4, <1>9
<1>18. CASE page = "correctionRequests"
  <2>1. to \in {"attendanceOn", "termResults"} /\ got \cap {"ownRequest", "othersRequest"} # {}
    BY <1>8, <1>18 DEF SchoolScreen, RequestsScreen, If
  <2>2. h.raised \/ Administers(s)
    BY <2>1, <1>3
  <2> QED
    BY <2>1, <2>2, <1>4, <1>5, <1>9, <1>18 DEF s
<1> QED
  BY <1>10, <1>11, <1>12, <1>13, <1>14, <1>15, <1>16, <1>17, <1>18
  DEF Truthful, Pages, Sections, AdministratorSections, s

(* What a page that opens asks for later it is served as well, but for     *)
(* what is left out alone.                                                 *)
LEMMA LaterReadsServed ==
  ASSUME NEW h \in Holdings, NEW page \in Pages, NEW answered \in SUBSET Endpoints, InForce(h) # {},
         OpensTo(h, page), NEW e \in SchoolScreen(page, FactsOf(h), Got(h, answered)).reads
  PROVE  Would(h, e) # {} \/ Alone(page, e)
<1> DEFINE s == StandingOf(h)
           f == FactsOf(h)
           got == Got(h, answered)
<1>1. /\ "recordable" \in got => Teaches(s, h)
      /\ "roster" \in got => ReadsClassRecords(s)
      /\ s.roles # {} /\ s.taught = Ever(h.taught)
  BY GotTells, StandingStands
<1>2. SchoolScreen(page, f, {}).reads \subseteq {a \in Endpoints : Would(h, a) # {}}
  BY ReadsAre DEF OpensTo
<1> HIDE DEF s, f, got
<1>3. e \in SchoolScreen(page, f, got).reads
  BY DEF f, got
<1>4. CASE e \in SchoolScreen(page, f, {}).reads
  BY <1>2, <1>4
<1>5. CASE e \notin SchoolScreen(page, f, {}).reads
  <2>1. page \notin Steadfast
    BY <1>3, <1>5, SteadfastReads
  <2>2. page # "classes"
    BY <1>3, <1>5 DEF SchoolScreen, YourClasses
  <2>3. CASE page = "account"
    <3>1. e = "studentAttendance"
      BY <1>3, <1>5, <2>3 DEF SchoolScreen, AccountScreen, If
    <3> QED
      BY <3>1, <2>3 DEF Alone
  <2>4. CASE page = "classOffering"
    <3>1. e = "classOfferingAttendance" /\ "roster" \in got
      BY <1>3, <1>5, <2>4 DEF SchoolScreen, OfferingScreen, If
    <3>2. Would(h, "classOfferingAttendance") = OfferingMarks
      BY <3>1, <1>1, ManagedApart DEF Would, Served, If, s
    <3> QED
      BY <3>1, <3>2 DEF OfferingMarks
  <2>5. CASE page \in {"attendance", "attendanceOn"}
    <3>1. e = "openAttendanceSession" /\ "recordable" \in got
      BY <1>3, <1>5, <2>5 DEF SchoolScreen, SessionScreen, If
    <3>2. ReadsClassRecords(s) /\ MayRecord(s, h)
      BY <3>1, <1>1 DEF Teaches, ReadsClassRecords, MayRecord, Ever
    <3> QED
      BY <3>1, <3>2, <1>1, ManagedApart DEF Would, Served, If, s
  <2> QED
    BY <2>1, <2>2, <2>3, <2>4, <2>5 DEF Steadfast
<1> QED
  BY <1>4, <1>5

-----------------------------------------------------------------------------
(* The inductive invariant.  Before anything has happened it holds. *)
LEMMA InitIInv == Init => IInv
<1> SUFFICES ASSUME Init PROVE IInv
  OBVIOUS
<1>1. None # Asked
  BY NoneIsNothing
<1>2. PICK start \in Starts : held = start[1] /\ left = start[2]
  BY DEF Init
<1>3. held \in Holdings /\ left \in Nat
  BY <1>2, AccessAssumption
<1>4. PICK page \in Opened : screen = Blank(page, "address")
  BY DEF Init
<1>5. page \in Pages \cup {"schools"}
  BY OpenedAssumption
<1>6. screen \in Screens /\ screen.shown = "loading" /\ screen.got = {} /\ screen.answered = {}
      /\ screen.led = "address"
  BY <1>4, <1>5 DEF Blank, Screens
<1>7. AllTyped
  BY <1>3, <1>6 DEF Init, AllTyped
<1>8. RequestSound /\ GroundsWereHeld
  BY DEF Init, RequestSound, GroundsWereHeld
<1>9. ScreenSound
  BY <1>6 DEF Init, ScreenSound, Reached
<1>10. SteadySound
  BY <1>1, <1>6 DEF Init, SteadySound
<1>11. LedSound /\ NeverLedIntoARefusal
  BY <1>6 DEF LedSound, NeverLedIntoARefusal
<1> QED
  BY <1>7, <1>8, <1>9, <1>10, <1>11 DEF IInv

(* A change is known to the requests under way, and unsettles the rest. *)
LEMMA BecomesKeepsIInv ==
  ASSUME IInv, NEW h \in Holdings, Becomes(h)
  PROVE  IInv'
<1> USE DEF Becomes
<1>1. AllTyped'
  <2>1. request' \in {None} \cup RequestsMade
    BY DEF IInv, AllTyped, RequestsMade
  <2>2. left' \in Nat
    BY DEF IInv, AllTyped
  <2> QED
    BY <2>1, <2>2 DEF IInv, AllTyped
<1>2. CASE request = None \/ request.stage = "answered"
  <2>1. request' = request
    BY <1>2
  <2>2. RequestSound'
    BY <1>2, <2>1 DEF RequestSound
  <2>3. GroundsWereHeld'
    BY <2>1 DEF IInv, GroundsWereHeld
  <2> QED
    BY <2>2, <2>3, <1>1 DEF IInv, ScreenSound, SteadySound, LedSound, NeverLedIntoARefusal, Reached, Shown
<1>3. CASE ~(request = None \/ request.stage = "answered")
  <2>1. /\ request \in RequestsMade /\ request' = [request EXCEPT !.seen = @ \cup {h}]
        /\ request.stage # "answered" /\ request # None
    BY <1>3 DEF IInv, AllTyped
  <2>2. /\ request'.stage = request.stage /\ request'.asks = request.asks
        /\ request'.standing = request.standing /\ request'.items = request.items
        /\ request'.seen = request.seen \cup {h} /\ request' # None
    BY <2>1, NoneIsNothing DEF RequestsMade
  <2>3. Founded(request.standing, request.seen) => Founded(request.standing, request'.seen)
    BY <2>2 DEF Founded
  <2>4. RequestSound'
    BY <2>1, <2>2, <2>3 DEF IInv, RequestSound, Reached, Shown
  <2>5. GroundsWereHeld'
    BY <2>1, <2>2 DEF IInv, RequestSound, GroundsWereHeld
  <2> QED
    BY <2>4, <2>5, <1>1 DEF IInv, ScreenSound, SteadySound, LedSound, NeverLedIntoARefusal, Reached, Shown
<1> QED
  BY <1>2, <1>3

(* What School Administrators and time make of a Person is still a Person  *)
(* the School may hold: no change leaves a Teaching assignment without its *)
(* Faculty membership, nor a Roster membership without its Enrollment.     *)
LEMMA ChangeKeepsIInv ==
  ASSUME IInv, Change
  PROVE  IInv'
<1>1. held \in Holdings /\ held.roles \in [Roles -> {"none", "coming", "held"}]
  BY DEF IInv, AllTyped, Holdings
<1>2. ASSUME NEW r \in Roles, NEW to \in {"coming", "held"}, GrantRole(r, to)
      PROVE  IInv'
  <2>1. [held EXCEPT !.roles[r] = to] \in Holdings
    BY <1>1, <1>2 DEF GrantRole, Holdings, Roles
  <2> QED
    BY <2>1, <1>2, BecomesKeepsIInv DEF GrantRole
<1>3. ASSUME NEW r \in Roles, RoleBegins(r)
      PROVE  IInv'
  <2>1. [held EXCEPT !.roles[r] = "held"] \in Holdings
    BY <1>1, <1>3 DEF RoleBegins, Holdings, Roles
  <2> QED
    BY <2>1, <1>3, BecomesKeepsIInv DEF RoleBegins
<1>4. ASSUME NEW r \in Roles, RoleEnds(r)
      PROVE  IInv'
  <2>1. [held EXCEPT !.roles[r] = "none", !.taught = IF r = "faculty" THEN Ended(@) ELSE @] \in Holdings
    BY <1>1, <1>4, ZenonT(60) DEF RoleEnds, Holdings, Roles, Ended, Spans
  <2> QED
    BY <2>1, <1>4, BecomesKeepsIInv DEF RoleEnds
<1>5. ASSUME NEW p \in Profiles, LinkStudent(p) \/ SetProfile(p)
      PROVE  IInv'
  <2>1. [held EXCEPT !.link = p] \in Holdings
    BY <1>1, <1>5 DEF Holdings
  <2> QED
    BY <2>1, <1>5, BecomesKeepsIInv DEF LinkStudent, SetProfile
<1>6. CASE EndLink
  <2>1. [held EXCEPT !.link = None] \in Holdings
    BY <1>1 DEF Holdings
  <2> QED
    BY <2>1, <1>6, BecomesKeepsIInv DEF EndLink
<1>7. CASE Enroll
  <2>1. [held EXCEPT !.enrolled = TRUE] \in Holdings
    BY <1>1 DEF Holdings
  <2> QED
    BY <2>1, <1>7, BecomesKeepsIInv DEF Enroll
<1>8. CASE EndEnrollment
  <2>1. [held EXCEPT !.enrolled = FALSE, !.rostered = Ended(@)] \in Holdings
    BY <1>1 DEF Holdings, Ended, Spans
  <2> QED
    BY <2>1, <1>8, BecomesKeepsIInv DEF EndEnrollment
<1>9. ASSUME NEW span \in {"coming", "running"}, AssignTeaching(span)
      PROVE  IInv'
  <2>1. [held EXCEPT !.taught = span] \in Holdings
    BY <1>1, <1>9 DEF AssignTeaching, Holdings, Spans
  <2> QED
    BY <2>1, <1>9, BecomesKeepsIInv DEF AssignTeaching
<1>10. ASSUME NEW span \in {"coming", "running"}, RosterStudent(span)
       PROVE  IInv'
  <2>1. [held EXCEPT !.rostered = span] \in Holdings
    BY <1>1, <1>10 DEF RosterStudent, Holdings, Spans
  <2> QED
    BY <2>1, <1>10, BecomesKeepsIInv DEF RosterStudent
<1>11. CASE SpanBegins
  <2>1. /\ held.taught = "coming" => [held EXCEPT !.taught = "running"] \in Holdings
        /\ held.rostered = "coming" => [held EXCEPT !.rostered = "running"] \in Holdings
    BY <1>1 DEF Holdings, Spans
  <2> QED
    BY <2>1, <1>11, BecomesKeepsIInv DEF SpanBegins
<1>12. CASE SpanEnds
  <2>1. /\ [held EXCEPT !.taught = Ended(@)] \in Holdings
        /\ [held EXCEPT !.rostered = Ended(@)] \in Holdings
    BY <1>1 DEF Holdings, Ended, Spans
  <2> QED
    BY <2>1, <1>12, BecomesKeepsIInv DEF SpanEnds
<1> QED
  BY <1>2, <1>3, <1>4, <1>5, <1>6, <1>7, <1>8, <1>9, <1>10, <1>11, <1>12 DEF Change

(* So does a request the Person raises. *)
LEMMA RaiseCorrectionRequestKeepsIInv ==
  ASSUME IInv, RaiseCorrectionRequest
  PROVE  IInv'
<1>1. [held EXCEPT !.raised = TRUE] \in Holdings
  BY DEF IInv, AllTyped, Holdings
<1> QED
  BY <1>1, BecomesKeepsIInv DEF RaiseCorrectionRequest

(* The session reads the roles in force, and touches nothing else. *)
LEMMA ReadRolesKeepsIInv ==
  ASSUME IInv, ReadRoles
  PROVE  IInv'
<1> USE DEF ReadRoles
<1>1. session' \in RolesRead /\ session' # None
  BY NoneIsNothing DEF RolesRead, InForce
<1>2. AllTyped'
  BY <1>1 DEF IInv, AllTyped
<1>3. SteadySound'
  <2>1. session'.roles = InForce(held)
    OBVIOUS
  <2> QED
    BY <1>1, <2>1 DEF IInv, SteadySound, ServedNow
<1> QED
  BY <1>2, <1>3 DEF IInv, RequestSound, GroundsWereHeld, ScreenSound, LedSound, NeverLedIntoARefusal,
    Reached, Shown, Opening, ServedNow, FromOnesRequest, FromOnesMarks

(* A screen begins with no answers: what is asked of it keeps ScreenSound. *)
LEMMA BlankIsSound ==
  ASSUME NEW page \in Pages, NEW led, NEW f
  PROVE  /\ Blank(page, led).page = page /\ Blank(page, led).shown = "loading"
         /\ Blank(page, led).answered = {} /\ Blank(page, led).got = {} /\ Blank(page, led).led = led
         /\ ~(SchoolScreen(page, f, {}).reads \subseteq {})
BY ReadsAre DEF Blank

(* Facts told: the screen is kept, begun afresh, or not available. *)
LEMMA TellFactsKeepsIInv ==
  ASSUME IInv, TellFacts
  PROVE  IInv'
<1> USE DEF TellFacts
<1>1. /\ session \in RolesRead /\ screen \in Screens /\ facts \in {None} \cup Told
      /\ request \in {None} \cup RequestsMade
      /\ held' = held /\ left' = left /\ steady' = steady
      /\ facts' = [roles |-> session.roles, taught |-> Ever(held.taught)]
  BY DEF IInv, AllTyped
<1>2. /\ facts' \in Told /\ facts'.roles = session.roles
      /\ facts' # None /\ None # Asked
  <2>1. session.roles \in SUBSET Roles /\ Ever(held.taught) \in BOOLEAN
    BY <1>1 DEF RolesRead, Ever
  <2>2. facts' \in Told /\ facts'.roles = session.roles
    BY <1>1, <2>1 DEF Told
  <2> QED
    BY <2>2, NoneIsNothing
<1>3. steady => facts' = FactsOf(held)
  <2>1. session \notin {None, Asked}
    OBVIOUS
  <2> QED
    BY <1>1, <2>1 DEF IInv, SteadySound, FactsOf
<1>4. CASE screen.page = "schools"
  <2>1. request = None \/ request.stage = "answered"
    BY <1>4, <1>1 DEF IInv, RequestSound, Reached, Pages, Sections, AdministratorSections
  <2>2. request' = request
    BY <1>4
  <2>3. RequestSound' /\ GroundsWereHeld'
    BY <2>1, <2>2 DEF IInv, RequestSound, GroundsWereHeld
  <2>4. CASE facts'.roles = {}
    <3>1. screen' = [screen EXCEPT !.shown = "ready"] /\ session' = None
      BY <1>4, <2>4, <1>1
    <3>2. /\ screen' \in Screens /\ screen'.page = "schools" /\ screen'.shown = "ready"
          /\ screen'.got = screen.got /\ screen'.answered = screen.answered /\ screen'.led = screen.led
      BY <1>1, <1>4, <3>1 DEF Screens
    <3>3. "schools" \notin Pages
      BY DEF Pages, Sections, AdministratorSections
    <3>4. AllTyped'
      BY <1>1, <1>2, <3>1, <3>2, <2>2 DEF IInv, AllTyped
    <3>5. ScreenSound'
      BY <3>2, <3>3 DEF ScreenSound, Reached
    <3>6. SteadySound'
      <4>1. screen.page = screen'.page /\ screen.shown # "notAvailable"
        BY <3>2, <1>4 DEF IInv, ScreenSound
      <4> QED
        BY <1>1, <1>3, <2>1, <2>2, <3>1, <3>2, <4>1 DEF IInv, SteadySound, ServedNow
    <3>7. LedSound' /\ NeverLedIntoARefusal'
      BY <1>1, <1>3, <3>2, <3>3 DEF LedSound, NeverLedIntoARefusal
    <3> QED
      BY <2>3, <3>4, <3>5, <3>6, <3>7 DEF IInv
  <2>5. CASE facts'.roles # {}
    <3>1. screen' = Blank(Landing(facts'), "navigation") /\ session' = Asked
      BY <1>4, <2>5, <1>1
    <3>2. Landing(facts') \in Sections /\ Landing(facts') \in Pages
      BY DEF Landing, Pages, Sections
    <3>3. /\ screen'.page = Landing(facts') /\ screen'.shown = "loading" /\ screen'.answered = {}
          /\ screen'.got = {} /\ screen'.led = "navigation"
          /\ ~(SchoolScreen(Landing(facts'), facts', {}).reads \subseteq {})
      BY <3>1, <3>2, BlankIsSound
    <3>4. screen' \in Screens
      BY <3>1, <3>2 DEF Blank, Screens
    <3>5. AllTyped'
      BY <1>1, <1>2, <3>1, <3>4, <2>2 DEF IInv, AllTyped
    <3>6. ScreenSound'
      BY <3>2, <3>3 DEF ScreenSound, Shown, Pages, Sections, AdministratorSections
    <3>7. SteadySound'
      BY <1>1, <1>2, <1>3, <2>1, <2>2, <3>1, <3>3 DEF SteadySound
    <3>8. LedSound'
      <4>1. ASSUME steady
            PROVE  facts' = FactsOf(held) /\ OpensTo(held, Landing(facts'))
        <5>1. facts' = FactsOf(held) /\ held \in Holdings
          BY <1>3, <4>1 DEF IInv, AllTyped
        <5>2. InForce(held) # {} /\ InForce(held) \subseteq Roles
          BY <5>1, <2>5, StandingStands DEF InForce
        <5>3. FactsOf(held).roles \cap Roles # {}
          <6>1. FactsOf(held).roles = InForce(held)
            BY <5>1, StandingStands
          <6> QED
            BY <5>2, <6>1
        <5>4. {"account", "persons"} \subseteq SectionsFor(FactsOf(held))
          BY <5>3 DEF SectionsFor, Sections, ReachedBy, AdministratorSections
        <5>5. Landing(FactsOf(held)) \in SectionsFor(FactsOf(held))
          BY <5>4 DEF Landing
        <5> QED
          BY <5>1, <5>2, <5>5, PagesOpen
      <4> QED
        BY <1>1, <2>5, <3>3, <4>1 DEF LedSound, Opening, OpensTo, ServedNow, Would
    <3>9. NeverLedIntoARefusal'
      BY <3>3 DEF NeverLedIntoARefusal
    <3> QED
      BY <2>3, <3>5, <3>6, <3>7, <3>8, <3>9 DEF IInv
  <2> QED
    BY <2>4, <2>5
<1>5. CASE screen.page # "schools" /\ facts'.roles = {}
  <2>1. /\ screen' = [Blank(screen.page, screen.led) EXCEPT !.shown = "notAvailable"]
        /\ session' = None /\ request' = None
    BY <1>5, <1>1
  <2>2. /\ screen' \in Screens /\ screen'.page = screen.page /\ screen'.shown = "notAvailable"
        /\ screen'.answered = {} /\ screen'.got = {} /\ screen'.led = screen.led
    BY <2>1, <1>1 DEF Blank, Screens
  <2>3. AllTyped'
    BY <1>1, <1>2, <2>1, <2>2 DEF IInv, AllTyped
  <2>4. RequestSound' /\ GroundsWereHeld'
    BY <2>1 DEF RequestSound, GroundsWereHeld
  <2>5. ScreenSound'
    BY <1>5, <2>2 DEF ScreenSound, Reached
  <2>6. SteadySound'
    BY <1>1, <1>3, <2>1, <2>2 DEF SteadySound
  <2>7. ~(steady /\ screen.led \notin {"address", "stale"})
    <3>1. screen.page \in Pages
      BY <1>1, <1>5 DEF Screens
    <3> QED
      BY <1>3, <1>5, <3>1 DEF IInv, LedSound
  <2>8. LedSound' /\ NeverLedIntoARefusal'
    BY <1>1, <2>2, <2>7 DEF LedSound, NeverLedIntoARefusal
  <2> QED
    BY <2>3, <2>4, <2>5, <2>6, <2>8 DEF IInv
<1>6. CASE screen.page # "schools" /\ facts'.roles # {}
  <2> DEFINE page == screen.page
             afresh == \/ facts = None \/ facts.roles = {}
                       \/ SchoolScreen(page, facts, {}).reads # SchoolScreen(page, facts', {}).reads
  <2>1. /\ screen' = IF afresh THEN Blank(page, screen.led) ELSE screen
        /\ request' = IF afresh THEN None ELSE request
        /\ session' = None
    BY <1>6, <1>1
  <2>2. page \in Pages /\ page # "schools" /\ screen.led \in Pages \cup {"address", "navigation", "stale", "schools"}
    BY <1>1, <1>6 DEF Screens
  <2>3. steady /\ screen.led \notin {"address", "stale"} =>
          facts' = FactsOf(held) /\ (Opening(page) \/ FromOnesRequest \/ FromOnesMarks)
    BY <1>3, <2>2 DEF IInv, LedSound
  <2>4. CASE afresh
    <3>1. screen' = Blank(page, screen.led) /\ request' = None
      BY <2>1, <2>4
    <3>2. /\ screen'.page = page /\ screen'.shown = "loading" /\ screen'.answered = {}
          /\ screen'.got = {} /\ screen'.led = screen.led
          /\ ~(SchoolScreen(page, facts', {}).reads \subseteq {})
      BY <3>1, <2>2, BlankIsSound
    <3>3. screen' \in Screens
      BY <3>1, <2>2 DEF Blank, Screens
    <3>4. AllTyped'
      BY <1>1, <1>2, <2>1, <3>1, <3>3 DEF IInv, AllTyped
    <3>5. RequestSound' /\ GroundsWereHeld'
      BY <3>1 DEF RequestSound, GroundsWereHeld
    <3>6. ScreenSound'
      BY <2>2, <3>2 DEF ScreenSound, Shown
    <3>7. SteadySound'
      BY <1>1, <1>3, <2>1, <3>1, <3>2 DEF SteadySound
    <3>8. LedSound' /\ NeverLedIntoARefusal'
      BY <1>1, <1>6, <2>3, <3>2 DEF LedSound, NeverLedIntoARefusal, Opening, ServedNow, FromOnesRequest,
        FromOnesMarks
    <3> QED
      BY <3>4, <3>5, <3>6, <3>7, <3>8 DEF IInv
  <2>5. CASE ~afresh
    <3>1. /\ screen' = screen /\ request' = request /\ session' = None
          /\ facts # None /\ facts.roles # {}
          /\ SchoolScreen(page, facts, {}).reads = SchoolScreen(page, facts', {}).reads
      BY <2>1, <2>5
    <3>2. SchoolScreen(page, facts, screen.got).reads = SchoolScreen(page, facts', screen.got).reads
      BY <2>2, <3>1, ReadsFollowTheFirst
    <3>3. Reached /\ Reached'
      BY <1>2, <1>6, <2>2, <3>1 DEF Reached
    <3>4. Shown.reads = Shown'.reads
      BY <3>1, <3>2 DEF Shown
    <3>5. AllTyped'
      BY <1>1, <1>2, <3>1 DEF IInv, AllTyped
    <3>6. RequestSound' /\ GroundsWereHeld'
      BY <1>1, <3>1, <3>3, <3>4 DEF IInv, RequestSound, GroundsWereHeld
    <3>7. ScreenSound'
      BY <3>1, <3>3, <3>4 DEF IInv, ScreenSound
    <3>8. SteadySound'
      BY <1>1, <1>3, <3>1 DEF IInv, SteadySound, ServedNow
    <3>9. LedSound' /\ NeverLedIntoARefusal'
      BY <1>1, <1>6, <2>3, <3>1 DEF IInv, LedSound, NeverLedIntoARefusal, Opening, ServedNow, FromOnesRequest,
        FromOnesMarks
    <3> QED
      BY <3>5, <3>6, <3>7, <3>8, <3>9 DEF IInv
  <2> QED
    BY <2>4, <2>5
<1> QED
  BY <1>4, <1>5, <1>6

(* A request asks for what the screen still lacks, and starts to see. *)
LEMMA AskKeepsIInv ==
  ASSUME IInv, Ask
  PROVE  IInv'
<1> USE DEF Ask
<1>1. /\ screen \in Screens /\ held \in Holdings /\ screen.page \in Pages
      /\ ~(Shown.reads \subseteq screen.answered)
  BY DEF IInv, AllTyped, ScreenSound, Reached
<1>2. Shown.reads \subseteq Endpoints
  BY <1>1, ReadsAre DEF Shown
<1> DEFINE lacks == CHOOSE e \in Shown.reads \ screen.answered : TRUE
<1>3. lacks \in Shown.reads /\ lacks \in Endpoints
  BY <1>1, <1>2
<1> HIDE DEF lacks
<1>4. request' = [asks |-> lacks, stage |-> "asked", standing |-> None, seen |-> {held}, items |-> {}]
  BY DEF lacks
<1>5. /\ request' \in RequestsMade /\ request'.stage = "asked" /\ request'.asks = lacks
      /\ request'.seen = {held} /\ request'.items = {}
  <2>1. {held} \in SUBSET Holdings /\ {} \in SUBSET Items /\ None \in {None} \cup RolesRead \cup Resolved
    BY <1>1
  <2>2. [asks |-> lacks, stage |-> "asked", standing |-> None, seen |-> {held}, items |-> {}] \in RequestsMade
    BY <1>3, <2>1, Zenon DEF RequestsMade, Stages
  <2>3. request' \in RequestsMade
    BY ONLY <1>4, <2>2, Zenon
  <2>4. /\ request'.stage = "asked" /\ request'.asks = lacks
        /\ request'.seen = {held} /\ request'.items = {}
    BY ONLY <1>4
  <2> QED
    BY ONLY <2>3, <2>4
<1>6. AllTyped'
  BY <1>5 DEF IInv, AllTyped
<1>7. RequestSound'
  BY <1>3, <1>5 DEF RequestSound, Reached, Shown
<1>8. GroundsWereHeld'
  BY <1>5 DEF GroundsWereHeld
<1>9. SteadySound'
  BY <1>5 DEF IInv, SteadySound, ServedNow
<1> QED
  BY <1>6, <1>7, <1>8, <1>9 DEF IInv, ScreenSound, LedSound, NeverLedIntoARefusal, Reached, Shown,
    Opening, ServedNow, FromOnesRequest, FromOnesMarks

(* Its Actor's roles are those in force as they are read. *)
LEMMA ResolveRolesKeepsIInv ==
  ASSUME IInv, ResolveRoles
  PROVE  IInv'
<1> USE DEF ResolveRoles
<1>1. request \in RequestsMade /\ request.stage # "answered"
  BY DEF IInv, AllTyped
<1>2. [roles |-> InForce(held)] \in RolesRead
  BY DEF RolesRead, InForce
<1>3. /\ request' \in RequestsMade /\ request'.stage = "roles" /\ request'.asks = request.asks
      /\ request'.seen = request.seen /\ request'.items = request.items
      /\ request'.standing = [roles |-> InForce(held)]
  BY <1>1, <1>2 DEF RequestsMade, Stages
<1>4. AllTyped'
  BY <1>3 DEF IInv, AllTyped
<1>5. RequestSound'
  BY <1>1, <1>3 DEF IInv, RequestSound, Reached, Shown
<1>6. GroundsWereHeld'
  BY <1>1, <1>3 DEF IInv, RequestSound, GroundsWereHeld
<1>7. SteadySound'
  <2>1. request'.standing.roles = InForce(held)
    BY <1>3
  <2> QED
    BY <1>3, <2>1 DEF IInv, SteadySound, ServedNow
<1> QED
  BY <1>4, <1>5, <1>6, <1>7 DEF IInv, ScreenSound, LedSound, NeverLedIntoARefusal, Reached, Shown,
    Opening, ServedNow, FromOnesRequest, FromOnesMarks

(* And its relations what the roles let stand of what is held by then. *)
LEMMA ResolveRelationsKeepsIInv ==
  ASSUME IInv, ResolveRelations
  PROVE  IInv'
<1> USE DEF ResolveRelations
<1>1. request \in RequestsMade /\ request.stage = "roles" /\ held \in Holdings
  BY DEF IInv, AllTyped
<1>2. PICK h \in request.seen : request.standing = [roles |-> InForce(h)]
  BY <1>1 DEF IInv, RequestSound
<1>3. request.standing.roles = InForce(h) /\ held \in request.seen
  BY <1>1, <1>2 DEF IInv, RequestSound
<1>4. /\ Relations(InForce(h), held) \in Resolved
      /\ Founded(Relations(InForce(h), held), request.seen)
  <2>1. Relations(InForce(h), held) \in Resolved
    BY <1>1 DEF Relations, Resolved, Holdings, InForce, Ever
  <2>2. Founded(Relations(InForce(h), held), request.seen)
    BY <1>2, <1>3 DEF Relations, Founded
  <2> QED
    BY <2>1, <2>2
<1>5. request' = [request EXCEPT !.stage = "resolved", !.standing = Relations(InForce(h), held)]
  BY <1>3
<1>6. /\ request' \in RequestsMade /\ request'.stage = "resolved" /\ request'.asks = request.asks
      /\ request'.seen = request.seen /\ request'.items = request.items
      /\ request'.standing = Relations(InForce(h), held)
  BY <1>1, <1>4, <1>5 DEF RequestsMade, Stages
<1>7. AllTyped'
  BY <1>6 DEF IInv, AllTyped
<1>8. RequestSound'
  BY <1>1, <1>4, <1>6 DEF IInv, RequestSound, Reached, Shown
<1>9. GroundsWereHeld'
  BY <1>1, <1>6 DEF IInv, RequestSound, GroundsWereHeld
<1>10. SteadySound'
  <2>1. steady => InForce(h) = InForce(held)
    BY <1>1, <1>3 DEF IInv, SteadySound
  <2> QED
    BY <1>6, <2>1 DEF IInv, SteadySound, ServedNow, StandingOf
<1> QED
  BY <1>7, <1>8, <1>9, <1>10 DEF IInv, ScreenSound, LedSound, NeverLedIntoARefusal, Reached, Shown,
    Opening, ServedNow, FromOnesRequest, FromOnesMarks

(* The answer is grounded, and a screen that was led where the server      *)
(* follows is not refused by it.                                           *)
LEMMA AnswerKeepsIInv ==
  ASSUME IInv, Answer
  PROVE  IInv'
<1> DEFINE items == Served(request.asks, request.standing, held)
           refused == items = {} /\ ~Alone(screen.page, request.asks)
           got == screen.got \cup items
           answered == screen.answered \cup {request.asks}
           reads == SchoolScreen(screen.page, facts, got).reads
<1>1. /\ request # None /\ request.stage = "resolved" /\ request \in RequestsMade
      /\ request' = [request EXCEPT !.stage = "answered", !.items = items]
      /\ screen' = [screen EXCEPT
           !.got = got, !.answered = answered,
           !.shown = IF refused THEN "notAvailable" ELSE IF reads \subseteq answered THEN "ready" ELSE "loading"]
      /\ screen \in Screens /\ held \in Holdings
      /\ held' = held /\ left' = left /\ session' = session /\ facts' = facts /\ steady' = steady
  BY DEF Answer, IInv, AllTyped
<1>2. /\ Reached /\ screen.page \in Pages /\ screen.shown = "loading" /\ request.asks \in Shown.reads
      /\ request.asks \in Endpoints /\ held \in request.seen /\ request.seen \in SUBSET Holdings
      /\ request.standing \in Resolved /\ Founded(request.standing, request.seen)
  BY <1>1 DEF IInv, RequestSound, Reached, RequestsMade
<1>3. ASSUME NEW item \in items
      PROVE  Grounded(item, request.seen) /\ item \in Items
  <2>1. Grounded(item, request.seen)
    BY <1>2, ServedIsGrounded
  <2>2. item \in Items
    BY <1>2, ServedIsItems
  <2> QED
    BY <2>1, <2>2
<1>4. items \subseteq Items /\ got \subseteq Items /\ answered \subseteq Endpoints
  BY <1>1, <1>2, <1>3 DEF Screens
<1> HIDE DEF items, refused, got, answered, reads
<1>5. /\ request' \in RequestsMade /\ request'.stage = "answered" /\ request'.seen = request.seen
      /\ request'.items = items
  BY <1>1, <1>4 DEF RequestsMade, Stages
<1>6. /\ screen' \in Screens /\ screen'.page = screen.page /\ screen'.led = screen.led
      /\ screen'.got = got /\ screen'.answered = answered
      /\ screen'.shown = IF refused THEN "notAvailable" ELSE IF reads \subseteq answered THEN "ready" ELSE "loading"
  BY <1>1, <1>4 DEF Screens
<1>7. AllTyped'
  BY <1>1, <1>5, <1>6 DEF IInv, AllTyped
<1>8. RequestSound'
  BY <1>5 DEF RequestSound
<1>9. GroundsWereHeld'
  BY <1>3, <1>5 DEF GroundsWereHeld, Grounded, InRole, Once
<1>10. Reached' /\ Shown'.reads = reads
  BY <1>1, <1>2, <1>6 DEF Reached, Shown, reads
<1>11. answered \subseteq reads
  <2>1. Shown.reads \subseteq reads
    BY <1>2, ReadsGrow DEF Shown, reads, got
  <2> QED
    BY <1>2, <2>1 DEF IInv, ScreenSound, answered
<1>12. ScreenSound'
  <2>1. screen.page # "schools"
    BY <1>2 DEF Pages, Sections, AdministratorSections
  <2> QED
    BY <1>6, <1>10, <1>11, <2>1 DEF ScreenSound
<1>13. ASSUME steady
       PROVE  /\ items = Would(held, request.asks)
              /\ screen.got = Got(held, screen.answered) /\ got = Got(held, answered)
              /\ \A e \in screen.answered : Would(held, e) # {} \/ Alone(screen.page, e)
  <2>1. request.standing = StandingOf(held)
    BY <1>1, <1>13 DEF IInv, SteadySound
  <2>2. items = Would(held, request.asks)
    BY <2>1 DEF items, Would
  <2>3. screen.got = Got(held, screen.answered)
    BY <1>13 DEF IInv, SteadySound, Got, ServedNow, Would
  <2>4. got = Got(held, answered)
    BY <2>2, <2>3 DEF got, answered, Got
  <2>5. \A e \in screen.answered : Would(held, e) # {} \/ Alone(screen.page, e)
    BY <1>2, <1>13 DEF IInv, SteadySound, ServedNow, Would
  <2> QED
    BY <2>2, <2>3, <2>4, <2>5
<1>14. SteadySound'
  <2>1. ASSUME steady
        PROVE  /\ got = UNION {Would(held, e) : e \in answered}
               /\ ~refused => \A e \in answered : Would(held, e) # {} \/ Alone(screen.page, e)
    BY <1>13, <2>1 DEF Got, answered, refused
  <2> QED
    BY <1>1, <1>5, <1>6, <2>1 DEF IInv, SteadySound, ServedNow, Would
<1>15. ASSUME steady, screen.led \notin {"address", "stale"}
       PROVE  /\ facts = FactsOf(held) /\ facts.roles # {}
              /\ (Opening(screen.page) /\ ~refused) \/ FromOnesRequest \/ FromOnesMarks
  <2>1. /\ facts = FactsOf(held) /\ facts.roles # {}
        /\ Opening(screen.page) \/ FromOnesRequest \/ FromOnesMarks
    BY <1>2, <1>15 DEF IInv, LedSound
  <2>2. CASE Opening(screen.page)
    <3>1. InForce(held) # {}
      BY <1>1, <2>1, StandingStands
    <3>2. OpensTo(held, screen.page)
      BY <2>2 DEF Opening, OpensTo, ServedNow, Would
    <3>3. screen.answered \in SUBSET Endpoints
      BY <1>1 DEF Screens
    <3>4. request.asks \in SchoolScreen(screen.page, FactsOf(held), Got(held, screen.answered)).reads
      BY <1>2, <1>13, <1>15, <2>1 DEF Shown
    <3>5. Would(held, request.asks) # {} \/ Alone(screen.page, request.asks)
      BY <1>1, <1>2, <3>1, <3>2, <3>3, <3>4, LaterReadsServed
    <3> QED
      BY <1>13, <1>15, <2>1, <2>2, <3>5 DEF refused
  <2> QED
    BY <2>1, <2>2
<1>16. LedSound'
  BY <1>1, <1>6, <1>15 DEF LedSound, Opening, ServedNow, FromOnesRequest, FromOnesMarks
<1>17. NeverLedIntoARefusal'
  BY <1>1, <1>6, <1>15 DEF NeverLedIntoARefusal, FromOnesRequest, FromOnesMarks
<1> QED
  BY <1>7, <1>8, <1>9, <1>12, <1>14, <1>16, <1>17 DEF IInv

(* Moving on begins anew; led by facts still true, to what opens. *)
LEMMA FollowKeepsIInv ==
  ASSUME IInv, NEW to \in Pages \cup {"schools"}, Follow(to)
  PROVE  IInv'
<1> DEFINE page == IF to = "schools" /\ facts.roles # {} THEN Landing(facts) ELSE to
           led == IF ~steady \/ session # None THEN "stale"
                  ELSE IF to = "schools" \/ to \in SectionsFor(facts) THEN "navigation"
                  ELSE screen.page
<1>1. /\ facts # None /\ to # screen.page /\ to \in Ways
      /\ screen' = Blank(page, led) /\ session' = Asked /\ request' = None /\ steady' = TRUE
      /\ held' = held /\ left' = left /\ facts' = facts
      /\ screen \in Screens /\ held \in Holdings
  BY DEF Follow, IInv, AllTyped
<1>2. Landing(facts) \in Sections /\ Landing(facts) \in Pages /\ "schools" \notin Pages
  BY DEF Landing, Pages, Sections, AdministratorSections
<1>3. page \in Pages \cup {"schools"} /\ led \in Pages \cup {"address", "navigation", "stale", "schools"}
  BY <1>1, <1>2 DEF Screens
<1>4. /\ to = "schools" => led \in {"stale", "navigation"}
      /\ to = "schools" /\ facts.roles # {} => page = Landing(facts)
      /\ to = "schools" /\ facts.roles = {} => page = "schools"
      /\ to # "schools" => page = to
      /\ led # "stale" => steady /\ session = None
      /\ led # "stale" /\ to # "schools" /\ to \notin SectionsFor(facts) => led = screen.page
  BY <1>1
<1> HIDE DEF page, led
<1>5. /\ screen'.page = page /\ screen'.led = led /\ screen'.shown = "loading"
      /\ screen'.answered = {} /\ screen'.got = {} /\ screen' \in Screens
  BY <1>1, <1>3 DEF Blank, Screens
<1>6. None # Asked
  BY NoneIsNothing
<1>7. AllTyped'
  BY <1>1, <1>5 DEF IInv, AllTyped
<1>8. RequestSound' /\ GroundsWereHeld' /\ NeverLedIntoARefusal'
  BY <1>1, <1>5 DEF RequestSound, GroundsWereHeld, NeverLedIntoARefusal
<1>9. ScreenSound'
  <2>1. page \in Pages => ~(SchoolScreen(page, facts, {}).reads \subseteq {})
    BY ReadsAre
  <2> QED
    BY <1>1, <1>3, <1>5, <2>1 DEF ScreenSound, Reached, Shown
<1>10. SteadySound'
  BY <1>1, <1>5, <1>6 DEF SteadySound
<1>11. ASSUME led # "stale", page \in Pages
       PROVE  /\ facts = FactsOf(held) /\ facts.roles # {}
              /\ \/ OpensTo(held, page)
                 \/ led = "correctionRequests" /\ held.raised /\ ~ReadsClassRecords(StandingOf(held))
                 \/ led = "yourAttendance" /\ "student" \notin InForce(held)
  <2>1. /\ facts = FactsOf(held) /\ facts.roles = InForce(held)
        /\ screen.got = Got(held, screen.answered)
    BY <1>1, <1>4, <1>11, StandingStands DEF IInv, SteadySound, Got, ServedNow, Would
  <2>2. CASE to = "schools"
    <3>1. facts.roles # {} /\ page = Landing(facts)
      BY <1>2, <1>4, <1>11, <2>2
    <3>2. facts.roles \cap Roles # {}
      BY <2>1, <3>1 DEF InForce
    <3>3. {"account", "persons"} \subseteq SectionsFor(facts)
      BY <3>2 DEF SectionsFor, Sections, ReachedBy, AdministratorSections
    <3>4. page \in SectionsFor(FactsOf(held))
      BY <2>1, <3>1, <3>3 DEF Landing
    <3> QED
      BY <1>1, <2>1, <3>1, <3>4, PagesOpen
  <2>3. CASE to # "schools"
    <3>1. /\ Reached /\ page = to /\ facts.roles # {} /\ screen.page \in Pages
          /\ to \in SectionsFor(facts) \/ (screen.shown = "ready" /\ to \in Shown.links)
      BY <1>1, <1>4, <2>3 DEF Ways, Reached, If
    <3>2. CASE to \in SectionsFor(facts)
      BY <1>1, <2>1, <3>1, <3>2, PagesOpen
    <3>3. CASE to \notin SectionsFor(facts)
      <4>1. led = screen.page /\ screen.shown = "ready" /\ to \in Shown.links
        BY <1>4, <1>11, <2>3, <3>1, <3>3
      <4>2. Shown.reads = screen.answered
        BY <3>1, <4>1 DEF IInv, ScreenSound
      <4>3. Truthful(held, screen.page, screen.answered)
        <5>1. screen.answered \subseteq Endpoints
          BY <1>1 DEF Screens
        <5>2. \A e \in screen.answered : Would(held, e) # {} \/ Alone(screen.page, e)
          BY <1>4, <1>11, <4>1 DEF IInv, SteadySound, ServedNow, Would
        <5> QED
          BY <1>1, <2>1, <3>1, <5>1, <5>2 DEF Truthful
      <4>4. /\ SchoolScreen(screen.page, FactsOf(held), Got(held, screen.answered)).reads = screen.answered
            /\ to \in SchoolScreen(screen.page, FactsOf(held), Got(held, screen.answered)).links
        BY <2>1, <4>1, <4>2 DEF Shown
      <4> QED
        BY <2>1, <3>1, <4>1, <4>3, <4>4, LinksLead
    <3> QED
      BY <3>2, <3>3
  <2> QED
    BY <2>2, <2>3
<1>12. LedSound'
  <2>1. led \notin {"address", "stale"} => facts = FactsOf(held)
    BY <1>1, <1>4 DEF IInv, SteadySound
  <2>2. page \in Pages /\ led # "stale" =>
          facts.roles # {} /\ (Opening(page) \/ FromOnesRequest' \/ FromOnesMarks')
    <3>1. OpensTo(held, page) => Opening(page)
      BY DEF Opening, OpensTo, ServedNow, Would
    <3> QED
      BY <1>1, <1>5, <1>11, <3>1 DEF FromOnesRequest, FromOnesMarks
  <2>3. Opening(page) => Opening(screen.page)'
    BY <1>1, <1>5 DEF Opening, ServedNow
  <2> QED
    BY <1>1, <1>5, <2>1, <2>2, <2>3 DEF LedSound
<1> QED
  BY <1>7, <1>8, <1>9, <1>10, <1>12 DEF IInv

-----------------------------------------------------------------------------
(* The theorems.                                                           *)

(* Everything the app and a request under way know is founded on what the  *)
(* Person held, and true of it while nothing changes.                      *)
THEOREM AccessInvariance == Spec => []IInv
<1>1. Init => IInv
  BY InitIInv
<1>2. IInv /\ [Next]_vars => IInv'
  <2> SUFFICES ASSUME IInv, [Next]_vars PROVE IInv'
    OBVIOUS
  <2>1. CASE UNCHANGED vars
    BY <2>1 DEF vars, IInv, AllTyped, RequestSound, GroundsWereHeld, ScreenSound, SteadySound, LedSound,
      NeverLedIntoARefusal, Reached, Shown, Opening, ServedNow, FromOnesRequest, FromOnesMarks
  <2>2. CASE Next
    BY <2>2, ChangeKeepsIInv, RaiseCorrectionRequestKeepsIInv, ReadRolesKeepsIInv, TellFactsKeepsIInv,
      AskKeepsIInv, ResolveRolesKeepsIInv, ResolveRelationsKeepsIInv, AnswerKeepsIInv, FollowKeepsIInv DEF Next
  <2> QED
    BY <2>1, <2>2
<1> QED
  BY <1>1, <1>2, PTL DEF Spec

(* The types, of every state. *)
THEOREM AccessTyped == Spec => []TypeOK
<1>1. IInv => TypeOK
  BY DEF IInv, AllTyped, TypeOK, Screens, RequestsMade, RolesRead, Told, Stages
<1> QED
  BY <1>1, AccessInvariance, PTL

(* Whatever a request is answered, the Person held a role that lets it be  *)
(* known, and what that role stands on, while the request ran: an Actor    *)
(* put together from statements of several moments learns nothing that was *)
(* never theirs (access/index.ts, school-scope.ts).                        *)
THEOREM OnlyTheHeldIsKnown == Spec => []GroundsWereHeld
<1>1. IInv => GroundsWereHeld
  BY DEF IInv
<1> QED
  BY <1>1, AccessInvariance, PTL

(* The web app's navigation, written apart from the server's decisions,    *)
(* shows exactly the sections the server would serve (routes.ts,           *)
(* access/index.ts).                                                       *)
THEOREM NavigationAgrees == Spec => []NavigationMirrors
<1>1. IInv => NavigationMirrors
  <2> SUFFICES ASSUME IInv, InForce(held) # {} PROVE
        /\ \A s \in SectionsFor(FactsOf(held)) : Opens(s)
        /\ \A s \in Sections \ (SectionsFor(FactsOf(held)) \cup OwnRecords) : ~Opens(s)
    BY DEF NavigationMirrors
  <2>1. held \in Holdings
    BY DEF IInv, AllTyped
  <2>2. SectionsFor(FactsOf(held)) \subseteq Sections
    BY DEF SectionsFor
  <2> QED
    BY <2>1, <2>2, Mirrors DEF Opens
<1> QED
  BY <1>1, AccessInvariance, PTL

(* Moving by what the web app itself shows never ends at a page that is    *)
(* not available, unless something changed or by one of the two ways named *)
(* (routes.ts and the screens' links).                                     *)
THEOREM NotLedIntoARefusal == Spec => []NeverLedIntoARefusal
<1>1. IInv => NeverLedIntoARefusal
  BY DEF IInv
<1> QED
  BY <1>1, AccessInvariance, PTL

(* Every change a screen offers is one the server would make, unless what  *)
(* the Person holds changed after they moved there (the screens' own       *)
(* conditions, access/index.ts).                                           *)
THEOREM OffersAreGood == Spec => []OffersStand
<1>1. IInv => OffersStand
  <2> SUFFICES ASSUME IInv, screen.shown = "ready", screen.page \in Pages, steady, session = None,
                      NEW e \in Shown.offers
               PROVE  Served(e, StandingOf(held), held) # {}
    BY DEF OffersStand
  <2>1. /\ facts = FactsOf(held) /\ held \in Holdings /\ facts.roles # {} /\ screen.answered \subseteq Endpoints
        /\ Shown.reads \subseteq screen.answered
    BY DEF IInv, AllTyped, Screens, SteadySound, ScreenSound, Reached
  <2>2. screen.got = Got(held, screen.answered)
    BY DEF IInv, SteadySound, Got, ServedNow, Would
  <2>3. Truthful(held, screen.page, screen.answered)
    <3>1. InForce(held) # {}
      BY <2>1, StandingStands
    <3>2. \A a \in screen.answered : Would(held, a) # {} \/ Alone(screen.page, a)
      BY DEF IInv, SteadySound, ServedNow, Would
    <3> QED
      BY <2>1, <3>1, <3>2 DEF Truthful
  <2>4. /\ SchoolScreen(screen.page, FactsOf(held), Got(held, screen.answered)).reads \subseteq screen.answered
        /\ e \in SchoolScreen(screen.page, FactsOf(held), Got(held, screen.answered)).offers
    BY <2>1, <2>2 DEF Shown
  <2>5. Would(held, e) # {}
    BY <2>3, <2>4, OffersWouldStand
  <2> QED
    BY <2>5 DEF Would
<1> QED
  BY <1>1, AccessInvariance, PTL

=============================================================================
