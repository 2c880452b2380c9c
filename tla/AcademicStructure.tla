-------------------------- MODULE AcademicStructure --------------------------
(***************************************************************************)
(* A School's Academic Years, the Terms that divide them, the dates put in *)
(* or taken out, its Courses and their Class Offerings, and the timezone   *)
(* the first year fixes: what its Administrators' requests make of them,   *)
(* statement by statement, and the editor a year and its Terms are changed *)
(* in, which holds what was listed when it was opened.  A year's name and  *)
(* weekday pattern, a Course's name and code and an offering's label bear  *)
(* on nothing here.                                                        *)
(***************************************************************************)
EXTENDS Integers, Sequences, FiniteSets, FiniteSetsExt, SequencesExt

CONSTANTS
  Administrators,   \* each in one tab
  Years, Courses,   \* what the identifiers of years and Courses are drawn from
  Timezones,
  LastDate,         \* bound: School dates are 1 .. LastDate
  MaxTerms,         \* bound on the Terms ever made
  MaxRequests,      \* bound on the requests ever sent
  MaxEdits,         \* bound on the edits made in the editors that are open
  Situations,       \* how far a School may have planned at the start
  None

Dates == 1 .. LastDate
Blank == 0          \* a date field nothing is chosen in
TermIds == 1 .. MaxTerms

Bounds == {b \in [first : Dates, last : Dates] : b.first <= b.last}
Term == {t \in [year : Years, first : Dates, last : Dates] : t.first <= t.last}
Draft == [id : TermIds \cup {None}, first : 0 .. LastDate + 1, last : 0 .. LastDate]

Overlap(b, c) == b.first <= c.last /\ c.first <= b.last
Within(b, date) == b.first <= date /\ date <= b.last

(* Do these Terms cover a year of these bounds exactly: none outside it, no *)
(* two on one date, and no gap?  No Terms at all is a year not yet divided. *)
Covers(bounds, division) ==
  LET places == DOMAIN division
  IN places # {} =>
       /\ \A n \in places : bounds.first <= division[n].first /\ division[n].last <= bounds.last
       /\ \A m, n \in places : m # n => ~Overlap(division[m], division[n])
       /\ \E n \in places : division[n].first = bounds.first
       /\ \A m \in places : \/ division[m].last = bounds.last
                            \/ \E n \in places : division[n].first = division[m].last + 1

(* The Terms of a year, and the dates put in or taken out of it.           *)
TermsIn(of, y) == {i \in TermIds : of[i] # None /\ of[i].year = y}
DatesIn(of, y) == {e \in of : e.year = y}

(* What a School has planned is sound: every date of a divided year falls  *)
(* in exactly one of its Terms, every exception in its year, and no two    *)
(* years share a date.                                                     *)
SoundPlan(bounds, division, excepted) ==
  /\ \A y \in Years :
       IF bounds[y] = None THEN TermsIn(division, y) = {} /\ DatesIn(excepted, y) = {}
       ELSE /\ Covers(bounds[y], [i \in TermsIn(division, y) |-> division[i]])
            /\ \A e \in DatesIn(excepted, y) : Within(bounds[y], e.date)
  /\ \A y, z \in Years : y # z /\ bounds[y] # None /\ bounds[z] # None => ~Overlap(bounds[y], bounds[z])

Kinds == {"create", "change", "delete", "except", "restore", "timezone",
          "course", "uncourse", "offer", "unoffer"}
Steps == {"asked", "written", "checked", "fixed", "recorded", "locked", "held"}

ASSUME StructureAssumption ==
  /\ LastDate \in Nat \ {0} /\ MaxTerms \in Nat /\ MaxRequests \in Nat /\ MaxEdits \in Nat
  /\ Timezones # {} /\ None \notin Years \cup Courses \cup Nat \cup Bounds \cup Term \cup Kinds \cup Steps

(* A School starts as one that was soundly planned.                        *)
ASSUME SituationsAssumption ==
  \A s \in Situations :
    /\ s.years \in [Years -> Bounds \cup {None}] /\ s.terms \in [TermIds -> Term \cup {None}]
    /\ s.made \in 0 .. MaxTerms /\ \A i \in TermIds : s.terms[i] # None => i <= s.made
    /\ s.exceptions \subseteq [year : Years, date : Dates]
    /\ s.courses \subseteq Courses /\ s.offerings \subseteq [course : Courses, term : TermIds]
    /\ SoundPlan(s.years, s.terms, s.exceptions)

VARIABLES
  school,      \* its timezone, and whether a year has fixed it
  years,       \* each year's bounds, or None
  terms,       \* each Term's year and bounds, or None
  made,        \* how many Terms were ever made
  exceptions,  \* the dates put in or taken out, each with its year
  courses,     \* the Courses there are
  offerings,   \* the Class Offerings: a Course and a Term
  request,     \* each Administrator's request, in its transaction
  sent,        \* how many requests were sent
  editor       \* each Administrator's open editor, or None

rows == <<school, years, terms, made, exceptions, courses, offerings>>
vars == <<rows, request, sent, editor>>

Idle == [kind |-> None, step |-> None, on |-> None, to |-> None,
         drafts |-> None, seen |-> {}, doomed |-> {}]

Editor == [year : Years, first : 0 .. LastDate, last : 0 .. LastDate,
           drafts : Seq(Draft), edits : Nat, loose : BOOLEAN]

(* What a request of each kind names, and the steps it may stand at.       *)
Stands(r, kind, steps, ons, tos) == r.kind = kind => r.step \in steps /\ r.on \in ons /\ r.to \in tos
RequestTyped(r) ==
  /\ DOMAIN r = DOMAIN Idle
  /\ r.seen \subseteq Draft /\ r.doomed \subseteq TermIds
  /\ r.drafts # None => r.kind = "change" /\ r.drafts \in Seq(Draft)
  /\ r.kind \in Kinds \cup {None}
  /\ Stands(r, None, {None}, {None}, {None})
  /\ Stands(r, "create", {"asked", "written", "checked", "fixed", "recorded"}, Years, Bounds)
  /\ Stands(r, "change", {"asked", "written", "checked"}, Years, Bounds)
  /\ Stands(r, "delete", {"asked", "checked"}, Years, {None})
  /\ Stands(r, "except", {"asked", "checked"}, Years, Dates)
  /\ Stands(r, "restore", {"asked", "checked"}, Years, Dates)
  /\ Stands(r, "timezone", {"asked", "locked"}, {None}, Timezones)
  /\ Stands(r, "course", {"asked"}, Courses, {None})
  /\ Stands(r, "uncourse", {"asked", "locked"}, Courses, {None})
  /\ Stands(r, "offer", {"asked", "locked", "held"}, Courses, TermIds)
  /\ Stands(r, "unoffer", {"asked", "locked"}, [course : Courses, term : TermIds], {None})

TypeOK ==
  /\ school \in [timezone : Timezones, fixed : BOOLEAN]
  /\ years \in [Years -> Bounds \cup {None}]
  /\ terms \in [TermIds -> Term \cup {None}]
  /\ made \in 0 .. MaxTerms /\ sent \in 0 .. MaxRequests
  /\ exceptions \subseteq [year : Years, date : Dates]
  /\ courses \subseteq Courses
  /\ offerings \subseteq [course : Courses, term : TermIds]
  /\ DOMAIN request = Administrators /\ \A a \in Administrators : RequestTyped(request[a])
  /\ editor \in [Administrators -> Editor \cup {None}]

Init ==
  /\ \E s \in Situations :
       /\ years = s.years /\ terms = s.terms /\ made = s.made
       /\ exceptions = s.exceptions /\ courses = s.courses /\ offerings = s.offerings
       /\ \E z \in Timezones : school = [timezone |-> z, fixed |-> \E y \in Years : s.years[y] # None]
  /\ request = [a \in Administrators |-> Idle]
  /\ sent = 0
  /\ editor = [a \in Administrators |-> None]

-----------------------------------------------------------------------------
TermsOf(y) == TermsIn(terms, y)
ExceptionsOf(y) == DatesIn(exceptions, y)
Division(y) == [i \in TermsOf(y) |-> terms[i]]

(* A Term as it is listed, and a year's Terms in the order of their dates. *)
Shown(i) == [id |-> i, first |-> terms[i].first, last |-> terms[i].last]
Place(y, i) == Cardinality({j \in TermsOf(y) : terms[j].first <= terms[i].first})
Listed(y) ==
  [n \in 1 .. Cardinality(TermsOf(y)) |-> Shown(CHOOSE i \in TermsOf(y) : Place(y, i) = n)]

-----------------------------------------------------------------------------
(* What the transactions under way hold.                                   *)
Others(a) == Administrators \ {a}
Is(b, kind, steps) == request[b].kind = kind /\ request[b].step \in steps

(* Slip: a year is read and not locked.                                 *)
NoYearHolders(y) == {}

YearKinds == {"change", "delete", "except", "restore"}

(* The year's row, locked by whoever is changing it or its exceptions.     *)
YearHolders(y) ==
  {b \in Administrators :
     /\ request[b].kind \in YearKinds
     /\ request[b].step # "asked" /\ request[b].on = y}

(* The School's row: locked whole for a change of timezone, held by a year *)
(* just inserted, and updated by the one that fixes the timezone.          *)
SchoolLockers == {b \in Administrators : Is(b, "timezone", {"locked"})}
SchoolSharers == {b \in Administrators : Is(b, "create", {"written", "checked", "fixed", "recorded"})}
SchoolFixers == {b \in Administrators : Is(b, "create", {"fixed"})}

(* Slip: the Term an offering names is read and not held.               *)
NoTermHolders(i) == {}
TermHolders(i) == {b \in Administrators : Is(b, "offer", {"held"}) /\ request[b].to = i}

LeftOut(b) ==
  IF request[b].drafts = None THEN {}
  ELSE {s.id : s \in request[b].seen} \ {request[b].drafts[n].id : n \in DOMAIN request[b].drafts}
TermDeleters(i) ==
  {b \in Administrators : Is(b, "change", {"checked"}) /\ i \in LeftOut(b) \ request[b].doomed}

CourseHolders(c) ==
  {b \in Administrators : \/ Is(b, "offer", {"locked", "held"}) /\ request[b].on = c
                          \/ Is(b, "uncourse", {"locked"}) /\ request[b].on = c}
OfferingHolders(o) == {b \in Administrators : Is(b, "unoffer", {"locked"}) /\ request[b].on = o}

(* Years under a write not yet committed: nobody knows which of their      *)
(* bounds, the old or the new, will stand.                                 *)
Writing(b) ==
  \/ Is(b, "create", {"written", "checked", "fixed", "recorded"})
  \/ Is(b, "change", {"written"})
  \/ Is(b, "change", {"checked"}) /\ request[b].to # years[request[b].on]
  \/ Is(b, "delete", {"checked"})
Uncertain(b) ==
  (IF request[b].kind \in {"create", "change"} THEN {request[b].to} ELSE {})
    \cup (IF request[b].kind \in {"change", "delete"} THEN {years[request[b].on]} \ {None} ELSE {})

NextDoomed(a) ==
  CHOOSE i \in request[a].doomed : \A j \in request[a].doomed :
    terms[i] = None \/ (terms[j] # None /\ terms[i].first <= terms[j].first)

(* Slip: an offering's deletion locks its Course as well.               *)
WaitsForCourseToo(a) ==
  IF Is(a, "unoffer", {"locked"}) THEN CourseHolders(request[a].on.course) ELSE {}

(* It takes no lock past its own row: an offering never changes its Course. *)
WaitsForCourse(a) == {}

(* The School's own row, written or referred to: by a year's insertion and *)
(* the change of a timezone, and by the Audit record that ends every change. *)
RefersToSchool(a) ==
  \/ Is(a, "create", {"asked", "fixed", "recorded"})
  \/ Is(a, "create", {"checked"}) /\ ~school.fixed
  \/ Is(a, "timezone", {"asked", "locked"})
  \/ Is(a, "change", {"checked"}) /\ request[a].doomed = {}
  \/ \E kind \in {"delete", "except", "restore"} : Is(a, kind, {"checked"})
  \/ Is(a, "course", {"asked"}) \/ Is(a, "offer", {"held"})
  \/ \E kind \in {"uncourse", "unoffer"} : Is(a, kind, {"locked"})

(* Whom the next statement of a's transaction waits for.                   *)
WaitsFor(a) ==
  LET r == request[a]
  IN {b \in Others(a) :
       \/ \E kind \in YearKinds : Is(a, kind, {"asked"}) /\ b \in YearHolders(r.on)
       \/ r.step = "written" /\ Writing(b) /\ \E c \in Uncertain(b) : Overlap(c, r.to)
       \/ Is(a, "create", {"checked"}) /\ ~school.fixed /\ b \in SchoolFixers
       \/ Is(a, "change", {"checked"}) /\ r.doomed # {} /\ b \in TermHolders(NextDoomed(a))
       \/ Is(a, "change", {"checked"}) /\ r.doomed # {}
            /\ \E o \in offerings : o.term = NextDoomed(a) /\ b \in OfferingHolders(o)
       \/ Is(a, "timezone", {"asked"}) /\ b \in SchoolSharers
       \/ \E kind \in {"offer", "uncourse"} : Is(a, kind, {"asked"}) /\ b \in CourseHolders(r.on)
       \/ Is(a, "unoffer", {"asked"}) /\ b \in OfferingHolders(r.on)
       \/ Is(a, "offer", {"locked"}) /\ b \in TermDeleters(r.to)
       \/ Is(a, "uncourse", {"locked"}) /\ \E o \in offerings : o.course = r.on /\ b \in OfferingHolders(o)
       \/ RefersToSchool(a) /\ b \in SchoolLockers
       \/ b \in WaitsForCourse(a)}

Ready(a, kind, step) == request[a].kind = kind /\ request[a].step = step /\ WaitsFor(a) = {}
Proceeds(a, step) == request' = [request EXCEPT ![a].step = step]

(* A request ends.  One that was done closes the editor it came from; one  *)
(* refused as a conflict leaves it open over what it held; any other       *)
(* refusal takes the whole screen.                                         *)
Ends(a, editing) ==
  /\ request' = [request EXCEPT ![a] = Idle]
  /\ editor' = [editor EXCEPT ![a] = IF editing THEN @ ELSE None]
  /\ UNCHANGED sent
Refused(a, editing) == Ends(a, editing) /\ UNCHANGED rows

-----------------------------------------------------------------------------
Send(a, kind, on, to) ==
  /\ request[a] = Idle /\ sent < MaxRequests
  /\ sent' = sent + 1
  /\ request' = [request EXCEPT ![a] = [Idle EXCEPT !.kind = kind, !.step = "asked", !.on = on, !.to = to]]
  /\ UNCHANGED <<rows, editor>>

(* An identifier that is no year's, nor drawn for one being created.       *)
Unused(y) == years[y] = None /\ \A b \in Administrators : request[b].kind = "create" => request[b].on # y

(* Whatever a screen showed when it was sent, by the time it runs a request *)
(* may name what is no longer there.  A year's bounds alone are changed by *)
(* no screen, but by a client of the interface.                            *)
Ask(a) ==
  /\ editor[a] = None
  /\ \/ \E y \in Years, b \in Bounds : Unused(y) /\ Send(a, "create", y, b)
     \/ \E y \in Years, b \in Bounds : years[y] # None /\ Send(a, "change", y, b)
     \/ \E y \in Years : years[y] # None /\ Send(a, "delete", y, None)
     \/ \E y \in Years, d \in Dates : years[y] # None /\ Send(a, "except", y, d)
     \/ \E e \in exceptions : Send(a, "restore", e.year, e.date)
     \/ \E z \in Timezones : Send(a, "timezone", None, z)
     \/ \E c \in Courses : c \notin courses /\ Send(a, "course", c, None)
     \/ \E c \in courses : Send(a, "uncourse", c, None)
     \/ \E c \in courses, i \in TermIds : terms[i] # None /\ Send(a, "offer", c, i)
     \/ \E o \in offerings : Send(a, "unoffer", o, None)

-----------------------------------------------------------------------------
(* Creating a year: its row is inserted, and set against the others' once  *)
(* it is there.                                                            *)
InsertYear(a) ==
  /\ Ready(a, "create", "asked")
  /\ Proceeds(a, "written")
  /\ UNCHANGED <<rows, sent, editor>>

(* Changing a year: it is locked, and read with its Terms and exceptions.  *)
(* The Terms proposed are to be its own or new and to cover the bounds     *)
(* proposed; those it has, if none are proposed.                           *)
LockYear(a) ==
  LET y == request[a].on
      drafts == request[a].drafts
      named == {drafts[n].id : n \in DOMAIN drafts}
      own == drafts # None => named \subseteq TermsOf(y) \cup {None}
      fits == /\ Covers(request[a].to, IF drafts = None THEN Division(y) ELSE drafts)
              /\ \A e \in ExceptionsOf(y) : Within(request[a].to, e.date)
  IN /\ Ready(a, "change", "asked")
     /\ \/ /\ years[y] = None \/ ~own
           /\ Refused(a, FALSE)
        \/ /\ years[y] # None /\ own /\ ~fits
           /\ Refused(a, TRUE)
        \/ /\ years[y] # None /\ own /\ fits
           /\ request' = [request EXCEPT ![a].step = IF request[a].to = years[y] THEN "checked" ELSE "written",
                                         ![a].seen = {Shown(i) : i \in TermsOf(y)},
                                         ![a].doomed = IF drafts = None THEN {} ELSE TermsOf(y) \ named]
           /\ UNCHANGED <<rows, sent, editor>>

(* The bounds written are refused if they meet another year's.             *)
CheckYear(a) ==
  LET settled == {y \in Years : years[y] # None /\ \A b \in Administrators : Writing(b) => request[b].on # y}
      meets == \E y \in settled \ {request[a].on} : Overlap(years[y], request[a].to)
  IN /\ request[a].step = "written"
     /\ \/ /\ meets
           /\ Refused(a, TRUE)
        \/ /\ WaitsFor(a) = {} /\ ~meets
           /\ Proceeds(a, "checked")
           /\ UNCHANGED <<rows, sent, editor>>

(* A year inserted fixes the School's timezone in its own statement.       *)
FixTimezone(a) ==
  /\ Ready(a, "create", "checked")
  /\ Proceeds(a, IF school.fixed THEN "recorded" ELSE "fixed")
  /\ UNCHANGED <<rows, sent, editor>>

CommitCreation(a) ==
  /\ request[a].kind = "create" /\ request[a].step \in {"fixed", "recorded"} /\ WaitsFor(a) = {}
  /\ years' = [years EXCEPT ![request[a].on] = request[a].to]
  /\ school' = [school EXCEPT !.fixed = TRUE]
  /\ Ends(a, FALSE)
  /\ UNCHANGED <<terms, made, exceptions, courses, offerings>>

(* The Terms left out are deleted one after another, each unless it has    *)
(* Class Offerings.                                                        *)
DeleteTerm(a) ==
  LET i == NextDoomed(a)
  IN /\ Ready(a, "change", "checked") /\ request[a].doomed # {}
     /\ \/ /\ \E o \in offerings : o.term = i
           /\ Refused(a, TRUE)
        \/ /\ \A o \in offerings : o.term # i
           /\ request' = [request EXCEPT ![a].doomed = @ \ {i}]
           /\ UNCHANGED <<rows, sent, editor>>

(* A Term's new bounds may strand what was placed in it: see Participation. *)
Stranded(a) ==
  /\ Ready(a, "change", "checked") /\ request[a].doomed = {}
  /\ request[a].drafts # None
  /\ \E n \in DOMAIN request[a].drafts :
       request[a].drafts[n].id # None /\ request[a].drafts[n] \notin request[a].seen
  /\ Refused(a, TRUE)

Drafts(a) == IF request[a].drafts = None THEN <<>> ELSE request[a].drafts
Fresh(a) == {n \in DOMAIN Drafts(a) : Drafts(a)[n].id = None}

(* The Term that a draft is of, or is made as.                             *)
WrittenAs(a, n) ==
  IF n \in Fresh(a) THEN made + Cardinality({m \in Fresh(a) : m <= n}) ELSE Drafts(a)[n].id

(* The Terms as the change leaves them.                                    *)
Written(a) ==
  LET drafts == Drafts(a)
      of(i) == {n \in DOMAIN drafts : WrittenAs(a, n) = i}
      bounds(t) == [year |-> request[a].on, first |-> t.first, last |-> t.last]
  IN [i \in TermIds |->
        IF of(i) # {} THEN bounds(drafts[CHOOSE n \in of(i) : TRUE])
        ELSE IF i \in LeftOut(a) THEN None ELSE terms[i]]

CommitChange(a) ==
  /\ Ready(a, "change", "checked") /\ request[a].doomed = {}
  /\ made + Cardinality(Fresh(a)) <= MaxTerms
  /\ years' = [years EXCEPT ![request[a].on] = request[a].to]
  /\ terms' = Written(a)
  /\ made' = made + Cardinality(Fresh(a))
  /\ Ends(a, FALSE)
  /\ UNCHANGED <<school, exceptions, courses, offerings>>

-----------------------------------------------------------------------------
(* Deleting a year, and adding and removing an exception, each lock it.    *)
LockToDelete(a) ==
  LET y == request[a].on
  IN /\ Ready(a, "delete", "asked")
     /\ \/ /\ years[y] = None \/ TermsOf(y) # {} \/ ExceptionsOf(y) # {}
           /\ Refused(a, FALSE)
        \/ /\ years[y] # None /\ TermsOf(y) = {} /\ ExceptionsOf(y) = {}
           /\ Proceeds(a, "checked")
           /\ UNCHANGED <<rows, sent, editor>>

CommitDeletion(a) ==
  /\ Ready(a, "delete", "checked")
  /\ years' = [years EXCEPT ![request[a].on] = None]
  /\ Ends(a, FALSE)
  /\ UNCHANGED <<school, terms, made, exceptions, courses, offerings>>

LockToExcept(a) ==
  LET y == request[a].on
      date == request[a].to
      taken == \E e \in ExceptionsOf(y) : e.date = date
      permitted == IF request[a].kind = "except"
                   THEN years[y] # None /\ Within(years[y], date) /\ ~taken
                   ELSE years[y] # None /\ taken
  IN /\ \E kind \in {"except", "restore"} : Ready(a, kind, "asked")
     /\ \/ ~permitted /\ Refused(a, FALSE)
        \/ permitted /\ Proceeds(a, "checked") /\ UNCHANGED <<rows, sent, editor>>

CommitException(a) ==
  LET e == [year |-> request[a].on, date |-> request[a].to]
  IN /\ \/ Ready(a, "except", "checked") /\ exceptions' = exceptions \cup {e}
        \/ Ready(a, "restore", "checked") /\ exceptions' = exceptions \ {e}
     /\ Ends(a, FALSE)
     /\ UNCHANGED <<school, years, terms, made, courses, offerings>>

-----------------------------------------------------------------------------
(* A change of timezone locks the School, and is refused once it is fixed. *)
LockSchool(a) ==
  /\ Ready(a, "timezone", "asked")
  /\ \/ school.fixed /\ school.timezone # request[a].to /\ Refused(a, FALSE)
     \/ /\ school.fixed => school.timezone = request[a].to
        /\ Proceeds(a, "locked")
        /\ UNCHANGED <<rows, sent, editor>>

CommitTimezone(a) ==
  /\ Ready(a, "timezone", "locked")
  /\ school' = [school EXCEPT !.timezone = request[a].to]
  /\ Ends(a, FALSE)
  /\ UNCHANGED <<years, terms, made, exceptions, courses, offerings>>

-----------------------------------------------------------------------------
CommitCourse(a) ==
  /\ Ready(a, "course", "asked")
  /\ courses' = courses \cup {request[a].on}
  /\ Ends(a, FALSE)
  /\ UNCHANGED <<school, years, terms, made, exceptions, offerings>>

(* A Course is locked to be deleted or offered; an offering, to be deleted. *)
LockRecord(a) ==
  LET r == request[a]
      there == IF r.kind = "unoffer" THEN r.on \in offerings ELSE r.on \in courses
  IN /\ \E kind \in {"offer", "uncourse", "unoffer"} : Ready(a, kind, "asked")
     /\ \/ ~there /\ Refused(a, FALSE)
        \/ there /\ Proceeds(a, "locked") /\ UNCHANGED <<rows, sent, editor>>

(* The Term is held against its deletion, and may have gone before.        *)
HoldTerm(a) ==
  /\ Ready(a, "offer", "locked")
  /\ \/ terms[request[a].to] = None /\ Refused(a, FALSE)
     \/ /\ terms[request[a].to] # None
        /\ Proceeds(a, "held")
        /\ UNCHANGED <<rows, sent, editor>>

CommitOffering(a) ==
  /\ Ready(a, "offer", "held")
  /\ offerings' = offerings \cup {[course |-> request[a].on, term |-> request[a].to]}
  /\ Ends(a, FALSE)
  /\ UNCHANGED <<school, years, terms, made, exceptions, courses>>

CommitUncourse(a) ==
  /\ Ready(a, "uncourse", "locked")
  /\ \/ /\ \E o \in offerings : o.course = request[a].on
        /\ Refused(a, FALSE)
     \/ /\ \A o \in offerings : o.course # request[a].on
        /\ courses' = courses \ {request[a].on}
        /\ Ends(a, FALSE)
        /\ UNCHANGED <<school, years, terms, made, exceptions, offerings>>

(* An offering anyone was ever placed in is kept.                          *)
CommitUnoffer(a) ==
  /\ Ready(a, "unoffer", "locked")
  /\ \/ Refused(a, FALSE)
     \/ /\ offerings' = offerings \ {request[a].on}
        /\ Ends(a, FALSE)
        /\ UNCHANGED <<school, years, terms, made, exceptions, courses>>

(* The database ends one of two transactions that wait for each other.     *)
EndDeadlock(a) ==
  /\ \E b \in WaitsFor(a) : a \in WaitsFor(b)
  /\ Refused(a, FALSE)

-----------------------------------------------------------------------------
(* The editor of a year and its Terms.                                     *)
OpenEditor(a, y) ==
  /\ request[a] = Idle /\ editor[a] = None /\ years[y] # None
  /\ editor' = [editor EXCEPT ![a] =
       [year |-> y, first |-> years[y].first, last |-> years[y].last,
        drafts |-> Listed(y), edits |-> 0, loose |-> FALSE]]
  /\ UNCHANGED <<rows, request, sent>>

SetBound(e, bound, v) ==
  LET at == IF bound = "first" THEN 1 ELSE Len(e.drafts)
      moved == [e EXCEPT ![bound] = v]
  IN IF e.drafts = <<>> THEN moved ELSE [moved EXCEPT !.drafts[at][bound] = v]

(* A Term's last day moves the first of the next.  Moving a first day, or  *)
(* the last of them all, loosens the Terms from each other or the year.    *)
SetLastDay(e, at, v) ==
  [e EXCEPT !.drafts =
     [n \in DOMAIN @ |->
        IF n = at THEN [@[n] EXCEPT !.last = v]
        ELSE IF n = at + 1 /\ v # Blank THEN [@[n] EXCEPT !.first = v + 1]
        ELSE @[n]],
   !.loose = @ \/ at = Len(e.drafts)]
SetFirstDay(e, at, v) == [e EXCEPT !.drafts[at].first = v, !.loose = TRUE]

AddTerm(e) ==
  LET n == Len(e.drafts)
  IN [e EXCEPT !.drafts =
        (IF n = 0 THEN @ ELSE [@ EXCEPT ![n].last = Blank])
          \o <<[id |-> None, first |-> IF n = 0 THEN e.first ELSE Blank, last |-> e.last]>>]

(* Slip: what a removed Term covered goes to nobody.                    *)
DropTerm(e, at) == [e EXCEPT !.drafts = RemoveAt(@, at)]

(* What a removed Term covered goes to the one before it, or after.        *)
RemoveTerm(e, at) ==
  LET kept == RemoveAt(e.drafts, at)
  IN [e EXCEPT !.drafts =
        IF kept = <<>> THEN kept
        ELSE IF at = 1 THEN [kept EXCEPT ![1].first = e.first]
        ELSE [kept EXCEPT ![at - 1].last = e.drafts[at].last]]

Edits(e) ==
  {SetBound(e, bound, v) : bound \in {"first", "last"}, v \in {Blank} \cup Dates}
    \cup {SetLastDay(e, at, v) : at \in DOMAIN e.drafts, v \in {Blank} \cup Dates}
    \cup {SetFirstDay(e, at, v) : at \in DOMAIN e.drafts, v \in {Blank} \cup Dates}
    \cup {AddTerm(e)}
    \cup {RemoveTerm(e, at) : at \in DOMAIN e.drafts}

EditsMade == MapThenSumSet(LAMBDA b : IF editor[b] = None THEN 0 ELSE editor[b].edits, Administrators)

Edit(a) ==
  /\ editor[a] # None /\ request[a] = Idle /\ EditsMade < MaxEdits
  /\ \E e \in Edits(editor[a]) : editor' = [editor EXCEPT ![a] = [e EXCEPT !.edits = @ + 1]]
  /\ UNCHANGED <<rows, request, sent>>

(* What the form's own fields hold a save to.                              *)
Submittable(e) ==
  /\ e.first # Blank /\ e.last # Blank /\ e.first <= e.last
  /\ \A n \in DOMAIN e.drafts :
       LET t == e.drafts[n]
       IN t.first \in e.first .. e.last /\ t.last \in t.first .. e.last

Save(a) ==
  LET e == editor[a]
  IN /\ e # None /\ Submittable(e)
     /\ request[a] = Idle /\ sent < MaxRequests
     /\ sent' = sent + 1
     /\ request' = [request EXCEPT ![a] =
          [Idle EXCEPT !.kind = "change", !.step = "asked", !.on = e.year,
                       !.to = [first |-> e.first, last |-> e.last], !.drafts = e.drafts]]
     /\ UNCHANGED <<rows, editor>>

Cancel(a) ==
  /\ editor[a] # None /\ request[a] = Idle
  /\ editor' = [editor EXCEPT ![a] = None]
  /\ UNCHANGED <<rows, request, sent>>

-----------------------------------------------------------------------------
Next ==
  \E a \in Administrators :
    \/ Ask(a)
    \/ InsertYear(a) \/ CheckYear(a) \/ FixTimezone(a) \/ CommitCreation(a)
    \/ LockYear(a) \/ DeleteTerm(a) \/ Stranded(a) \/ CommitChange(a)
    \/ LockToDelete(a) \/ CommitDeletion(a) \/ LockToExcept(a) \/ CommitException(a)
    \/ LockSchool(a) \/ CommitTimezone(a)
    \/ CommitCourse(a) \/ LockRecord(a) \/ HoldTerm(a) \/ CommitOffering(a)
    \/ CommitUncourse(a) \/ CommitUnoffer(a)
    \/ EndDeadlock(a)
    \/ Edit(a) \/ Save(a) \/ Cancel(a) \/ \E y \in Years : OpenEditor(a, y)

Spec == Init /\ [][Next]_vars

-----------------------------------------------------------------------------
(* Every School date of a divided year falls in exactly one of its Terms,  *)
(* every exception falls in its year, and no two years share a date,       *)
(* whoever else moves the year's bounds, its Terms or an exception.        *)
EveryDateInOneTerm == SoundPlan(years, terms, exceptions)

(* The change meets no constraint on the rows it writes: its year and each *)
(* Term it keeps are there, and no Terms of a year overlap.                *)
KeepsConstraints(a) ==
  LET y == request[a].on
      written == Written(a)
  IN /\ years[y] # None
     /\ \A n \in DOMAIN Drafts(a) : Drafts(a)[n].id # None => terms[Drafts(a)[n].id] # None
     /\ \A i, j \in TermIds :
          (i # j /\ written[i] # None /\ written[j] # None /\ written[i].year = written[j].year)
            => ~Overlap(written[i], written[j])

(* Nothing a request runs into is left to the database alone: a constraint *)
(* no handler turns into a conflict would be a server error, and each is   *)
(* kept from being met by a lock taken, or a row held, before.             *)
OnlyNamedConflicts ==
  \A a \in Administrators : WaitsFor(a) = {} =>
    LET r == request[a]
    IN /\ Is(a, "change", {"checked"}) /\ r.doomed = {} => KeepsConstraints(a)
       /\ Is(a, "delete", {"checked"}) => TermsOf(r.on) = {} /\ ExceptionsOf(r.on) = {}
       /\ Is(a, "except", {"checked"}) => years[r.on] # None /\ \A e \in exceptions : e.date # r.to
       /\ Is(a, "timezone", {"locked"}) => ~school.fixed \/ school.timezone = r.to
       /\ Is(a, "offer", {"held"}) => r.on \in courses /\ terms[r.to] # None

(* Transactions wait for each other only when both are writing years whose *)
(* dates meet, where each row is there before either is checked.           *)
OnlyOverlapsDeadlock ==
  \A a, b \in Administrators :
    a # b /\ b \in WaitsFor(a) /\ a \in WaitsFor(b) =>
      request[a].step = "written" /\ request[b].step = "written"

(* "The Terms stay joined as they are edited" (AcademicYears.tsx): unless a *)
(* first day or the very last one is set by hand, whatever else is edited, *)
(* a form that can be sent covers its year, so that it is never refused    *)
(* for a gap, an overlap, or a Term outside the year.                      *)
JoinedTermsCover ==
  \A a \in Administrators :
    LET e == editor[a]
    IN e # None => (~e.loose /\ Submittable(e) => Covers([first |-> e.first, last |-> e.last], e.drafts))

-----------------------------------------------------------------------------
(* The parts of the inductive invariant.                                   *)
Planned == EveryDateInOneTerm /\ \A i \in TermIds : terms[i] # None => i <= made

(* What holds a year's row, and what holds a Course's.                     *)
HoldsYear(b) == request[b].kind \in YearKinds /\ request[b].step # "asked"
HoldsCourse(b) == Is(b, "offer", {"locked", "held"}) \/ Is(b, "uncourse", {"locked"})

(* No two requests hold one row, or create one year; none that changes the *)
(* timezone stands beside another, or beside a year just inserted.         *)
Apart(a, b) ==
  /\ HoldsYear(a) /\ HoldsYear(b) => request[a].on # request[b].on
  /\ HoldsCourse(a) /\ HoldsCourse(b) => request[a].on # request[b].on
  /\ request[a].kind = "create" /\ request[b].kind = "create" => request[a].on # request[b].on
  /\ a \in SchoolLockers => b \notin SchoolLockers \cup SchoolSharers

(* A year's bounds were set against the others', and meet none of them and *)
(* none that another request is still to write.                            *)
SetAgainstOthers(b) == Is(b, "create", {"checked", "fixed", "recorded"}) \/ Is(b, "change", {"checked"})
MeetsNone(a) ==
  SetAgainstOthers(a) =>
    /\ \A y \in Years \ {request[a].on} : years[y] # None => ~Overlap(years[y], request[a].to)
    /\ \A b \in Others(a) : SetAgainstOthers(b) => ~Overlap(request[b].to, request[a].to)

(* Drafts name a Term at most once each, and those sent are in order.      *)
NamedOnce(drafts) ==
  \A m, n \in DOMAIN drafts : m # n /\ drafts[m].id # None => drafts[m].id # drafts[n].id
DraftsSound(drafts) ==
  NamedOnce(drafts) /\ \A n \in DOMAIN drafts : drafts[n].first \in Dates /\ drafts[n].last \in drafts[n].first .. LastDate

(* What a change of a year read under its lock still stands: its Terms, and *)
(* that what it proposes covers it.  What it leaves out is to be deleted.  *)
ChangeSound(r) ==
  LET named == {r.drafts[n].id : n \in DOMAIN r.drafts}
  IN /\ r.seen = {Shown(i) : i \in TermsOf(r.on)}
     /\ \A e \in ExceptionsOf(r.on) : Within(r.to, e.date)
     /\ Covers(r.to, IF r.drafts = None THEN Division(r.on) ELSE r.drafts)
     /\ r.drafts # None => named \subseteq TermsOf(r.on) \cup {None}
     /\ r.step = "written" /\ r.drafts # None => r.doomed = TermsOf(r.on) \ named

(* What a request found in the rows it holds, it would find there still.   *)
ReadStands(a) ==
  LET r == request[a]
  IN /\ r.kind = "create" => years[r.on] = None
     /\ HoldsYear(a) => years[r.on] # None
     /\ r.drafts # None => DraftsSound(r.drafts)
     /\ HoldsYear(a) /\ r.kind = "change" => ChangeSound(r)
     /\ HoldsYear(a) /\ r.kind = "delete" => TermsOf(r.on) = {} /\ ExceptionsOf(r.on) = {}
     /\ HoldsYear(a) /\ r.kind = "except" =>
          Within(years[r.on], r.to) /\ \A e \in ExceptionsOf(r.on) : e.date # r.to
     /\ a \in SchoolLockers => ~school.fixed \/ school.timezone = r.to
     /\ Is(a, "offer", {"locked", "held"}) => r.on \in courses
     /\ Is(a, "offer", {"held"}) =>
          /\ terms[r.to] # None
          /\ \A b \in Administrators : Is(b, "change", {"checked"}) /\ r.to \in LeftOut(b) => r.to \in request[b].doomed

(* Terms as they are edited: the first begins with the year, the last ends *)
(* with it, and each begins the day after the one before, if that ends.    *)
Joined(e) ==
  LET n == Len(e.drafts)
  IN n # 0 =>
       /\ e.drafts[1].first = e.first /\ e.drafts[n].last = e.last
       /\ \A m \in 1 .. n - 1 : e.drafts[m].last = Blank \/ e.drafts[m + 1].first = e.drafts[m].last + 1
EditorSound(e) == NamedOnce(e.drafts) /\ (~e.loose => Joined(e))

IInv ==
  /\ TypeOK /\ Planned
  /\ \A a, b \in Administrators : a # b => Apart(a, b)
  /\ \A a \in Administrators : MeetsNone(a) /\ ReadStands(a)
  /\ \A a \in Administrators : editor[a] # None => EditorSound(editor[a])
=============================================================================
