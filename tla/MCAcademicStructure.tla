------------------------ MODULE MCAcademicStructure ------------------------
(* Two Administrators of a School that has planned nothing, or a year of   *)
(* two dates: undivided, or with a holiday and in two Terms, one offered.  *)
EXTENDS AcademicStructure, TLC

CONSTANTS a1, a2, y1, y2, c

TwoAdministrators == {a1, a2}
TwoYears == {y1, y2}
OneCourse == {c}
TwoTimezones == {"UTC", "Europe/Dublin"}

Nothing ==
  [years |-> [y \in TwoYears |-> None], terms |-> [i \in TermIds |-> None], made |-> 0,
   exceptions |-> {}, courses |-> {}, offerings |-> {}]
Undivided ==
  [Nothing EXCEPT !.years[y1] = [first |-> 1, last |-> 2]]
Divided ==
  [Nothing EXCEPT !.years[y1] = [first |-> 1, last |-> 2],
     !.terms[1] = [year |-> y1, first |-> 1, last |-> 1],
     !.terms[2] = [year |-> y1, first |-> 2, last |-> 2], !.made = 2,
     !.exceptions = {[year |-> y1, date |-> 1]},
     !.courses = {c}, !.offerings = {[course |-> c, term |-> 1]}]
ThreeSituations == {Nothing, Undivided, Divided}

Interchangeable == Permutations(TwoAdministrators)
=============================================================================
