------------------------------- MODULE MCAccess -------------------------------
(* Small instances of Access for TLC.                                      *)
EXTENDS Access

(* The Profiles that tell the two permissions apart. *)
Apart == {{"attendanceRead"}, {"resultsRead"}}
Nothing == [roles |-> [r \in Roles |-> "none"], link |-> None, enrolled |-> FALSE, taught |-> "never",
            rostered |-> "never", raised |-> FALSE]
As(r) == [Nothing EXCEPT !.roles[r] = "held"]

(* What can stand still, two roles at most: each kind of relation with     *)
(* every pair of roles.                                                    *)
Standing == {h \in Holdings :
  /\ \A r \in Roles : h.roles[r] # "coming"
  /\ Cardinality(InForce(h)) <= 2
  /\ h.taught # "coming" /\ h.rostered \in {"never", "running"}
  /\ h.enrolled <=> (h.rostered = "running" \/ InForce(h) = {"student"})
  /\ h.raised => h.taught # "running"
  /\ Cardinality(InForce(h)) = 2 => /\ (h.link # None => h.roles["guardian"] = "held")
                                   /\ (h.enrolled => h.roles["student"] = "held")
                                   /\ (h.taught # "never" => h.roles["school_administrator"] = "none")}

(* And some a School Administrator changes. *)
Turning == {
  [As("faculty") EXCEPT !.taught = "coming", !.roles["school_administrator"] = "coming"],
  [As("faculty") EXCEPT !.taught = "running"],
  [As("guardian") EXCEPT !.link = {"attendanceRead"}, !.roles["faculty"] = "held"],
  [As("student") EXCEPT !.enrolled = TRUE, !.rostered = "coming"],
  [As("student") EXCEPT !.enrolled = TRUE, !.roles["guardian"] = "held"],
  [As("student") EXCEPT !.roles["school_administrator"] = "held"]}

Places == {"schools", "classOffering", "attendance", "termReport", "yourAttendance"}
(* One who may raise a Correction request and later lose every say in it. *)
Raiser == {<<[As("school_administrator") EXCEPT !.roles["student"] = "held"], 2>>}

Small == (Standing \X {0}) \cup (Turning \X {1})
=============================================================================
