---------------------------- MODULE MCAttendance ----------------------------
(* Small instances of Attendance: the constants its configurations choose from. *)
EXTENDS Attendance, TLC

CONSTANTS ada, ben, sue, tom, m1, m2, r1, r2, t1, t2

(* One Student's one Roster membership, or two of them. *)
JustSue == m1 :> sue
SueTwice == (m1 :> sue) @@ (m2 :> sue)

(* Ada alone teaches the offering, beside nobody or beside Ben; or Ben does. *)
AdaAlone == ada :> Days
BenAlone == ben :> Days
AdaTeaches == (ada :> Days) @@ (ben :> {})
=============================================================================
