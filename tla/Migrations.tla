----------------------------- MODULE Migrations -----------------------------
(***************************************************************************)
(* Starting the service: each process sets the migrations of its own image *)
(* against the record the database keeps, applies the pending ones or      *)
(* refuses to start, and then serves.  Several processes start at once, of *)
(* images older and newer, and any may stop at any step.                   *)
(***************************************************************************)
EXTENDS Integers, Sequences, FiniteSets

CONSTANTS
  Processes,
  Owners,      \* those handed the schema owner's credentials, which migrate
  Image,       \* Image[p]: the checksum of each migration in p's image, in the order of their names
  MaxStops,    \* bound on the processes that stop other than by an error of their own
  Unrecorded   \* what the record says of a migration it does not name

Names == UNION {DOMAIN Image[p] : p \in Processes}
Checksums == UNION {{Image[p][m] : m \in DOMAIN Image[p]} : p \in Processes}

ASSUME MigrationAssumption ==
  /\ Owners \subseteq Processes
  /\ \A p \in Processes : Image[p] \in Seq(STRING)
  /\ Unrecorded \notin Checksums
  /\ MaxStops \in Nat

VARIABLES
  exists,    \* is there a public.schema_migrations at all?
  record,    \* its rows: the checksum each applied migration was applied with
  effects,   \* how often each migration's statements have taken effect
  process,   \* each process: its phase and the migrations it found pending
  stops      \* how many were stopped

migrationVars == <<exists, record, effects, process, stops>>

(* A process is down, about to read the record, between two migrations,    *)
(* in a migration's transaction before and after its statements, or up.    *)
Phases == {"down", "reading", "migrating", "begun", "executed", "serving"}

MigrationTypeOK ==
  /\ exists \in BOOLEAN
  /\ record \in [Names -> Checksums \cup {Unrecorded}]
  /\ effects \in [Names -> Nat]
  /\ process \in [Processes -> [phase : Phases, pending : SUBSET Names]]
  /\ stops \in 0 .. MaxStops

Down == [phase |-> "down", pending |-> {}]

MigrationInit ==
  /\ exists = FALSE
  /\ record = [m \in Names |-> Unrecorded]
  /\ effects = [m \in Names |-> 0]
  /\ process = [p \in Processes |-> Down]
  /\ stops = 0

-----------------------------------------------------------------------------
(* Slip: the record is not asked.                                       *)
PendingAll(p) == DOMAIN Image[p]

(* compareWithRecord: what the record does not name is pending; what it    *)
(* names under another checksum is an error; what the image does not know  *)
(* is ignored.                                                             *)
Pending(p) == {m \in DOMAIN Image[p] : record[m] = Unrecorded}
Contradicted(p) == \E m \in DOMAIN Image[p] : record[m] \notin {Unrecorded, Image[p][m]}

(* Slip: applied last first.                                            *)
LastOf(pending) == CHOOSE m \in pending : \A n \in pending : n <= m

First(pending) == CHOOSE m \in pending : \A n \in pending : m <= n

Enters(p, phase, pending) ==
  process' = [process EXCEPT ![p] = [phase |-> phase, pending |-> pending]]

(* The owner's process first makes sure there is a record.                 *)
StartUp(p) ==
  /\ process[p].phase = "down"
  /\ exists' = (exists \/ p \in Owners)
  /\ Enters(p, "reading", {})
  /\ UNCHANGED <<record, effects, stops>>

ReadRecord(p) ==
  /\ process[p].phase = "reading" /\ p \in Owners /\ ~Contradicted(p)
  /\ Enters(p, "migrating", Pending(p))
  /\ UNCHANGED <<exists, record, effects, stops>>

(* A process that cannot migrate serves a fully migrated database only.    *)
AssertMigrated(p) ==
  /\ process[p].phase = "reading" /\ p \notin Owners
  /\ exists /\ ~Contradicted(p) /\ Pending(p) = {}
  /\ Enters(p, "serving", {})
  /\ UNCHANGED <<exists, record, effects, stops>>

(* Refusing to start changes nothing.                                      *)
Refuse(p) ==
  /\ process[p].phase = "reading"
  /\ Contradicted(p) \/ (p \notin Owners /\ (~exists \/ Pending(p) # {}))
  /\ Enters(p, "down", {})
  /\ UNCHANGED <<exists, record, effects, stops>>

Begin(p) ==
  /\ process[p].phase = "migrating" /\ process[p].pending # {}
  /\ Enters(p, "begun", process[p].pending)
  /\ UNCHANGED <<exists, record, effects, stops>>

(* Slip: a name may be recorded twice.                                  *)
BesideNobody(p) == {}

(* The migration's statements and the row that records it wait for another *)
(* transaction applying the same one, and fail if it is recorded by then:  *)
(* its name is the record's key.                                           *)
Beside(p) ==
  {q \in Processes \ {p} : process[q].phase = "executed" /\ First(process[q].pending) = First(process[p].pending)}

Execute(p) ==
  LET m == First(process[p].pending)
  IN /\ process[p].phase = "begun" /\ Beside(p) = {}
     /\ \/ /\ record[m] = Unrecorded
           /\ Enters(p, "executed", process[p].pending)
        \/ /\ record[m] # Unrecorded
           /\ Enters(p, "down", {})
     /\ UNCHANGED <<exists, record, effects, stops>>

Commit(p) ==
  LET m == First(process[p].pending)
  IN /\ process[p].phase = "executed"
     /\ record' = [record EXCEPT ![m] = Image[p][m]]
     /\ effects' = [effects EXCEPT ![m] = @ + 1]
     /\ Enters(p, "migrating", process[p].pending \ {m})
     /\ UNCHANGED <<exists, stops>>

Serve(p) ==
  /\ process[p].phase = "migrating" /\ process[p].pending = {}
  /\ Enters(p, "serving", {})
  /\ UNCHANGED <<exists, record, effects, stops>>

(* A process stopped at any step leaves its open transaction rolled back.  *)
Stop(p) ==
  /\ process[p].phase # "down" /\ stops < MaxStops
  /\ stops' = stops + 1
  /\ Enters(p, "down", {})
  /\ UNCHANGED <<exists, record, effects>>

Proceed(p) ==
  \/ StartUp(p) \/ ReadRecord(p) \/ AssertMigrated(p) \/ Refuse(p)
  \/ Begin(p) \/ Execute(p) \/ Commit(p) \/ Serve(p)

MigrationNext == \E p \in Processes : Proceed(p) \/ Stop(p)

(* The platform starts a stopped process again, and a running one runs on. *)
Fairness == \A p \in Processes : WF_migrationVars(Proceed(p))

MigrationSpec == MigrationInit /\ [][MigrationNext]_migrationVars /\ Fairness

-----------------------------------------------------------------------------
(* However processes race and stop, a migration's statements take effect   *)
(* once if it is recorded and never if it is not.                          *)
TakesEffectOnce == \A m \in Names : effects[m] = (IF record[m] = Unrecorded THEN 0 ELSE 1)

(* No migration is recorded before those it was written to follow: those   *)
(* earlier in the image whose checksum it was applied with.                *)
InOrder ==
  \A m \in Names : record[m] # Unrecorded =>
    \E p \in Owners : m \in DOMAIN Image[p] /\ \A n \in 1 .. m : record[n] = Image[p][n]

(* A process serves only a database holding every migration of its image,  *)
(* with the contents its image has.                                        *)
ServesOnlyMigrated ==
  \A p \in Processes : process[p].phase = "serving" =>
    \A m \in DOMAIN Image[p] : record[m] = Image[p][m]

(* Every process comes to serve, or finds that the database was migrated   *)
(* from an image that contradicts its own: a start lost to another's is    *)
(* made up for by the next.  One that cannot migrate comes to serve once   *)
(* its image's migrations are recorded.                                    *)
Migratable(p) == p \in Owners \/ ~\E m \in DOMAIN Image[p] : \A q \in Owners : m \notin DOMAIN Image[q]
EventuallyServes ==
  \A p \in Processes : Migratable(p) => <>(process[p].phase = "serving" \/ Contradicted(p))
=============================================================================
