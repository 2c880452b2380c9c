---------------------------- MODULE DeploymentProofs ----------------------------
(***************************************************************************)
(* What a deployment of the service rests on, in two parts that share no   *)
(* state.  First Migrations: however many processes of whatever images     *)
(* start, race and stop, a migration takes effect once, in the order of an *)
(* image that migrates, and only what is fully migrated is served.  Then   *)
(* Trials: for any number of browsers, visitors and Guests, any lifetimes  *)
(* and any cap, its inductive invariant IInv and the safety of Trial       *)
(* Schools that it contains.                                               *)
(***************************************************************************)
EXTENDS Trials, Migrations, FiniteSetTheorems, WellFoundedInduction, TLAPS

-----------------------------------------------------------------------------
Applying(phase) == phase \in {"migrating", "begun", "executed"}

(* What p's image holds and p has not left to do is recorded as the image  *)
(* has it.                                                                 *)
Settled(recorded, p, pending) ==
  /\ pending \subseteq DOMAIN Image[p]
  /\ \A n \in DOMAIN Image[p] \ pending : recorded[n] = Image[p][n]

(* A process that applies migrations has read the record, and nothing it   *)
(* read there changes.                                                     *)
PendingSound ==
  \A p \in Processes : Applying(process[p].phase) => p \in Owners /\ Settled(record, p, process[p].pending)

(* An open transaction applies a migration, and one past its statements    *)
(* has put down the only row for it.                                       *)
OpenSound ==
  \A p \in Processes :
    /\ process[p].phase \in {"begun", "executed"} => process[p].pending # {}
    /\ process[p].phase = "executed" => record[First(process[p].pending)] = Unrecorded

(* No two open transactions have both put down a row for one migration.    *)
Apart ==
  \A p, q \in Processes :
    p # q /\ process[p].phase = "executed" /\ process[q].phase = "executed" =>
      First(process[p].pending) # First(process[q].pending)

(* The inductive invariant. *)
MigrationIInv ==
  /\ MigrationTypeOK /\ TakesEffectOnce /\ InOrder /\ ServesOnlyMigrated
  /\ PendingSound /\ OpenSound /\ Apart

(* An image's migrations are numbered from 1, and their checksums are some. *)
LEMMA ImageType ==
  ASSUME NEW p \in Processes
  PROVE  /\ DOMAIN Image[p] \in SUBSET Nat /\ DOMAIN Image[p] \in SUBSET Names
         /\ \A m \in DOMAIN Image[p] : Image[p][m] \in Checksums /\ Image[p][m] # Unrecorded
         /\ \A m \in DOMAIN Image[p] : 1 .. m \subseteq DOMAIN Image[p]
<1>1. Image[p] \in Seq(STRING)
  BY MigrationAssumption
<1>2. DOMAIN Image[p] = 1 .. Len(Image[p]) /\ Len(Image[p]) \in Nat
  BY <1>1
<1>3. \A m \in DOMAIN Image[p] : Image[p][m] \in Checksums
  BY DEF Checksums
<1>4. DOMAIN Image[p] \in SUBSET Names
  BY DEF Names
<1>5. \A m \in DOMAIN Image[p] : 1 .. m \subseteq DOMAIN Image[p]
  BY <1>2
<1>6. DOMAIN Image[p] \in SUBSET Nat
  BY <1>2
<1>. QED
  BY <1>3, <1>4, <1>5, <1>6, MigrationAssumption

(* A set of numbers with a member has a least one. *)
LEMMA LeastIn ==
  ASSUME NEW pending \in SUBSET Nat, pending # {},
         NEW R, IsWellFoundedOn(R, Nat), \A x, y \in Nat : <<y, x>> \in R <=> y < x
  PROVE  \E m \in pending : \A n \in pending : m <= n
<1>1. PICK m \in pending : \A n \in pending : ~(<<n, m>> \in R)
  BY WFMin
<1>2. ASSUME NEW n \in pending PROVE m <= n
  <2>1. m \in Nat /\ n \in Nat
    OBVIOUS
  <2>2. ~(n < m)
    BY <1>1, <2>1, Zenon
  <2>. QED
    BY <2>1, <2>2
<1>. QED
  BY <1>2

(* What is applied next is pending, and before all else that is. *)
LEMMA FirstIn ==
  ASSUME NEW pending \in SUBSET Nat, pending # {}
  PROVE  First(pending) \in pending /\ \A n \in pending : First(pending) <= n
<1>1. \A x, y \in Nat : <<y, x>> \in OpToRel(<, Nat) <=> y < x
  BY DEF OpToRel
<1>2. \E m \in pending : \A n \in pending : m <= n
  BY <1>1, LeastIn, NatLessThanWellFounded
<1>. QED
  BY <1>2 DEF First

(* A step that leaves the record alone keeps the invariant, if what the    *)
(* process that takes it now holds is right.                               *)
LEMMA PrivateSound ==
  ASSUME MigrationIInv, NEW p \in Processes, NEW phase \in Phases, NEW pending \in SUBSET Names,
         Enters(p, phase, pending),
         UNCHANGED <<record, effects>>, exists' \in BOOLEAN, stops' \in 0 .. MaxStops,
         Applying(phase) => p \in Owners /\ Settled(record, p, pending),
         phase \in {"begun", "executed"} => pending # {},
         phase = "executed" =>
           /\ record[First(pending)] = Unrecorded
           /\ \A q \in Processes \ {p} :
                process[q].phase = "executed" => First(process[q].pending) # First(pending),
         phase = "serving" => \A m \in DOMAIN Image[p] : record[m] = Image[p][m]
  PROVE  MigrationIInv'
<1>1. process \in [Processes -> [phase : Phases, pending : SUBSET Names]]
  BY DEF MigrationIInv, MigrationTypeOK
<1>2. /\ process'[p].phase = phase /\ process'[p].pending = pending
      /\ \A q \in Processes \ {p} : process'[q] = process[q]
      /\ process' \in [Processes -> [phase : Phases, pending : SUBSET Names]]
  BY <1>1 DEF Enters
<1>. HIDE DEF Enters
<1>3. MigrationTypeOK'
  BY <1>2 DEF MigrationIInv, MigrationTypeOK
<1>4. TakesEffectOnce' /\ InOrder'
  BY DEF MigrationIInv, TakesEffectOnce, InOrder
<1>5. ServesOnlyMigrated'
  BY <1>2 DEF MigrationIInv, ServesOnlyMigrated
<1>6. PendingSound'
  BY <1>2 DEF MigrationIInv, PendingSound, Settled
<1>7. OpenSound'
  BY <1>2 DEF MigrationIInv, OpenSound
<1>8. Apart'
  BY <1>2 DEF MigrationIInv, Apart
<1>. QED
  BY <1>3, <1>4, <1>5, <1>6, <1>7, <1>8 DEF MigrationIInv

(* A process that goes down holds nothing. *)
LEMMA DownSound ==
  ASSUME MigrationIInv, NEW p \in Processes, NEW phase \in {"down", "reading"}, Enters(p, phase, {}),
         UNCHANGED <<record, effects>>, exists' \in BOOLEAN, stops' \in 0 .. MaxStops
  PROVE  MigrationIInv'
<1>1. phase \in Phases /\ ~Applying(phase) /\ phase \notin {"begun", "executed", "serving"}
  BY DEF Phases, Applying
<1>. QED
  BY <1>1, PrivateSound

(* What the record holds, a commit leaves as it is. *)
LEMMA CommitSound ==
  ASSUME MigrationIInv, NEW p \in Processes, Commit(p)
  PROVE  MigrationIInv'
<1>. DEFINE pending == process[p].pending
            m == First(pending)
<1>1. /\ process \in [Processes -> [phase : Phases, pending : SUBSET Names]]
      /\ record \in [Names -> Checksums \cup {Unrecorded}] /\ effects \in [Names -> Nat]
  BY DEF MigrationIInv, MigrationTypeOK
<1>2. process[p].phase = "executed" /\ p \in Owners /\ Settled(record, p, pending)
  BY DEF Commit, MigrationIInv, PendingSound, Applying
<1>3. pending # {} /\ record[m] = Unrecorded
  BY <1>2 DEF MigrationIInv, OpenSound
<1>4. pending \in SUBSET Nat /\ pending \in SUBSET Names
  BY <1>1, <1>2, ImageType DEF Settled
<1>5. m \in pending /\ \A n \in pending : m <= n
  BY <1>3, <1>4, FirstIn
<1>6. m \in DOMAIN Image[p] /\ m \in Names /\ m \in Nat /\ Image[p][m] \in Checksums /\ Image[p][m] # Unrecorded
  BY <1>2, <1>4, <1>5, ImageType DEF Settled
<1>7. /\ record'[m] = Image[p][m] /\ effects'[m] = effects[m] + 1
      /\ \A n \in Names \ {m} : record'[n] = record[n] /\ effects'[n] = effects[n]
      /\ record' \in [Names -> Checksums \cup {Unrecorded}] /\ effects' \in [Names -> Nat]
  BY <1>1, <1>6 DEF Commit
<1>8. \A n \in Names : record[n] # Unrecorded => record'[n] = record[n]
  BY <1>3, <1>7
<1>9. /\ process'[p].phase = "migrating" /\ process'[p].pending = pending \ {m}
      /\ \A q \in Processes \ {p} : process'[q] = process[q]
      /\ process' \in [Processes -> [phase : Phases, pending : SUBSET Names]]
  BY <1>1, <1>4 DEF Commit, Enters, Phases
<1>10. exists' = exists /\ stops' = stops
  BY DEF Commit
<1>. HIDE DEF m
<1>11. MigrationTypeOK'
  BY <1>7, <1>9, <1>10 DEF MigrationIInv, MigrationTypeOK
<1>12. TakesEffectOnce'
  BY <1>3, <1>6, <1>7 DEF MigrationIInv, TakesEffectOnce
<1>13. ASSUME NEW q \in Processes, NEW todo, Settled(record, q, todo) PROVE Settled(record', q, todo)
  <2>1. ASSUME NEW n \in DOMAIN Image[q] \ todo PROVE record'[n] = Image[q][n]
    <3>1. record[n] = Image[q][n] /\ n \in Names /\ Image[q][n] # Unrecorded
      BY <1>13, <2>1, ImageType DEF Settled
    <3>. QED
      BY <3>1, <1>8
  <2>. QED
    BY <1>13, <2>1 DEF Settled
<1>14. Settled(record', p, pending \ {m})
  <2>1. \A n \in DOMAIN Image[p] \ (pending \ {m}) : record'[n] = Image[p][n]
    BY <1>2, <1>7, <1>13 DEF Settled
  <2>. QED
    BY <1>2, <2>1 DEF Settled
<1>15. InOrder'
  <2>1. \A n \in 1 .. m : record'[n] = Image[p][n]
    <3>1. ASSUME NEW n \in 1 .. m PROVE n \in DOMAIN Image[p] \ (pending \ {m})
      <4>1. n \in DOMAIN Image[p]
        BY <1>6, <3>1, ImageType
      <4>2. n \in Nat /\ n <= m
        BY <1>6, <3>1
      <4>3. n \in pending => n = m
        BY <1>5, <1>6, <4>2
      <4>. QED
        BY <4>1, <4>3
    <3>. QED
      BY <3>1, <1>14 DEF Settled
  <2>2. ASSUME NEW k \in Names, record'[k] # Unrecorded
        PROVE  \E q \in Owners : k \in DOMAIN Image[q] /\ \A n \in 1 .. k : record'[n] = Image[q][n]
    <3>1. CASE k = m
      BY <1>2, <1>6, <2>1, <3>1
    <3>2. CASE k # m
      <4>1. PICK q \in Owners : k \in DOMAIN Image[q] /\ \A n \in 1 .. k : record[n] = Image[q][n]
        BY <1>7, <2>2, <3>2 DEF MigrationIInv, InOrder
      <4>2. q \in Processes
        BY MigrationAssumption
      <4>3. ASSUME NEW n \in 1 .. k PROVE record'[n] = Image[q][n]
        <5>1. n \in DOMAIN Image[q]
          BY <4>1, <4>2, <4>3, ImageType
        <5>2. n \in Names /\ Image[q][n] # Unrecorded
          BY <4>2, <5>1, ImageType
        <5>. QED
          BY <4>1, <4>3, <5>2, <1>8
      <4>. QED
        BY <4>1, <4>3
    <3>. QED
      BY <3>1, <3>2
  <2>. QED
    BY <2>2 DEF InOrder
<1>16. ServesOnlyMigrated'
  <2>1. ASSUME NEW q \in Processes, process'[q].phase = "serving", NEW n \in DOMAIN Image[q]
        PROVE  record'[n] = Image[q][n]
    <3>1. q # p /\ process[q].phase = "serving"
      BY <1>9, <2>1
    <3>2. record[n] = Image[q][n] /\ n \in Names /\ Image[q][n] # Unrecorded
      BY <2>1, <3>1, ImageType DEF MigrationIInv, ServesOnlyMigrated
    <3>. QED
      BY <3>2, <1>8
  <2>. QED
    BY <2>1 DEF ServesOnlyMigrated
<1>17. PendingSound'
  <2>1. ASSUME NEW q \in Processes, Applying(process'[q].phase)
        PROVE  q \in Owners /\ Settled(record', q, process'[q].pending)
    <3>1. CASE q = p
      BY <1>2, <1>9, <1>14, <3>1 DEF Settled
    <3>2. CASE q # p
      <4>1. process'[q] = process[q] /\ q \in Owners /\ Settled(record, q, process[q].pending)
        BY <1>9, <2>1, <3>2 DEF MigrationIInv, PendingSound
      <4>2. Settled(record', q, process[q].pending)
        BY <1>13, <4>1 DEF Settled
      <4>. QED
        BY <4>1, <4>2 DEF Settled
    <3>. QED
      BY <3>1, <3>2
  <2>. QED
    BY <2>1 DEF PendingSound
<1>18. OpenSound'
  <2>1. ASSUME NEW q \in Processes, process'[q].phase \in {"begun", "executed"}
        PROVE  /\ process'[q].pending # {}
               /\ process'[q].phase = "executed" => record'[First(process'[q].pending)] = Unrecorded
    <3>1. q # p /\ process'[q] = process[q] /\ process[q].phase \in {"begun", "executed"}
      BY <1>9, <2>1
    <3>2. process[q].pending # {}
      BY <3>1 DEF MigrationIInv, OpenSound
    <3>3. ASSUME process[q].phase = "executed" PROVE record'[First(process[q].pending)] = Unrecorded
      <4>1. process[q].pending \in SUBSET Nat /\ process[q].pending \in SUBSET Names
        BY <1>1, <3>3, ImageType DEF MigrationIInv, PendingSound, Settled, Applying
      <4>2. First(process[q].pending) \in Names
        BY <3>2, <4>1, FirstIn
      <4>3. record[First(process[q].pending)] = Unrecorded
        BY <3>3 DEF MigrationIInv, OpenSound
      <4>4. First(process[q].pending) # m
        BY <1>2, <3>1, <3>3 DEF MigrationIInv, Apart, m
      <4>. QED
        BY <1>7, <4>2, <4>3, <4>4
    <3>. QED
      BY <3>1, <3>2, <3>3
  <2>. QED
    BY <2>1 DEF OpenSound
<1>19. Apart'
  <2>1. ASSUME NEW q \in Processes, process'[q].phase = "executed" PROVE q # p /\ process'[q] = process[q]
    BY <1>9, <2>1
  <2>. QED
    BY <2>1 DEF MigrationIInv, Apart
<1>. QED
  BY <1>11, <1>12, <1>15, <1>16, <1>17, <1>18, <1>19 DEF MigrationIInv

(* Before any process has run the invariant holds. *)
LEMMA InitSound ==
  ASSUME MigrationInit
  PROVE  MigrationIInv
<1>1. \A p \in Processes : process[p].phase = "down"
  BY DEF MigrationInit, Down
<1>2. MigrationTypeOK
  <2>1. Down \in [phase : Phases, pending : SUBSET Names]
    BY DEF Down, Phases
  <2>2. process \in [Processes -> [phase : Phases, pending : SUBSET Names]]
    BY <2>1 DEF MigrationInit
  <2>3. record \in [Names -> Checksums \cup {Unrecorded}] /\ effects \in [Names -> Nat] /\ exists \in BOOLEAN
    BY DEF MigrationInit
  <2>4. stops \in 0 .. MaxStops
    BY MigrationAssumption DEF MigrationInit
  <2>. QED
    BY <2>2, <2>3, <2>4 DEF MigrationTypeOK
<1>3. TakesEffectOnce /\ InOrder
  BY DEF MigrationInit, TakesEffectOnce, InOrder
<1>4. ServesOnlyMigrated /\ PendingSound /\ OpenSound /\ Apart
  BY <1>1 DEF ServesOnlyMigrated, PendingSound, OpenSound, Apart, Applying
<1>. QED
  BY <1>2, <1>3, <1>4 DEF MigrationIInv

(* Every step of a process keeps the invariant. *)
LEMMA NextSound ==
  ASSUME MigrationIInv, [MigrationNext]_migrationVars
  PROVE  MigrationIInv'
<1>. USE DEF Phases
<1>0. exists \in BOOLEAN /\ stops \in 0 .. MaxStops
      /\ process \in [Processes -> [phase : Phases, pending : SUBSET Names]]
      /\ record \in [Names -> Checksums \cup {Unrecorded}]
  BY DEF MigrationIInv, MigrationTypeOK
<1>1. ASSUME NEW p \in Processes, StartUp(p) PROVE MigrationIInv'
  BY <1>0, <1>1, DownSound DEF StartUp
<1>2. ASSUME NEW p \in Processes, ReadRecord(p) PROVE MigrationIInv'
  <2>1. Pending(p) \subseteq DOMAIN Image[p] /\ Pending(p) \in SUBSET Names
    BY ImageType DEF Pending
  <2>2. Settled(record, p, Pending(p))
    BY <1>2, <2>1 DEF ReadRecord, Pending, Contradicted, Settled
  <2>. QED
    BY <1>0, <1>2, <2>1, <2>2, PrivateSound DEF ReadRecord
<1>3. ASSUME NEW p \in Processes, AssertMigrated(p) PROVE MigrationIInv'
  <2>1. \A m \in DOMAIN Image[p] : record[m] = Image[p][m]
    BY <1>3 DEF AssertMigrated, Pending, Contradicted
  <2>2. {} \in SUBSET Names /\ ~Applying("serving")
    BY DEF Applying
  <2>. QED
    BY <1>0, <1>3, <2>1, <2>2, PrivateSound DEF AssertMigrated
<1>4. ASSUME NEW p \in Processes, Refuse(p) PROVE MigrationIInv'
  BY <1>0, <1>4, DownSound DEF Refuse
<1>5. ASSUME NEW p \in Processes, Begin(p) PROVE MigrationIInv'
  <2>1. p \in Owners /\ Settled(record, p, process[p].pending)
    BY <1>5 DEF Begin, MigrationIInv, PendingSound, Applying
  <2>2. process[p].pending \in SUBSET Names
    BY <1>0
  <2>. QED
    BY <1>0, <1>5, <2>1, <2>2, PrivateSound DEF Begin
<1>6. ASSUME NEW p \in Processes, Execute(p) PROVE MigrationIInv'
  <2>1. p \in Owners /\ Settled(record, p, process[p].pending) /\ process[p].pending # {}
    BY <1>6 DEF Execute, MigrationIInv, PendingSound, OpenSound, Applying
  <2>2. process[p].pending \in SUBSET Names
    BY <1>0
  <2>3. \A q \in Processes \ {p} :
          process[q].phase = "executed" => First(process[q].pending) # First(process[p].pending)
    BY <1>6 DEF Execute, Beside
  <2>4. CASE record[First(process[p].pending)] = Unrecorded /\ Enters(p, "executed", process[p].pending)
    BY <1>0, <1>6, <2>1, <2>2, <2>3, <2>4, PrivateSound DEF Execute
  <2>5. CASE Enters(p, "down", {})
    BY <1>0, <1>6, <2>5, DownSound DEF Execute
  <2>. QED
    BY <1>6, <2>4, <2>5 DEF Execute
<1>7. ASSUME NEW p \in Processes, Serve(p) PROVE MigrationIInv'
  <2>1. \A m \in DOMAIN Image[p] : record[m] = Image[p][m]
    BY <1>7 DEF Serve, MigrationIInv, PendingSound, Settled, Applying
  <2>2. {} \in SUBSET Names /\ ~Applying("serving")
    BY DEF Applying
  <2>. QED
    BY <1>0, <1>7, <2>1, <2>2, PrivateSound DEF Serve
<1>8. ASSUME NEW p \in Processes, Stop(p) PROVE MigrationIInv'
  <2>1. stops' \in 0 .. MaxStops
    BY <1>0, <1>8, MigrationAssumption DEF Stop
  <2>. QED
    BY <1>0, <1>8, <2>1, DownSound DEF Stop
<1>9. CASE UNCHANGED migrationVars
  BY <1>9 DEF migrationVars, MigrationIInv, MigrationTypeOK, TakesEffectOnce, InOrder, ServesOnlyMigrated, PendingSound, Settled, OpenSound, Apart
<1>. QED
  BY <1>1, <1>2, <1>3, <1>4, <1>5, <1>6, <1>7, <1>8, <1>9, CommitSound DEF MigrationNext, Proceed

(* The strengthening the theorems below rest on holds throughout. *)
THEOREM MigrationInvariance == MigrationSpec => []MigrationIInv
<1>1. MigrationInit => MigrationIInv
  BY InitSound
<1>2. MigrationIInv /\ [MigrationNext]_migrationVars => MigrationIInv'
  BY NextSound
<1>. QED
  BY <1>1, <1>2, PTL DEF MigrationSpec

(* The record, the processes and the counts keep their types. *)
THEOREM MigrationTypes == MigrationSpec => []MigrationTypeOK
<1>1. MigrationIInv => MigrationTypeOK
  BY DEF MigrationIInv
<1>. QED
  BY <1>1, MigrationInvariance, PTL

(* However processes race and stop, a migration's statements take effect   *)
(* once if it is recorded and never if it is not.                          *)
THEOREM AppliedOnce == MigrationSpec => []TakesEffectOnce
<1>1. MigrationIInv => TakesEffectOnce
  BY DEF MigrationIInv
<1>. QED
  BY <1>1, MigrationInvariance, PTL

(* No migration is recorded before those it was written to follow. *)
THEOREM AppliedInOrder == MigrationSpec => []InOrder
<1>1. MigrationIInv => InOrder
  BY DEF MigrationIInv
<1>. QED
  BY <1>1, MigrationInvariance, PTL

(* A process serves only a database that holds its image's migrations. *)
THEOREM MigratedBeforeServing == MigrationSpec => []ServesOnlyMigrated
<1>1. MigrationIInv => ServesOnlyMigrated
  BY DEF MigrationIInv
<1>. QED
  BY <1>1, MigrationInvariance, PTL

-----------------------------------------------------------------------------
(* Before anything has happened the invariant holds. *)
LEMMA InitIInv == Init => IInv
<1>. SUFFICES ASSUME Init PROVE IInv
  OBVIOUS
<1>1. TypeOK
  <2>1. NotEntering \in Entering
    BY DEF NotEntering, Entering
  <2>. QED
    BY <2>1, TrialAssumption DEF Init, TypeOK, Switching
<1>2. IdsSound /\ LockSound /\ TokensSound /\ AccountsSound
  BY FS_EmptySet DEF Init, IdsSound, SchoolIds, LockSound, Holders, NotEntering, TokensSound, AccountsSound
<1>3. \A b \in Browsers : EntrySound(b)
  BY DEF Init, EntrySound, NotEntering
<1>4. WithinTheCap
  <2>1. {s \in schools : LiveAt(s, clock)} = {} /\ liveCap \in Nat
    BY TrialAssumption DEF Init
  <2>. QED
    BY <2>1, FS_EmptySet DEF WithinTheCap
<1>5. OneTrialEach /\ VisitorsForgotten /\ SessionsNeverFork
  BY DEF Init, OneTrialEach, VisitorsForgotten, SessionsNeverFork
<1>. QED
  BY <1>1, <1>2, <1>3, <1>4, <1>5 DEF IInv

-----------------------------------------------------------------------------
(* The numbers every step compares. *)
LEMMA NumbersTyped ==
  ASSUME TypeOK
  PROVE  /\ clock \in Nat /\ liveCap \in Nat /\ issued \in Nat
         /\ \A s \in schools : s \in School /\ s.id \in Ids /\ s.visitor \in Visitors /\ s.expires \in Nat
         /\ \A s \in sessions : s \in Session /\ s.token \in Nat /\ s.line \in Nat /\ s.token \in Tokens /\ s.line \in Tokens
         /\ \A b \in Browsers : entering[b] \in Entering /\ entering[b].now \in Nat
         /\ Ids \subseteq Nat /\ Tokens \subseteq Nat
BY TrialAssumption DEF TypeOK, School, Session, Entering, Ids, Tokens

(* A step that touches no row and no clock keeps the invariant, if it leaves *)
(* the start lock with one holder and what each entry decided sound.         *)
LEMMA RowsKept ==
  ASSUME IInv, TypeOK', UNCHANGED <<clock, liveCap, rows>>, LockSound', \A b \in Browsers : EntrySound(b)'
  PROVE  IInv'
BY DEF IInv, rows, IdsSound, SchoolIds, TokensSound, AccountsSound, WithinTheCap, LiveAt, OneTrialEach,
       VisitorsForgotten, SessionsNeverFork

(* The holders of the start lock stay its holders, and their decisions sound. *)
LEMMA EntriesKept ==
  ASSUME IInv, UNCHANGED <<clock, liveCap, rows, entering>>
  PROVE  LockSound' /\ \A b \in Browsers : EntrySound(b)'
BY DEF IInv, rows, LockSound, Holders, EntrySound, LiveAt

(* What a browser holds: a Session's token, and the state of a sign-in begun. *)
Cookies == [session : Tokens \cup {None}, state : 1 .. MaxFlows \cup {None}, lapses : Nat]

(* The flow cookie ended leaves a browser with a Session's cookie or none. *)
LEMMA FlowEndedTyped ==
  ASSUME TypeOK, NEW b \in Browsers
  PROVE  FlowEnded(b) \in [Browsers -> Cookies]
<1>. DEFINE new == [jar[b] EXCEPT !.state = None, !.lapses = 0]
<1>1. FlowEnded(b) = [jar EXCEPT ![b] = new] /\ jar \in [Browsers -> Cookies]
  BY DEF TypeOK, FlowEnded, Cookies
<1>2. new \in Cookies
  BY <1>1 DEF Cookies
<1>. HIDE DEF new
<1>. QED
  BY <1>1, <1>2

(* Leaving for a provider and coming back with nothing change a browser's *)
(* cookies alone.                                                         *)
LEMMA BeginSignInIInv ==
  ASSUME IInv, NEW b \in Browsers, BeginSignIn(b)
  PROVE  IInv'
<1>1. TypeOK'
  <2>1. begun + 1 \in 1 .. MaxFlows /\ clock + FLOW_LIFETIME \in Nat
    BY NumbersTyped, TrialAssumption DEF IInv, TypeOK, BeginSignIn
  <2>2. begun' \in 0 .. MaxFlows /\ jar' \in [Browsers -> Cookies]
    <3>. DEFINE new == [jar[b] EXCEPT !.state = begun + 1, !.lapses = clock + FLOW_LIFETIME]
    <3>1. jar' = [jar EXCEPT ![b] = new] /\ jar \in [Browsers -> Cookies]
      BY DEF IInv, TypeOK, BeginSignIn, Cookies
    <3>2. new \in Cookies
      BY <2>1, <3>1 DEF Cookies
    <3>3. begun' \in 0 .. MaxFlows
      BY <2>1, TrialAssumption DEF IInv, TypeOK, BeginSignIn
    <3>. HIDE DEF new
    <3>. QED
      BY <3>1, <3>2, <3>3
  <2>3. abroad' \in SUBSET [from : Browsers, state : 1 .. MaxFlows]
    BY <2>1 DEF IInv, TypeOK, BeginSignIn
  <2>. QED
    BY <2>2, <2>3 DEF IInv, TypeOK, BeginSignIn, rows, Cookies
<1>. QED
  BY <1>1, RowsKept, EntriesKept DEF BeginSignIn

(* The redirect that proves nothing. *)
LEMMA TurnedBackIInv ==
  ASSUME IInv, NEW b \in Browsers, TurnedBack(b)
  PROVE  IInv'
<1>1. FlowEnded(b) \in [Browsers -> Cookies]
  BY FlowEndedTyped DEF IInv
<1>2. TypeOK'
  BY <1>1 DEF IInv, TypeOK, TurnedBack, Cookies, rows
<1>. QED
  BY <1>2, RowsKept, EntriesKept DEF TurnedBack

(* The redirect that proves an identity begins a transaction, without the lock. *)
LEMMA ProvenIInv ==
  ASSUME IInv, NEW b \in Browsers, NEW v \in Visitors, Proven(b, v)
  PROVE  IInv'
<1>. DEFINE new == [NotEntering EXCEPT !.phase = "waiting", !.visitor = v, !.now = clock]
<1>1. /\ entering' = [entering EXCEPT ![b] = new] /\ abroad' \subseteq abroad
      /\ UNCHANGED <<clock, liveCap, rows, jar, begun, switching, answers>>
  BY DEF Proven
<1>2. /\ new.phase = "waiting" /\ new.visitor = v /\ new.now = clock
      /\ new \in Entering
  BY NumbersTyped DEF NotEntering, Entering, IInv
<1>. HIDE DEF new
<1>3. entering \in [Browsers -> Entering] /\ clock \in Nat
  BY NumbersTyped DEF IInv, TypeOK
<1>4. TypeOK'
  BY <1>1, <1>2, <1>3 DEF IInv, TypeOK, rows
<1>5. LockSound'
  BY <1>1, <1>2, <1>3 DEF IInv, LockSound, Holders
<1>6. ASSUME NEW c \in Browsers PROVE EntrySound(c)'
  <2>1. CASE c = b
    <3>1. entering'[c] = new /\ clock' = clock
      BY <1>1, <1>3, <2>1
    <3>. QED
      BY <1>2, <1>3, <3>1 DEF EntrySound
  <2>2. CASE c # b
    BY <1>1, <1>3, <2>2 DEF IInv, EntrySound, LiveAt, rows
  <2>. QED
    BY <2>1, <2>2
<1>. QED
  BY <1>1, <1>4, <1>5, <1>6, RowsKept

(* What is decided of a visitor names a School of theirs that is live, and *)
(* starts one only when they have none and there is room.                  *)
LEMMA DecidedSound ==
  ASSUME IInv, NEW v \in Visitors, NEW now \in Nat
  PROVE  /\ Decided(v, now) \in Ids \cup {Start, Busy}
         /\ Decided(v, now) = Start =>
              /\ \A s \in schools : LiveAt(s, now) => s.visitor # v
              /\ Cardinality({s \in schools : LiveAt(s, now)}) < liveCap
<1>. DEFINE left == {s \in schools : LiveAt(s, now)}
            theirs == {s \in left : s.visitor = v}
<1>1. Cardinality(left) \in Nat /\ liveCap \in Nat
  <2>1. IsFiniteSet(left)
    BY FS_Subset DEF IInv, IdsSound
  <2>. QED
    BY <2>1, FS_CardinalityType, NumbersTyped DEF IInv
<1>2. CASE theirs # {}
  <2>1. (CHOOSE s \in theirs : TRUE) \in theirs
    BY <1>2
  <2>2. PICK s \in schools : Decided(v, now) = s.id
    BY <1>2, <2>1 DEF Decided
  <2>3. Decided(v, now) \in Ids /\ Decided(v, now) \in Nat
    BY <2>2, NumbersTyped DEF IInv
  <2>. QED
    BY <2>3, TrialAssumption
<1>3. CASE theirs = {}
  <2>1. Decided(v, now) = IF Cardinality(left) >= liveCap THEN Busy ELSE Start
    BY <1>3 DEF Decided
  <2>. QED
    BY <1>1, <1>3, <2>1, TrialAssumption
<1>. QED
  BY <1>2, <1>3

(* The start lock taken, the expired named and the outcome decided. *)
LEMMA EnterTrialSchoolIInv ==
  ASSUME IInv, NEW b \in Browsers, EnterTrialSchool(b)
  PROVE  IInv'
<1>. DEFINE e == entering[b]
            outcome == Decided(e.visitor, e.now)
            new == [e EXCEPT !.phase = "deciding", !.doomed = ExpiredIds(e.now), !.outcome = outcome]
<1>1. /\ e.phase = "waiting" /\ Holders = {} /\ e \in Entering /\ entering \in [Browsers -> Entering]
      /\ e.visitor \in Visitors /\ e.now \in Nat /\ e.now <= clock
      /\ UNCHANGED <<clock, liveCap, rows, jar, begun, abroad, switching, answers>>
  BY NumbersTyped DEF IInv, TypeOK, EnterTrialSchool, LockFree, EntrySound
<1>2. entering' = [entering EXCEPT ![b] = new]
  BY <1>1 DEF EnterTrialSchool
<1>3. /\ outcome \in Ids \cup {Start, Busy}
      /\ outcome = Start =>
           /\ \A s \in schools : LiveAt(s, e.now) => s.visitor # e.visitor
           /\ Cardinality({s \in schools : LiveAt(s, e.now)}) < liveCap
  BY <1>1, DecidedSound
<1>4. ExpiredIds(e.now) \in SUBSET Ids /\ \A s \in schools : s.id \in ExpiredIds(e.now) <=> ~LiveAt(s, e.now)
  BY NumbersTyped DEF ExpiredIds, IInv, IdsSound
<1>5. /\ new.phase = "deciding" /\ new.visitor = e.visitor /\ new.now = e.now
      /\ new.doomed = ExpiredIds(e.now) /\ new.outcome = outcome /\ new \in Entering
  <2>. HIDE DEF outcome
  <2>. QED
    BY <1>1, <1>3, <1>4 DEF Entering
<1>. HIDE DEF new, outcome
<1>6. TypeOK'
  BY <1>1, <1>2, <1>5 DEF IInv, TypeOK, rows
<1>7. LockSound'
  BY <1>1, <1>2 DEF LockSound, Holders
<1>8. ASSUME NEW c \in Browsers PROVE EntrySound(c)'
  <2>1. CASE c = b
    <3>1. entering'[b] = new /\ schools' = schools /\ liveCap' = liveCap /\ clock' = clock
      BY <1>1, <1>2 DEF rows
    <3>. QED
      BY <1>1, <1>3, <1>4, <1>5, <2>1, <3>1 DEF EntrySound, LiveAt
  <2>2. CASE c # b
    BY <1>1, <1>2, <2>2 DEF IInv, EntrySound, LiveAt, rows
  <2>. QED
    BY <2>1, <2>2
<1>. QED
  BY <1>1, <1>6, <1>7, <1>8, RowsKept

(* A transaction lost gives the lock back, and its School, if any, was none. *)
LEMMA LoseEntryIInv ==
  ASSUME IInv, NEW b \in Browsers, LoseEntry(b)
  PROVE  IInv'
<1>1. /\ entering' = [entering EXCEPT ![b] = NotEntering] /\ entering \in [Browsers -> Entering]
      /\ UNCHANGED <<clock, liveCap, rows, jar, begun, abroad, switching, answers>>
  BY DEF LoseEntry, IInv, TypeOK
<1>2. NotEntering \in Entering /\ NotEntering.phase = "none"
  BY DEF NotEntering, Entering
<1>3. TypeOK'
  BY <1>1, <1>2 DEF IInv, TypeOK, rows
<1>4. LockSound'
  BY <1>1, <1>2 DEF IInv, LockSound, Holders
<1>5. ASSUME NEW c \in Browsers PROVE EntrySound(c)'
  BY <1>1, <1>2 DEF IInv, EntrySound, LiveAt, rows
<1>. QED
  BY <1>1, <1>3, <1>4, <1>5, RowsKept

(* A change of role looked up. *)
LEMMA SwitchRoleIInv ==
  ASSUME IInv, NEW b \in Browsers, NEW role \in ROLES, SwitchRole(b, role)
  PROVE  IInv'
<1>1. PICK s \in Authenticated(b) :
        /\ s.account \notin Guests
        /\ switching' = [switching EXCEPT ![b] =
             [token |-> s.token, target |-> [school |-> s.account.school, role |-> role]]]
        /\ UNCHANGED <<clock, liveCap, rows, jar, begun, abroad, entering, answers>>
  BY DEF SwitchRole
<1>2. s.token \in Tokens /\ s.account \in RoleAccounts
  BY <1>1 DEF Authenticated, Presented, IInv, TypeOK, Session
<1>3. [school |-> s.account.school, role |-> role] \in RoleAccounts
  BY <1>2 DEF RoleAccounts
<1>4. TypeOK'
  BY <1>1, <1>2, <1>3 DEF IInv, TypeOK, Switching, rows
<1>. QED
  BY <1>1, <1>4, RowsKept, EntriesKept

(* An answer that reaches its browser. *)
LEMMA DeliverIInv ==
  ASSUME IInv, NEW a \in answers, Deliver(a)
  PROVE  IInv'
<1>1. a \in Answer
  BY DEF IInv, TypeOK
<1>2. TypeOK'
  BY <1>1 DEF IInv, TypeOK, Deliver, Answer, rows
<1>. QED
  BY <1>2, RowsKept, EntriesKept DEF Deliver

-----------------------------------------------------------------------------
(* A step that touches Sessions and accounts alone, and no School, clock or  *)
(* entry, keeps what bounds the Trial Schools.                               *)
LEMMA SchoolsKept ==
  ASSUME IInv, TypeOK', UNCHANGED <<clock, liveCap, schools, started, visitors, entering>>,
         TokensSound', AccountsSound', SessionsNeverFork'
  PROVE  IInv'
BY DEF IInv, IdsSound, SchoolIds, LockSound, Holders, EntrySound, WithinTheCap, LiveAt, OneTrialEach, VisitorsForgotten

(* A Session added to some that remain has a token no other has.  It keeps   *)
(* its line to itself: the line of its own token, or that of a Session that  *)
(* went as it came.                                                          *)
LEMMA SessionAdded ==
  ASSUME IInv, NEW S \in SUBSET sessions, NEW account, NEW line,
         issued < MaxSessions, issued' = issued + 1, ended' = ended,
         account \in RoleAccounts \cup Guests,
         line = issued + 1 \/ \E s \in sessions : s \notin S /\ line = s.line,
         sessions' = S \cup {NewSession(account, line)}
  PROVE  /\ sessions' \in SUBSET Session /\ issued' \in 0 .. MaxSessions
         /\ issued + 1 \in Tokens
         /\ TokensSound' /\ SessionsNeverFork'
         /\ \A s \in sessions' : s \in S \/ s.account = account
<1>. DEFINE new == NewSession(account, line)
<1>1. /\ issued \in Nat /\ clock + SESSION_LIFETIME \in Nat /\ issued + 1 \in Tokens
      /\ \A s \in sessions : s \in Session /\ s.token \in Nat /\ s.line \in Nat /\ s.line \in Tokens
      /\ \A l \in ended : l \in Nat
  BY NumbersTyped, TrialAssumption DEF IInv, TypeOK, Tokens
<1>2. /\ \A s, t \in sessions : s.token = t.token => s = t
      /\ \A s \in sessions : s.token <= issued /\ s.line <= issued
      /\ \A l \in ended : l <= issued
      /\ \A s, t \in sessions : s.line = t.line => s = t
      /\ \A s \in sessions : s.line \notin ended
  BY DEF IInv, TokensSound, SessionsNeverFork
<1>3. line \in Tokens /\ line \in Nat /\ line <= issued + 1 /\ line \notin ended
      /\ \A s \in S : s.line # line
  BY <1>1, <1>2
<1>4. new \in Session /\ new.token = issued + 1 /\ new.line = line /\ new.account = account
  BY <1>1, <1>3 DEF NewSession, Session
<1>5. sessions' = S \cup {new}
  OBVIOUS
<1>. HIDE DEF new
<1>6. sessions' \in SUBSET Session /\ issued' \in 0 .. MaxSessions
  BY <1>1, <1>4, <1>5, TrialAssumption DEF Tokens
<1>7. TokensSound'
  <2>1. \A s, t \in sessions' : s.token = t.token => s = t
    BY <1>1, <1>2, <1>4, <1>5
  <2>2. \A s \in sessions' : s.token <= issued' /\ s.line <= issued'
    BY <1>1, <1>2, <1>3, <1>4, <1>5
  <2>3. \A l \in ended' : l <= issued'
    BY <1>1, <1>2
  <2>. QED
    BY <2>1, <2>2, <2>3 DEF TokensSound
<1>8. SessionsNeverFork'
  <2>1. \A s, t \in sessions' : s.line = t.line => s = t
    BY <1>2, <1>3, <1>4, <1>5
  <2>2. \A s \in sessions' : s.line \notin ended'
    BY <1>2, <1>3, <1>4, <1>5
  <2>. QED
    BY <2>1, <2>2 DEF SessionsNeverFork
<1>. QED
  BY <1>1, <1>4, <1>5, <1>6, <1>7, <1>8

(* A change of role replaces the Session: it goes, and the one that comes has *)
(* its line.                                                                 *)
LEMMA ReplaceSessionIInv ==
  ASSUME IInv, NEW b \in Browsers, ReplaceSession(b)
  PROVE  IInv'
<1>1. /\ switching' = [switching EXCEPT ![b] = NotSwitching] /\ switching' \in [Browsers -> Switching]
      /\ switching[b] \in Switching /\ switching[b] # NotSwitching
      /\ UNCHANGED <<clock, liveCap, jar, begun, abroad, entering>>
  BY DEF ReplaceSession, IInv, TypeOK, Switching
<1>2. CASE UNCHANGED <<rows, answers>>
  <2>1. TypeOK'
    BY <1>1, <1>2 DEF IInv, TypeOK, rows
  <2>. QED
    BY <1>1, <1>2, <2>1, RowsKept, EntriesKept
<1>3. CASE \E s \in Replaceable(b) :
          /\ issued < MaxSessions
          /\ sessions' = (sessions \ {s}) \cup {NewSession(switching[b].target, s.line)}
          /\ issued' = issued + 1
          /\ answers' = answers \cup {SetCookie(b, issued + 1)}
          /\ UNCHANGED <<schools, started, visitors, guest, ended>>
  <2>1. PICK s \in sessions :
          /\ issued < MaxSessions
          /\ sessions' = (sessions \ {s}) \cup {NewSession(switching[b].target, s.line)}
          /\ issued' = issued + 1
          /\ answers' = answers \cup {SetCookie(b, issued + 1)}
          /\ UNCHANGED <<schools, started, visitors, guest, ended>>
    BY <1>3 DEF Replaceable
  <2>2. switching[b].target \in RoleAccounts /\ switching[b].target \notin Guests
    BY <1>1, NoneIsNoAccount DEF Switching
  <2>3. /\ sessions' \in SUBSET Session /\ issued' \in 0 .. MaxSessions
        /\ issued + 1 \in Tokens
        /\ TokensSound' /\ SessionsNeverFork'
        /\ \A t \in sessions' : t \in sessions \ {s} \/ t.account = switching[b].target
    <3>. DEFINE S == sessions \ {s}
                target == switching[b].target
    <3>1. /\ S \in SUBSET sessions /\ s \in sessions /\ s \notin S
          /\ issued < MaxSessions /\ issued' = issued + 1 /\ ended' = ended
          /\ target \in RoleAccounts \cup Guests
          /\ sessions' = S \cup {NewSession(target, s.line)}
      BY <2>1, <2>2
    <3>. HIDE DEF S, target
    <3>2. /\ sessions' \in SUBSET Session /\ issued' \in 0 .. MaxSessions
          /\ issued + 1 \in Tokens
          /\ TokensSound' /\ SessionsNeverFork'
          /\ \A t \in sessions' : t \in S \/ t.account = target
      BY <3>1, SessionAdded
    <3>. QED
      BY <3>2 DEF S, target
  <2>4. answers' \in SUBSET Answer
    BY <2>1, <2>3 DEF IInv, TypeOK, Answer, SetCookie
  <2>5. TypeOK'
    BY <1>1, <2>1, <2>3, <2>4 DEF IInv, TypeOK
  <2>6. AccountsSound'
    BY <2>1, <2>2, <2>3 DEF IInv, AccountsSound
  <2>. QED
    BY <1>1, <2>1, <2>3, <2>5, <2>6, SchoolsKept
<1>. QED
  BY <1>2, <1>3 DEF ReplaceSession

(* Sign-out ends Sessions and, with each, its line. *)
LEMMA SignOutIInv ==
  ASSUME IInv, NEW b \in Browsers, SignOut(b)
  PROVE  IInv'
<1>1. PICK live \in SUBSET sessions :
        /\ sessions' = sessions \ live
        /\ ended' = ended \cup {s.line : s \in live}
        /\ answers' = answers \cup {SetCookie(b, None)}
        /\ UNCHANGED <<clock, liveCap, schools, started, visitors, guest, issued,
                       jar, begun, abroad, entering, switching>>
  <2>1. {s \in Presented(b) : s.expires > clock} \in SUBSET sessions
    BY DEF Presented
  <2>. QED
    BY <2>1 DEF SignOut
<1>2. TypeOK'
  <2>1. answers' \in SUBSET Answer
    BY <1>1 DEF IInv, TypeOK, Answer, SetCookie
  <2>2. ended' \in SUBSET Tokens
    BY <1>1, NumbersTyped DEF IInv, TypeOK
  <2>. QED
    BY <1>1, <2>1, <2>2 DEF IInv, TypeOK
<1>3. TokensSound' /\ SessionsNeverFork' /\ AccountsSound'
  BY <1>1 DEF IInv, TokensSound, SessionsNeverFork, AccountsSound
<1>. QED
  BY <1>1, <1>2, <1>3, SchoolsKept

(* A Session started with a line of its own, for a Guest who has an account. *)
LEMMA SessionStarted ==
  ASSUME IInv, NEW b \in Browsers, NEW g \in Guests, StartSession(b, g),
         guest' \in [Guests -> GuestAccount \cup {None}], guest'[g] # None,
         \A h \in Guests : guest[h] # None => guest'[h] # None,
         UNCHANGED <<clock, liveCap, schools, started, visitors, ended, jar, begun, abroad, entering, switching>>
  PROVE  IInv'
<1>1. /\ sessions' \in SUBSET Session /\ issued' \in 0 .. MaxSessions
      /\ issued + 1 \in Tokens
      /\ TokensSound' /\ SessionsNeverFork'
      /\ \A s \in sessions' : s \in sessions \/ s.account = g
  <2>1. /\ sessions \in SUBSET sessions /\ g \in RoleAccounts \cup Guests
        /\ issued < MaxSessions /\ issued' = issued + 1 /\ ended' = ended
        /\ sessions' = sessions \cup {NewSession(g, issued + 1)}
    BY DEF StartSession
  <2>. QED
    BY <2>1, SessionAdded
<1>2. answers' \in SUBSET Answer
  BY <1>1 DEF IInv, TypeOK, Answer, SetCookie, StartSession
<1>3. TypeOK'
  BY <1>1, <1>2 DEF IInv, TypeOK
<1>4. AccountsSound'
  BY <1>1 DEF IInv, AccountsSound
<1>. QED
  BY <1>1, <1>3, <1>4, SchoolsKept

(* An Invitation redeemed with a new account. *)
LEMMA RedeemWithNewAccountIInv ==
  ASSUME IInv, NEW b \in Browsers, NEW g \in Guests, NEW i \in Ids, RedeemWithNewAccount(b, g, i)
  PROVE  IInv'
<1>. DEFINE new == [createdIn |-> i, persons |-> {i}, born |-> i]
<1>1. /\ guest' = [guest EXCEPT ![g] = new] /\ StartSession(b, g)
      /\ guest \in [Guests -> GuestAccount \cup {None}]
      /\ UNCHANGED <<clock, liveCap, schools, started, visitors, ended, jar, begun, abroad, entering, switching>>
  BY DEF RedeemWithNewAccount, IInv, TypeOK
<1>2. new \in GuestAccount /\ new # None
  BY NoneIsNoAccount DEF GuestAccount
<1>. HIDE DEF new
<1>3. /\ guest' \in [Guests -> GuestAccount \cup {None}] /\ guest'[g] # None
      /\ \A h \in Guests : guest[h] # None => guest'[h] # None
  BY <1>1, <1>2
<1>. QED
  BY <1>1, <1>3, SessionStarted

(* A sign-in with credentials. *)
LEMMA SignInIInv ==
  ASSUME IInv, NEW b \in Browsers, NEW g \in Guests, SignIn(b, g)
  PROVE  IInv'
<1>1. /\ guest' = guest /\ guest[g] # None /\ guest \in [Guests -> GuestAccount \cup {None}] /\ StartSession(b, g)
      /\ UNCHANGED <<clock, liveCap, schools, started, visitors, ended, jar, begun, abroad, entering, switching>>
  BY DEF SignIn, IInv, TypeOK
<1>. QED
  BY <1>1, SessionStarted

(* An Invitation redeemed as the account signed in, which is still there. *)
LEMMA RedeemSignedInIInv ==
  ASSUME IInv, NEW b \in Browsers, NEW i \in Ids, RedeemSignedIn(b, i)
  PROVE  IInv'
<1>1. PICK s \in sessions :
        /\ s.account \in Guests
        /\ guest' = [guest EXCEPT ![s.account].persons = @ \cup {i}]
        /\ UNCHANGED <<clock, liveCap, schools, started, visitors, sessions, issued, ended,
                       jar, begun, abroad, entering, switching, answers>>
  BY DEF RedeemSignedIn, Authenticated, Presented
<1>. DEFINE new == [guest[s.account] EXCEPT !.persons = @ \cup {i}]
<1>2. guest[s.account] \in GuestAccount
  BY <1>1 DEF IInv, TypeOK, AccountsSound
<1>3. new \in GuestAccount /\ new # None
  BY <1>2, NoneIsNoAccount DEF GuestAccount
<1>4. guest' = [guest EXCEPT ![s.account] = new] /\ guest \in [Guests -> GuestAccount \cup {None}]
  BY <1>1 DEF IInv, TypeOK
<1>. HIDE DEF new
<1>5. /\ guest' \in [Guests -> GuestAccount \cup {None}]
      /\ \A h \in Guests : guest[h] # None => guest'[h] # None
  BY <1>1, <1>3, <1>4
<1>6. TypeOK'
  BY <1>1, <1>5 DEF IInv, TypeOK
<1>7. TokensSound' /\ SessionsNeverFork' /\ AccountsSound'
  BY <1>1, <1>5 DEF IInv, TokensSound, SessionsNeverFork, AccountsSound
<1>. QED
  BY <1>1, <1>6, <1>7, SchoolsKept

-----------------------------------------------------------------------------
(* Of Schools, some are no more than all, at whatever time they are counted. *)
LEMMA SomeSchools ==
  ASSUME IInv, NEW S \in SUBSET schools, NEW now
  PROVE  /\ IsFiniteSet(S)
         /\ IsFiniteSet({s \in schools : LiveAt(s, now)}) /\ IsFiniteSet({s \in S : LiveAt(s, now)})
         /\ Cardinality({s \in schools : LiveAt(s, now)}) \in Nat
         /\ Cardinality({s \in S : LiveAt(s, now)}) \in Nat
         /\ Cardinality({s \in S : LiveAt(s, now)}) <= Cardinality({s \in schools : LiveAt(s, now)})
<1>1. IsFiniteSet(schools)
  BY DEF IInv, IdsSound
<1>2. {s \in S : LiveAt(s, now)} \in SUBSET {s \in schools : LiveAt(s, now)}
  OBVIOUS
<1>3. IsFiniteSet(S) /\ IsFiniteSet({s \in schools : LiveAt(s, now)})
  BY <1>1, FS_Subset
<1>. QED
  BY <1>2, <1>3, FS_Subset, FS_CardinalityType

(* A deletion leaves well-formed accounts, fewer Schools, exactly the visitors *)
(* whose Schools remain, and no Session whose account it deletes.             *)
LEMMA Deleting ==
  ASSUME IInv, NEW gone \in SUBSET Ids
  PROVE  /\ GuestAfter(gone) \in [Guests -> GuestAccount \cup {None}]
         /\ SchoolsAfter(gone) \in SUBSET schools
         /\ VisitorsAfter(gone) = {s.visitor : s \in SchoolsAfter(gone)}
         /\ SessionsAfter(gone) \in SUBSET sessions
         /\ \A s \in SessionsAfter(gone) : s.account \in Guests => GuestAfter(gone)[s.account] # None
<1>1. GuestAfter(gone) \in [Guests -> GuestAccount \cup {None}]
  <2>1. SUFFICES ASSUME NEW g \in Guests
                 PROVE  GuestAfter(gone)[g] \in GuestAccount \cup {None}
    BY DEF GuestAfter
  <2>2. CASE guest[g] = None \/ GoesWith(guest[g], gone)
    BY <2>2 DEF GuestAfter
  <2>3. CASE ~(guest[g] = None \/ GoesWith(guest[g], gone))
    <3>. DEFINE account == guest[g]
                left == [account EXCEPT !.persons = @ \ gone,
                                        !.createdIn = IF @ \in gone THEN None ELSE @]
    <3>1. account \in GuestAccount
      BY <2>3 DEF IInv, TypeOK
    <3>2. left \in GuestAccount
      BY <3>1 DEF GuestAccount
    <3>3. GuestAfter(gone)[g] = left
      BY <2>3 DEF GuestAfter
    <3>. QED
      BY <3>2, <3>3
  <2>. QED
    BY <2>2, <2>3
<1>2. SchoolsAfter(gone) \in SUBSET schools
  BY DEF SchoolsAfter
<1>3. VisitorsAfter(gone) = {s.visitor : s \in SchoolsAfter(gone)}
  BY <1>2 DEF VisitorsAfter, IInv, VisitorsForgotten
<1>4. SessionsAfter(gone) \in SUBSET sessions
  BY DEF SessionsAfter
<1>5. \A s \in SessionsAfter(gone) : s.account \in Guests => GuestAfter(gone)[s.account] # None
  BY DEF SessionsAfter, Cascaded
<1>. QED
  BY <1>1, <1>2, <1>3, <1>4, <1>5

(* Schools that only go keep the invariant, the decision of whoever holds the *)
(* start lock included: a count that left room leaves no less.               *)
LEMMA SchoolsGone ==
  ASSUME IInv, TypeOK', UNCHANGED <<clock, liveCap, started>>, schools' \in SUBSET schools,
         visitors' = {s.visitor : s \in schools'},
         TokensSound', AccountsSound', SessionsNeverFork',
         \A b \in Browsers : entering'[b] = entering[b] \/ entering'[b].phase = "none"
  PROVE  IInv'
<1>1. /\ \A now \in Nat : /\ Cardinality({s \in schools : LiveAt(s, now)}) \in Nat
                          /\ Cardinality({s \in schools' : LiveAt(s, now)}) \in Nat
                          /\ Cardinality({s \in schools' : LiveAt(s, now)})
                               <= Cardinality({s \in schools : LiveAt(s, now)})
      /\ IsFiniteSet(schools')
  BY SomeSchools
<1>2. clock \in Nat /\ liveCap \in Nat /\ \A b \in Browsers : entering[b].now \in Nat
  BY NumbersTyped DEF IInv
<1>3. IdsSound'
  BY <1>1 DEF IInv, IdsSound, SchoolIds
<1>4. LockSound'
  BY DEF IInv, LockSound, Holders
<1>5. ASSUME NEW b \in Browsers PROVE EntrySound(b)'
  <2>1. CASE entering'[b].phase = "none"
    BY <2>1 DEF EntrySound
  <2>2. CASE entering'[b] = entering[b]
    <3>. DEFINE e == entering[b]
    <3>1. e.phase # "none" => e.visitor \in Visitors /\ e.now <= clock
      BY DEF IInv, EntrySound
    <3>2. ASSUME e.phase = "deciding"
          PROVE  /\ \A s \in schools' : s.id \in e.doomed <=> ~LiveAt(s, e.now)
                 /\ e.outcome = Start =>
                      /\ \A s \in schools' : LiveAt(s, e.now) => s.visitor # e.visitor
                      /\ Cardinality({s \in schools' : LiveAt(s, e.now)}) < liveCap
      <4>1. /\ \A s \in schools : s.id \in e.doomed <=> ~LiveAt(s, e.now)
            /\ e.outcome = Start =>
                 /\ \A s \in schools : LiveAt(s, e.now) => s.visitor # e.visitor
                 /\ Cardinality({s \in schools : LiveAt(s, e.now)}) < liveCap
        BY <3>2 DEF IInv, EntrySound
      <4>2. /\ Cardinality({s \in schools : LiveAt(s, e.now)}) \in Nat
            /\ Cardinality({s \in schools' : LiveAt(s, e.now)}) \in Nat
            /\ Cardinality({s \in schools' : LiveAt(s, e.now)})
                 <= Cardinality({s \in schools : LiveAt(s, e.now)})
        BY <1>1, <1>2
      <4>. QED
        BY <1>2, <4>1, <4>2
    <3>. QED
      BY <2>2, <3>1, <3>2 DEF EntrySound, LiveAt
  <2>. QED
    BY <2>1, <2>2
<1>6. WithinTheCap'
  <2>1. Cardinality({s \in schools : LiveAt(s, clock)}) <= liveCap
    BY DEF IInv, WithinTheCap
  <2>2. Cardinality({s \in schools' : LiveAt(s, clock)}) <= liveCap
    <3>1. /\ Cardinality({s \in schools : LiveAt(s, clock)}) \in Nat
          /\ Cardinality({s \in schools' : LiveAt(s, clock)}) \in Nat
          /\ Cardinality({s \in schools' : LiveAt(s, clock)})
               <= Cardinality({s \in schools : LiveAt(s, clock)})
      BY <1>1, <1>2
    <3>. QED
      BY <1>2, <2>1, <3>1
  <2>. QED
    BY <2>2 DEF WithinTheCap, LiveAt
<1>7. OneTrialEach' /\ VisitorsForgotten'
  BY DEF IInv, OneTrialEach, VisitorsForgotten
<1>. QED
  BY <1>3, <1>4, <1>5, <1>6, <1>7 DEF IInv

(* The Sessions that a deletion leaves keep their tokens and lines. *)
LEMMA SessionsLeft ==
  ASSUME IInv, sessions' \in SUBSET sessions, UNCHANGED <<issued, ended>>
  PROVE  TokensSound' /\ SessionsNeverFork'
BY DEF IInv, TokensSound, SessionsNeverFork

(* The daily run. *)
LEMMA SweepIInv ==
  ASSUME IInv, Sweep
  PROVE  IInv'
<1>. DEFINE gone == ExpiredIds(clock)
<1>1. gone \in SUBSET Ids
  BY NumbersTyped DEF ExpiredIds, IInv
<1>2. /\ guest' = GuestAfter(gone) /\ schools' = SchoolsAfter(gone)
      /\ visitors' = VisitorsAfter(gone) /\ sessions' = SessionsAfter(gone)
      /\ UNCHANGED <<clock, liveCap, started, issued, ended, jar, begun, abroad, entering, switching, answers>>
  BY DEF Sweep, Delete
<1>. HIDE DEF gone
<1>3. /\ guest' \in [Guests -> GuestAccount \cup {None}]
      /\ schools' \in SUBSET schools /\ visitors' = {s.visitor : s \in schools'}
      /\ sessions' \in SUBSET sessions
      /\ \A s \in sessions' : s.account \in Guests => guest'[s.account] # None
  BY <1>1, <1>2, Deleting
<1>4. visitors' \in SUBSET Visitors
  BY <1>3, NumbersTyped DEF IInv
<1>5. TypeOK'
  BY <1>2, <1>3, <1>4 DEF IInv, TypeOK
<1>6. TokensSound' /\ SessionsNeverFork'
  BY <1>2, <1>3, SessionsLeft
<1>7. AccountsSound'
  BY <1>3 DEF AccountsSound
<1>. QED
  BY <1>2, <1>3, <1>5, <1>6, <1>7, SchoolsGone

(* Time: fewer Schools are live. *)
LEMMA TickIInv ==
  ASSUME IInv, Tick
  PROVE  IInv'
<1>1. clock' = clock + 1 /\ clock \in Nat /\ liveCap \in Nat /\ clock' \in 0 .. MaxTime
      /\ UNCHANGED <<liveCap, rows, jar, begun, abroad, entering, switching, answers>>
  BY NumbersTyped, TrialAssumption DEF IInv, TypeOK, Tick
<1>2. TypeOK'
  BY <1>1 DEF IInv, TypeOK, rows
<1>3. LockSound' /\ \A b \in Browsers : EntrySound(b)'
  <2>1. LockSound'
    BY <1>1 DEF IInv, LockSound, Holders
  <2>2. ASSUME NEW b \in Browsers PROVE EntrySound(b)'
    <3>1. entering[b].now \in Nat /\ EntrySound(b)
      BY NumbersTyped DEF IInv
    <3>2. schools' = schools
      BY <1>1 DEF rows
    <3>. QED
      BY <1>1, <3>1, <3>2 DEF EntrySound, LiveAt
  <2>. QED
    BY <2>1, <2>2
<1>4. WithinTheCap'
  <2>. DEFINE before == {s \in schools : LiveAt(s, clock)}
              after == {s \in schools : LiveAt(s, clock + 1)}
  <2>1. \A s \in schools : s.expires \in Nat
    BY NumbersTyped DEF IInv
  <2>2. after \in SUBSET before
    BY <1>1, <2>1 DEF LiveAt
  <2>3. IsFiniteSet(before) /\ Cardinality(before) <= liveCap
    BY SomeSchools DEF IInv, WithinTheCap
  <2>4. Cardinality(after) <= liveCap
    <3>. HIDE DEF before, after
    <3>. QED
      BY <1>1, <2>2, <2>3, FS_Subset, FS_CardinalityType
  <2>5. {s \in schools' : LiveAt(s, clock')} = after
    BY <1>1 DEF rows
  <2>. QED
    BY <1>1, <2>4, <2>5 DEF WithinTheCap, LiveAt
<1>. QED
  BY <1>1, <1>2, <1>3, <1>4 DEF IInv, rows, IdsSound, SchoolIds, TokensSound, AccountsSound, OneTrialEach,
       VisitorsForgotten, SessionsNeverFork

(* A School started where those left at the moment it was decided have room: *)
(* the cap holds at that moment and so, Schools only expiring, from then on. *)
LEMMA RoomForOne ==
  ASSUME IInv, NEW now \in Nat, now <= clock, NEW school \in School,
         Cardinality({s \in schools : LiveAt(s, now)}) < liveCap
  PROVE  LET all == {s \in schools : LiveAt(s, now)} \cup {school}
         IN  IsFiniteSet(all) /\ Cardinality({s \in all : LiveAt(s, clock)}) <= liveCap
<1>. DEFINE left == {s \in schools : LiveAt(s, now)}
            all == left \cup {school}
            live == {s \in all : LiveAt(s, clock)}
<1>1. IsFiniteSet(left) /\ Cardinality(left) \in Nat /\ Cardinality(left) < liveCap /\ liveCap \in Nat
  BY SomeSchools, NumbersTyped DEF IInv
<1>2. live \in SUBSET all
  OBVIOUS
<1>. HIDE DEF left, live
<1>3. IsFiniteSet(all) /\ (Cardinality(all) = Cardinality(left) \/ Cardinality(all) = Cardinality(left) + 1)
  BY <1>1, FS_AddElement
<1>. HIDE DEF all
<1>4. Cardinality(live) <= Cardinality(all) /\ Cardinality(live) \in Nat /\ Cardinality(all) \in Nat
  BY <1>2, <1>3, FS_Subset, FS_CardinalityType
<1>. QED
  BY <1>1, <1>3, <1>4 DEF live, all, left

(* What every entry that begins a Session leaves, whichever School it is for. *)
LEMMA EntrySession ==
  ASSUME IInv, NEW b \in Browsers, NEW gone \in SUBSET Ids, NEW id \in Ids,
         issued < MaxSessions, issued' = issued + 1, ended' = ended,
         guest' = GuestAfter(gone),
         sessions' = SessionsAfter(gone) \cup
           {NewSession([school |-> id, role |-> "school_administrator"], issued + 1)},
         answers' = answers \cup {SetCookie(b, issued + 1)}
  PROVE  /\ sessions' \in SUBSET Session /\ issued' \in 0 .. MaxSessions /\ answers' \in SUBSET Answer
         /\ guest' \in [Guests -> GuestAccount \cup {None}]
         /\ TokensSound' /\ SessionsNeverFork' /\ AccountsSound'
<1>. DEFINE account == [school |-> id, role |-> "school_administrator"]
            S == SessionsAfter(gone)
<1>1. account \in RoleAccounts /\ account \notin Guests
  BY TrialAssumption, NoneIsNoAccount DEF RoleAccounts
<1>2. /\ guest' \in [Guests -> GuestAccount \cup {None}] /\ S \in SUBSET sessions
      /\ \A s \in S : s.account \in Guests => guest'[s.account] # None
  BY Deleting
<1>3. sessions' = S \cup {NewSession(account, issued + 1)}
  OBVIOUS
<1>. HIDE DEF account, S
<1>4. /\ sessions' \in SUBSET Session /\ issued' \in 0 .. MaxSessions
      /\ issued + 1 \in Tokens
      /\ TokensSound' /\ SessionsNeverFork'
      /\ \A s \in sessions' : s \in S \/ s.account = account
  BY <1>1, <1>2, <1>3, SessionAdded
<1>5. answers' \in SUBSET Answer
  BY <1>4 DEF IInv, TypeOK, Answer, SetCookie
<1>6. AccountsSound'
  BY <1>1, <1>2, <1>4 DEF AccountsSound
<1>. QED
  BY <1>2, <1>4, <1>5, <1>6

(* The transaction commits. *)
LEMMA CommitEntryIInv ==
  ASSUME IInv, NEW b \in Browsers, CommitEntry(b)
  PROVE  IInv'
<1>. DEFINE e == entering[b]
            new(id) == [id |-> id, visitor |-> e.visitor, expires |-> e.now + TRIAL_LIFETIME]
            session(id) == NewSession([school |-> id, role |-> "school_administrator"], issued + 1)
<1>1. /\ e.phase = "deciding" /\ e \in Entering /\ e.doomed \in SUBSET Ids
      /\ entering' = [entering EXCEPT ![b] = NotEntering] /\ entering \in [Browsers -> Entering]
      /\ jar' = FlowEnded(b)
      /\ UNCHANGED <<clock, liveCap, ended, begun, abroad, switching>>
  BY NumbersTyped DEF CommitEntry, IInv, TypeOK, Entering
<1>2. /\ e.visitor \in Visitors /\ e.now <= clock /\ e.now \in Nat
      /\ \A s \in schools : s.id \in e.doomed <=> ~LiveAt(s, e.now)
      /\ e.outcome = Start =>
           /\ \A s \in schools : LiveAt(s, e.now) => s.visitor # e.visitor
           /\ Cardinality({s \in schools : LiveAt(s, e.now)}) < liveCap
  BY <1>1, NumbersTyped DEF IInv, EntrySound
<1>3. /\ jar' \in [Browsers -> Cookies] /\ entering' \in [Browsers -> Entering]
      /\ \A c \in Browsers : entering'[c] = IF c = b THEN NotEntering ELSE entering[c]
      /\ NotEntering.phase = "none"
  <2>1. NotEntering \in Entering /\ NotEntering.phase = "none"
    BY DEF NotEntering, Entering
  <2>. QED
    BY <1>1, <2>1, FlowEndedTyped DEF IInv
<1>4. /\ GuestAfter(e.doomed) \in [Guests -> GuestAccount \cup {None}]
      /\ SchoolsAfter(e.doomed) \in SUBSET schools
      /\ VisitorsAfter(e.doomed) = {s.visitor : s \in SchoolsAfter(e.doomed)}
      /\ SessionsAfter(e.doomed) \in SUBSET sessions
      /\ \A s \in SessionsAfter(e.doomed) : s.account \in Guests => GuestAfter(e.doomed)[s.account] # None
  BY <1>1, Deleting
<1>5. {s.visitor : s \in SchoolsAfter(e.doomed)} \in SUBSET Visitors
  BY <1>4, NumbersTyped DEF IInv
<1>6. CASE /\ Delete(e.doomed, {}, {})
           /\ UNCHANGED <<started, issued, answers>>
  <2>1. /\ guest' = GuestAfter(e.doomed) /\ schools' = SchoolsAfter(e.doomed)
        /\ visitors' = VisitorsAfter(e.doomed) /\ sessions' = SessionsAfter(e.doomed)
    BY <1>6 DEF Delete
  <2>2. TypeOK'
    BY <1>1, <1>3, <1>4, <1>5, <1>6, <2>1 DEF IInv, TypeOK, Cookies
  <2>3. TokensSound' /\ SessionsNeverFork'
    BY <1>1, <1>4, <1>6, <2>1, SessionsLeft
  <2>4. AccountsSound'
    BY <1>4, <2>1 DEF AccountsSound
  <2>. QED
    BY <1>1, <1>3, <1>4, <1>6, <2>1, <2>2, <2>3, <2>4, SchoolsGone
<1>7. CASE /\ e.outcome \in SchoolIds /\ issued < MaxSessions
           /\ Delete(e.doomed, {}, {session(e.outcome)})
           /\ issued' = issued + 1
           /\ answers' = answers \cup {SetCookie(b, issued + 1)}
           /\ UNCHANGED started
  <2>1. /\ guest' = GuestAfter(e.doomed) /\ schools' = SchoolsAfter(e.doomed)
        /\ visitors' = VisitorsAfter(e.doomed)
        /\ sessions' = SessionsAfter(e.doomed) \cup {session(e.outcome)}
    BY <1>7 DEF Delete
  <2>2. e.outcome \in Ids
    BY <1>7, NumbersTyped DEF SchoolIds, IInv
  <2>3. /\ sessions' \in SUBSET Session /\ issued' \in 0 .. MaxSessions /\ answers' \in SUBSET Answer
        /\ guest' \in [Guests -> GuestAccount \cup {None}]
        /\ TokensSound' /\ SessionsNeverFork' /\ AccountsSound'
    BY <1>1, <1>7, <2>1, <2>2, EntrySession
  <2>4. TypeOK'
    BY <1>1, <1>3, <1>4, <1>5, <1>7, <2>1, <2>3 DEF IInv, TypeOK, Cookies
  <2>. QED
    BY <1>1, <1>3, <1>4, <1>7, <2>1, <2>3, <2>4, SchoolsGone
<1>8. CASE /\ e.outcome = Start /\ issued < MaxSessions
           /\ \E id \in Ids \ started :
                /\ started' = started \cup {id}
                /\ Delete(e.doomed, {new(id)}, {session(id)})
           /\ issued' = issued + 1
           /\ answers' = answers \cup {SetCookie(b, issued + 1)}
  <2>1. PICK id \in Ids \ started :
          /\ started' = started \cup {id}
          /\ Delete(e.doomed, {new(id)}, {session(id)})
    BY <1>8
  <2>. DEFINE school == new(id)
              left == {s \in schools : LiveAt(s, e.now)}
  <2>2. /\ school \in School /\ school.id = id /\ school.visitor = e.visitor
    BY <1>2, TrialAssumption DEF School
  <2>3. SchoolsAfter(e.doomed) = left
    BY <1>2 DEF SchoolsAfter
  <2>4. /\ guest' = GuestAfter(e.doomed) /\ schools' = left \cup {school}
        /\ visitors' = {s.visitor : s \in left} \cup {e.visitor}
        /\ sessions' = SessionsAfter(e.doomed) \cup {session(id)}
    BY <1>4, <2>1, <2>2, <2>3 DEF Delete
  <2>5. /\ sessions' \in SUBSET Session /\ issued' \in 0 .. MaxSessions /\ answers' \in SUBSET Answer
        /\ guest' \in [Guests -> GuestAccount \cup {None}]
        /\ TokensSound' /\ SessionsNeverFork' /\ AccountsSound'
    BY <1>1, <1>8, <2>1, <2>4, EntrySession
  <2>. HIDE DEF school
  <2>6. IsFiniteSet(schools') /\ Cardinality({s \in schools' : LiveAt(s, clock)}) <= liveCap
    BY <1>2, <1>8, <2>2, <2>4, RoomForOne
  <2>7. TypeOK'
    <3>1. schools' \in SUBSET School /\ visitors' \in SUBSET Visitors /\ started' \in SUBSET Ids
      BY <1>2, <1>4, <1>5, <2>1, <2>2, <2>3, <2>4 DEF IInv, TypeOK
    <3>. QED
      BY <1>1, <1>3, <2>5, <3>1 DEF IInv, TypeOK, Cookies
  <2>8. IdsSound'
    <3>1. \A s \in left : s.id \in started /\ s.id # id
      BY <2>1 DEF IInv, IdsSound, SchoolIds
    <3>2. \A s, t \in schools' : s.id = t.id => s = t
      BY <2>2, <2>4, <3>1 DEF IInv, IdsSound
    <3>3. {s.id : s \in schools'} \subseteq started'
      BY <2>1, <2>2, <2>4, <3>1
    <3>. QED
      BY <2>6, <3>2, <3>3 DEF IdsSound, SchoolIds
  <2>9. LockSound'
    BY <1>3 DEF IInv, LockSound, Holders
  <2>10. ASSUME NEW c \in Browsers PROVE EntrySound(c)'
    <3>1. entering'[c].phase # "deciding"
      BY <1>1, <1>3 DEF IInv, LockSound, Holders
    <3>2. entering'[c].phase # "none" => entering'[c].visitor \in Visitors /\ entering'[c].now <= clock'
      BY <1>1, <1>3 DEF IInv, EntrySound
    <3>. QED
      BY <3>1, <3>2 DEF EntrySound
  <2>11. WithinTheCap'
    BY <1>1, <2>6 DEF WithinTheCap, LiveAt
  <2>12. OneTrialEach'
    BY <1>2, <1>8, <2>2, <2>4 DEF IInv, OneTrialEach
  <2>13. VisitorsForgotten'
    BY <2>2, <2>4 DEF VisitorsForgotten
  <2>. QED
    BY <2>5, <2>7, <2>8, <2>9, <2>10, <2>11, <2>12, <2>13 DEF IInv
<1>. QED
  <2>1. \/ /\ Delete(e.doomed, {}, {})
           /\ UNCHANGED <<started, issued, answers>>
        \/ /\ e.outcome \in SchoolIds /\ issued < MaxSessions
           /\ Delete(e.doomed, {}, {session(e.outcome)})
           /\ issued' = issued + 1
           /\ answers' = answers \cup {SetCookie(b, issued + 1)}
           /\ UNCHANGED started
        \/ /\ e.outcome = Start /\ issued < MaxSessions
           /\ \E id \in Ids \ started :
                /\ started' = started \cup {id}
                /\ Delete(e.doomed, {new(id)}, {session(id)})
           /\ issued' = issued + 1
           /\ answers' = answers \cup {SetCookie(b, issued + 1)}
    BY ONLY CommitEntry(b) DEF CommitEntry
  <2>. QED
    BY <1>6, <1>7, <1>8, <2>1

-----------------------------------------------------------------------------
(* Every step keeps the invariant. *)
LEMMA NextIInv ==
  ASSUME IInv, [Next]_vars
  PROVE  IInv'
<1>1. CASE UNCHANGED vars
  <2>1. TypeOK'
    BY <1>1 DEF IInv, TypeOK, vars
  <2>2. UNCHANGED <<clock, liveCap, rows, entering>>
    BY <1>1 DEF vars, rows
  <2>. QED
    BY <2>1, <2>2, RowsKept, EntriesKept
<1>2. CASE Next
  BY <1>2, BeginSignInIInv, TurnedBackIInv, ProvenIInv, EnterTrialSchoolIInv, CommitEntryIInv, LoseEntryIInv,
     ReplaceSessionIInv, SignOutIInv, SwitchRoleIInv, RedeemSignedInIInv, SignInIInv,
     RedeemWithNewAccountIInv, DeliverIInv, SweepIInv, TickIInv DEF Next
<1>. QED
  BY <1>1, <1>2

(* The inductive invariant of the Trial Schools, whatever the constants. *)
THEOREM TrialsInvariance == Spec => []IInv
<1>. QED
  BY InitIInv, NextIInv, PTL DEF Spec

(* Every table, cookie, entry and answer keeps its type. *)
THEOREM TrialsTyped == Spec => []TypeOK
<1>1. IInv => TypeOK
  BY DEF IInv
<1>. QED
  BY <1>1, TrialsInvariance, PTL

(* However many visitors sign in at once, and however stale the time by which *)
(* the live Schools were counted, the cap is never exceeded: the start lock   *)
(* and the transaction that counts and inserts under it.                      *)
THEOREM CapKept == Spec => []WithinTheCap
<1>1. IInv => WithinTheCap
  BY DEF IInv
<1>. QED
  BY <1>1, TrialsInvariance, PTL

(* No visitor ever has two Trial Schools, though the School they return to    *)
(* and the one they start are told apart by a time that may have passed.      *)
THEOREM OneTrialKept == Spec => []OneTrialEach
<1>1. IInv => OneTrialEach
  BY DEF IInv
<1>. QED
  BY <1>1, TrialsInvariance, PTL

(* A visitor is kept exactly while a Trial School of theirs is. *)
THEOREM VisitorsOnlyWithSchools == Spec => []VisitorsForgotten
<1>1. IInv => VisitorsForgotten
  BY DEF IInv
<1>. QED
  BY <1>1, TrialsInvariance, PTL

(* Changes of role and sign-outs, raced from any number of browsers, leave    *)
(* each sign-in at most one Session, and none once one was signed out.        *)
THEOREM RolesNeverFork == Spec => []SessionsNeverFork
<1>1. IInv => SessionsNeverFork
  BY DEF IInv
<1>. QED
  BY <1>1, TrialsInvariance, PTL
=============================================================================
