-------------------------- MODULE ParticipationProofs --------------------------
(***************************************************************************)
(* The inductive invariants of Participation, for any Persons, any number  *)
(* of requests and any dates they may state: IInv, of what a request holds *)
(* and is to write; LInv, of which locks a request has when it waits;      *)
(* GInv, of what each participation stands on.                             *)
(*                                                                         *)
(* First what requests ask, the order of their statements and what a       *)
(* commit leaves alone; then one lemma for each statement; then each of    *)
(* the properties.                                                         *)
(***************************************************************************)
EXTENDS Participation, WellFoundedInduction, TLAPS

-----------------------------------------------------------------------------
(* A set of numbers with a member has a least one. *)
LEMMA LeastIn ==
  ASSUME NEW S \in SUBSET Nat, S # {},
         NEW R, IsWellFoundedOn(R, Nat), \A x, y \in Nat : <<y, x>> \in R <=> y < x
  PROVE  \E m \in S : \A n \in S : m <= n
<1>1. PICK m \in S : \A n \in S : ~(<<n, m>> \in R)
  BY WFMin
<1>2. ASSUME NEW n \in S PROVE m <= n
  <2>1. m \in Nat /\ n \in Nat
    OBVIOUS
  <2>2. ~(n < m)
    BY <1>1, <2>1, Zenon
  <2>. QED
    BY <2>1, <2>2
<1>. QED
  BY <1>2

(* A set of numbers with a member has a least one. *)
LEMMA Least ==
  ASSUME NEW S \in SUBSET Nat, S # {}
  PROVE  \E m \in S : \A n \in S : m <= n
<1>1. \A x, y \in Nat : <<y, x>> \in OpToRel(<, Nat) <=> y < x
  BY DEF OpToRel
<1>. QED
  BY <1>1, LeastIn, NatLessThanWellFounded

(* What Min of such a set is. *)
LEMMA MinIs ==
  ASSUME NEW S \in SUBSET Nat, S # {}
  PROVE  Min(S) \in S /\ \A n \in S : Min(S) <= n
BY Least DEF Min

(* What Max is of a set of numbers with a bound. *)
LEMMA MaxIs ==
  ASSUME NEW b \in Nat, NEW S \in SUBSET (0 .. b), S # {}
  PROVE  Max(S) \in S /\ \A n \in S : n <= Max(S)
<1>. DEFINE D == {b - n : n \in S}
<1>1. D \in SUBSET Nat /\ D # {}
  OBVIOUS
<1>2. PICK d \in D : \A e \in D : d <= e
  BY <1>1, Least
<1>3. PICK m \in S : d = b - m
  OBVIOUS
<1>4. \A n \in S : m >= n
  BY <1>2, <1>3
<1>5. \E x \in S : \A y \in S : x >= y
  BY <1>4
<1>. HIDE DEF D
<1>6. Max(S) \in S /\ \A y \in S : Max(S) >= y
  BY <1>5 DEF Max
<1>. QED
  BY <1>6

-----------------------------------------------------------------------------
(* What an Administrator may state in a request of each kind. *)
AskSound(ask) ==
  /\ ask.kind \in DOMAIN Statements
  /\ ask.kind \in {"roster", "assign", "enroll", "grant", "link"} => "who" \in DOMAIN ask /\ "on" \notin DOMAIN ask
  /\ ask.kind \notin {"roster", "assign", "enroll", "grant", "link"} =>
       "who" \notin DOMAIN ask /\ "on" \in DOMAIN ask /\ ask.on \in Rows
  /\ ask.kind \in {"roster", "assign", "move"} => ask.first \in FirstDates
  /\ ask.kind \in {"roster", "move"} => ask.last \in LastDates
  /\ ask.kind = "roster" => ask.who \in SUBSET Students /\ ask.who # {}
  /\ ask.kind = "assign" => ask.last \in LastDates \cup {Unstated} /\ \E p \in Faculty : ask.who = {p}
  /\ ask.kind \in {"move", "end"} => ask.on \in Ids /\ ask.on.table = "part"
  /\ ask.kind \in {"enroll", "link"} => \E p \in Students : ask.who = {p}
  /\ ask.kind = "depart" => ask.on \in Ids /\ ask.on.table = "stay"
  /\ ask.kind = "grant" => ask.starts \in MemberStarts /\ ask.ends \in MemberEnds /\ \E p \in Persons : ask.who = {p}
  /\ ask.kind \in {"narrow", "revoke"} => ask.on \in Ids /\ ask.on.table = "member"
  /\ ask.kind = "narrow" => ask.ends \in MemberEnds
  /\ ask.kind = "link" => ask.guardian \in Guardians
  /\ ask.kind \in {"profile", "unlink"} => ask.on \in Ids /\ ask.on.table = "link"
  /\ ask.kind \in {"link", "profile"} => ask.profile \in Profiles
  /\ ask.kind = "term" => ask.on = Term /\ ask.last \in TermEnds

(* Whatever is asked is asked by one of the kinds, of rows of its table. *)
LEMMA AsksSound ==
  ASSUME NEW ask \in Asks
  PROVE  AskSound(ask)
<1>1. ask \in [kind : {"roster"}, who : (SUBSET Students) \ {{}}, first : FirstDates, last : LastDates] => AskSound(ask)
  <2>. SUFFICES ASSUME ask \in [kind : {"roster"}, who : (SUBSET Students) \ {{}}, first : FirstDates, last : LastDates]
                PROVE  AskSound(ask)
    OBVIOUS
  <2>. DEFINE some == (SUBSET Students) \ {{}}
  <2>1. \A w \in some : w \in SUBSET Students /\ w # {}
    OBVIOUS
  <2>2. ask \in [kind : {"roster"}, who : some, first : FirstDates, last : LastDates]
    OBVIOUS
  <2>. HIDE DEF some
  <2>. QED
    BY <2>1, <2>2 DEF AskSound, Statements
<1>2. ask \in [kind : {"assign"}, who : {{p} : p \in Faculty}, first : FirstDates, last : LastDates \cup {Unstated}] => AskSound(ask)
  BY DEF AskSound, Statements
<1>3. ask \in [kind : {"move"}, on : {i \in Ids : i.table = "part"}, first : FirstDates, last : LastDates] => AskSound(ask)
  BY DEF AskSound, Statements, Rows
<1>4. ask \in [kind : {"end"}, on : {i \in Ids : i.table = "part"}] => AskSound(ask)
  BY DEF AskSound, Statements, Rows
<1>5. ask \in [kind : {"enroll"}, who : {{p} : p \in Students}] => AskSound(ask)
  BY DEF AskSound, Statements
<1>6. ask \in [kind : {"depart"}, on : {i \in Ids : i.table = "stay"}] => AskSound(ask)
  BY DEF AskSound, Statements, Rows
<1>7. ask \in [kind : {"grant"}, who : {{p} : p \in Persons}, starts : MemberStarts, ends : MemberEnds] => AskSound(ask)
  BY DEF AskSound, Statements
<1>8. ask \in [kind : {"narrow"}, on : {i \in Ids : i.table = "member"}, ends : MemberEnds] => AskSound(ask)
  BY DEF AskSound, Statements, Rows
<1>9. ask \in [kind : {"revoke"}, on : {i \in Ids : i.table = "member"}] => AskSound(ask)
  BY DEF AskSound, Statements, Rows
<1>10. ask \in [kind : {"link"}, who : {{p} : p \in Students}, guardian : Guardians, profile : Profiles] => AskSound(ask)
  BY DEF AskSound, Statements
<1>11. ask \in [kind : {"profile"}, on : {i \in Ids : i.table = "link"}, profile : Profiles] => AskSound(ask)
  BY DEF AskSound, Statements, Rows
<1>12. ask \in [kind : {"unlink"}, on : {i \in Ids : i.table = "link"}] => AskSound(ask)
  BY DEF AskSound, Statements, Rows
<1>13. ask \in [kind : {"term"}, on : {Term}, last : TermEnds] => AskSound(ask)
  BY DEF AskSound, Statements, Rows
<1>. QED
  BY <1>1, <1>2, <1>3, <1>4, <1>5, <1>6, <1>7, <1>8, <1>9, <1>10, <1>11, <1>12, <1>13 DEF Asks

(* The order of the statements of each kind. *)
LEMMA AfterIs ==
  ASSUME NEW r \in Requests, CourseSound(r), AskSound(AskOf(r))
  PROVE  /\ At(r, "offering") => After(r) = "ground"
         /\ At(r, "row") /\ AskOf(r).kind = "move" => After(r) = "ground"
         /\ At(r, "row") /\ AskOf(r).kind = "depart" => After(r) = "links"
         /\ At(r, "row") /\ AskOf(r).kind \in {"narrow", "revoke"} => After(r) = "list"
         /\ At(r, "row") /\ AskOf(r).kind \in {"end", "profile", "unlink"} => After(r) = "write"
         /\ At(r, "role") => After(r) = "write"
         /\ At(r, "ground") => After(r) = "write"
         /\ At(r, "links") => After(r) = "list"
         /\ At(r, "rows") => After(r) = "write"
         /\ At(r, "write") => After(r) = "commit"
<1>. DEFINE s == Statements[AskOf(r).kind]
<1>1. ASSUME NEW n \in 1 .. Len(s), s[n] = tx[r].phase, \A m \in 1 .. Len(s) : s[m] = s[n] => m = n
      PROVE  After(r) = IF n = Len(s) THEN "commit" ELSE s[n + 1]
  <2>1. n = CHOOSE i \in 1 .. Len(s) : s[i] = tx[r].phase
    BY <1>1
  <2>. QED
    BY <2>1 DEF After
<1>2. CASE At(r, "offering")
  <2>1. s = <<"offering", "ground", "write">>
    BY <1>2 DEF CourseSound, Statements, At
  <2>. QED
    BY <1>2, <2>1, <1>1 DEF At
<1>3. CASE At(r, "row") /\ AskOf(r).kind = "move"
  <2>1. s = <<"row", "ground", "write">>
    BY <1>3 DEF Statements
  <2>. QED
    BY <1>3, <2>1, <1>1 DEF At
<1>4. CASE At(r, "row") /\ AskOf(r).kind = "depart"
  <2>1. s = <<"row", "links", "list", "rows", "write">>
    BY <1>4 DEF CourseSound, Statements, At
  <2>. QED
    BY <1>4, <2>1, <1>1 DEF At
<1>5. CASE At(r, "row") /\ AskOf(r).kind \in {"narrow", "revoke"}
  <2>1. s = <<"row", "list", "rows", "write">>
    BY <1>5 DEF CourseSound, Statements, At
  <2>. QED
    BY <1>5, <2>1, <1>1 DEF At
<1>6. CASE At(r, "row") /\ AskOf(r).kind \in {"end", "profile", "unlink"}
  <2>1. s = <<"row", "write">>
    BY <1>6 DEF CourseSound, Statements, At
  <2>. QED
    BY <1>6, <2>1, <1>1 DEF At
<1>7. CASE At(r, "role")
  <2>1. s = <<"role", "write">>
    BY <1>7 DEF CourseSound, Statements, At
  <2>. QED
    BY <1>7, <2>1, <1>1 DEF At
<1>8. CASE At(r, "links")
  <2>1. s = <<"row", "links", "list", "rows", "write">>
    BY <1>8 DEF CourseSound, Statements, At
  <2>. QED
    BY <1>8, <2>1, <1>1 DEF At
<1>9. CASE At(r, "ground")
  <2>1. \/ s = <<"offering", "ground", "write">>
        \/ s = <<"row", "ground", "write">>
        \/ s = <<"ground", "write">>
    BY <1>9 DEF CourseSound, Statements, At
  <2>2. CASE s = <<"offering", "ground", "write">>
    BY <1>9, <2>2, <1>1 DEF At
  <2>3. CASE s = <<"row", "ground", "write">>
    BY <1>9, <2>3, <1>1 DEF At
  <2>4. CASE s = <<"ground", "write">>
    BY <1>9, <2>4, <1>1 DEF At
  <2>. QED
    BY <2>1, <2>2, <2>3, <2>4
<1>10. CASE At(r, "rows")
  <2>1. \/ s = <<"row", "links", "list", "rows", "write">>
        \/ s = <<"row", "list", "rows", "write">>
    BY <1>10 DEF CourseSound, EndsGround, Statements, At
  <2>2. CASE s = <<"row", "links", "list", "rows", "write">>
    BY <1>10, <2>2, <1>1 DEF At
  <2>3. CASE s = <<"row", "list", "rows", "write">>
    BY <1>10, <2>3, <1>1 DEF At
  <2>. QED
    BY <2>1, <2>2, <2>3
<1>11. CASE At(r, "write")
  <2>1. \/ s = <<"offering", "ground", "write">>
        \/ s = <<"row", "ground", "write">>
        \/ s = <<"row", "write">>
        \/ s = <<"write">>
        \/ s = <<"row", "links", "list", "rows", "write">>
        \/ s = <<"role", "write">>
        \/ s = <<"row", "list", "rows", "write">>
        \/ s = <<"ground", "write">>
    BY <1>11 DEF AskSound, Statements
  <2>2. CASE s = <<"offering", "ground", "write">>
    BY <1>11, <2>2, <1>1 DEF At
  <2>3. CASE s = <<"row", "ground", "write">>
    BY <1>11, <2>3, <1>1 DEF At
  <2>4. CASE s = <<"row", "write">>
    BY <1>11, <2>4, <1>1 DEF At
  <2>5. CASE s = <<"write">>
    BY <1>11, <2>5, <1>1 DEF At
  <2>6. CASE s = <<"row", "links", "list", "rows", "write">>
    BY <1>11, <2>6, <1>1 DEF At
  <2>7. CASE s = <<"role", "write">>
    BY <1>11, <2>7, <1>1 DEF At
  <2>8. CASE s = <<"row", "list", "rows", "write">>
    BY <1>11, <2>8, <1>1 DEF At
  <2>9. CASE s = <<"ground", "write">>
    BY <1>11, <2>9, <1>1 DEF At
  <2>. QED
    BY <2>1, <2>2, <2>3, <2>4, <2>5, <2>6, <2>7, <2>8, <2>9
<1>. HIDE DEF s
<1>. QED
  BY <1>2, <1>3, <1>4, <1>5, <1>6, <1>7, <1>8, <1>9, <1>10, <1>11 DEF At

-----------------------------------------------------------------------------
(* What the invariant says of one request, and of whom it is about. *)
LEMMA Asked ==
  ASSUME IInv, NEW r \in Requests
  PROVE  /\ tx[r] \in Tx /\ Sound(r) /\ CourseSound(r)
         /\ AskOf(r).kind = "none" <=> At(r, "new") \/ At(r, "ended")
         /\ AskOf(r).kind # "none" => AskSound(AskOf(r)) /\ AskOf(r).kind \in Kinds
         /\ AskOf(r).kind \in {"roster", "assign", "enroll", "grant", "link"} => Whose(r) = AskOf(r).who
         /\ AskOf(r).kind \notin {"roster", "assign", "enroll", "grant", "link", "none"} => Whose(r) = {AskOf(r).on.of}
<1>1. tx[r] \in Tx /\ Sound(r) /\ CourseSound(r)
  BY DEF IInv, TypeOK, Sound
<1>2. CASE At(r, "new") \/ At(r, "ended")
  <2>1. AskOf(r) = NoAsk
    BY <1>1, <1>2 DEF CourseSound, NewTx, AskOf
  <2>. QED
    BY <1>1, <1>2, <2>1 DEF NoAsk
<1>3. CASE ~At(r, "new") /\ ~At(r, "ended")
  <2>1. AskOf(r) \in Asks /\ AskOf(r).kind \in Kinds
    BY <1>1, <1>3 DEF CourseSound
  <2>2. AskSound(AskOf(r))
    BY <2>1, AsksSound
  <2>3. AskOf(r).kind # "none"
    BY <2>2 DEF AskSound, Statements
  <2>4. /\ AskOf(r).kind \in {"roster", "assign", "enroll", "grant", "link"} => Whose(r) = AskOf(r).who
        /\ AskOf(r).kind \notin {"roster", "assign", "enroll", "grant", "link", "none"} => Whose(r) = {AskOf(r).on.of}
    BY <2>2 DEF AskSound, Whose
  <2>. QED
    BY <1>1, <1>3, <2>1, <2>2, <2>3, <2>4
<1>. QED
  BY <1>2, <1>3

(* What a request knows stands while it and the rows do. *)
LEMMA StillSound ==
  ASSUME NEW q \in Requests, Sound(q), tx'[q] = tx[q], row' = row, \A i : Known(i) => Known(i)'
  PROVE  Sound(q)'
<1>1. CourseSound(q)'
  BY DEF Sound, CourseSound, At, AskOf, EndsGround
<1>2. RowSound(q)'
  BY DEF Sound, RowSound, HoldsRow, At, AskOf, GoesOn, HasEnded
<1>3. GroundSound(q)'
  BY DEF Sound, GroundSound, At, AskOf, Whose, GroundRows, OpenStay, Active, Held, EndOf
<1>4. LinksSound(q)'
  BY DEF Sound, LinksSound, At, AskOf, Whose, LinksInForce, Held, Written
<1>5. ListSound(q)'
  BY DEF Sound, ListSound, At, AskOf, Whose, EndsGround, Listed, RowsToLock, Unlocked
<1>6. StaySound(q)'
  BY DEF Sound, StaySound, At, AskOf, Whose, OpenStay, Held
<1>7. WriteSound(q)'
  <2>1. EndInstant(q)' = EndInstant(q) /\ AskOf(q)' = AskOf(q) /\ Whose(q)' = Whose(q) /\ WritesParts(q)' = WritesParts(q)
        /\ Parts' = Parts
    BY DEF EndInstant, AskOf, Whose, WritesParts, Parts, Held
  <2>2. \A c : ChangeSound(q, c) => ChangeSound(q, c)'
    BY <2>1 DEF ChangeSound, InsideTerm, Strands
  <2>. QED
    BY <2>2 DEF Sound, WriteSound, At
<1>. QED
  BY <1>1, <1>2, <1>3, <1>4, <1>5, <1>6, <1>7 DEF Sound

(* A statement that writes nothing the others see keeps the invariant, if  *)
(* the locks it takes are free, of rows there are, and what the request    *)
(* then knows of itself is so.                                             *)
LEMMA GoesKeeps ==
  ASSUME IInv, NEW r \in Requests, NEW to \in Tx, Goes(r, to), ~At(r, "ended"),
         \A q \in Requests \ {r} : \A k \in to.holds, l \in tx[q].holds : ~Clash(k, l),
         \A l \in to.holds : l.what \in Ids => Known(l.what),
         Sound(r)'
  PROVE  IInv'
<1>1. /\ tx'[r] = to /\ tx' \in [Requests -> Tx] /\ \A q \in Requests \ {r} : tx'[q] = tx[q]
      /\ clock' = clock /\ row' = row /\ trail' = trail /\ stretched' = stretched
  BY DEF IInv, TypeOK, Goes
<1>2. TypeOK'
  BY <1>1 DEF IInv, TypeOK
<1>3. \A i : Known(i) => Known(i)'
  BY <1>1 DEF Known, At
<1>4. Exclusive'
  <2>1. ASSUME NEW a \in Requests, NEW b \in Requests, a # b, NEW k \in tx'[a].holds, NEW l \in tx'[b].holds
        PROVE  ~Clash(k, l)
    <3>1. CASE a = r
      BY <1>1, <2>1, <3>1
    <3>2. CASE b = r
      BY <1>1, <2>1, <3>2 DEF Clash
    <3>3. CASE a # r /\ b # r
      BY <1>1, <2>1, <3>3 DEF IInv, Exclusive
    <3>. QED
      BY <3>1, <3>2, <3>3
  <2>. QED
    BY <2>1 DEF Exclusive, Clash
<1>5. KnownSound'
  BY <1>1, <1>3 DEF IInv, KnownSound
<1>6. OneOpenStay' /\ LinksHaveGround' /\ RunsInsideTerm' /\ TrailLeadsToTheRow'
  BY <1>1 DEF IInv, OneOpenStay, LinksHaveGround, RunsInsideTerm, TrailLeadsToTheRow, OpenStay, LinksInForce, Held, Parts
<1>7. \A q \in Requests : Sound(q)'
  <2>1. ASSUME NEW q \in Requests \ {r} PROVE Sound(q)'
    BY <1>1, <1>3, StillSound DEF IInv
  <2>. QED
    BY <2>1
<1>. QED
  BY <1>2, <1>4, <1>5, <1>6, <1>7 DEF IInv

(* What a request has locked, once its next statement has run. *)
LEMMA LockedIs ==
  ASSUME IInv, NEW r \in Requests
  PROVE  /\ Locked(r).ask = tx[r].ask /\ Locked(r).at = tx[r].at /\ Locked(r).saw = tx[r].saw
         /\ Locked(r).term = tx[r].term /\ Locked(r).until = tx[r].until
         /\ Locked(r).todo = tx[r].todo /\ Locked(r).writes = tx[r].writes
         /\ Locked(r).phase = After(r) /\ Locked(r).holds = tx[r].holds \cup Wants(r)
         /\ After(r) \in Phases /\ Wants(r) \in SUBSET Locks => Locked(r) \in Tx
<1>1. tx[r] \in Tx
  BY Asked
<1>. QED
  BY <1>1 DEF Locked, Tx

(* A statement takes locks nobody has, of rows there are. *)
LEMMA TakesKeeps ==
  ASSUME IInv, NEW r \in Requests, NEW to \in Tx, Goes(r, to), ~At(r, "ended"),
         to.holds = tx[r].holds \/ (to.holds = tx[r].holds \cup Wants(r) /\ WaitsFor(r) = {}),
         \A l \in Wants(r) : l.what \in Ids => Known(l.what),
         Sound(r)'
  PROVE  IInv'
<1>1. \A q \in Requests \ {r} : \A k \in to.holds, l \in tx[q].holds : ~Clash(k, l)
  <2>1. \A q \in Requests \ {r} : \A k \in tx[r].holds, l \in tx[q].holds : ~Clash(k, l)
    BY DEF IInv, Exclusive
  <2>2. WaitsFor(r) = {} => \A q \in Requests \ {r} : \A k \in Wants(r), l \in tx[q].holds : ~Clash(k, l)
    BY DEF WaitsFor, Blockers
  <2>. QED
    BY <2>1, <2>2
<1>2. \A l \in to.holds : l.what \in Ids => Known(l.what)
  BY DEF IInv, KnownSound
<1>. QED
  BY <1>1, <1>2, GoesKeeps

(* Nothing is known yet of who has neither listed nor written. *)
LEMMA EarlySound ==
  ASSUME NEW r \in Requests, CourseSound(r)', RowSound(r)', GroundSound(r)', LinksSound(r)',
         tx'[r].writes = {}, tx'[r].todo = {}, tx'[r].phase \notin {"rows", "commit"},
         tx'[r].phase = "row" => tx'[r].holds = {},
         tx'[r].phase \in {"links", "list"} => \A l \in tx'[r].holds : l.what \in Ids /\ l.what.table # "part"
  PROVE  Sound(r)'
<1>1. ListSound(r)'
  BY DEF ListSound, Listed, At
<1>2. StaySound(r)' /\ WriteSound(r)'
  BY DEF StaySound, WriteSound, At
<1>. QED
  BY <1>1, <1>2 DEF Sound

(* Whoever has ended knows nothing, and holds nothing. *)
LEMMA NewTxTyped == NewTx \in Tx /\ Done \in Tx
<1>1. NewTx \in Tx
  BY ParticipationAssumption DEF NewTx, Tx, Times, Phases, Values, Lapsed, Open
<1>. QED
  BY <1>1 DEF Done, NewTx, Tx, Phases

(* A request that ends, refused or aborted, lets go of all it holds. *)
LEMMA EndsKeeps ==
  ASSUME IInv, NEW r \in Requests, ~At(r, "ended"), Ends(r)
  PROVE  IInv'
<1>1. tx'[r] = Done
  BY DEF IInv, TypeOK, Ends, Goes
<1>2. Done.phase = "ended" /\ Done.ask.kind = "none" /\ Done.holds = {} /\ Done.writes = {} /\ Done.todo = {}
      /\ Done = [NewTx EXCEPT !.phase = "ended"]
  BY DEF Done, NewTx, NoAsk
<1>3. CourseSound(r)'
  BY <1>1, <1>2 DEF CourseSound, At, AskOf
<1>4. RowSound(r)' /\ GroundSound(r)' /\ LinksSound(r)'
  BY <1>1, <1>2 DEF RowSound, HoldsRow, GroundSound, LinksSound, AskOf
<1>5. Sound(r)'
  BY <1>1, <1>2, <1>3, <1>4, EarlySound
<1>6. Goes(r, Done)
  BY DEF Ends
<1>. QED
  BY <1>2, <1>5, <1>6, NewTxTyped, GoesKeeps

(* A request begins with its first statement. *)
LEMMA BeginKeeps ==
  ASSUME IInv, NEW r \in Requests, Begin(r)
  PROVE  IInv'
<1>1. PICK ask \in Asks :
        /\ ask.kind \in Kinds
        /\ "on" \in DOMAIN ask => row[ask.on] # None
        /\ Goes(r, [NewTx EXCEPT !.ask = ask, !.at = clock, !.phase = Statements[ask.kind][1],
                                 !.saw = IF "on" \in DOMAIN ask THEN row[ask.on] ELSE None])
  BY DEF Begin
<1>. DEFINE first == Statements[ask.kind][1]
            found == IF "on" \in DOMAIN ask THEN row[ask.on] ELSE None
            to == [NewTx EXCEPT !.ask = ask, !.at = clock, !.phase = first, !.saw = found]
<1>2. AskSound(ask)
  BY AsksSound
<1>3. /\ first = "offering" => ask.kind \in {"roster", "assign"}
      /\ first = "row" => ask.kind \in {"move", "end", "depart", "narrow", "revoke", "profile", "unlink"}
      /\ first = "role" => ask.kind = "grant"
      /\ first = "ground" => ask.kind = "link"
      /\ first = "write" => ask.kind \in {"enroll", "term"}
      /\ first \in {"offering", "row", "role", "ground", "write"}
  BY <1>2 DEF AskSound, Statements
<1>4. found \in Values
  BY <1>2 DEF IInv, TypeOK, AskSound, Values
<1>5. to \in Tx
  <2>1. clock \in Times /\ first \in Phases
    BY <1>3 DEF IInv, TypeOK, Phases
  <2>. HIDE DEF first, found
  <2>. QED
    BY <2>1, <1>4, NewTxTyped DEF Tx
<1>6. to.ask = ask /\ to.phase = first /\ to.holds = {} /\ to.writes = {} /\ to.todo = {}
  BY DEF NewTx
<1>7. Goes(r, to)
  BY <1>1
<1>. HIDE DEF first, found, to
<1>8. tx'[r] = to
  BY <1>7 DEF IInv, TypeOK, Goes
<1>9. CourseSound(r)'
  BY <1>1, <1>3, <1>6, <1>8 DEF CourseSound, At, AskOf
<1>10. RowSound(r)' /\ GroundSound(r)' /\ LinksSound(r)'
  BY <1>3, <1>6, <1>8 DEF RowSound, HoldsRow, GroundSound, LinksSound, At, AskOf
<1>11. Sound(r)'
  BY <1>3, <1>6, <1>8, <1>9, <1>10, EarlySound
<1>12. ~At(r, "ended")
  BY DEF Begin, At
<1>. QED
  BY <1>5, <1>6, <1>7, <1>11, <1>12, GoesKeeps

-----------------------------------------------------------------------------
(* A row is no entry of an index, and the Term is no row of a Person's. *)
LEMMA Apart ==
  /\ Rows \cap Entries = {} /\ Term \notin Ids
  /\ \A i \in Ids : i.table \in {"stay", "member", "link", "part"} /\ i.of \in Persons /\ i.by \in Requests \cup {None}
  /\ \A e \in Entries : "index" \in DOMAIN e
  /\ Term.table = "term" /\ Term.by = None
<1>1. \A i \in Rows : DOMAIN i = {"table", "of", "by"}
  BY DEF Rows, Ids, Id, Term
<1>2. \A e \in Entries : DOMAIN e = {"index", "of"}
  BY DEF Entries
<1>3. \A i \in Ids : i.table \in {"stay", "member", "link", "part"} /\ i.of \in Persons /\ i.by \in Requests \cup {None}
  BY DEF Ids, Id, Owners, Persons
<1>. QED
  BY <1>1, <1>2, <1>3 DEF Term, Id

(* A lock is of what it is on, shared or alone. *)
LEMMA LockIs ==
  /\ \A w : /\ Alone(w).what = w /\ ~Alone(w).shared
            /\ Shared(w).what = w /\ Shared(w).shared
            /\ w \in Rows \cup Entries => Alone(w) \in Locks /\ Shared(w) \in Locks
BY DEF Alone, Shared, Locks

(* A row in use, or listed, is one already made. *)
LEMMA RowKnown ==
  ASSUME IInv, NEW i \in Ids, row[i] # None
  PROVE  Known(i)
BY DEF IInv, KnownSound

(* The rows of each table, and the Term's last date. *)
LEMMA RowTyped ==
  ASSUME IInv
  PROVE  /\ row[Term].last \in TermEnds /\ row[Term].last \in 1 .. LastDay /\ row[Term] \in [last : TermEnds]
         /\ \A i \in Ids : row[i] # None =>
              /\ i.table = "stay" => row[i] \in Stay
              /\ i.table = "member" => row[i] \in Member
              /\ i.table = "link" => row[i] \in Link
              /\ i.table = "part" => row[i] \in Part
<1>1. Term \in Rows /\ Ids \subseteq Rows
  BY DEF Rows
<1>2. RowsOf["term"] = [last : TermEnds] /\ RowsOf["stay"] = Stay /\ RowsOf["member"] = Member
      /\ RowsOf["link"] = Link /\ RowsOf["part"] = Part
  BY DEF RowsOf
<1>3. \A i \in Rows : row[i] # None => row[i] \in RowsOf[i.table]
  BY DEF IInv, TypeOK
<1>4. row[Term] \in [last : TermEnds]
  BY <1>1, <1>2, <1>3, Apart DEF IInv, TypeOK
<1>5. \A i \in Ids : row[i] # None =>
        /\ i.table = "stay" => row[i] \in Stay
        /\ i.table = "member" => row[i] \in Member
        /\ i.table = "link" => row[i] \in Link
        /\ i.table = "part" => row[i] \in Part
  BY <1>1, <1>2, <1>3
<1>. QED
  BY <1>4, <1>5, ParticipationAssumption

(* Taking the offering (lockClassOffering) keeps the invariant. *)
LEMMA LockOfferingKeeps ==
  ASSUME IInv, NEW r \in Requests, LockOffering(r)
  PROVE  IInv'
<1>. DEFINE to == [Locked(r) EXCEPT !.term = row[Term].last]
<1>1. Goes(r, to) /\ WaitsFor(r) = {} /\ tx[r].phase = "offering"
  BY DEF LockOffering, Runs, At
<1>2. AskOf(r).kind \in {"roster", "assign"} /\ After(r) = "ground" /\ tx[r] \in Tx /\ Sound(r)
  BY <1>1, Asked, AfterIs DEF CourseSound, At
<1>3. Wants(r) = {Alone(Entry("offering", None))} /\ Entry("offering", None) \in Entries
  BY <1>1 DEF Wants, At, Entries, Entry
<1>4. Wants(r) \in SUBSET Locks /\ \A l \in Wants(r) : l.what \notin Ids
  BY <1>3, Apart DEF Locks, Alone, Rows
<1>5. row[Term].last \in TermEnds
  BY RowTyped
<1>6. Locked(r) \in Tx /\ Locked(r).phase = "ground"
  BY <1>2, <1>4, LockedIs DEF Phases
<1>7. to \in Tx
  BY <1>5, <1>6 DEF Tx
<1>8. /\ to.ask = tx[r].ask /\ to.phase = "ground" /\ to.writes = tx[r].writes /\ to.todo = tx[r].todo
      /\ to.holds = tx[r].holds \cup Wants(r)
  BY <1>6, LockedIs DEF Tx
<1>. HIDE DEF to
<1>9. tx'[r] = to
  BY <1>1 DEF IInv, TypeOK, Goes
<1>10. tx[r].writes = {} /\ tx[r].todo = {}
  BY <1>1, <1>2 DEF Sound, WriteSound, ListSound, Listed, At
<1>11. CourseSound(r)'
  BY <1>1, <1>2, <1>8, <1>9 DEF Sound, CourseSound, At, AskOf
<1>12. RowSound(r)' /\ GroundSound(r)' /\ LinksSound(r)'
  BY <1>2, <1>8, <1>9 DEF RowSound, HoldsRow, GroundSound, LinksSound, At, AskOf
<1>13. Sound(r)'
  BY <1>8, <1>9, <1>10, <1>11, <1>12, EarlySound
<1>. QED
  BY <1>1, <1>4, <1>7, <1>8, <1>13, TakesKeeps DEF At

(* Taking a Person's role, before a grant of it, keeps the invariant. *)
LEMMA TakeRoleKeeps ==
  ASSUME IInv, NEW r \in Requests, TakeRole(r)
  PROVE  IInv'
<1>1. Goes(r, Locked(r)) /\ WaitsFor(r) = {} /\ tx[r].phase = "role"
  BY DEF TakeRole, Runs, At
<1>2. AskOf(r).kind = "grant" /\ After(r) = "write" /\ tx[r] \in Tx /\ Sound(r) /\ AskSound(AskOf(r)) /\ Whose(r) = AskOf(r).who
  BY <1>1, Asked, AfterIs DEF CourseSound, At
<1>3. Wants(r) = {Alone(Entry("role", p)) : p \in Whose(r)} /\ \A p \in Whose(r) : Entry("role", p) \in Entries
  BY <1>1, <1>2 DEF Wants, At, Entries, Entry, AskSound
<1>4. Wants(r) \in SUBSET Locks /\ \A l \in Wants(r) : l.what \notin Ids
  BY <1>3, Apart, LockIs DEF Rows
<1>5. Locked(r) \in Tx /\ Locked(r).phase = "write"
  BY <1>2, <1>4, LockedIs DEF Phases
<1>6. tx'[r] = Locked(r)
  BY <1>1 DEF IInv, TypeOK, Goes
<1>7. tx[r].writes = {} /\ tx[r].todo = {}
  BY <1>1, <1>2 DEF Sound, WriteSound, ListSound, Listed, At
<1>8. CourseSound(r)'
  BY <1>1, <1>2, <1>5, <1>6, LockedIs DEF Sound, CourseSound, At, AskOf
<1>9. RowSound(r)' /\ GroundSound(r)' /\ LinksSound(r)'
  BY <1>2, <1>5, <1>6, LockedIs DEF RowSound, HoldsRow, GroundSound, LinksSound, At, AskOf
<1>10. Sound(r)'
  BY <1>5, <1>6, <1>7, <1>8, <1>9, LockedIs, EarlySound
<1>. QED
  BY <1>1, <1>4, <1>5, <1>10, LockedIs, TakesKeeps DEF At

(* Locking the row named, and reading it again, keeps the invariant. *)
LEMMA LockRowKeeps ==
  ASSUME IInv, NEW r \in Requests, LockRow(r)
  PROVE  IInv'
<1>. DEFINE v == row[AskOf(r).on]
            to == [Locked(r) EXCEPT !.saw = v, !.term = row[Term].last]
<1>1. CASE ~GoesOn(r, v)
  BY <1>1, EndsKeeps DEF LockRow, Runs, At
<1>2. CASE GoesOn(r, v)
  <2>1. Goes(r, to) /\ WaitsFor(r) = {} /\ tx[r].phase = "row" /\ v # None
    BY <1>2 DEF LockRow, Runs, At, GoesOn
  <2>2. /\ AskOf(r).kind \in {"move", "end", "depart", "narrow", "revoke", "profile", "unlink"}
        /\ tx[r] \in Tx /\ Sound(r) /\ CourseSound(r) /\ AskSound(AskOf(r))
    BY <2>1, Asked DEF CourseSound, At
  <2>3. /\ AskOf(r).kind = "move" => After(r) = "ground"
        /\ AskOf(r).kind = "depart" => After(r) = "links"
        /\ AskOf(r).kind \in {"narrow", "revoke"} => After(r) = "list"
        /\ AskOf(r).kind \in {"end", "profile", "unlink"} => After(r) = "write"
        /\ After(r) \in {"ground", "links", "list", "write"}
    BY <2>1, <2>2, AfterIs DEF At
  <2>4. AskOf(r).on \in Ids /\ Wants(r) = {Alone(AskOf(r).on)}
    BY <2>1, <2>2 DEF AskSound, Wants, At
  <2>5. Wants(r) \in SUBSET Locks /\ \A l \in Wants(r) : l.what \in Ids => Known(l.what)
    BY <2>1, <2>4, RowKnown DEF Locks, Alone, Rows
  <2>6. row[Term].last \in TermEnds /\ v \in Values
    BY <2>4, RowTyped DEF IInv, TypeOK, Rows
  <2>7. Locked(r) \in Tx /\ Locked(r).phase = After(r)
    BY <2>3, <2>5, LockedIs DEF Phases
  <2>. HIDE DEF v
  <2>8. to \in Tx
    BY <2>6, <2>7 DEF Tx
  <2>9. /\ to.ask = tx[r].ask /\ to.at = tx[r].at /\ to.saw = v /\ to.phase = After(r)
        /\ to.writes = tx[r].writes /\ to.todo = tx[r].todo /\ to.holds = tx[r].holds \cup Wants(r)
    BY <2>7, LockedIs DEF Tx
  <2>. HIDE DEF to
  <2>10. tx'[r] = to /\ row' = row
    BY <2>1 DEF IInv, TypeOK, Goes
  <2>11. tx[r].writes = {} /\ tx[r].todo = {}
    BY <2>1, <2>2 DEF Sound, WriteSound, ListSound, Listed, At
  <2>12. CourseSound(r)'
    BY <2>1, <2>2, <2>3, <2>9, <2>10 DEF CourseSound, At, AskOf, EndsGround
  <2>13. RowSound(r)'
    <3>1. Alone(AskOf(r).on) \in tx'[r].holds /\ row'[AskOf(r).on] = tx'[r].saw
      BY <2>4, <2>9, <2>10 DEF v
    <3>2. GoesOn(r, tx[r].saw)'
      BY <1>2, <2>9, <2>10 DEF GoesOn, AskOf
    <3>. QED
      BY <2>9, <2>10, <3>1, <3>2 DEF RowSound, AskOf
  <2>14. GroundSound(r)' /\ LinksSound(r)'
    BY <2>2, <2>3, <2>9, <2>10 DEF GroundSound, LinksSound, At, AskOf
  <2>15. tx'[r].phase \in {"links", "list"} => \A l \in tx'[r].holds : l.what \in Ids /\ l.what.table # "part"
    <3>1. tx[r].holds = {}
      BY <2>1, <2>2 DEF Sound, ListSound, At
    <3>2. After(r) \in {"links", "list"} => AskOf(r).on.table # "part"
      BY <2>2, <2>3 DEF AskSound
    <3>. QED
      BY <2>4, <2>9, <2>10, <3>1, <3>2, LockIs
  <2>16. Sound(r)'
    BY <2>3, <2>9, <2>10, <2>11, <2>12, <2>13, <2>14, <2>15, EarlySound
  <2>. QED
    BY <2>1, <2>5, <2>8, <2>9, <2>16, TakesKeeps DEF At
<1>. QED
  BY <1>1, <1>2

-----------------------------------------------------------------------------
(* A Person's ground are rows of theirs, and each reaches as far as is read *)
(* off all of them.                                                         *)
LEMMA GroundIs ==
  ASSUME IInv, NEW p \in Persons, NEW now \in Times
  PROVE  /\ \A j \in GroundRows(p, now) : j \in Ids /\ row[j] # None /\ j.of = p /\ j.table \in {"stay", "member"}
         /\ Until(p, now) \in 0 .. Open
         /\ GroundRows(p, now) = {} => Until(p, now) = Lapsed
         /\ \A j \in GroundRows(p, now) : Until(p, now) <= DateOf(EndOf(j))
<1>1. \A j \in GroundRows(p, now) : j \in Ids /\ row[j] # None /\ j.of = p /\ j.table \in {"stay", "member"}
  BY DEF GroundRows, OpenStay, Active, Held
<1>2. LastDay \in Nat /\ Open = LastDay + 1 /\ Lapsed = 0
  BY ParticipationAssumption DEF Open, Lapsed
<1>3. CASE GroundRows(p, now) = {}
  BY <1>1, <1>2, <1>3 DEF Until
<1>4. CASE GroundRows(p, now) # {} /\ p \in Students
  <2>1. Until(p, now) = Open
    BY <1>4 DEF Until
  <2>2. ASSUME NEW j \in GroundRows(p, now) PROVE DateOf(EndOf(j)) = Open
    BY <1>2, <1>4, <2>2 DEF GroundRows, OpenStay, Held, EndOf, DateOf, Never
  <2>. QED
    BY <1>1, <1>2, <1>4, <2>1, <2>2
<1>5. CASE GroundRows(p, now) # {} /\ p \notin Students
  <2>. DEFINE S == {DateOf(row[i].ends) : i \in Active(p, now)}
  <2>1. Until(p, now) = Min(S) /\ GroundRows(p, now) = Active(p, now)
    BY <1>5 DEF Until, GroundRows
  <2>2. \A i \in Active(p, now) : i \in Ids /\ row[i] # None /\ i.table = "member"
    BY DEF Active, Held
  <2>3. \A i \in Active(p, now) : row[i].ends \in 0 .. LastDay /\ DateOf(row[i].ends) \in 0 .. Open
    BY <1>2, <2>2, RowTyped DEF Member, Instants, DateOf
  <2>4. S \in SUBSET Nat /\ S # {} /\ S \subseteq 0 .. Open
    BY <1>2, <1>5, <2>1, <2>3
  <2>5. \A i \in Active(p, now) : DateOf(row[i].ends) \in S
    OBVIOUS
  <2>6. \A i \in Active(p, now) : EndOf(i) = row[i].ends
    BY <2>2 DEF EndOf
  <2>. HIDE DEF S
  <2>7. Min(S) \in S /\ \A n \in S : Min(S) <= n
    BY <2>4, MinIs
  <2>. QED
    BY <1>1, <1>5, <2>1, <2>4, <2>5, <2>6, <2>7
<1>. QED
  BY <1>1, <1>3, <1>4, <1>5

(* Whom a request is about, and how far the ground of all of them reaches. *)
LEMMA WhoIs ==
  ASSUME IInv, NEW r \in Requests, AskOf(r).kind \notin {"none", "term"}
  PROVE  /\ Whose(r) \subseteq Persons /\ Whose(r) # {}
         /\ AskOf(r).kind # "roster" => \E p \in Persons : Whose(r) = {p}
<1>1. AskSound(AskOf(r))
  BY Asked
<1>2. CASE AskOf(r).kind \in {"roster", "assign", "enroll", "grant", "link"}
  <2>1. Whose(r) = AskOf(r).who
    BY <1>2, Asked
  <2>. QED
    BY <1>1, <1>2, <2>1 DEF AskSound, Persons
<1>3. CASE AskOf(r).kind \notin {"roster", "assign", "enroll", "grant", "link"}
  <2>1. Whose(r) = {AskOf(r).on.of}
    BY <1>3, Asked
  <2>2. AskOf(r).on \in Ids
    BY <1>1, <1>3 DEF AskSound, Statements
  <2>. QED
    BY <2>1, <2>2, Apart
<1>. QED
  BY <1>2, <1>3

(* How far the ground of all of a request reaches: no further than that of each. *)
LEMMA GroundUntilIs ==
  ASSUME IInv, NEW r \in Requests, AskOf(r).kind \notin {"none", "term"}
  PROVE  /\ GroundUntil(r) \in 0 .. Open
         /\ \A p \in Whose(r) : GroundUntil(r) <= Until(p, tx[r].at)
<1>. DEFINE S == {Until(p, tx[r].at) : p \in Whose(r)}
<1>1. Whose(r) \subseteq Persons /\ Whose(r) # {}
  BY WhoIs
<1>2. \A p \in Whose(r) : Until(p, tx[r].at) \in 0 .. Open
  BY <1>1, Asked, GroundIs DEF Tx
<1>3. S \in SUBSET Nat /\ S \subseteq 0 .. Open /\ S # {}
  BY <1>1, <1>2, ParticipationAssumption DEF Open
<1>4. \A p \in Whose(r) : Until(p, tx[r].at) \in S
  OBVIOUS
<1>5. GroundUntil(r) = Min(S)
  BY DEF GroundUntil
<1>. HIDE DEF S
<1>6. Min(S) \in S /\ \A n \in S : Min(S) <= n
  BY <1>3, MinIs
<1>. QED
  BY <1>3, <1>4, <1>5, <1>6

(* Whoever holds ground is sure of it until they end; who found none may *)
(* only be moving what there is.                                         *)
LEMMA HoldGroundKeeps ==
  ASSUME IInv, NEW r \in Requests, HoldGround(r)
  PROVE  IInv'
<1>. DEFINE to == [Locked(r) EXCEPT !.until = GroundUntil(r)]
<1>1. CASE ~Grounded(r) /\ AskOf(r).kind # "move"
  BY <1>1, EndsKeeps DEF HoldGround, Runs, At
<1>2. CASE Grounded(r) \/ AskOf(r).kind = "move"
  <2>1. Goes(r, to) /\ WaitsFor(r) = {} /\ tx[r].phase = "ground"
    BY <1>2 DEF HoldGround, Runs, At
  <2>2. /\ AskOf(r).kind \in {"roster", "assign", "move", "link"} /\ After(r) = "write"
        /\ tx[r] \in Tx /\ Sound(r) /\ CourseSound(r) /\ tx[r].at \in Times
    BY <2>1, Asked, AfterIs DEF CourseSound, At, Tx
  <2>3. Wants(r) = {Shared(j) : j \in Grounds(r)}
    BY <2>1 DEF Wants, At
  <2>4. Whose(r) \subseteq Persons /\ Whose(r) # {} /\ (AskOf(r).kind = "move" => \E p \in Persons : Whose(r) = {p})
    BY <2>2, WhoIs
  <2>5. \A j \in Grounds(r) : j \in Ids /\ row[j] # None
    BY <2>2, <2>4, GroundIs DEF Grounds
  <2>6. Wants(r) \in SUBSET Locks /\ \A l \in Wants(r) : l.what \in Ids => Known(l.what)
    BY <2>3, <2>5, LockIs, RowKnown DEF Rows
  <2>7. GroundUntil(r) \in 0 .. Open
    BY <2>2, GroundUntilIs
  <2>8. Locked(r) \in Tx /\ Locked(r).phase = "write"
    BY <2>2, <2>6, LockedIs DEF Phases
  <2>9. to \in Tx
    BY <2>7, <2>8 DEF Tx
  <2>10. /\ to.ask = tx[r].ask /\ to.at = tx[r].at /\ to.saw = tx[r].saw /\ to.phase = "write"
         /\ to.writes = tx[r].writes /\ to.todo = tx[r].todo /\ to.holds = tx[r].holds \cup Wants(r)
         /\ to.until = GroundUntil(r)
    BY <2>8, LockedIs DEF Tx
  <2>. HIDE DEF to
  <2>11. tx'[r] = to /\ row' = row
    BY <2>1 DEF IInv, TypeOK, Goes
  <2>12. tx[r].writes = {} /\ tx[r].todo = {}
    BY <2>1, <2>2 DEF Sound, WriteSound, ListSound, Listed, At
  <2>13. CourseSound(r)'
    BY <2>1, <2>2, <2>10, <2>11 DEF CourseSound, At, AskOf, EndsGround
  <2>14. RowSound(r)'
    BY <2>1, <2>2, <2>10, <2>11 DEF Sound, RowSound, HoldsRow, GoesOn, AskOf
  <2>15. LinksSound(r)'
    BY <2>2, <2>10, <2>11 DEF LinksSound, AskOf
  <2>16. ASSUME NEW p \in Whose(r)
         PROVE  \/ AskOf(r).kind = "move" /\ GroundUntil(r) = Lapsed
                \/ \E j \in GroundRows(p, tx[r].at) : Shared(j) \in to.holds /\ GroundUntil(r) <= DateOf(EndOf(j))
    <3>1. GroundUntil(r) <= Until(p, tx[r].at) /\ p \in Persons
      BY <2>2, <2>4, GroundUntilIs
    <3>2. CASE GroundRows(p, tx[r].at) = {}
      <4>1. AskOf(r).kind = "move"
        BY <1>2, <3>2 DEF Grounded
      <4>2. Until(p, tx[r].at) = 0
        BY <2>2, <3>1, <3>2, GroundIs DEF Lapsed
      <4>. QED
        BY <2>7, <3>1, <4>1, <4>2 DEF Lapsed
    <3>3. CASE GroundRows(p, tx[r].at) # {}
      <4>1. PICK j \in GroundRows(p, tx[r].at) : TRUE
        BY <3>3
      <4>2. Shared(j) \in to.holds
        BY <2>3, <2>10 DEF Grounds
      <4>3. Until(p, tx[r].at) <= DateOf(EndOf(j)) /\ Until(p, tx[r].at) \in 0 .. Open /\ DateOf(EndOf(j)) \in Nat
        <5>1. j \in Ids /\ row[j] # None /\ j.table \in {"stay", "member"}
          BY <2>2, <3>1, GroundIs
        <5>2. EndOf(j) \in 0 .. LastDay
          BY <5>1, RowTyped DEF EndOf, Stay, Member, Instants
        <5>. QED
          BY <2>2, <3>1, <5>2, GroundIs, ParticipationAssumption DEF DateOf
      <4>. QED
        BY <2>7, <3>1, <4>2, <4>3, ParticipationAssumption DEF Open
    <3>. QED
      BY <3>2, <3>3
  <2>17. GroundSound(r)'
    BY <2>10, <2>11, <2>16 DEF GroundSound, At, AskOf, Whose, GroundRows, OpenStay, Active, Held, EndOf
  <2>18. Sound(r)'
    BY <2>10, <2>11, <2>12, <2>13, <2>14, <2>15, <2>17, EarlySound
  <2>. QED
    BY <2>1, <2>6, <2>9, <2>10, <2>18, TakesKeeps DEF At
<1>. QED
  BY <1>1, <1>2

-----------------------------------------------------------------------------
(* A departure goes on once it holds every link in force. *)
LEMMA LockLinksKeeps ==
  ASSUME IInv, NEW r \in Requests, LockLinks(r)
  PROVE  IInv'
<1>. DEFINE links == LinksToEnd(r)
            to == IF links = {} THEN Locked(r) ELSE [Locked(r) EXCEPT !.phase = "links"]
<1>1. Goes(r, to) /\ WaitsFor(r) = {} /\ tx[r].phase = "links"
  BY DEF LockLinks, Runs, At
<1>2. /\ AskOf(r).kind = "depart" /\ After(r) = "list" /\ tx[r] \in Tx /\ Sound(r) /\ CourseSound(r)
  BY <1>1, Asked, AfterIs DEF CourseSound, At
<1>3. \A l \in links : l \in Ids /\ row[l] # None /\ l.table = "link"
  BY DEF LinksToEnd, Unlocked, LinksInForce, Held
<1>4. links # {} => \E l \in links : Wants(r) = {Alone(l)}
  BY <1>1 DEF Wants, At
<1>5. links = {} => Wants(r) = {}
  BY <1>1 DEF Wants, At
<1>6. /\ Wants(r) \in SUBSET Locks /\ \A l \in Wants(r) : l.what \in Ids /\ Known(l.what) /\ l.what.table # "part"
  BY <1>3, <1>4, <1>5, LockIs, RowKnown DEF Rows
<1>7. Locked(r) \in Tx /\ Locked(r).phase = "list"
  BY <1>2, <1>6, LockedIs DEF Phases
<1>. HIDE DEF links
<1>8. to \in Tx
  BY <1>7 DEF Tx, Phases
<1>9. /\ to.ask = tx[r].ask /\ to.at = tx[r].at /\ to.saw = tx[r].saw
      /\ to.phase = (IF links = {} THEN "list" ELSE "links")
      /\ to.writes = tx[r].writes /\ to.todo = tx[r].todo /\ to.holds = tx[r].holds \cup Wants(r)
  BY <1>7, LockedIs DEF Tx
<1>. HIDE DEF to
<1>10. tx'[r] = to /\ row' = row
  BY <1>1 DEF IInv, TypeOK, Goes
<1>11. tx[r].writes = {} /\ tx[r].todo = {}
  BY <1>1, <1>2 DEF Sound, WriteSound, ListSound, Listed, At
<1>12. CourseSound(r)'
  BY <1>1, <1>2, <1>9, <1>10 DEF CourseSound, At, AskOf, EndsGround
<1>13. RowSound(r)' /\ GroundSound(r)'
  BY <1>1, <1>2, <1>9, <1>10 DEF Sound, RowSound, HoldsRow, GoesOn, GroundSound, AskOf
<1>14. LinksSound(r)'
  <2>1. links = {} => \A p \in Whose(r) : \A l \in LinksInForce(p) : Alone(l) \in tx[r].holds
    BY DEF links, LinksToEnd, Unlocked
  <2>2. Whose(r)' = Whose(r) /\ \A p : LinksInForce(p)' = LinksInForce(p)
    BY <1>9, <1>10 DEF Whose, AskOf, LinksInForce, Held
  <2>. QED
    BY <1>9, <1>10, <2>1, <2>2 DEF LinksSound, At
<1>15. \A l \in to.holds : l.what \in Ids /\ l.what.table # "part"
  BY <1>1, <1>2, <1>6, <1>9 DEF Sound, ListSound, At
<1>16. Sound(r)'
  BY <1>9, <1>10, <1>11, <1>12, <1>13, <1>14, <1>15, EarlySound
<1>. QED
  BY <1>1, <1>6, <1>8, <1>9, <1>16, TakesKeeps DEF At

(* What is listed are rows there are, of the Person whose ground ends. *)
LEMMA RunningIs ==
  ASSUME IInv, NEW r \in Requests, NEW last
  PROVE  \A i \in Running(r, last) :
           i \in Ids /\ i.table = "part" /\ i.of \in Whose(r) /\ row[i] # None /\ Known(i) /\ row[i].first \in Dates
<1>1. \A i \in Running(r, last) : i \in Ids /\ i.table = "part" /\ i.of \in Whose(r) /\ row[i] # None
  BY DEF Running, Held
<1>2. \A i \in Running(r, last) : row[i].first \in Dates
  BY <1>1, RowTyped, ParticipationAssumption DEF Part, Dates
<1>. QED
  BY <1>1, <1>2, RowKnown

(* Finding what runs past an end keeps the invariant. *)
LEMMA ListRowsKeeps ==
  ASSUME IInv, NEW r \in Requests, ListRows(r)
  PROVE  IInv'
<1>. DEFINE found == Running(r, row[Term].last)
            listed == {[on |-> i, first |-> row[i].first] : i \in found}
            to == [tx[r] EXCEPT !.todo = listed, !.term = row[Term].last,
                                !.phase = IF found = {} THEN "write" ELSE "rows"]
<1>1. Goes(r, to) /\ tx[r].phase = "list"
  BY DEF ListRows, Runs, At
<1>2. EndsGround(r) /\ tx[r] \in Tx /\ Sound(r) /\ CourseSound(r)
  BY <1>1, Asked DEF CourseSound, At
<1>3. \A i \in found : i \in Ids /\ i.table = "part" /\ i.of \in Whose(r) /\ row[i] # None /\ Known(i) /\ row[i].first \in Dates
  BY RunningIs
<1>4. listed \in SUBSET [on : Ids, first : Dates] /\ {e.on : e \in listed} = found
  <2>1. \A i \in found : [on |-> i, first |-> row[i].first] \in [on : Ids, first : Dates]
    BY <1>3
  <2>2. \A i \in found : [on |-> i, first |-> row[i].first] \in listed /\ [on |-> i, first |-> row[i].first].on = i
    OBVIOUS
  <2>3. \A e \in listed : e.on \in found
    OBVIOUS
  <2>4. listed \subseteq [on : Ids, first : Dates]
    BY <2>1
  <2>. HIDE DEF found, listed
  <2>5. {e.on : e \in listed} = found
    BY <2>2, <2>3
  <2>. QED
    BY <2>4, <2>5
<1>. HIDE DEF found, listed
<1>5. to \in Tx
  BY <1>2, <1>4, RowTyped DEF Tx, Phases
<1>6. /\ to.ask = tx[r].ask /\ to.at = tx[r].at /\ to.saw = tx[r].saw
      /\ to.phase = (IF found = {} THEN "write" ELSE "rows")
      /\ to.writes = tx[r].writes /\ to.todo = listed /\ to.holds = tx[r].holds
  BY <1>2 DEF Tx
<1>. HIDE DEF to
<1>7. tx'[r] = to /\ row' = row /\ \A q \in Requests \ {r} : tx'[q] = tx[q]
  BY <1>1 DEF IInv, TypeOK, Goes
<1>8. tx[r].writes = {}
  BY <1>1, <1>2 DEF Sound, WriteSound, At
<1>9. CourseSound(r)'
  BY <1>1, <1>2, <1>6, <1>7 DEF CourseSound, At, AskOf, EndsGround
<1>10. RowSound(r)' /\ GroundSound(r)'
  BY <1>1, <1>2, <1>6, <1>7 DEF Sound, RowSound, HoldsRow, GoesOn, GroundSound, AskOf, EndsGround
<1>11. LinksSound(r)'
  BY <1>1, <1>2, <1>6, <1>7 DEF Sound, LinksSound, At, AskOf, Whose, LinksInForce, Held
<1>12. ListSound(r)'
  <2>1. Listed(r)' = found
    BY <1>4, <1>6, <1>7 DEF Listed
  <2>2. \A i : Known(i) => Known(i)'
    BY <1>1, <1>7 DEF Known, At
  <2>3. Whose(r)' = Whose(r) /\ EndsGround(r)'
    BY <1>2, <1>6, <1>7 DEF Whose, EndsGround, AskOf
  <2>4. \A i \in found : Alone(i) \notin tx[r].holds
    BY <1>1, <1>2, <1>3, LockIs DEF Sound, ListSound, At
  <2>5. RowsToLock(r)' = found
    BY <1>6, <1>7, <2>1, <2>4 DEF RowsToLock, Unlocked
  <2>. QED
    BY <1>3, <1>6, <1>7, <2>1, <2>2, <2>3, <2>5 DEF ListSound, At
<1>13. StaySound(r)' /\ WriteSound(r)'
  BY <1>6, <1>7, <1>8 DEF StaySound, WriteSound, At
<1>14. Sound(r)'
  BY <1>9, <1>10, <1>11, <1>12, <1>13 DEF Sound
<1>15. \A q \in Requests \ {r} : \A k \in to.holds, l \in tx[q].holds : ~Clash(k, l)
  BY <1>6 DEF IInv, Exclusive
<1>16. \A l \in to.holds : l.what \in Ids => Known(l.what)
  BY <1>6 DEF IInv, KnownSound
<1>. QED
  BY <1>1, <1>5, <1>14, <1>15, <1>16, GoesKeeps DEF At

(* The next row to lock is one of those listed and not yet locked. *)
LEMMA NextRowIs ==
  ASSUME IInv, NEW r \in Requests, RowsToLock(r) # {}
  PROVE  NextRow(r) \in RowsToLock(r)
<1>. DEFINE left == {e \in tx[r].todo : e.on \in RowsToLock(r)}
            firsts == {e.first : e \in left}
<1>1. tx[r].todo \in SUBSET [on : Ids, first : Dates]
  BY Asked DEF Tx
<1>2. \A i \in RowsToLock(r) : \E e \in tx[r].todo : e.on = i
  BY DEF RowsToLock, Unlocked, Listed
<1>3. left # {}
  BY <1>2
<1>4. firsts \in SUBSET Nat /\ firsts # {}
  BY <1>1, <1>3 DEF Dates
<1>5. PICK m \in firsts : \A n \in firsts : m <= n
  BY <1>4, Least
<1>6. \E e \in left : \A f \in left : e.first <= f.first
  BY <1>5
<1>. DEFINE least == CHOOSE e \in left : \A f \in left : e.first <= f.first
<1>7. least \in left
  BY <1>6
<1>8. NextRow(r) = least.on
  BY DEF NextRow
<1>. QED
  BY <1>7, <1>8

(* Locking the next participation listed keeps the invariant. *)
LEMMA LockNextRowKeeps ==
  ASSUME IInv, NEW r \in Requests, LockNextRow(r)
  PROVE  IInv'
<1>. DEFINE next == NextRow(r)
            to == IF RowsToLock(r) = {next} THEN Locked(r) ELSE [Locked(r) EXCEPT !.phase = "rows"]
<1>1. Goes(r, to) /\ WaitsFor(r) = {} /\ tx[r].phase = "rows"
  BY DEF LockNextRow, Runs, At
<1>2. EndsGround(r) /\ tx[r] \in Tx /\ Sound(r) /\ CourseSound(r) /\ After(r) = "write"
  BY <1>1, Asked, AfterIs DEF CourseSound, At, EndsGround
<1>3. next \in RowsToLock(r) /\ RowsToLock(r) \subseteq Listed(r)
  BY <1>1, <1>2, NextRowIs DEF Sound, ListSound, At, RowsToLock, Unlocked
<1>4. Listed(r) \subseteq Ids
  BY <1>2 DEF Listed, Tx
<1>5. Wants(r) = {Alone(next)}
  BY <1>1 DEF Wants, At
<1>6. Wants(r) \in SUBSET Locks /\ \A l \in Wants(r) : l.what \in Ids => Known(l.what)
  BY <1>2, <1>3, <1>4, <1>5, LockIs DEF Rows, Sound, ListSound
<1>7. Locked(r) \in Tx /\ Locked(r).phase = "write"
  BY <1>2, <1>6, LockedIs DEF Phases
<1>. HIDE DEF next
<1>8. to \in Tx
  BY <1>7 DEF Tx, Phases
<1>9. /\ to.ask = tx[r].ask /\ to.at = tx[r].at /\ to.saw = tx[r].saw
      /\ to.phase = (IF RowsToLock(r) = {next} THEN "write" ELSE "rows")
      /\ to.writes = tx[r].writes /\ to.todo = tx[r].todo /\ to.holds = tx[r].holds \cup {Alone(next)}
  BY <1>5, <1>7, LockedIs DEF Tx
<1>. HIDE DEF to
<1>10. tx'[r] = to /\ row' = row /\ \A q \in Requests \ {r} : tx'[q] = tx[q]
  BY <1>1 DEF IInv, TypeOK, Goes
<1>11. tx[r].writes = {}
  BY <1>1, <1>2 DEF Sound, WriteSound, At
<1>12. CourseSound(r)'
  BY <1>1, <1>2, <1>9, <1>10 DEF CourseSound, At, AskOf, EndsGround
<1>13. RowSound(r)' /\ GroundSound(r)'
  BY <1>1, <1>2, <1>9, <1>10 DEF Sound, RowSound, HoldsRow, GoesOn, GroundSound, AskOf, EndsGround
<1>14. LinksSound(r)'
  BY <1>1, <1>2, <1>9, <1>10 DEF Sound, LinksSound, At, AskOf, Whose, LinksInForce, Held
<1>15. ListSound(r)'
  <2>1. Listed(r)' = Listed(r)
    BY <1>9, <1>10 DEF Listed
  <2>2. \A i : Known(i) => Known(i)'
    BY <1>1, <1>10 DEF Known, At
  <2>3. Whose(r)' = Whose(r) /\ EndsGround(r)'
    BY <1>2, <1>9, <1>10 DEF Whose, EndsGround, AskOf
  <2>4. \A i, j : Alone(i) = Alone(j) => i = j
    BY LockIs
  <2>5. RowsToLock(r)' = RowsToLock(r) \ {next}
    BY <1>9, <1>10, <2>1, <2>4 DEF RowsToLock, Unlocked
  <2>6. \A i \in Listed(r) : i \notin RowsToLock(r) => Alone(i) \in tx[r].holds
    BY DEF RowsToLock, Unlocked
  <2>7. to.phase = "rows" => RowsToLock(r)' # {}
    BY <1>3, <1>9, <2>5
  <2>8. to.phase = "write" => \A i \in Listed(r) : Alone(i) \in to.holds
    BY <1>9, <2>6
  <2>9. \A i \in Listed(r) : i.table = "part" /\ i.of \in Whose(r) /\ Known(i)
    BY <1>2 DEF Sound, ListSound
  <2>. QED
    BY <1>9, <1>10, <2>1, <2>2, <2>3, <2>7, <2>8, <2>9 DEF ListSound, At
<1>16. StaySound(r)' /\ WriteSound(r)'
  BY <1>9, <1>10, <1>11 DEF StaySound, WriteSound, At
<1>17. Sound(r)'
  BY <1>12, <1>13, <1>14, <1>15, <1>16 DEF Sound
<1>. QED
  BY <1>1, <1>5, <1>6, <1>8, <1>9, <1>17, TakesKeeps DEF At

-----------------------------------------------------------------------------
(* What a write takes: entries of indexes, and the Term. *)
LEMMA WriteLocksAre ==
  ASSUME IInv, NEW r \in Requests, At(r, "write")
  PROVE  /\ Wants(r) \in SUBSET Locks /\ \A l \in Wants(r) : l.what \notin Ids
         /\ WritesParts(r) /\ AskOf(r).kind # "term" => Shared(Term) \in Wants(r)
         /\ AskOf(r).kind = "term" => Alone(Term) \in Wants(r) /\ ~WritesParts(r)
         /\ AskOf(r).kind = "enroll" => \A p \in Whose(r) : Alone(Entry("stay", p)) \in Wants(r)
<1>1. Wants(r) = WriteLocks(r)
  BY DEF Wants, At
<1>2. tx[r] \in Tx /\ Sound(r) /\ AskOf(r).kind # "none" /\ AskSound(AskOf(r))
  BY Asked DEF At
<1>3. tx[r].todo # {} => EndsGround(r)
  BY <1>2 DEF Sound, ListSound, Listed
<1>4. WritesParts(r) => AskOf(r).kind # "term" /\ Whose(r) \subseteq Persons
  BY <1>2, <1>3, WhoIs DEF WritesParts, EndsGround
<1>5. AskOf(r).kind = "enroll" => Whose(r) \subseteq Persons
  BY WhoIs
<1>6. AskOf(r).kind = "link" => Whose(r) \subseteq Students /\ AskOf(r).guardian \in Guardians
  BY <1>2, Asked DEF AskSound
<1>7. \A l \in EntriesWritten(r) : \E e \in Entries : l = Alone(e)
  <2>1. \A p \in Persons : Entry("part", p) \in Entries /\ Entry("stay", p) \in Entries
    BY DEF Entry, Entries
  <2>2. \A g \in Guardians, p \in Students : Entry("link", <<g, p>>) \in Entries
    BY DEF Entry, Entries
  <2>. QED
    BY <1>4, <1>5, <1>6, <2>1, <2>2 DEF EntriesWritten
<1>8. \A l \in Wants(r) : \E w \in Entries \cup {Term} : l = Alone(w) \/ l = Shared(w)
  BY <1>1, <1>7 DEF WriteLocks
<1>9. Wants(r) \in SUBSET Locks /\ \A l \in Wants(r) : l.what \notin Ids
  BY <1>8, LockIs, Apart DEF Rows
<1>10. AskOf(r).kind = "enroll" => \A p \in Whose(r) : Alone(Entry("stay", p)) \in Wants(r)
  BY <1>1 DEF WriteLocks, EntriesWritten
<1>. QED
  BY <1>1, <1>4, <1>9, <1>10 DEF WriteLocks

(* A request may write what it holds or makes: each row once, each change  *)
(* from the row as it stands to one its kind may leave.                    *)
LEMMA WritesKeep ==
  ASSUME IInv, NEW r \in Requests, Runs(r, "write"),
         NEW changes \in SUBSET [of : Rows, before : Values, after : Values], Writes(r, changes),
         \A c \in changes :
           /\ c.before = row[c.of] /\ c.after \in {None} \cup RowsOf[c.of.table]
           /\ \/ Alone(c.of) \in tx[r].holds
              \/ c.of = Term
              \/ c.of.by = r /\ c.before = None
           /\ \A d \in changes : d.of = c.of => d = c
           /\ ChangeSound(r, c),
         AskOf(r).kind = "depart" => \A p \in Whose(r) : \A l \in LinksInForce(p) : \E c \in changes : c.of = l,
         AskOf(r).kind = "enroll" => \A p \in Whose(r) : OpenStay(p) = {}
  PROVE  IInv'
<1>. DEFINE to == [Locked(r) EXCEPT !.writes = changes]
<1>1. Goes(r, to) /\ WaitsFor(r) = {} /\ tx[r].phase = "write" /\ At(r, "write")
  BY DEF Runs, Writes, At
<1>2. /\ tx[r] \in Tx /\ Sound(r) /\ CourseSound(r) /\ AskOf(r).kind # "none" /\ After(r) = "commit"
  BY <1>1, Asked, AfterIs DEF At
<1>3. Wants(r) \in SUBSET Locks /\ \A l \in Wants(r) : l.what \in Ids => Known(l.what)
  BY <1>1, WriteLocksAre
<1>4. Locked(r) \in Tx /\ Locked(r).phase = "commit"
  BY <1>2, <1>3, LockedIs DEF Phases
<1>5. to \in Tx
  BY <1>4 DEF Tx
<1>6. /\ to.ask = tx[r].ask /\ to.at = tx[r].at /\ to.saw = tx[r].saw /\ to.phase = "commit"
      /\ to.until = tx[r].until /\ to.term = tx[r].term
      /\ to.writes = changes /\ to.todo = tx[r].todo /\ to.holds = tx[r].holds \cup Wants(r)
  BY <1>4, LockedIs DEF Tx
<1>. HIDE DEF to
<1>7. tx'[r] = to /\ row' = row
  BY <1>1 DEF IInv, TypeOK, Goes
<1>8. CourseSound(r)'
  BY <1>1, <1>2, <1>6, <1>7 DEF CourseSound, At, AskOf, EndsGround
<1>9. RowSound(r)'
  BY <1>1, <1>2, <1>6, <1>7 DEF Sound, RowSound, HoldsRow, GoesOn, AskOf
<1>10. GroundSound(r)'
  BY <1>1, <1>2, <1>6, <1>7 DEF Sound, GroundSound, At, AskOf, Whose, GroundRows, OpenStay, Active, Held, EndOf
<1>11. LinksSound(r)'
  <2>1. Whose(r)' = Whose(r) /\ \A p : LinksInForce(p)' = LinksInForce(p)
    BY <1>6, <1>7 DEF Whose, AskOf, LinksInForce, Held
  <2>2. AskOf(r).kind = "depart" => \A p \in Whose(r) : \A l \in LinksInForce(p) : Alone(l) \in tx[r].holds
    BY <1>1, <1>2 DEF Sound, LinksSound
  <2>3. Written(r)' = {c.of : c \in changes}
    BY <1>6, <1>7 DEF Written
  <2>4. AskOf(r).kind = "depart" => \A p \in Whose(r) : \A l \in LinksInForce(p) : l \in Written(r)'
    BY <2>3
  <2>. QED
    BY <1>6, <1>7, <2>1, <2>2, <2>4 DEF LinksSound, AskOf
<1>12. ListSound(r)'
  <2>1. Listed(r)' = Listed(r) /\ Whose(r)' = Whose(r) /\ EndsGround(r)' = EndsGround(r)
    BY <1>6, <1>7 DEF Listed, Whose, EndsGround, AskOf
  <2>2. \A i : Known(i) => Known(i)'
    BY <1>1 DEF Goes, IInv, TypeOK, Known, At
  <2>. QED
    BY <1>1, <1>2, <1>6, <1>7, <2>1, <2>2 DEF Sound, ListSound, At
<1>13. StaySound(r)'
  <2>1. Whose(r)' = Whose(r) /\ AskOf(r)' = AskOf(r) /\ \A p : OpenStay(p)' = OpenStay(p)
    BY <1>6, <1>7 DEF Whose, AskOf, OpenStay, Held
  <2>. QED
    BY <1>1, <1>6, <1>7, <2>1, WriteLocksAre DEF StaySound
<1>14. WriteSound(r)'
  <2>1. /\ EndInstant(r)' = EndInstant(r) /\ AskOf(r)' = AskOf(r) /\ Whose(r)' = Whose(r)
        /\ WritesParts(r)' = WritesParts(r) /\ Parts' = Parts
    <3>1. AskOf(r)' = AskOf(r) /\ tx'[r].at = tx[r].at /\ tx'[r].saw = tx[r].saw /\ tx'[r].todo = tx[r].todo
      BY <1>6, <1>7 DEF AskOf
    <3>2. EndInstant(r)' = EndInstant(r)
      BY <3>1 DEF EndInstant
    <3>3. Whose(r)' = Whose(r) /\ WritesParts(r)' = WritesParts(r)
      BY <3>1 DEF Whose, WritesParts
    <3>4. Parts' = Parts
      BY <1>7 DEF Parts, Held
    <3>. QED
      BY <3>1, <3>2, <3>3, <3>4
  <2>2. \A c \in changes : ChangeSound(r, c)'
    BY <1>6, <1>7, <2>1 DEF ChangeSound, InsideTerm, Strands
  <2>3. \A c \in changes : c.of.table = "part" => Shared(Term) \in to.holds
    <3>1. ASSUME NEW c \in changes, c.of.table = "part" PROVE WritesParts(r)
      BY <3>1 DEF ChangeSound
    <3>. QED
      BY <1>1, <1>6, <3>1, WriteLocksAre
  <2>4. \A c \in changes : c.of = Term => Alone(Term) \in to.holds
    <3>1. ASSUME NEW c \in changes, c.of = Term PROVE AskOf(r).kind = "term"
      BY <3>1, Apart DEF ChangeSound
    <3>. QED
      BY <1>1, <1>6, <3>1, WriteLocksAre
  <2>. QED
    BY <1>6, <1>7, <2>2, <2>3, <2>4 DEF WriteSound, At
<1>15. Sound(r)'
  BY <1>8, <1>9, <1>10, <1>11, <1>12, <1>13, <1>14 DEF Sound
<1>. QED
  BY <1>1, <1>3, <1>5, <1>6, <1>15, TakesKeeps DEF At

-----------------------------------------------------------------------------
(* A change of a row to one of its table. *)
LEMMA ChangeIs ==
  ASSUME IInv, NEW i \in Rows, NEW v \in {None} \cup RowsOf[i.table]
  PROVE  /\ Change(i, row[i], v) \in [of : Rows, before : Values, after : Values]
         /\ Change(i, row[i], v).of = i /\ Change(i, row[i], v).before = row[i] /\ Change(i, row[i], v).after = v
<1>1. i.table \in DOMAIN RowsOf
  BY Apart DEF Rows, RowsOf
<1>2. v \in Values
  BY <1>1 DEF Values
<1>3. row[i] \in Values
  BY DEF IInv, TypeOK
<1>. QED
  BY <1>2, <1>3 DEF Change

(* What a request makes is not there while it is under way. *)
LEMMA MadeIs ==
  ASSUME IInv, NEW r \in Requests, ~At(r, "ended"), NEW i \in Ids, i.by = r
  PROVE  row[i] = None
BY DEF IInv, KnownSound, Known

(* The rows of each table, None of which is None. *)
LEMMA TablesAre ==
  /\ None \notin Stay /\ None \notin Member /\ None \notin Link /\ None \notin Part /\ None \notin [last : TermEnds]
  /\ RowsOf["term"] = [last : TermEnds] /\ RowsOf["stay"] = Stay /\ RowsOf["member"] = Member
  /\ RowsOf["link"] = Link /\ RowsOf["part"] = Part
BY NoneIsNothing DEF RowsOf

(* Ids of the rows a request may make. *)
LEMMA MadeIds ==
  ASSUME NEW r \in Requests
  PROVE  /\ \A p \in Students \cup Faculty : Id("part", p, r) \in Ids
         /\ \A p \in Students : Id("stay", p, r) \in Ids /\ Id("link", p, r) \in Ids
         /\ \A p \in Persons : Id("member", p, r) \in Ids
         /\ \A t, p : Id(t, p, r).table = t /\ Id(t, p, r).of = p /\ Id(t, p, r).by = r
<1>1. \A t \in DOMAIN Owners, p \in Persons : p \in Owners[t] => Id(t, p, r) \in Ids
  BY DEF Ids
<1>2. DOMAIN Owners = {"stay", "member", "link", "part"} /\ Owners["stay"] = Students /\ Owners["member"] = Persons
      /\ Owners["link"] = Students /\ Owners["part"] = Students \cup Faculty
  BY DEF Owners
<1>3. Students \subseteq Persons /\ Faculty \subseteq Persons
  BY DEF Persons
<1>. QED
  BY <1>1, <1>2, <1>3 DEF Id

(* The row a request names is as it found it, and its own until it ends. *)
LEMMA NamedIs ==
  ASSUME IInv, NEW r \in Requests, HoldsRow(r)
  PROVE  /\ AskOf(r).on \in Ids /\ AskOf(r).on \in Rows /\ AskOf(r).on.by # r /\ Whose(r) = {AskOf(r).on.of}
         /\ row[AskOf(r).on] = tx[r].saw /\ tx[r].saw # None /\ Alone(AskOf(r).on) \in tx[r].holds
         /\ AskOf(r).kind \in {"move", "end"} => AskOf(r).on.table = "part" /\ tx[r].saw \in Part
         /\ AskOf(r).kind = "depart" => AskOf(r).on.table = "stay" /\ tx[r].saw \in Stay
         /\ AskOf(r).kind \in {"narrow", "revoke"} => AskOf(r).on.table = "member" /\ tx[r].saw \in Member
         /\ AskOf(r).kind \in {"profile", "unlink"} => AskOf(r).on.table = "link" /\ tx[r].saw \in Link
<1>1. AskSound(AskOf(r)) /\ Sound(r) /\ Whose(r) = {AskOf(r).on.of}
  BY Asked DEF HoldsRow
<1>2. row[AskOf(r).on] = tx[r].saw /\ tx[r].saw # None /\ Alone(AskOf(r).on) \in tx[r].holds
  BY <1>1 DEF Sound, RowSound, GoesOn
<1>3. AskOf(r).on \in Ids
  BY <1>1 DEF AskSound, HoldsRow
<1>4. AskOf(r).on.by # r
  BY <1>2, <1>3, MadeIs DEF HoldsRow, At
<1>. QED
  BY <1>1, <1>2, <1>3, <1>4, RowTyped DEF AskSound, HoldsRow, Rows

(* The dates asked of a participation are dates, if they are in order. *)
LEMMA BoundsAre ==
  ASSUME IInv, NEW r \in Requests, AskOf(r).kind \in {"roster", "assign", "move"}, InOrder(BoundsAsked(r))
  PROVE  BoundsAsked(r) \in Part /\ BoundsAsked(r).first \in FirstDates
<1>1. AskSound(AskOf(r)) /\ tx[r] \in Tx
  BY Asked
<1>. DEFINE first == AskOf(r).first
            last == IF AskOf(r).last # Unstated THEN AskOf(r).last
                    ELSE IF tx[r].until < tx[r].term THEN tx[r].until ELSE Open
<1>2. LastDay \in Nat /\ Open = LastDay + 1 /\ Dates = 1 .. LastDay /\ Unstated = 0
  BY ParticipationAssumption DEF Open, Dates, Unstated
<1>3. first \in FirstDates /\ first \in Dates /\ AskOf(r).last \in 0 .. Open
  <2>1. FirstDates \subseteq 1 .. LastDay /\ LastDates \subseteq 1 .. LastDay + 1
    BY ParticipationAssumption
  <2>2. first \in FirstDates /\ AskOf(r).last \in LastDates \cup {0}
    BY <1>1, <1>2 DEF AskSound
  <2>3. \A n \in 1 .. LastDay + 1 : n \in 0 .. Open
    BY <1>2
  <2>4. 0 \in 0 .. Open
    BY <1>2
  <2>. HIDE DEF first
  <2>. QED
    BY <1>2, <2>1, <2>2, <2>3, <2>4
<1>4. tx[r].until \in 0 .. Open /\ tx[r].term \in 0 .. LastDay
  <2>1. tx[r].until \in 0 .. Open /\ tx[r].term \in TermEnds \cup {0}
    BY <1>1 DEF Tx
  <2>2. TermEnds \subseteq 1 .. LastDay
    BY ParticipationAssumption
  <2>3. \A n \in (1 .. LastDay) \cup {0} : n \in 0 .. LastDay
    BY <1>2
  <2>. QED
    BY <2>1, <2>2, <2>3
<1>5. last \in 0 .. Open
  BY <1>2, <1>3, <1>4
<1>6. BoundsAsked(r) = [first |-> first, last |-> last]
  BY DEF BoundsAsked
<1>. HIDE DEF first, last
<1>7. first <= last
  BY <1>6 DEF InOrder
<1>8. last \in Dates \cup {Open}
  BY <1>2, <1>3, <1>5, <1>7
<1>. QED
  BY <1>3, <1>6, <1>7, <1>8 DEF Part

(* Rostering Students and assigning a teacher keep the invariant. *)
LEMMA PlaceKeeps ==
  ASSUME IInv, NEW r \in Requests, Place(r)
  PROVE  IInv'
<1>. DEFINE v == BoundsAsked(r)
            ids == {Id("part", p, r) : p \in Whose(r)}
            changes == {Change(i, None, v) : i \in ids}
            allowed == InOrder(v) /\ InsideGround(r, v) /\ \A i \in ids : Fits(i, v)
<1>1. Runs(r, "write") /\ AskOf(r).kind \in {"roster", "assign"} /\ ~At(r, "ended")
  BY DEF Place, Runs, At
<1>2. CASE ~allowed
  BY <1>1, <1>2, EndsKeeps DEF Place
<1>3. CASE allowed
  <2>1. Writes(r, changes)
    BY <1>3 DEF Place
  <2>2. v \in Part /\ \A i \in ids : InsideTerm(v)
    BY <1>1, <1>3, BoundsAre DEF Fits
  <2>3. Whose(r) \subseteq Students \cup Faculty
    BY <1>1, Asked DEF AskSound
  <2>4. \A i \in ids : i \in Ids /\ i \in Rows /\ i.table = "part" /\ i.by = r /\ row[i] = None
    BY <1>1, <2>3, MadeIds, MadeIs DEF Rows
  <2>. HIDE DEF ids, v
  <2>5. \A i \in ids : /\ Change(i, None, v) \in [of : Rows, before : Values, after : Values]
                       /\ Change(i, None, v).of = i /\ Change(i, None, v).before = None /\ Change(i, None, v).after = v
    BY <2>2, <2>4, ChangeIs, TablesAre
  <2>6. \A c \in changes : \E i \in ids : c = Change(i, None, v)
    OBVIOUS
  <2>7. WritesParts(r)
    BY <1>1 DEF WritesParts
  <2>8. ASSUME NEW c \in changes
        PROVE  /\ c.before = row[c.of] /\ c.after \in {None} \cup RowsOf[c.of.table]
               /\ c.of.by = r /\ c.before = None
               /\ \A d \in changes : d.of = c.of => d = c
               /\ ChangeSound(r, c)
    <3>1. PICK i \in ids : c = Change(i, None, v)
      BY <2>6
    <3>2. ChangeSound(r, c)
      BY <2>2, <2>4, <2>5, <2>7, <3>1 DEF ChangeSound
    <3>3. \A d \in changes : d.of = c.of => d = c
      BY <2>5, <2>6, <3>1
    <3>. QED
      BY <2>2, <2>4, <2>5, <3>1, <3>2, <3>3, TablesAre
  <2>9. changes \in SUBSET [of : Rows, before : Values, after : Values]
    BY <2>5, <2>6
  <2>. HIDE DEF changes
  <2>. QED
    BY <1>1, <2>1, <2>8, <2>9, WritesKeep
<1>. QED
  BY <1>2, <1>3

(* A request that writes one row. *)
LEMMA OneChangeKeeps ==
  ASSUME IInv, NEW r \in Requests, Runs(r, "write"),
         NEW i \in Rows, NEW v \in {None} \cup RowsOf[i.table],
         Writes(r, {Change(i, row[i], v)}), ChangeSound(r, Change(i, row[i], v)),
         \/ Alone(i) \in tx[r].holds
         \/ i = Term
         \/ i.by = r /\ row[i] = None,
         AskOf(r).kind # "depart",
         AskOf(r).kind = "enroll" => \A p \in Whose(r) : OpenStay(p) = {}
  PROVE  IInv'
<1>. DEFINE c == Change(i, row[i], v)
<1>1. c \in [of : Rows, before : Values, after : Values] /\ c.of = i /\ c.before = row[i] /\ c.after = v
  BY ChangeIs
<1>2. Writes(r, {c}) /\ ChangeSound(r, c)
  OBVIOUS
<1>. HIDE DEF c
<1>. QED
  BY <1>1, <1>2, WritesKeep

(* A participation ended on a date is gone, or has its bounds in order. *)
LEMMA EndedIs ==
  ASSUME NEW v \in Part, NEW date \in Dates
  PROVE  /\ EndedOn(v, date) \in {None} \cup Part
         /\ EndedOn(v, date) # None => EndedOn(v, date).first = v.first /\ EndedOn(v, date).last = date
<1>1. v \in [first : FirstDates, last : Dates \cup {Open}] /\ v.first <= v.last /\ FirstDates \subseteq Dates
  BY ParticipationAssumption DEF Part, Dates
<1>2. CASE v.first > date
  BY <1>2 DEF EndedOn
<1>3. CASE ~(v.first > date)
  <2>1. EndedOn(v, date) = [v EXCEPT !.last = date]
    BY <1>3 DEF EndedOn
  <2>2. v.first <= date
    <3>1. v.first \in Dates
      BY <1>1
    <3>. QED
      BY <1>3, <3>1 DEF Dates
  <2>3. [v EXCEPT !.last = date] \in Part /\ [v EXCEPT !.last = date].first = v.first /\ [v EXCEPT !.last = date].last = date
    BY <1>1, <2>2 DEF Part
  <2>. QED
    BY <2>1, <2>3
<1>. QED
  BY <1>2, <1>3

(* Moving the bounds of a participation keeps the invariant. *)
LEMMA MoveKeeps ==
  ASSUME IInv, NEW r \in Requests, Move(r)
  PROVE  IInv'
<1>. DEFINE v == BoundsAsked(r)
            i == AskOf(r).on
            lapsed == tx[r].until = Lapsed
            allowed == /\ InOrder(v) /\ v # tx[r].saw /\ Fits(i, v)
                       /\ IF lapsed THEN ~Extends(r, v) ELSE InsideGround(r, v)
<1>1. Runs(r, "write") /\ AskOf(r).kind = "move" /\ ~At(r, "ended") /\ HoldsRow(r)
  BY DEF Move, Runs, At, HoldsRow
<1>2. CASE ~allowed
  BY <1>1, <1>2, EndsKeeps DEF Move
<1>3. CASE allowed
  <2>1. i \in Rows /\ i.table = "part" /\ Alone(i) \in tx[r].holds /\ tx[r].saw = row[i]
    BY <1>1, NamedIs
  <2>2. v \in Part /\ InsideTerm(v)
    BY <1>1, <1>3, BoundsAre DEF Fits
  <2>3. Writes(r, {Change(i, row[i], v)})
    BY <1>3, <2>1 DEF Move
  <2>4. v \in {None} \cup RowsOf[i.table]
    BY <2>1, <2>2, TablesAre
  <2>. HIDE DEF i, v
  <2>5. Change(i, row[i], v).of = i /\ Change(i, row[i], v).after = v
    BY <2>1, <2>4, ChangeIs
  <2>6. ChangeSound(r, Change(i, row[i], v))
    BY <1>1, <2>1, <2>2, <2>5 DEF ChangeSound, WritesParts
  <2>. QED
    BY <1>1, <2>1, <2>3, <2>4, <2>6, OneChangeKeeps
<1>. QED
  BY <1>2, <1>3

(* Ending one participation today keeps the invariant. *)
LEMMA EndPartKeeps ==
  ASSUME IInv, NEW r \in Requests, EndPart(r)
  PROVE  IInv'
<1>. DEFINE today == DateOf(tx[r].at)
            saw == tx[r].saw
            i == AskOf(r).on
            v == EndedOn(saw, today)
<1>1. Runs(r, "write") /\ AskOf(r).kind = "end" /\ ~At(r, "ended") /\ HoldsRow(r)
  BY DEF EndPart, Runs, At, HoldsRow
<1>2. CASE Ends(r)
  BY <1>1, <1>2, EndsKeeps
<1>3. CASE Accepted({Change(i, saw, v)}) /\ Writes(r, {Change(i, saw, v)})
  <2>1. i \in Rows /\ i.table = "part" /\ Alone(i) \in tx[r].holds /\ saw = row[i] /\ saw \in Part
    BY <1>1, NamedIs
  <2>2. today \in Dates
    BY Asked, ParticipationAssumption DEF Tx, Times, DateOf, Dates
  <2>. HIDE DEF today
  <2>3. v \in {None} \cup RowsOf[i.table]
    BY <2>1, <2>2, EndedIs, TablesAre
  <2>. HIDE DEF i, v
  <2>4. Change(i, row[i], v).of = i /\ Change(i, row[i], v).after = v
    BY <2>1, <2>3, ChangeIs
  <2>5. v # None => InsideTerm(v)
    BY <1>3, <2>1, <2>4 DEF Accepted
  <2>6. ChangeSound(r, Change(i, row[i], v))
    BY <1>1, <2>1, <2>4, <2>5 DEF ChangeSound, WritesParts
  <2>. QED
    BY <1>1, <1>3, <2>1, <2>3, <2>6, OneChangeKeeps
<1>. QED
  BY <1>2, <1>3 DEF EndPart, Ending

(* Changing a Guardian link's profile keeps the invariant. *)
LEMMA ChangeProfileKeeps ==
  ASSUME IInv, NEW r \in Requests, ChangeProfile(r)
  PROVE  IInv'
<1>. DEFINE i == AskOf(r).on
            v == [tx[r].saw EXCEPT !.profile = AskOf(r).profile]
<1>1. Runs(r, "write") /\ AskOf(r).kind = "profile" /\ HoldsRow(r) /\ Writes(r, {Change(i, tx[r].saw, v)})
  BY DEF ChangeProfile, Runs, At, HoldsRow
<1>2. i \in Rows /\ i.table = "link" /\ Alone(i) \in tx[r].holds /\ tx[r].saw = row[i] /\ tx[r].saw \in Link
  BY <1>1, NamedIs
<1>3. AskOf(r).profile \in SUBSET Permissions
  BY <1>1, Asked, ParticipationAssumption DEF AskSound
<1>4. v \in Link
  BY <1>2, <1>3 DEF Link
<1>5. v \in {None} \cup RowsOf[i.table] /\ v # None
  BY <1>2, <1>4, TablesAre
<1>. HIDE DEF i, v
<1>6. Change(i, row[i], v).of = i /\ Change(i, row[i], v).after = v
  BY <1>2, <1>5, ChangeIs
<1>7. ChangeSound(r, Change(i, row[i], v))
  <2>1. Change(i, row[i], v).before = row[i]
    BY <1>2, <1>5, ChangeIs
  <2>. QED
    BY <1>1, <1>2, <1>6, <2>1 DEF ChangeSound, i, v
<1>. QED
  BY <1>1, <1>2, <1>5, <1>7, OneChangeKeeps

(* The moment a request began is before the last, so what it ends then is no longer open. *)
LEMMA InstantsAre ==
  ASSUME IInv, NEW r \in Requests
  PROVE  /\ tx[r].at \in Instants /\ tx[r].at # Never /\ tx[r].at < LastDay /\ tx[r].at \in Nat /\ LastDay \in Nat
         /\ DateOf(tx[r].at) \in Dates /\ Never \in Instants
BY Asked, ParticipationAssumption DEF Tx, Times, Instants, Never, DateOf, Dates

(* Ending a Guardian link keeps the invariant. *)
LEMMA UnlinkKeeps ==
  ASSUME IInv, NEW r \in Requests, Unlink(r)
  PROVE  IInv'
<1>. DEFINE i == AskOf(r).on
            v == [tx[r].saw EXCEPT !.ended = tx[r].at]
<1>1. Runs(r, "write") /\ AskOf(r).kind = "unlink" /\ HoldsRow(r) /\ Writes(r, {Change(i, tx[r].saw, v)})
  BY DEF Unlink, Runs, At, HoldsRow
<1>2. i \in Rows /\ i.table = "link" /\ Alone(i) \in tx[r].holds /\ tx[r].saw = row[i] /\ tx[r].saw \in Link
  BY <1>1, NamedIs
<1>3. v \in Link /\ v.ended = tx[r].at
  BY <1>2, InstantsAre DEF Link
<1>4. v \in {None} \cup RowsOf[i.table] /\ v # None
  BY <1>2, <1>3, TablesAre
<1>. HIDE DEF i, v
<1>5. Change(i, row[i], v).of = i /\ Change(i, row[i], v).after = v
  BY <1>2, <1>4, ChangeIs
<1>6. ChangeSound(r, Change(i, row[i], v))
  BY <1>1, <1>2, <1>3, <1>4, <1>5 DEF ChangeSound
<1>. QED
  BY <1>1, <1>2, <1>4, <1>6, OneChangeKeeps

(* Granting a School membership keeps the invariant. *)
LEMMA GrantKeeps ==
  ASSUME IInv, NEW r \in Requests, Grant(r)
  PROVE  IInv'
<1>. DEFINE v == [starts |-> AskOf(r).starts, ends |-> AskOf(r).ends]
<1>1. Runs(r, "write") /\ AskOf(r).kind = "grant" /\ ~At(r, "ended")
  BY DEF Grant, Runs, At
<1>2. CASE Ends(r)
  BY <1>1, <1>2, EndsKeeps
<1>3. CASE Writes(r, {Change(Id("member", p, r), None, v) : p \in Whose(r)})
  <2>1. PICK p \in Persons : Whose(r) = {p}
    BY <1>1, WhoIs
  <2>. DEFINE i == Id("member", p, r)
  <2>2. i \in Ids /\ i \in Rows /\ i.table = "member" /\ i.of = p /\ i.by = r
    BY MadeIds DEF Rows
  <2>3. row[i] = None
    BY <1>1, <2>2, MadeIs
  <2>4. v \in Member
    BY <1>1, Asked, ParticipationAssumption DEF AskSound, Member, Instants
  <2>5. {Change(Id("member", q, r), None, v) : q \in Whose(r)} = {Change(i, row[i], v)}
    BY <2>1, <2>3
  <2>6. v \in {None} \cup RowsOf[i.table] /\ v # None
    BY <2>2, <2>4, TablesAre
  <2>7. Writes(r, {Change(i, row[i], v)})
    BY <1>3, <2>5
  <2>. HIDE DEF i, v
  <2>8. Change(i, row[i], v).of = i /\ Change(i, row[i], v).after = v
    BY <2>2, <2>6, ChangeIs
  <2>9. ChangeSound(r, Change(i, row[i], v))
    BY <1>1, <2>1, <2>2, <2>6, <2>8 DEF ChangeSound
  <2>. QED
    BY <1>1, <2>2, <2>3, <2>6, <2>7, <2>9, OneChangeKeeps
<1>. QED
  BY <1>2, <1>3 DEF Grant

(* Enrolling a Student keeps the invariant. *)
LEMMA EnrollKeeps ==
  ASSUME IInv, NEW r \in Requests, Enroll(r)
  PROVE  IInv'
<1>. DEFINE v == [ended |-> Never]
<1>1. Runs(r, "write") /\ AskOf(r).kind = "enroll" /\ ~At(r, "ended")
  BY DEF Enroll, Runs, At
<1>2. CASE Ends(r)
  BY <1>1, <1>2, EndsKeeps
<1>3. CASE ~Ends(r)
  <2>0. /\ Writes(r, {Change(Id("stay", p, r), None, v) : p \in Whose(r)})
        /\ \A p \in Whose(r) : OpenStay(p) = {}
    BY <1>3 DEF Enroll
  <2>1. PICK p \in Students : Whose(r) = {p}
    BY <1>1, Asked DEF AskSound
  <2>. DEFINE i == Id("stay", p, r)
  <2>2. i \in Ids /\ i \in Rows /\ i.table = "stay" /\ i.of = p /\ i.by = r
    BY MadeIds DEF Rows
  <2>3. row[i] = None
    BY <1>1, <2>2, MadeIs
  <2>4. v \in Stay
    BY InstantsAre DEF Stay
  <2>5. {Change(Id("stay", q, r), None, v) : q \in Whose(r)} = {Change(i, row[i], v)}
    BY <2>1, <2>3
  <2>6. v \in {None} \cup RowsOf[i.table] /\ v # None
    BY <2>2, <2>4, TablesAre
  <2>7. Writes(r, {Change(i, row[i], v)})
    BY <2>0, <2>5
  <2>. HIDE DEF i
  <2>8. Change(i, row[i], v).of = i /\ Change(i, row[i], v).after = v
    BY <2>2, <2>6, ChangeIs
  <2>9. ChangeSound(r, Change(i, row[i], v))
    BY <1>1, <2>1, <2>2, <2>6, <2>8 DEF ChangeSound
  <2>. HIDE DEF v
  <2>. QED
    BY <1>1, <2>0, <2>2, <2>3, <2>6, <2>7, <2>9, OneChangeKeeps
<1>. QED
  BY <1>2, <1>3

(* Linking a Guardian to a Student keeps the invariant. *)
LEMMA MakeLinkKeeps ==
  ASSUME IInv, NEW r \in Requests, MakeLink(r)
  PROVE  IInv'
<1>. DEFINE v == [guardian |-> AskOf(r).guardian, profile |-> AskOf(r).profile, ended |-> Never]
<1>1. Runs(r, "write") /\ AskOf(r).kind = "link" /\ ~At(r, "ended")
  BY DEF MakeLink, Runs, At
<1>2. CASE Ends(r)
  BY <1>1, <1>2, EndsKeeps
<1>3. CASE ~Ends(r)
  <2>0. Writes(r, {Change(Id("link", p, r), None, v) : p \in Whose(r)})
    BY <1>3 DEF MakeLink
  <2>1. PICK p \in Students : Whose(r) = {p}
    BY <1>1, Asked DEF AskSound
  <2>. DEFINE i == Id("link", p, r)
  <2>2. i \in Ids /\ i \in Rows /\ i.table = "link" /\ i.of = p /\ i.by = r
    BY MadeIds DEF Rows
  <2>3. row[i] = None
    BY <1>1, <2>2, MadeIs
  <2>4. v \in Link
    BY <1>1, Asked, InstantsAre, ParticipationAssumption DEF AskSound, Link
  <2>5. {Change(Id("link", q, r), None, v) : q \in Whose(r)} = {Change(i, row[i], v)}
    BY <2>1, <2>3
  <2>6. v \in {None} \cup RowsOf[i.table] /\ v # None
    BY <2>2, <2>4, TablesAre
  <2>7. Writes(r, {Change(i, row[i], v)})
    BY <2>0, <2>5
  <2>. HIDE DEF i, v
  <2>8. Change(i, row[i], v).of = i /\ Change(i, row[i], v).after = v
    BY <2>2, <2>6, ChangeIs
  <2>9. ChangeSound(r, Change(i, row[i], v))
    BY <1>1, <2>1, <2>2, <2>6, <2>8 DEF ChangeSound
  <2>. QED
    BY <1>1, <2>2, <2>3, <2>6, <2>7, <2>9, OneChangeKeeps
<1>. QED
  BY <1>2, <1>3

(* Moving the last date of the Term keeps the invariant. *)
LEMMA MoveTermKeeps ==
  ASSUME IInv, NEW r \in Requests, MoveTerm(r)
  PROVE  IInv'
<1>. DEFINE v == [last |-> AskOf(r).last]
<1>1. Runs(r, "write") /\ AskOf(r).kind = "term" /\ ~At(r, "ended")
  BY DEF MoveTerm, Runs, At
<1>2. CASE Ends(r)
  BY <1>1, <1>2, EndsKeeps
<1>3. CASE ~Ends(r)
  <2>1. Writes(r, {Change(Term, row[Term], v)}) /\ \A i \in Parts : ~Strands(i, AskOf(r).last)
    BY <1>3 DEF MoveTerm
  <2>2. Term \in Rows /\ Term.table = "term"
    BY Apart DEF Rows
  <2>3. v \in [last : TermEnds]
    BY <1>1, Asked DEF AskSound
  <2>4. v \in {None} \cup RowsOf[Term.table] /\ v # None
    BY <2>2, <2>3, TablesAre
  <2>5. Change(Term, row[Term], v).of = Term /\ Change(Term, row[Term], v).after = v
    BY <2>2, <2>4, ChangeIs
  <2>6. ChangeSound(r, Change(Term, row[Term], v))
    BY <1>1, <2>1, <2>2, <2>4, <2>5 DEF ChangeSound
  <2>. HIDE DEF v
  <2>. QED
    BY <1>1, <2>1, <2>2, <2>4, <2>6, OneChangeKeeps
<1>. QED
  BY <1>2, <1>3

-----------------------------------------------------------------------------
(* When a ground ends is an instant, and what runs past it ends on a date. *)
LEMMA EndsOnIs ==
  ASSUME IInv, NEW r \in Requests, HoldsRow(r), EndsGround(r)
  PROVE  /\ EndInstant(r) \in Instants /\ EndsOn(r) \in 1 .. LastDay + 1 /\ EndsOn(r) = DateOf(EndInstant(r))
         /\ \A v \in Part : RunsTo(v, tx[r].term) > EndsOn(r) => EndsOn(r) \in Dates
<1>1. tx[r].at \in Instants /\ tx[r].at \in Nat /\ LastDay \in Nat
  BY InstantsAre
<1>2. EndInstant(r) \in Instants
  <2>1. CASE AskOf(r).kind = "depart"
    BY <1>1, <2>1 DEF EndInstant
  <2>2. CASE AskOf(r).kind = "narrow"
    <3>1. AskOf(r).ends \in MemberEnds
      BY <2>2, Asked DEF AskSound
    <3>. QED
      BY <2>2, <3>1, ParticipationAssumption DEF EndInstant, Instants
  <2>3. CASE AskOf(r).kind = "revoke"
    <3>1. tx[r].saw.starts \in Instants
      BY <2>3, NamedIs DEF Member
    <3>2. EndInstant(r) = Max2(tx[r].saw.starts, tx[r].at)
      BY <2>3 DEF EndInstant
    <3>. QED
      BY <1>1, <3>1, <3>2 DEF Max2
  <2>. QED
    BY <2>1, <2>2, <2>3 DEF EndsGround
<1>3. EndsOn(r) \in 1 .. LastDay + 1 /\ EndsOn(r) = DateOf(EndInstant(r))
  BY <1>1, <1>2 DEF EndsOn, DateOf, Instants
<1>4. ASSUME NEW v \in Part, RunsTo(v, tx[r].term) > EndsOn(r)
      PROVE  EndsOn(r) \in Dates
  <2>1. tx[r].term \in 0 .. LastDay
    <3>1. tx[r].term \in TermEnds \cup {0} /\ TermEnds \subseteq 1 .. LastDay
      BY Asked, ParticipationAssumption DEF Tx
    <3>2. \A n \in (1 .. LastDay) \cup {0} : n \in 0 .. LastDay
      BY <1>1
    <3>. QED
      BY <3>1, <3>2
  <2>2. v.last \in Dates \cup {Open}
    BY DEF Part
  <2>3. RunsTo(v, tx[r].term) \in 0 .. LastDay
    BY <1>1, <2>1, <2>2 DEF RunsTo, Dates
  <2>. HIDE DEF RunsTo
  <2>. QED
    BY <1>1, <1>3, <1>4, <2>3 DEF Dates
<1>. QED
  BY <1>2, <1>3, <1>4

(* The participations an ending ends are rows it holds. *)
LEMMA EndedWithIs ==
  ASSUME IInv, NEW r \in Requests, At(r, "write"), EndsGround(r), NEW c \in EndedWith(r)
  PROVE  /\ c \in [of : Rows, before : Values, after : Values]
         /\ c.of \in Listed(r) /\ c.of.table = "part" /\ row[c.of] # None /\ RunsTo(row[c.of], tx[r].term) > EndsOn(r)
         /\ c.before = row[c.of] /\ c.after = EndedOn(row[c.of], EndsOn(r)) /\ c.after \in {None} \cup RowsOf[c.of.table]
         /\ c = Change(c.of, row[c.of], EndedOn(row[c.of], EndsOn(r)))
         /\ Alone(c.of) \in tx[r].holds /\ WritesParts(r)
<1>1. PICK i \in Listed(r) : /\ row[i] # None /\ RunsTo(row[i], tx[r].term) > EndsOn(r)
                             /\ c = Change(i, row[i], EndedOn(row[i], EndsOn(r)))
  BY DEF EndedWith
<1>2. tx[r] \in Tx /\ Sound(r) /\ HoldsRow(r)
  BY Asked DEF HoldsRow, EndsGround, At
<1>3. i \in Ids /\ i \in Rows /\ i.table = "part" /\ Alone(i) \in tx[r].holds
  BY <1>2 DEF Listed, Tx, Sound, ListSound, Rows
<1>4. row[i] \in Part
  BY <1>1, <1>3, RowTyped
<1>5. EndsOn(r) \in Dates
  BY <1>1, <1>2, <1>4, EndsOnIs
<1>6. EndedOn(row[i], EndsOn(r)) \in {None} \cup RowsOf[i.table]
  BY <1>3, <1>4, <1>5, EndedIs, TablesAre
<1>7. /\ c \in [of : Rows, before : Values, after : Values]
      /\ c.of = i /\ c.before = row[i] /\ c.after = EndedOn(row[i], EndsOn(r))
  BY <1>1, <1>3, <1>6, ChangeIs
<1>8. WritesParts(r)
  BY <1>1 DEF WritesParts, Listed
<1>. QED
  BY <1>1, <1>3, <1>6, <1>7, <1>8

(* An ending, of its own row and the links, with the participations listed. *)
LEMMA EndingKeeps ==
  ASSUME IInv, NEW r \in Requests, Runs(r, "write"), EndsGround(r),
         NEW others \in SUBSET [of : Rows, before : Values, after : Values],
         Ending(r, others \cup EndedWith(r)),
         \A c \in others :
           /\ c.of.table \in {"stay", "member", "link"}
           /\ c.before = row[c.of] /\ c.after \in {None} \cup RowsOf[c.of.table]
           /\ Alone(c.of) \in tx[r].holds
           /\ \A d \in others : d.of = c.of => d = c
           /\ ChangeSound(r, c),
         AskOf(r).kind = "depart" => \A p \in Whose(r) : \A l \in LinksInForce(p) : \E c \in others : c.of = l
  PROVE  IInv'
<1>. DEFINE changes == others \cup EndedWith(r)
<1>1. At(r, "write") /\ ~At(r, "ended") /\ AskOf(r).kind # "enroll"
  BY DEF Runs, At, EndsGround
<1>2. CASE ~Accepted(changes)
  BY <1>1, <1>2, EndsKeeps DEF Ending
<1>3. CASE Accepted(changes)
  <2>1. Writes(r, changes)
    BY <1>3 DEF Ending
  <2>2. changes \in SUBSET [of : Rows, before : Values, after : Values]
    BY <1>1, EndedWithIs
  <2>3. ASSUME NEW c \in EndedWith(r)
        PROVE  /\ c.of.table = "part" /\ c.before = row[c.of] /\ c.after \in {None} \cup RowsOf[c.of.table]
               /\ Alone(c.of) \in tx[r].holds
               /\ \A d \in EndedWith(r) : d.of = c.of => d = c
               /\ ChangeSound(r, c)
    <3>1. /\ c.of.table = "part" /\ c.before = row[c.of] /\ c.after \in {None} \cup RowsOf[c.of.table]
          /\ Alone(c.of) \in tx[r].holds /\ WritesParts(r)
          /\ c = Change(c.of, row[c.of], EndedOn(row[c.of], EndsOn(r)))
      BY <1>1, EndedWithIs
    <3>2. c.after # None => InsideTerm(c.after)
      BY <1>3, <3>1 DEF Accepted
    <3>3. ChangeSound(r, c)
      BY <3>1, <3>2 DEF ChangeSound
    <3>4. \A d \in EndedWith(r) : d = Change(d.of, row[d.of], EndedOn(row[d.of], EndsOn(r)))
      BY <1>1, EndedWithIs
    <3>5. \A d \in EndedWith(r) : d.of = c.of => d = c
      BY <3>1, <3>4
    <3>. QED
      BY <3>1, <3>3, <3>5
  <2>4. \A c \in changes :
          /\ c.before = row[c.of] /\ c.after \in {None} \cup RowsOf[c.of.table]
          /\ Alone(c.of) \in tx[r].holds
          /\ \A d \in changes : d.of = c.of => d = c
          /\ ChangeSound(r, c)
    BY <2>3
  <2>5. AskOf(r).kind = "depart" => \A p \in Whose(r) : \A l \in LinksInForce(p) : \E c \in changes : c.of = l
    OBVIOUS
  <2>. HIDE DEF changes
  <2>. QED
    BY <1>1, <2>1, <2>2, <2>4, <2>5, WritesKeep
<1>. QED
  BY <1>2, <1>3

(* Ending an Enrollment, with what stands on it, keeps the invariant. *)
LEMMA DepartKeeps ==
  ASSUME IInv, NEW r \in Requests, Depart(r)
  PROVE  IInv'
<1>. DEFINE on == AskOf(r).on
            own == Change(on, tx[r].saw, [ended |-> tx[r].at])
            links == UNION {LinksInForce(p) : p \in Whose(r)}
            ended(l) == [row[l] EXCEPT !.ended = tx[r].at]
            others == {own} \cup {Change(l, row[l], ended(l)) : l \in links}
<1>1. Runs(r, "write") /\ AskOf(r).kind = "depart" /\ HoldsRow(r) /\ EndsGround(r) /\ Sound(r) /\ At(r, "write")
  BY Asked DEF Depart, Runs, At, HoldsRow, EndsGround
<1>2. Ending(r, others \cup EndedWith(r))
  BY DEF Depart
<1>3. on \in Rows /\ on.table = "stay" /\ Alone(on) \in tx[r].holds /\ tx[r].saw = row[on]
  BY <1>1, NamedIs
<1>4. [ended |-> tx[r].at] \in {None} \cup RowsOf[on.table]
  BY <1>3, InstantsAre, TablesAre DEF Stay
<1>5. /\ own \in [of : Rows, before : Values, after : Values]
      /\ own.of = on /\ own.before = row[on] /\ own.after = [ended |-> tx[r].at]
  BY <1>3, <1>4, ChangeIs
<1>6. ChangeSound(r, own)
  BY <1>1, <1>3, <1>5 DEF ChangeSound
<1>7. ASSUME NEW l \in links
      PROVE  LET c == Change(l, row[l], ended(l)) IN
             /\ l.table = "link" /\ Alone(l) \in tx[r].holds
             /\ c \in [of : Rows, before : Values, after : Values] /\ c.of = l /\ c.before = row[l]
             /\ c.after \in {None} \cup RowsOf[l.table] /\ ChangeSound(r, c)
  <2>. DEFINE c == Change(l, row[l], ended(l))
  <2>1. l \in Ids /\ l \in Rows /\ l.table = "link" /\ row[l] # None
    BY DEF LinksInForce, Held, Rows
  <2>2. Alone(l) \in tx[r].holds
    BY <1>1 DEF Sound, LinksSound, At
  <2>3. row[l] \in Link
    BY <2>1, RowTyped
  <2>4. ended(l) \in Link /\ ended(l).ended = tx[r].at
    BY <2>3, InstantsAre DEF Link
  <2>5. ended(l) \in {None} \cup RowsOf[l.table] /\ ended(l) # None
    BY <2>1, <2>4, TablesAre
  <2>. HIDE DEF ended
  <2>6. c \in [of : Rows, before : Values, after : Values] /\ c.of = l /\ c.before = row[l] /\ c.after = ended(l)
    BY <2>1, <2>5, ChangeIs
  <2>. HIDE DEF c
  <2>7. ChangeSound(r, c)
    BY <1>1, <2>1, <2>4, <2>5, <2>6 DEF ChangeSound
  <2>. QED
    BY <2>1, <2>2, <2>5, <2>6, <2>7 DEF c
<1>. HIDE DEF own, links, ended
<1>8. \A c \in others : c = own \/ \E l \in links : c = Change(l, row[l], ended(l))
  OBVIOUS
<1>9. others \in SUBSET [of : Rows, before : Values, after : Values]
  BY <1>5, <1>7
<1>10. ASSUME NEW c \in others
       PROVE  /\ c.of.table \in {"stay", "member", "link"}
              /\ c.before = row[c.of] /\ c.after \in {None} \cup RowsOf[c.of.table]
              /\ Alone(c.of) \in tx[r].holds
              /\ ChangeSound(r, c)
              /\ c = own \/ (c.of.table = "link" /\ c = Change(c.of, row[c.of], ended(c.of)))
  BY <1>3, <1>4, <1>5, <1>6, <1>7, <1>8
<1>11. \A c, d \in others : d.of = c.of => d = c
  BY <1>3, <1>5, <1>10
<1>12. \A p \in Whose(r) : \A l \in LinksInForce(p) : \E c \in others : c.of = l
  <2>1. \A l \in links : \E c \in others : c.of = l
    BY <1>7
  <2>. QED
    BY <2>1 DEF links
<1>. HIDE DEF others
<1>. QED
  BY <1>1, <1>2, <1>9, <1>10, <1>11, <1>12, EndingKeeps

(* Ending or narrowing a School membership keeps the invariant. *)
LEMMA EndMembershipKeeps ==
  ASSUME IInv, NEW r \in Requests, EndMembership(r)
  PROVE  IInv'
<1>. DEFINE on == AskOf(r).on
            v == [tx[r].saw EXCEPT !.ends = EndInstant(r)]
            own == Change(on, tx[r].saw, v)
<1>1. Runs(r, "write") /\ AskOf(r).kind \in {"narrow", "revoke"} /\ HoldsRow(r) /\ EndsGround(r)
  BY DEF EndMembership, Runs, At, HoldsRow, EndsGround
<1>2. Ending(r, {own} \cup EndedWith(r))
  BY DEF EndMembership
<1>3. on \in Rows /\ on.table = "member" /\ Alone(on) \in tx[r].holds /\ tx[r].saw = row[on] /\ tx[r].saw \in Member
  BY <1>1, NamedIs
<1>4. v \in {None} \cup RowsOf[on.table]
  <2>1. EndInstant(r) \in Instants
    BY <1>1, EndsOnIs
  <2>2. v \in Member
    BY <1>3, <2>1 DEF Member
  <2>. QED
    BY <1>3, <2>2, TablesAre
<1>5. own \in [of : Rows, before : Values, after : Values] /\ own.of = on /\ own.before = row[on] /\ own.after = v
  BY <1>3, <1>4, ChangeIs
<1>6. ChangeSound(r, own)
  BY <1>1, <1>3, <1>5 DEF ChangeSound
<1>. DEFINE others == {own}
<1>7. others \in SUBSET [of : Rows, before : Values, after : Values] /\ Ending(r, others \cup EndedWith(r))
  BY <1>2, <1>5
<1>8. \A c \in others : c = own
  OBVIOUS
<1>9. AskOf(r).kind # "depart" /\ Runs(r, "write") /\ EndsGround(r)
  BY <1>1
<1>. HIDE DEF others, own, v
<1>10. ASSUME NEW c \in others
       PROVE  /\ c.of.table \in {"stay", "member", "link"}
              /\ c.before = row[c.of] /\ c.after \in {None} \cup RowsOf[c.of.table]
              /\ Alone(c.of) \in tx[r].holds
              /\ \A d \in others : d.of = c.of => d = c
              /\ ChangeSound(r, c)
  BY <1>3, <1>4, <1>5, <1>6, <1>8
<1>. QED
  BY <1>7, <1>9, <1>10, EndingKeeps

-----------------------------------------------------------------------------
(* What a commit makes of each row and of its Audit records. *)
LEMMA CommitIs ==
  ASSUME IInv, NEW r \in Requests, Commit(r)
  PROVE  /\ tx[r].phase = "commit" /\ ~At(r, "ended") /\ ~At(r, "new") /\ Sound(r) /\ AskOf(r).kind # "none"
         /\ tx'[r] = Done /\ \A q \in Requests \ {r} : tx'[q] = tx[q]
         /\ clock' = clock /\ stretched' = Stretched(r)
         /\ DOMAIN row' = Rows /\ DOMAIN trail = Rows /\ DOMAIN trail' = Rows
         /\ \A i \in Rows : i \notin Written(r) => row'[i] = row[i] /\ trail'[i] = trail[i]
         /\ \A i \in Written(r) : \E c \in tx[r].writes : c.of = i
         /\ \A c \in tx[r].writes :
              /\ c \in [of : Rows, before : Values, after : Values]
              /\ c.of \in Rows /\ c.of \in Written(r)
              /\ row'[c.of] = c.after /\ row[c.of] = c.before /\ c.after \in {None} \cup RowsOf[c.of.table]
              /\ trail'[c.of] = Append(trail[c.of], [before |-> c.before, after |-> c.after])
              /\ Alone(c.of) \in tx[r].holds \/ (c.of.by = r /\ c.before = None)
              /\ ChangeSound(r, c)
<1>1. tx[r].phase = "commit" /\ ~At(r, "ended") /\ ~At(r, "new")
  BY DEF Commit, At
<1>2. Sound(r) /\ tx[r] \in Tx /\ AskOf(r).kind # "none"
  BY <1>1, Asked
<1>3. /\ DOMAIN row = Rows /\ DOMAIN trail = Rows /\ tx'[r] = Done /\ \A q \in Requests \ {r} : tx'[q] = tx[q]
      /\ clock' = clock /\ stretched' = Stretched(r)
  BY DEF IInv, TypeOK, Commit
<1>4. DOMAIN row' = Rows /\ DOMAIN trail' = Rows
  BY <1>3 DEF Commit
<1>5. \A i \in Rows : i \notin Written(r) => row'[i] = row[i] /\ trail'[i] = trail[i]
  BY <1>3 DEF Commit
<1>6. \A i \in Written(r) : \E c \in tx[r].writes : c.of = i
  BY DEF Written
<1>7. ASSUME NEW c \in tx[r].writes
      PROVE  /\ c \in [of : Rows, before : Values, after : Values]
             /\ c.of \in Rows /\ c.of \in Written(r)
             /\ row'[c.of] = c.after /\ row[c.of] = c.before /\ c.after \in {None} \cup RowsOf[c.of.table]
             /\ trail'[c.of] = Append(trail[c.of], [before |-> c.before, after |-> c.after])
             /\ Alone(c.of) \in tx[r].holds \/ (c.of.by = r /\ c.before = None)
             /\ ChangeSound(r, c)
  <2>1. c \in [of : Rows, before : Values, after : Values]
    BY <1>2 DEF Tx
  <2>2. c.of \in Rows /\ c.of \in Written(r)
    BY <2>1 DEF Written
  <2>3. /\ row[c.of] = c.before /\ c.after \in {None} \cup RowsOf[c.of.table]
        /\ Alone(c.of) \in tx[r].holds \/ (c.of.by = r /\ c.before = None)
        /\ ChangeSound(r, c) /\ \A d \in tx[r].writes : d.of = c.of => d = c
    BY <1>2 DEF Sound, WriteSound
  <2>4. ChangeOf(r, c.of) = c
    BY <2>3 DEF ChangeOf
  <2>5. row'[c.of] = ChangeOf(r, c.of).after
    BY <1>3, <2>2 DEF Commit
  <2>6. trail'[c.of] = Append(trail[c.of], [before |-> ChangeOf(r, c.of).before, after |-> ChangeOf(r, c.of).after])
    BY <1>3, <2>2 DEF Commit
  <2>. QED
    BY <2>1, <2>2, <2>3, <2>4, <2>5, <2>6
<1>. QED
  BY <1>1, <1>2, <1>3, <1>4, <1>5, <1>6, <1>7

(* What another request holds, or is about to make, a commit leaves alone. *)
LEMMA OthersStand ==
  ASSUME IInv, NEW r \in Requests, Commit(r), NEW q \in Requests \ {r}
  PROVE  /\ \A l \in tx[q].holds : l.what \in Rows => l.what \notin Written(r) /\ row'[l.what] = row[l.what]
         /\ \A i \in Rows : i.by = q /\ ~At(q, "ended") => i \notin Written(r) /\ row'[i] = row[i]
<1>1. ASSUME NEW l \in tx[q].holds, l.what \in Written(r)
      PROVE  FALSE
  <2>1. PICK c \in tx[r].writes : c.of = l.what
    BY <1>1, CommitIs
  <2>2. CASE Alone(c.of) \in tx[r].holds
    BY <2>1, <2>2, LockIs DEF IInv, Exclusive, Clash
  <2>3. CASE c.of.by = r
    <3>0. c.of \in Rows
      BY CommitIs
    <3>1. c.of \in Ids
      BY <2>3, <3>0, Apart, ParticipationAssumption DEF Rows
    <3>2. Known(c.of)
      BY <2>1, <3>1 DEF IInv, KnownSound
    <3>. QED
      BY <2>3, <3>2, CommitIs DEF Known
  <2>. QED
    BY <2>2, <2>3, CommitIs
<1>2. ASSUME NEW i \in Rows, i.by = q, ~At(q, "ended"), i \in Written(r)
      PROVE  FALSE
  <2>1. PICK c \in tx[r].writes : c.of = i
    BY <1>2, CommitIs
  <2>2. Alone(i) \in tx[r].holds
    BY <1>2, <2>1, CommitIs
  <2>3. i \in Ids
    BY <1>2, Apart, ParticipationAssumption DEF Rows
  <2>4. Known(i)
    BY <2>2, <2>3, LockIs DEF IInv, KnownSound
  <2>. QED
    BY <1>2, <2>4 DEF Known
<1>. QED
  BY <1>1, <1>2, CommitIs

(* A row not known of before a commit was made by it. *)
LEMMA KnownStays ==
  ASSUME IInv, NEW r \in Requests, Commit(r)
  PROVE  /\ \A i : Known(i) => Known(i)'
         /\ \A i \in Ids : row'[i] # None => Known(i)'
<1>1. \A i : Known(i) => Known(i)'
  BY CommitIs DEF Known, At
<1>2. ASSUME NEW i \in Ids, row'[i] # None
      PROVE  Known(i)'
  <2>1. CASE i \notin Written(r)
    BY <1>1, <1>2, <2>1, CommitIs DEF IInv, KnownSound, Rows
  <2>2. CASE i \in Written(r)
    <3>1. PICK c \in tx[r].writes : c.of = i
      BY <2>2, CommitIs
    <3>2. CASE Alone(i) \in tx[r].holds
      BY <1>1, <3>2, LockIs DEF IInv, KnownSound
    <3>3. CASE i.by = r
      <4>1. tx'[r] = Done /\ Done.phase = "ended"
        BY CommitIs DEF Done, NewTx
      <4>. QED
        BY <3>3, <4>1 DEF Known, At
    <3>. QED
      BY <3>1, <3>2, <3>3, CommitIs
  <2>. QED
    BY <2>1, <2>2
<1>. QED
  BY <1>1, <1>2

(* The rows of each table a commit changes, and what it makes of them. *)
LEMMA StaysWritten ==
  ASSUME IInv, NEW r \in Requests, Commit(r), NEW i \in Ids, i.table = "stay", i \in Written(r)
  PROVE  \/ /\ AskOf(r).kind = "enroll" /\ i = Id("stay", i.of, r) /\ i.of \in Whose(r)
            /\ row[i] = None /\ row'[i] = [ended |-> Never]
         \/ AskOf(r).kind = "depart" /\ i = AskOf(r).on /\ row'[i] # None /\ row'[i].ended = tx[r].at /\ tx[r].at # Never
<1>1. PICK c \in tx[r].writes : c.of = i
  BY CommitIs
<1>2. row'[i] = c.after /\ ChangeSound(r, c)
  BY <1>1, CommitIs
<1>3. CASE AskOf(r).kind = "enroll" /\ i.by = r /\ i.of \in Whose(r) /\ c.after = [ended |-> Never]
  <2>1. i = Id("stay", i.of, r)
    BY <1>3 DEF Ids, Id
  <2>2. row[i] = None
    BY <1>3, CommitIs, MadeIs
  <2>. QED
    BY <1>2, <1>3, <2>1, <2>2
<1>4. CASE AskOf(r).kind = "depart" /\ i = AskOf(r).on /\ c.after = [ended |-> tx[r].at]
  <2>1. [ended |-> tx[r].at] \in Stay
    BY InstantsAre DEF Stay
  <2>. QED
    BY <1>2, <1>4, <2>1, InstantsAre, TablesAre
<1>. QED
  BY <1>1, <1>2, <1>3, <1>4 DEF ChangeSound

(* A Guardian link is made, or given a profile under its lock, or ended. *)
LEMMA LinksWritten ==
  ASSUME IInv, NEW r \in Requests, Commit(r), NEW i \in Ids, i.table = "link", i \in Written(r)
  PROVE  \/ AskOf(r).kind = "link" /\ i.by = r /\ i.of \in Whose(r) /\ row[i] = None
         \/ /\ AskOf(r).kind = "profile" /\ Alone(i) \in tx[r].holds
            /\ row[i] # None /\ row'[i].ended = row[i].ended
         \/ AskOf(r).kind \in {"unlink", "depart"} /\ row'[i].ended # Never
<1>1. PICK c \in tx[r].writes : c.of = i
  BY CommitIs
<1>2. row'[i] = c.after /\ row[i] = c.before /\ ChangeSound(r, c)
  BY <1>1, CommitIs
<1>3. CASE AskOf(r).kind = "link" /\ i.by = r /\ i.of \in Whose(r)
  BY <1>3, CommitIs, MadeIs
<1>4. CASE AskOf(r).kind = "profile" /\ i = AskOf(r).on /\ c.after = [c.before EXCEPT !.profile = AskOf(r).profile]
  <2>1. HoldsRow(r)
    BY <1>4, CommitIs DEF HoldsRow
  <2>2. Alone(i) \in tx[r].holds /\ row[i] = tx[r].saw /\ tx[r].saw # None /\ tx[r].saw \in Link
    BY <1>4, <2>1, NamedIs
  <2>3. c.after.ended = c.before.ended
    BY <1>2, <1>4, <2>2 DEF Link
  <2>. QED
    BY <1>2, <1>4, <2>2, <2>3
<1>5. CASE AskOf(r).kind \in {"unlink", "depart"} /\ c.after.ended = tx[r].at
  BY <1>2, <1>5, InstantsAre
<1>. QED
  BY <1>1, <1>2, <1>3, <1>4, <1>5 DEF ChangeSound

(* A commit of a change of the Term changes no participation. *)
LEMMA PartsWritten ==
  ASSUME IInv, NEW r \in Requests, Commit(r), NEW i \in Ids, i.table = "part", i \in Written(r)
  PROVE  /\ AskOf(r).kind # "term" /\ Shared(Term) \in tx[r].holds /\ Term \notin Written(r) /\ row'[Term] = row[Term]
         /\ row'[i] # None => InsideTerm(row'[i]) /\ row'[i] \in Part
<1>1. PICK c \in tx[r].writes : c.of = i
  BY CommitIs
<1>2. row'[i] = c.after /\ ChangeSound(r, c) /\ Sound(r) /\ c.after \in {None} \cup RowsOf["part"]
  BY <1>1, CommitIs
<1>3. WritesParts(r) /\ (c.after # None => InsideTerm(c.after))
  BY <1>1, <1>2 DEF ChangeSound
<1>4. AskOf(r).kind # "term" /\ Shared(Term) \in tx[r].holds
  BY <1>1, <1>2, <1>3 DEF WritesParts, Sound, ListSound, Listed, EndsGround, WriteSound
<1>5. Term \notin Written(r)
  <2>1. SUFFICES ASSUME NEW d \in tx[r].writes, d.of = Term PROVE FALSE
    BY DEF Written
  <2>2. ChangeSound(r, d)
    BY CommitIs
  <2>3. AskOf(r).kind = "term"
    BY <2>1, <2>2, Apart DEF ChangeSound
  <2>. QED
    BY <1>4, <2>3
<1>6. row'[Term] = row[Term]
  BY <1>5, CommitIs DEF Rows
<1>. QED
  BY <1>2, <1>3, <1>4, <1>5, <1>6, TablesAre

(* What another request knows still stands once one commits. *)
LEMMA OtherStaysSound ==
  ASSUME IInv, NEW r \in Requests, Commit(r), NEW q \in Requests \ {r}
  PROVE  Sound(q)'
<1>1. /\ tx'[q] = tx[q] /\ Sound(q) /\ CourseSound(q) /\ At(r, "commit") /\ Sound(r)
      /\ AskOf(q).kind # "none" => AskSound(AskOf(q))
  BY Asked, CommitIs DEF At
<1>2. AskOf(q)' = AskOf(q) /\ Whose(q)' = Whose(q) /\ EndsGround(q)' = EndsGround(q) /\ Listed(q)' = Listed(q)
      /\ RowsToLock(q)' = RowsToLock(q) /\ WritesParts(q)' = WritesParts(q) /\ EndInstant(q)' = EndInstant(q)
      /\ Written(q)' = Written(q) /\ HoldsRow(q)' = HoldsRow(q)
      /\ \A phase : At(q, phase)' = At(q, phase)
  BY <1>1 DEF AskOf, Whose, EndsGround, Listed, RowsToLock, Unlocked, WritesParts, EndInstant, Written, HoldsRow, At
<1>3. \A k \in tx[r].holds, l \in tx[q].holds : ~Clash(k, l)
  BY DEF IInv, Exclusive
<1>4. Ids \subseteq Rows /\ \A i \in Ids : i \notin Written(r) => row'[i] = row[i]
  BY CommitIs DEF Rows
<1>5. CourseSound(q)'
  BY <1>1, <1>2 DEF CourseSound
<1>6. RowSound(q)'
  <2>1. SUFFICES ASSUME HoldsRow(q) PROVE Alone(AskOf(q).on) \in tx[q].holds /\ row'[AskOf(q).on] = tx[q].saw /\ GoesOn(q, tx[q].saw)
    BY <1>1, <1>2 DEF RowSound, GoesOn
  <2>2. Alone(AskOf(q).on) \in tx[q].holds /\ row[AskOf(q).on] = tx[q].saw /\ AskOf(q).on \in Rows
    BY <2>1, NamedIs
  <2>3. row'[AskOf(q).on] = row[AskOf(q).on]
    BY <2>2, OthersStand, LockIs
  <2>. QED
    BY <1>1, <2>1, <2>2, <2>3 DEF Sound, RowSound
<1>7. GroundSound(q)'
  <2>1. SUFFICES ASSUME AskOf(q).kind \in {"roster", "assign", "move", "link"}, At(q, "write") \/ At(q, "commit"),
                        NEW p \in Whose(q), ~(AskOf(q).kind = "move" /\ tx[q].until = Lapsed)
                 PROVE  \E j \in GroundRows(p, tx[q].at)' : Shared(j) \in tx[q].holds /\ tx[q].until <= DateOf(EndOf(j)')
    BY <1>1, <1>2 DEF GroundSound
  <2>2. PICK j \in GroundRows(p, tx[q].at) : Shared(j) \in tx[q].holds /\ tx[q].until <= DateOf(EndOf(j))
    BY <1>1, <2>1 DEF Sound, GroundSound
  <2>3. j \in Rows
    BY DEF GroundRows, OpenStay, Active, Held, Rows
  <2>4. row'[j] = row[j]
    BY <2>2, <2>3, OthersStand, LockIs
  <2>5. j \in GroundRows(p, tx[q].at)' /\ EndOf(j)' = EndOf(j)
    BY <1>1, <2>4 DEF GroundRows, OpenStay, Active, Held, EndOf
  <2>. QED
    BY <2>2, <2>5
<1>8. LinksSound(q)'
  <2>1. SUFFICES ASSUME AskOf(q).kind = "depart", tx[q].phase \in {"list", "rows", "write", "commit"},
                        NEW p \in Whose(q), NEW l \in LinksInForce(p)'
                 PROVE  Alone(l) \in tx[q].holds /\ (At(q, "commit") => l \in Written(q))
    BY <1>1, <1>2 DEF LinksSound
  <2>2. l \in Ids /\ l.table = "link" /\ l.of = p /\ row'[l] # None /\ row'[l].ended = Never
    BY <2>1 DEF LinksInForce, Held
  <2>3. l \in LinksInForce(p) => Alone(l) \in tx[q].holds /\ (At(q, "commit") => l \in Written(q))
    BY <1>1, <2>1 DEF Sound, LinksSound
  <2>4. CASE l \notin Written(r)
    BY <1>4, <2>2, <2>3, <2>4 DEF LinksInForce, Held
  <2>5. CASE AskOf(r).kind = "profile" /\ Alone(l) \in tx[r].holds /\ row[l] # None /\ row'[l].ended = row[l].ended
    <3>1. l \in LinksInForce(p)
      BY <2>2, <2>5 DEF LinksInForce, Held
    <3>. QED
      BY <1>3, <2>3, <2>5, <3>1, LockIs DEF Clash
  <2>6. CASE AskOf(r).kind = "link" /\ p \in Whose(r)
    <3>1. PICK j \in GroundRows(p, tx[r].at) : Shared(j) \in tx[r].holds
      BY <1>1, <2>6 DEF Sound, GroundSound
    <3>2. p \in Students
      BY <2>6, Asked DEF AskSound
    <3>3. j \in OpenStay(p)
      BY <3>1, <3>2 DEF GroundRows
    <3>4. /\ AskOf(q).on \in Ids /\ AskOf(q).on.of = p /\ row[AskOf(q).on] = tx[q].saw /\ tx[q].saw # None
          /\ AskOf(q).on.table = "stay" /\ Alone(AskOf(q).on) \in tx[q].holds /\ HoldsRow(q)
      <4>1. HoldsRow(q)
        BY <2>1 DEF HoldsRow
      <4>. QED
        BY <2>1, <4>1, NamedIs
    <3>5. tx[q].saw.ended = Never
      BY <1>1, <2>1, <3>4 DEF Sound, RowSound, GoesOn
    <3>6. AskOf(q).on \in OpenStay(p)
      BY <3>4, <3>5 DEF OpenStay, Held
    <3>7. AskOf(q).on = j
      BY <3>2, <3>3, <3>6 DEF IInv, OneOpenStay
    <3>. QED
      BY <1>3, <3>1, <3>4, <3>7, LockIs DEF Clash
  <2>. QED
    BY <2>2, <2>4, <2>5, <2>6, LinksWritten
<1>9. ListSound(q)'
  BY <1>1, <1>2, KnownStays DEF Sound, ListSound
<1>10. StaySound(q)'
  <2>1. SUFFICES ASSUME AskOf(q).kind = "enroll", At(q, "commit"), NEW p \in Whose(q)
                 PROVE  Alone(Entry("stay", p)) \in tx[q].holds /\ OpenStay(p)' = {}
    BY <1>1, <1>2 DEF StaySound
  <2>2. Alone(Entry("stay", p)) \in tx[q].holds /\ OpenStay(p) = {}
    BY <1>1, <2>1 DEF Sound, StaySound
  <2>3. ASSUME NEW j \in OpenStay(p)' PROVE FALSE
    <3>1. j \in Ids /\ j.table = "stay" /\ j.of = p /\ row'[j] # None /\ row'[j].ended = Never
      BY <2>3 DEF OpenStay, Held
    <3>2. CASE j \notin Written(r)
      BY <1>4, <2>2, <3>1, <3>2 DEF OpenStay, Held
    <3>3. CASE AskOf(r).kind = "enroll" /\ p \in Whose(r)
      <4>1. Alone(Entry("stay", p)) \in tx[r].holds
        BY <1>1, <3>3 DEF Sound, StaySound
      <4>. QED
        BY <1>3, <2>2, <4>1, LockIs DEF Clash
    <3>. QED
      BY <3>1, <3>2, <3>3, StaysWritten
  <2>. QED
    BY <2>2, <2>3
<1>11. WriteSound(q)'
  <2>1. ASSUME NEW c \in tx[q].writes
        PROVE  /\ c.before = row'[c.of] /\ c.after \in {None} \cup RowsOf[c.of.table]
               /\ Alone(c.of) \in tx[q].holds \/ (c.of.by = q /\ c.before = None)
               /\ c.of.table = "part" => Shared(Term) \in tx[q].holds
               /\ \A d \in tx[q].writes : d.of = c.of => d = c
               /\ ChangeSound(q, c)'
    <3>1. /\ c.before = row[c.of] /\ c.after \in {None} \cup RowsOf[c.of.table]
          /\ Alone(c.of) \in tx[q].holds \/ (c.of.by = q /\ c.before = None)
          /\ c.of.table = "part" => Shared(Term) \in tx[q].holds
          /\ \A d \in tx[q].writes : d.of = c.of => d = c
          /\ ChangeSound(q, c) /\ tx[q].phase = "commit" /\ c.of \in Rows
      <4>1. tx[q] \in Tx
        BY Asked
      <4>2. c.of \in Rows
        BY <4>1 DEF Tx
      <4>. QED
        BY <1>1, <4>2 DEF Sound, WriteSound, At
    <3>2. row'[c.of] = row[c.of]
      BY <3>1, OthersStand, LockIs DEF At
    <3>3. c.of.table = "part" => row'[Term] = row[Term]
      BY <3>1, OthersStand, LockIs DEF Rows
    <3>4. c.of.table = "term" => \A i \in Parts' : ~Strands(i, AskOf(q).last)'
      <4>1. SUFFICES ASSUME c.of.table = "term", NEW i \in Parts' PROVE ~Strands(i, AskOf(q).last)'
        OBVIOUS
      <4>2. c.of = Term
        BY <3>1, <4>1, Apart DEF Rows
      <4>3. Alone(Term) \in tx[q].holds
        BY <3>1, <4>2, Apart, ParticipationAssumption
      <4>4. i \in Ids /\ i.table = "part" /\ row'[i] # None /\ i.of \in Students \cup Faculty
        BY <4>1 DEF Parts, Held
      <4>5. i \notin Written(r)
        BY <1>3, <4>3, <4>4, PartsWritten, LockIs DEF Clash
      <4>6. row'[i] = row[i]
        BY <1>4, <4>4, <4>5
      <4>7. i \in Parts
        BY <4>4, <4>6 DEF Parts, Held
      <4>8. ~Strands(i, AskOf(q).last)
        BY <3>1, <4>1, <4>7 DEF ChangeSound
      <4>. QED
        BY <1>2, <4>6, <4>8 DEF Strands
    <3>5. ChangeSound(q, c)'
      <4>1. c.of.table = "part" => WritesParts(q) /\ (c.after # None => InsideTerm(c.after)')
        BY <3>1, <3>3 DEF ChangeSound, InsideTerm
      <4>2. c.of.table = "stay" => (ChangeSound(q, c) => ChangeSound(q, c)')
        BY <1>1, <1>2 DEF ChangeSound
      <4>3. c.of.table = "member" => (ChangeSound(q, c) => ChangeSound(q, c)')
        BY <1>1, <1>2 DEF ChangeSound
      <4>4. c.of.table = "link" => (ChangeSound(q, c) => ChangeSound(q, c)')
        BY <1>1, <1>2 DEF ChangeSound
      <4>5. c.of.table = "part" => ChangeSound(q, c)'
        BY <1>2, <4>1 DEF ChangeSound
      <4>6. c.of.table = "term" => ChangeSound(q, c)'
        BY <1>2, <3>1, <3>4 DEF ChangeSound
      <4>. QED
        BY <3>1, <4>2, <4>3, <4>4, <4>5, <4>6, Apart DEF Rows
    <3>. QED
      BY <3>1, <3>2, <3>5
  <2>2. tx[q].writes # {} => At(q, "commit")
    BY <1>1 DEF Sound, WriteSound
  <2>. QED
    BY <1>1, <1>2, <2>1, <2>2 DEF WriteSound
<1>. QED
  BY <1>5, <1>6, <1>7, <1>8, <1>9, <1>10, <1>11 DEF Sound

(* The tables keep their types, and the Audit records their order. *)
LEMMA CommitTyped ==
  ASSUME IInv, NEW r \in Requests, Commit(r)
  PROVE  TypeOK'
<1>1. clock' \in Times
  BY CommitIs DEF IInv, TypeOK
<1>2. ASSUME NEW i \in Rows
      PROVE  row'[i] \in {None} \cup RowsOf[i.table] /\ row'[i] \in Values
  <2>1. row'[i] \in {None} \cup RowsOf[i.table]
    <3>1. CASE i \in Written(r)
      <4>1. PICK c \in tx[r].writes : c.of = i
        BY <3>1, CommitIs
      <4>. QED
        BY <4>1, CommitIs
    <3>2. CASE i \notin Written(r)
      <4>1. row'[i] = row[i]
        BY <3>2, CommitIs
      <4>. QED
        BY <4>1 DEF IInv, TypeOK
    <3>. QED
      BY <3>1, <3>2
  <2>2. i.table \in DOMAIN RowsOf
    BY Apart DEF Rows, RowsOf
  <2>. QED
    BY <2>1, <2>2 DEF Values
<1>3. row' \in [Rows -> Values]
  <2>1. row' = [i \in Rows |-> row'[i]]
    BY DEF Commit, IInv, TypeOK
  <2>. QED
    BY <1>2, <2>1
<1>4. row'[Term] # None
  <2>1. CASE Term \notin Written(r)
    BY <2>1, CommitIs DEF IInv, TypeOK, Rows
  <2>2. CASE Term \in Written(r)
    <3>1. PICK c \in tx[r].writes : c.of = Term
      BY <2>2, CommitIs
    <3>2. row'[Term] = c.after /\ ChangeSound(r, c)
      BY <3>1, CommitIs
    <3>3. AskOf(r).kind = "term" /\ c.after = [last |-> AskOf(r).last]
      BY <3>1, <3>2, Apart DEF ChangeSound
    <3>4. c.after \in [last : TermEnds]
      BY <3>3, Asked DEF AskSound
    <3>. QED
      BY <3>2, <3>4, TablesAre
  <2>. QED
    BY <2>1, <2>2
<1>5. tx' \in [Requests -> Tx]
  BY NewTxTyped DEF IInv, TypeOK, Commit
<1>6. trail' \in [Rows -> Seq([before : Values, after : Values])]
  <2>1. trail' = [i \in Rows |-> trail'[i]]
    BY DEF Commit, IInv, TypeOK
  <2>2. ASSUME NEW i \in Rows PROVE trail'[i] \in Seq([before : Values, after : Values])
    <3>1. trail[i] \in Seq([before : Values, after : Values])
      BY DEF IInv, TypeOK
    <3>2. CASE i \notin Written(r)
      BY <3>1, <3>2, CommitIs
    <3>3. CASE i \in Written(r)
      <4>1. PICK c \in tx[r].writes : c.of = i
        BY <3>3, CommitIs
      <4>2. c \in [of : Rows, before : Values, after : Values]
            /\ trail'[i] = Append(trail[i], [before |-> c.before, after |-> c.after])
        BY <4>1, CommitIs
      <4>3. [before |-> c.before, after |-> c.after] \in [before : Values, after : Values]
        BY <4>2
      <4>. QED
        BY <3>1, <4>2, <4>3
    <3>. QED
      BY <3>2, <3>3
  <2>. QED
    BY <2>1, <2>2
<1>7. stretched' \subseteq Ids
  <2>1. Parts' \subseteq Ids
    BY DEF Parts, Held
  <2>. QED
    BY <2>1, CommitIs DEF Stretched
<1>. QED
  BY <1>1, <1>2, <1>3, <1>4, <1>5, <1>6, <1>7 DEF TypeOK

(* A commit adds to each row's Audit records the change it makes of it. *)
LEMMA CommitTrail ==
  ASSUME IInv, NEW r \in Requests, Commit(r)
  PROVE  TrailLeadsToTheRow'
<1>1. SUFFICES ASSUME NEW i \in Rows
               PROVE  /\ \A n \in 2 .. Len(trail'[i]) : trail'[i][n].before = trail'[i][n - 1].after
                      /\ trail'[i] # <<>> => trail'[i][Len(trail'[i])].after = row'[i]
  BY CommitIs DEF TrailLeadsToTheRow
<1>2. /\ trail[i] \in Seq([before : Values, after : Values])
      /\ \A n \in 2 .. Len(trail[i]) : trail[i][n].before = trail[i][n - 1].after
      /\ trail[i] # <<>> => trail[i][Len(trail[i])].after = row[i]
  BY DEF IInv, TypeOK, TrailLeadsToTheRow
<1>3. CASE i \notin Written(r)
  BY <1>2, <1>3, CommitIs
<1>4. CASE i \in Written(r)
  <2>1. PICK c \in tx[r].writes : c.of = i
    BY <1>4, CommitIs
  <2>. DEFINE e == [before |-> c.before, after |-> c.after]
              s == trail[i]
              S == [before : Values, after : Values]
  <2>2. /\ c \in [of : Rows, before : Values, after : Values]
        /\ trail'[i] = Append(s, e) /\ row'[i] = c.after /\ row[i] = c.before
    BY <2>1, CommitIs
  <2>3. e \in S /\ e.before = row[i] /\ e.after = row'[i]
    BY <2>2
  <2>4. s \in Seq(S) /\ Len(s) \in Nat
    BY <1>2
  <2>. HIDE DEF e, S
  <2>5. /\ Len(Append(s, e)) = Len(s) + 1 /\ Append(s, e)[Len(s) + 1] = e
        /\ \A n \in 1 .. Len(s) : Append(s, e)[n] = s[n]
    BY <2>3, <2>4
  <2>6. ASSUME NEW n \in 2 .. Len(s) + 1
        PROVE  Append(s, e)[n].before = Append(s, e)[n - 1].after
    <3>1. CASE n = Len(s) + 1
      <4>1. Len(s) \in 1 .. Len(s) /\ n - 1 = Len(s) /\ s # <<>>
        BY <2>4, <2>6, <3>1
      <4>. QED
        BY <1>2, <2>3, <2>5, <3>1, <4>1
    <3>2. CASE n # Len(s) + 1
      <4>1. n \in 1 .. Len(s) /\ n - 1 \in 1 .. Len(s) /\ n \in 2 .. Len(s)
        BY <2>4, <2>6, <3>2
      <4>. QED
        BY <1>2, <2>5, <4>1
    <3>. QED
      BY <3>1, <3>2
  <2>. QED
    BY <2>2, <2>3, <2>5, <2>6
<1>. QED
  BY <1>3, <1>4

(* A Student has one open Enrollment at most, and none is linked without. *)
LEMMA CommitStays ==
  ASSUME IInv, NEW r \in Requests, Commit(r)
  PROVE  OneOpenStay' /\ LinksHaveGround'
<1>1. Sound(r) /\ At(r, "commit")
  BY CommitIs DEF At
<1>2. ASSUME NEW s \in Students, NEW i \in OpenStay(s)'
      PROVE  i \in OpenStay(s) \/ (i = Id("stay", s, r) /\ OpenStay(s) = {})
  <2>1. i \in Ids /\ i.table = "stay" /\ i.of = s /\ row'[i] # None /\ row'[i].ended = Never
    BY <1>2 DEF OpenStay, Held
  <2>2. CASE i \notin Written(r)
    BY <2>1, <2>2, CommitIs DEF OpenStay, Held, Rows
  <2>3. CASE AskOf(r).kind = "enroll" /\ i = Id("stay", s, r) /\ s \in Whose(r)
    BY <1>1, <2>3 DEF Sound, StaySound
  <2>. QED
    BY <2>1, <2>2, <2>3, StaysWritten
<1>3. OneOpenStay'
  BY <1>2 DEF IInv, OneOpenStay
<1>4. ASSUME NEW s \in Students, NEW j \in OpenStay(s), AskOf(r).kind = "depart" => j # AskOf(r).on
      PROVE  j \in OpenStay(s)'
  <2>1. j \in Ids /\ j \in Rows /\ j.table = "stay" /\ j.of = s /\ row[j] # None /\ row[j].ended = Never
    BY <1>4 DEF OpenStay, Held, Rows
  <2>2. j \notin Written(r)
    BY <1>4, <2>1, StaysWritten
  <2>3. row'[j] = row[j]
    BY <2>1, <2>2, CommitIs
  <2>. QED
    BY <2>1, <2>3 DEF OpenStay, Held
<1>5. ASSUME NEW s \in Students, NEW l \in LinksInForce(s)'
      PROVE  OpenStay(s)' # {}
  <2>1. l \in Ids /\ l \in Rows /\ l.table = "link" /\ l.of = s /\ row'[l] # None /\ row'[l].ended = Never
    BY <1>5 DEF LinksInForce, Held, Rows
  <2>2. CASE l \notin Written(r)
    <3>1. l \in LinksInForce(s)
      BY <2>1, <2>2, CommitIs DEF LinksInForce, Held
    <3>2. PICK j \in OpenStay(s) : TRUE
      BY <3>1 DEF IInv, LinksHaveGround
    <3>3. CASE AskOf(r).kind = "depart" /\ j = AskOf(r).on
      <4>1. s \in Whose(r)
        BY <3>2, <3>3, Asked DEF OpenStay, Held
      <4>2. l \in Written(r)
        BY <1>1, <3>1, <3>3, <4>1, CommitIs DEF Sound, LinksSound
      <4>. QED
        BY <2>2, <4>2
    <3>. QED
      BY <1>4, <3>2, <3>3
  <2>3. CASE AskOf(r).kind = "link" /\ s \in Whose(r)
    <3>1. PICK j \in GroundRows(s, tx[r].at) : TRUE
      BY <1>1, <2>3 DEF Sound, GroundSound
    <3>. QED
      BY <1>4, <2>3, <3>1 DEF GroundRows
  <2>4. CASE AskOf(r).kind = "profile" /\ row[l] # None /\ row'[l].ended = row[l].ended
    <3>1. l \in LinksInForce(s)
      BY <2>1, <2>4 DEF LinksInForce, Held
    <3>. QED
      BY <1>4, <2>4, <3>1 DEF IInv, LinksHaveGround
  <2>. QED
    BY <2>1, <2>2, <2>3, <2>4, LinksWritten
<1>. QED
  BY <1>3, <1>5 DEF LinksHaveGround

(* No commit leaves a participation running past the Term. *)
LEMMA CommitRuns ==
  ASSUME IInv, NEW r \in Requests, Commit(r)
  PROVE  RunsInsideTerm'
<1>1. SUFFICES ASSUME NEW i \in Parts'
               PROVE  RunsTo(row'[i], row'[Term].last) <= row'[Term].last
  BY DEF RunsInsideTerm, RunsTo
<1>2. i \in Ids /\ i \in Rows /\ i.table = "part" /\ i.of \in Students \cup Faculty /\ row'[i] # None
  BY DEF Parts, Held, Rows
<1>3. CASE i \in Written(r)
  BY <1>2, <1>3, PartsWritten DEF InsideTerm
<1>4. CASE i \notin Written(r)
  <2>1. row'[i] = row[i] /\ i \in Parts
    BY <1>2, <1>4, CommitIs DEF Parts, Held
  <2>2. CASE Term \notin Written(r)
    BY <2>1, <2>2, CommitIs DEF IInv, RunsInsideTerm, Rows
  <2>3. CASE Term \in Written(r)
    <3>1. PICK c \in tx[r].writes : c.of = Term
      BY <2>3, CommitIs
    <3>2. row'[Term] = c.after /\ ChangeSound(r, c)
      BY <3>1, CommitIs
    <3>3. AskOf(r).kind = "term" /\ c.after = [last |-> AskOf(r).last] /\ ~Strands(i, AskOf(r).last)
      BY <2>1, <3>1, <3>2, Apart DEF ChangeSound
    <3>4. AskOf(r).last \in 1 .. LastDay /\ LastDay \in Nat
      BY <3>3, Asked, ParticipationAssumption DEF AskSound
    <3>5. row[i].last \in Dates \cup {Open}
      BY <1>2, <2>1, RowTyped DEF Part
    <3>6. row'[Term].last = AskOf(r).last
      BY <3>2, <3>3
    <3>7. row[i].last = Open \/ row[i].last <= AskOf(r).last
      BY <3>3, <3>4, <3>5 DEF Strands, Dates, Open
    <3>. QED
      BY <2>1, <3>4, <3>6, <3>7 DEF RunsTo
  <2>. QED
    BY <2>2, <2>3
<1>. QED
  BY <1>3, <1>4

(* A commit keeps the invariant. *)
LEMMA CommitKeeps ==
  ASSUME IInv, NEW r \in Requests, Commit(r)
  PROVE  IInv'
<1>1. TypeOK' /\ TrailLeadsToTheRow' /\ OneOpenStay' /\ LinksHaveGround' /\ RunsInsideTerm'
  BY CommitTyped, CommitTrail, CommitStays, CommitRuns
<1>2. /\ tx'[r] = Done /\ \A q \in Requests \ {r} : tx'[q] = tx[q]
      /\ Done.phase = "ended" /\ Done.ask.kind = "none" /\ Done.holds = {} /\ Done.writes = {} /\ Done.todo = {}
      /\ Done = [NewTx EXCEPT !.phase = "ended"]
  BY CommitIs DEF Done, NewTx, NoAsk
<1>3. Exclusive'
  <2>1. ASSUME NEW a \in Requests, NEW b \in Requests, a # b, NEW k \in tx'[a].holds, NEW l \in tx'[b].holds
        PROVE  ~Clash(k, l)
    <3>1. a # r /\ b # r
      BY <1>2, <2>1
    <3>. QED
      BY <1>2, <2>1, <3>1 DEF IInv, Exclusive
  <2>. QED
    BY <2>1 DEF Exclusive, Clash
<1>4. KnownSound'
  BY <1>2, KnownStays DEF IInv, KnownSound
<1>5. CourseSound(r)'
  BY <1>2 DEF CourseSound, At, AskOf
<1>6. RowSound(r)' /\ GroundSound(r)' /\ LinksSound(r)'
  BY <1>2 DEF RowSound, HoldsRow, GroundSound, LinksSound, AskOf
<1>7. Sound(r)'
  BY <1>2, <1>5, <1>6, EarlySound
<1>8. \A q \in Requests : Sound(q)'
  BY <1>7, OtherStaysSound
<1>. QED
  BY <1>1, <1>3, <1>4, <1>8 DEF IInv

-----------------------------------------------------------------------------
(* Whoever waits, has not ended. *)
LEMMA AbortKeeps ==
  ASSUME IInv, NEW r \in Requests, AbortDeadlock(r)
  PROVE  IInv'
<1>1. WaitsFor(r) # {} /\ Ends(r)
  BY DEF AbortDeadlock, Deadlocked
<1>2. At(r, "ended") => Wants(r) = {}
  BY DEF Wants, At
<1>3. ~At(r, "ended")
  BY <1>1, <1>2 DEF WaitsFor, Blockers
<1>. QED
  BY <1>1, <1>3, EndsKeeps

(* Time passes, and nothing else. *)
LEMMA TickKeeps ==
  ASSUME IInv, UNCHANGED <<row, tx, trail, stretched>>, clock' \in Times
  PROVE  IInv'
<1>1. row' = row /\ tx' = tx /\ trail' = trail /\ stretched' = stretched
  OBVIOUS
<1>2. TypeOK'
  BY <1>1 DEF IInv, TypeOK
<1>3. OneOpenStay' /\ LinksHaveGround' /\ RunsInsideTerm'
  BY <1>1 DEF IInv, OneOpenStay, LinksHaveGround, RunsInsideTerm, OpenStay, LinksInForce, Held, Parts
<1>4. Exclusive' /\ TrailLeadsToTheRow'
  BY <1>1 DEF IInv, Exclusive, TrailLeadsToTheRow
<1>5. \A i : Known(i) => Known(i)'
  BY <1>1 DEF Known, At
<1>6. KnownSound'
  BY <1>1, <1>5 DEF IInv, KnownSound
<1>7. \A q \in Requests : Sound(q)'
  BY <1>1, <1>5, StillSound DEF IInv
<1>. QED
  BY <1>2, <1>3, <1>4, <1>6, <1>7 DEF IInv

(* Every step keeps the invariant. *)
LEMMA StepKeeps ==
  ASSUME IInv, [Next]_vars
  PROVE  IInv'
<1>1. CASE UNCHANGED vars
  BY <1>1, TickKeeps DEF vars, IInv, TypeOK
<1>2. CASE Tick
  <2>1. clock' \in Times
    BY <1>2, ParticipationAssumption DEF Tick, IInv, TypeOK, Times
  <2>. QED
    BY <1>2, <2>1, TickKeeps DEF Tick
<1>3. ASSUME NEW r \in Requests, Begin(r) PROVE IInv'
  BY <1>3, BeginKeeps
<1>4. ASSUME NEW r \in Requests, Serve(r) PROVE IInv'
  <2>1. CASE LockOffering(r) \/ LockRow(r) \/ TakeRole(r) \/ HoldGround(r)
    BY <2>1, LockOfferingKeeps, LockRowKeeps, TakeRoleKeeps, HoldGroundKeeps
  <2>2. CASE LockLinks(r) \/ ListRows(r) \/ LockNextRow(r)
    BY <2>2, LockLinksKeeps, ListRowsKeeps, LockNextRowKeeps
  <2>3. CASE Place(r) \/ Move(r) \/ EndPart(r) \/ Depart(r) \/ EndMembership(r)
    BY <2>3, PlaceKeeps, MoveKeeps, EndPartKeeps, DepartKeeps, EndMembershipKeeps
  <2>4. CASE Grant(r) \/ Enroll(r) \/ MakeLink(r) \/ ChangeProfile(r) \/ Unlink(r) \/ MoveTerm(r)
    BY <2>4, GrantKeeps, EnrollKeeps, MakeLinkKeeps, ChangeProfileKeeps, UnlinkKeeps, MoveTermKeeps
  <2>5. CASE Commit(r) \/ AbortDeadlock(r)
    BY <2>5, CommitKeeps, AbortKeeps
  <2>. QED
    BY <1>4, <2>1, <2>2, <2>3, <2>4, <2>5 DEF Serve
<1>. QED
  BY <1>1, <1>2, <1>3, <1>4 DEF Next

(* At first nobody asks for anything, and what there is was there from the start. *)
LEMMA RowsAtFirst ==
  ASSUME NEW first \in {None} \cup FirstDates, NEW ends \in MemberEnds \cup {Never}, NEW termLast \in TermEnds,
         first # None => first <= DateOf(ends),
         NEW i \in Rows
  PROVE  /\ AtFirst(i, first, ends, termLast) \in {None} \cup RowsOf[i.table]
         /\ i = Term => AtFirst(i, first, ends, termLast) = [last |-> termLast]
         /\ i.table = "stay" => AtFirst(i, first, ends, termLast) = [ended |-> Never]
         /\ i.table = "part" /\ AtFirst(i, first, ends, termLast) # None =>
              RunsTo(AtFirst(i, first, ends, termLast), termLast) <= termLast
<1>. DEFINE v == AtFirst(i, first, ends, termLast)
<1>1. LastDay \in Nat /\ Never = LastDay /\ Open = LastDay + 1 /\ ends \in 0 .. LastDay /\ termLast \in 1 .. LastDay
  BY ParticipationAssumption DEF Never, Open
<1>2. CASE i.table = "term"
  BY <1>2, TablesAre, Apart DEF AtFirst
<1>3. CASE i.table = "member"
  <2>1. v = [starts |-> 0, ends |-> IF i.of \in Faculty THEN ends ELSE Never]
    BY <1>3 DEF AtFirst
  <2>2. v \in Member
    BY <1>1, <2>1 DEF Member, Instants
  <2>. QED
    BY <1>3, <2>2, TablesAre, Apart
<1>4. CASE i.table = "stay"
  <2>1. v = [ended |-> Never]
    BY <1>4 DEF AtFirst
  <2>2. v \in Stay
    BY <1>1, <2>1 DEF Stay, Instants
  <2>. QED
    BY <1>4, <2>1, <2>2, TablesAre, Apart
<1>5. CASE i.table = "link"
  <2>1. v = IF Guardians = {} THEN None
            ELSE [guardian |-> CHOOSE g \in Guardians : TRUE, profile |-> Permissions, ended |-> Never]
    BY <1>5 DEF AtFirst
  <2>2. v \in {None} \cup Link
    BY <1>1, <2>1 DEF Link, Instants
  <2>. QED
    BY <1>5, <2>2, TablesAre, Apart
<1>6. CASE i.table = "part"
  <2>1. CASE first = None
    BY <1>6, <2>1, TablesAre, Apart DEF AtFirst
  <2>2. CASE first # None
    <3>. DEFINE last == IF i.of \in Faculty /\ DateOf(ends) < termLast THEN DateOf(ends) ELSE Open
    <3>1. v = [first |-> first, last |-> last]
      BY <1>6, <2>2 DEF AtFirst
    <3>2. first \in FirstDates /\ first \in 1 .. LastDay /\ first <= ends + 1
      BY <2>2, ParticipationAssumption DEF DateOf
    <3>3. last \in Dates \cup {Open} /\ first <= last /\ (last # Open => last <= termLast)
      BY <1>1, <3>2 DEF DateOf, Dates
    <3>. HIDE DEF last
    <3>4. v \in Part
      BY <3>1, <3>2, <3>3 DEF Part
    <3>5. RunsTo(v, termLast) <= termLast
      BY <1>1, <3>1, <3>3 DEF RunsTo
    <3>. QED
      BY <1>6, <3>4, <3>5, TablesAre, Apart
  <2>. QED
    BY <2>1, <2>2
<1>. QED
  BY <1>2, <1>3, <1>4, <1>5, <1>6, Apart DEF Rows

(* The invariant holds at first. *)
LEMMA InitKeeps ==
  ASSUME Init
  PROVE  IInv
<1>1. PICK first \in {None} \cup FirstDates, ends \in MemberEnds \cup {Never}, termLast \in TermEnds :
        /\ first # None => first <= DateOf(ends)
        /\ row = [i \in Rows |-> IF i.by # None THEN None ELSE AtFirst(i, first, ends, termLast)]
  BY DEF Init, Rows
<1>2. ASSUME NEW i \in Rows
      PROVE  /\ row[i] = IF i.by # None THEN None ELSE AtFirst(i, first, ends, termLast)
             /\ row[i] \in {None} \cup RowsOf[i.table] /\ row[i] \in Values
             /\ i.table = "part" /\ row[i] # None => RunsTo(row[i], termLast) <= termLast
  <2>1. row[i] = IF i.by # None THEN None ELSE AtFirst(i, first, ends, termLast)
    BY <1>1
  <2>2. row[i] \in {None} \cup RowsOf[i.table]
    BY <1>1, <2>1, RowsAtFirst
  <2>3. i.table \in DOMAIN RowsOf
    BY Apart DEF Rows, RowsOf
  <2>4. i.table = "part" /\ row[i] # None => RunsTo(row[i], termLast) <= termLast
    BY <1>1, <2>1, RowsAtFirst
  <2>. QED
    BY <2>1, <2>2, <2>3, <2>4 DEF Values
<1>3. row[Term] = [last |-> termLast] /\ row[Term] # None
  <2>1. row[Term] = AtFirst(Term, first, ends, termLast)
    BY <1>2, Apart DEF Rows
  <2>2. AtFirst(Term, first, ends, termLast) = [last |-> termLast]
    BY <1>1, RowsAtFirst DEF Rows
  <2>3. [last |-> termLast] \in [last : TermEnds]
    OBVIOUS
  <2>. QED
    BY <2>1, <2>2, <2>3, TablesAre
<1>4. \A r \in Requests : tx[r] = NewTx
  BY DEF Init
<1>5. NewTx.phase = "new" /\ NewTx.ask.kind = "none" /\ NewTx.holds = {} /\ NewTx.writes = {} /\ NewTx.todo = {}
      /\ [NewTx EXCEPT !.phase = NewTx.phase] = NewTx
  BY DEF NewTx, NoAsk
<1>6. TypeOK
  <2>1. clock \in Times
    BY ParticipationAssumption DEF Init, Times
  <2>2. row \in [Rows -> Values]
    BY <1>1, <1>2
  <2>3. trail \in [Rows -> Seq([before : Values, after : Values])] /\ stretched \subseteq Ids
    BY DEF Init, Rows
  <2>4. tx \in [Requests -> Tx]
    BY NewTxTyped DEF Init
  <2>. QED
    BY <1>2, <1>3, <2>1, <2>2, <2>3, <2>4 DEF TypeOK
<1>7. Exclusive
  BY <1>4, <1>5 DEF Exclusive
<1>8. \A i \in Ids : row[i] # None => i.by = None
  BY <1>2 DEF Rows
<1>9. KnownSound
  BY <1>4, <1>5, <1>8, ParticipationAssumption DEF KnownSound, Known
<1>10. OneOpenStay
  <2>1. ASSUME NEW s \in Students, NEW i \in OpenStay(s) PROVE i = Id("stay", s, None)
    BY <1>8 DEF OpenStay, Held, Ids, Id
  <2>. QED
    BY <2>1 DEF OneOpenStay
<1>11. LinksHaveGround
  <2>1. ASSUME NEW s \in Students PROVE OpenStay(s) # {}
    <3>. DEFINE i == Id("stay", s, None)
    <3>1. Owners["stay"] = Students /\ "stay" \in DOMAIN Owners
      BY DEF Owners
    <3>2. i \in Ids /\ i.table = "stay" /\ i.of = s /\ i.by = None
      BY <3>1 DEF Ids, Id
    <3>. HIDE DEF i
    <3>3. row[i] = [ended |-> Never]
      BY <1>1, <1>2, <3>2, RowsAtFirst DEF Rows
    <3>4. [ended |-> Never] # None
      BY TablesAre, ParticipationAssumption DEF Stay, Instants, Never
    <3>. QED
      BY <3>2, <3>3, <3>4 DEF OpenStay, Held
  <2>. QED
    BY <2>1 DEF LinksHaveGround
<1>12. RunsInsideTerm
  <2>1. \A i \in Parts : i \in Rows /\ i.table = "part" /\ row[i] # None
    BY DEF Parts, Held, Rows
  <2>. QED
    BY <1>2, <1>3, <2>1 DEF RunsInsideTerm
<1>13. TrailLeadsToTheRow
  BY DEF Init, TrailLeadsToTheRow
<1>14. ASSUME NEW r \in Requests PROVE Sound(r)
  <2>1. CourseSound(r)
    BY <1>4, <1>5 DEF CourseSound, At
  <2>2. RowSound(r) /\ GroundSound(r) /\ LinksSound(r) /\ StaySound(r)
    BY <1>4, <1>5 DEF RowSound, HoldsRow, GroundSound, LinksSound, StaySound, AskOf
  <2>3. ListSound(r) /\ WriteSound(r)
    BY <1>4, <1>5 DEF ListSound, WriteSound, Listed, At
  <2>. QED
    BY <2>1, <2>2, <2>3 DEF Sound
<1>. QED
  BY <1>6, <1>7, <1>9, <1>10, <1>11, <1>12, <1>13, <1>14 DEF IInv

-----------------------------------------------------------------------------
(* Whatever the School, its Administrators' requests and their order: what *)
(* each transaction holds is its own, what it has read of the rows it has  *)
(* locked stands until it ends, and what it is to write is fit for them.   *)
THEOREM ParticipationInvariance == Spec => []IInv
<1>1. Init => IInv
  BY InitKeeps
<1>2. IInv /\ [Next]_vars => IInv'
  BY StepKeeps
<1>. QED
  BY <1>1, <1>2, PTL DEF Spec

(* Every variable keeps its type, whatever the Persons, requests and dates. *)
THEOREM ParticipationTypeOK == Spec => []TypeOK
<1>1. IInv => TypeOK
  BY DEF IInv
<1>. QED
  BY <1>1, ParticipationInvariance, PTL

(* Of every relationship and participation, and of the Term, the committed *)
(* Audit records are a chain without a gap that leads to the row as it     *)
(* stands: in recordRelationshipChange and recordMutation what is recorded *)
(* as before is what the transaction found under its lock.                 *)
THEOREM TrailsLeadToTheRow == Spec => []TrailLeadsToTheRow
<1>1. IInv => TrailLeadsToTheRow
  BY DEF IInv
<1>. QED
  BY <1>1, ParticipationInvariance, PTL

-----------------------------------------------------------------------------
(* What the locks of a request say of where it stands, one statement on. *)
LEMMA LocksKeepPlace ==
  ASSUME LInv, NEW r \in Requests, Begin(r) \/ Serve(r)
  PROVE  LockSound(r)'
<1>1. IInv /\ LockSound(r) /\ tx[r] \in Tx /\ Sound(r) /\ CourseSound(r)
  BY Asked DEF LInv
<1>2. AskOf(r).kind # "none" => AskSound(AskOf(r))
  BY <1>1, Asked
<1>3. tx'[r].holds = {} \/ tx'[r].phase = "commit" => LockSound(r)'
  BY DEF LockSound
<1>4. CASE Begin(r)
  <2>1. PICK ask \in Asks :
          Goes(r, [NewTx EXCEPT !.ask = ask, !.at = clock, !.phase = Statements[ask.kind][1],
                                !.saw = IF "on" \in DOMAIN ask THEN row[ask.on] ELSE None])
    BY <1>4 DEF Begin
  <2>2. tx'[r].holds = {}
    BY <1>1, <2>1 DEF Goes, NewTx, IInv, TypeOK
  <2>. QED
    BY <1>3, <2>2
<1>5. CASE Ends(r) \/ Commit(r)
  <2>1. tx'[r].holds = {}
    BY <1>1, <1>5 DEF Ends, Goes, Commit, Done, NewTx, IInv, TypeOK
  <2>. QED
    BY <1>3, <2>1
<1>6. CASE LockOffering(r)
  <2>1. tx[r].phase = "offering" /\ After(r) = "ground" /\ AskOf(r).kind \in {"roster", "assign"}
    BY <1>1, <1>2, <1>6, Asked, AfterIs DEF LockOffering, Runs, At, CourseSound
  <2>2. tx'[r].ask = tx[r].ask /\ tx'[r].phase = "ground" /\ tx'[r].holds = tx[r].holds \cup {Alone(Entry("offering", None))}
    BY <1>1, <1>6, <2>1 DEF LockOffering, Goes, Locked, Wants, At, IInv, TypeOK, Tx
  <2>3. tx[r].holds = {}
    BY <1>1, <2>1 DEF LockSound
  <2>4. Entry("offering", None) \in Entries /\ Entry("offering", None).index = "offering"
    BY DEF Entry, Entries
  <2>. QED
    BY <2>1, <2>2, <2>3, <2>4, LockIs DEF LockSound, AskOf
<1>7. CASE LockRow(r) /\ ~Ends(r)
  <2>1. tx[r].phase = "row" /\ AskOf(r).kind \in {"move", "end", "depart", "narrow", "revoke", "profile", "unlink"}
    BY <1>1, <1>7 DEF LockRow, Runs, At, CourseSound
  <2>2. /\ AskSound(AskOf(r)) /\ AskOf(r).on \in Ids /\ Whose(r) = {AskOf(r).on.of}
        /\ EndsGround(r) => AskOf(r).on.table # "part"
    BY <1>1, <1>2, <2>1, Asked DEF AskSound, EndsGround
  <2>3. /\ AskOf(r).kind = "move" => After(r) = "ground"
        /\ AskOf(r).kind = "depart" => After(r) = "links"
        /\ AskOf(r).kind \in {"narrow", "revoke"} => After(r) = "list"
        /\ AskOf(r).kind \in {"end", "profile", "unlink"} => After(r) = "write"
    BY <1>1, <2>1, <2>2, AfterIs DEF At
  <2>4. tx'[r].ask = tx[r].ask /\ tx'[r].phase = After(r) /\ tx'[r].holds = tx[r].holds \cup {Alone(AskOf(r).on)}
    <3>1. Goes(r, [Locked(r) EXCEPT !.saw = row[AskOf(r).on], !.term = row[Term].last])
      BY <1>7 DEF LockRow
    <3>2. Wants(r) = {Alone(AskOf(r).on)}
      BY <2>1 DEF Wants, At
    <3>. QED
      BY <1>1, <3>1, <3>2 DEF Goes, Locked, IInv, TypeOK, Tx
  <2>5. tx[r].holds = {}
    BY <1>1, <2>1 DEF Sound, ListSound, At
  <2>6. Whose(r)' = Whose(r) /\ AskOf(r)' = AskOf(r) /\ EndsGround(r)' = EndsGround(r)
    BY <2>4 DEF Whose, AskOf, EndsGround
  <2>7. \A l \in tx'[r].holds : l.what = AskOf(r).on
    BY <2>4, <2>5, LockIs
  <2>8. CASE EndsGround(r)
    BY <2>2, <2>3, <2>4, <2>6, <2>7, <2>8 DEF LockSound, EndsGround
  <2>9. CASE ~EndsGround(r)
    BY <2>1, <2>3, <2>4, <2>6, <2>7, <2>9 DEF LockSound, EndsGround
  <2>. QED
    BY <2>8, <2>9
<1>8. CASE TakeRole(r)
  <2>1. tx[r].phase = "role" /\ After(r) = "write"
    BY <1>1, <1>2, <1>8, Asked, AfterIs DEF TakeRole, Runs, At
  <2>2. tx'[r].ask = tx[r].ask /\ tx'[r].phase = "write" /\ tx'[r].holds = tx[r].holds \cup {Alone(Entry("role", p)) : p \in Whose(r)}
    BY <1>1, <1>8, <2>1 DEF TakeRole, Goes, Locked, Wants, At, IInv, TypeOK, Tx
  <2>3. tx[r].holds = {}
    BY <1>1, <2>1 DEF LockSound
  <2>4. AskOf(r).kind = "grant" /\ Whose(r) \subseteq Persons
    BY <1>1, <2>1, WhoIs DEF CourseSound, At
  <2>5. \A p \in Persons : Entry("role", p) \in Entries /\ Entry("role", p).index = "role"
    BY DEF Entry, Entries
  <2>. QED
    BY <2>2, <2>3, <2>4, <2>5, LockIs DEF LockSound
<1>9. CASE HoldGround(r) /\ ~Ends(r)
  <2>1. tx[r].phase = "ground" /\ After(r) = "write" /\ AskOf(r).kind \in {"roster", "assign", "move", "link"}
    BY <1>1, <1>2, <1>9, Asked, AfterIs DEF HoldGround, Runs, At, CourseSound
  <2>2. tx'[r].ask = tx[r].ask /\ tx'[r].phase = "write" /\ tx'[r].holds = tx[r].holds \cup {Shared(j) : j \in Grounds(r)}
    <3>1. Goes(r, [Locked(r) EXCEPT !.until = GroundUntil(r)])
      BY <1>9 DEF HoldGround
    <3>2. Wants(r) = {Shared(j) : j \in Grounds(r)}
      BY <2>1 DEF Wants, At
    <3>3. tx'[r].ask = tx[r].ask /\ tx'[r].phase = After(r) /\ tx'[r].holds = tx[r].holds \cup Wants(r)
      BY <1>1, <3>1, LockedIs DEF Goes, Locked, LInv, IInv, TypeOK, Tx
    <3>. QED
      BY <2>1, <3>2, <3>3
  <2>3. \A j \in Grounds(r) : j \in Ids
    BY DEF Grounds, GroundRows, OpenStay, Active, Held
  <2>4. AskOf(r)' = AskOf(r)
    BY <2>2 DEF AskOf
  <2>5. ASSUME NEW l \in tx'[r].holds
        PROVE  \/ l.what \in Entries /\ l.what.index = "offering" /\ AskOf(r).kind \in {"roster", "assign"}
               \/ l.what = AskOf(r).on /\ AskOf(r).kind = "move"
               \/ l.what \in Ids /\ l.shared
    <3>1. CASE l \in tx[r].holds
      BY <1>1, <2>1, <3>1 DEF LockSound
    <3>2. CASE l \notin tx[r].holds
      BY <2>2, <2>3, <2>5, <3>2, LockIs
    <3>. QED
      BY <3>1, <3>2
  <2>. QED
    BY <2>2, <2>4, <2>5 DEF LockSound
<1>10. CASE LockLinks(r)
  <2>1. tx[r].phase = "links" /\ After(r) = "list" /\ AskOf(r).kind = "depart"
    BY <1>1, <1>2, <1>10, Asked, AfterIs DEF LockLinks, Runs, At, CourseSound
  <2>2. /\ tx'[r].ask = tx[r].ask /\ tx'[r].phase \in {"list", "links"}
        /\ tx'[r].holds = tx[r].holds \cup Wants(r)
    BY <1>1, <1>10, <2>1 DEF LockLinks, Goes, Locked, At, IInv, TypeOK, Tx
  <2>3. \A l \in LinksToEnd(r) : l \in Ids /\ l.table # "part" /\ l.of \in Whose(r)
    BY DEF LinksToEnd, Unlocked, LinksInForce, Held
  <2>4. \A l \in Wants(r) : l.what \in LinksToEnd(r)
    BY <2>1, LockIs DEF Wants, At
  <2>5. \A l \in tx[r].holds : l.what \in Ids /\ l.what.of \in Whose(r) /\ l.what.table # "part"
    <3>1. ASSUME NEW l \in tx[r].holds PROVE l.what \in Ids /\ l.what.of \in Whose(r) /\ l.what.table # "part"
      <4>1. l.what \in Ids /\ l.what.table # "part"
        BY <1>1, <2>1 DEF Sound, ListSound, At
      <4>2. l.what.of \in Whose(r)
        BY <1>1, <2>1 DEF LockSound
      <4>. QED
        BY <4>1, <4>2
    <3>. QED
      BY <3>1
  <2>6. Whose(r)' = Whose(r) /\ EndsGround(r)'
    BY <2>1, <2>2 DEF Whose, AskOf, EndsGround
  <2>. QED
    BY <2>2, <2>3, <2>4, <2>5, <2>6 DEF LockSound
<1>11. CASE ListRows(r)
  <2>1. tx[r].phase = "list" /\ EndsGround(r)
    BY <1>1, <1>11 DEF ListRows, Runs, At, CourseSound
  <2>2. tx'[r].ask = tx[r].ask /\ tx'[r].phase \in {"write", "rows"} /\ tx'[r].holds = tx[r].holds
    BY <1>1, <1>11 DEF ListRows, Goes, IInv, TypeOK, Tx
  <2>3. \A l \in tx[r].holds : l.what \in Ids /\ l.what.of \in Whose(r) /\ l.what.table # "part"
    <3>1. ASSUME NEW l \in tx[r].holds PROVE l.what \in Ids /\ l.what.of \in Whose(r) /\ l.what.table # "part"
      <4>1. l.what \in Ids /\ l.what.table # "part"
        BY <1>1, <2>1 DEF Sound, ListSound, At
      <4>2. l.what.of \in Whose(r)
        BY <1>1, <2>1 DEF LockSound
      <4>. QED
        BY <4>1, <4>2
    <3>. QED
      BY <3>1
  <2>4. Whose(r)' = Whose(r) /\ EndsGround(r)'
    BY <2>1, <2>2 DEF Whose, AskOf, EndsGround
  <2>. QED
    BY <2>2, <2>3, <2>4 DEF LockSound
<1>12. CASE LockNextRow(r)
  <2>1. tx[r].phase = "rows" /\ After(r) = "write" /\ EndsGround(r)
    BY <1>1, <1>2, <1>12, Asked, AfterIs DEF LockNextRow, Runs, At, CourseSound
  <2>2. /\ tx'[r].ask = tx[r].ask /\ tx'[r].phase \in {"write", "rows"} /\ tx'[r].todo = tx[r].todo
        /\ tx'[r].holds = tx[r].holds \cup {Alone(NextRow(r))}
    BY <1>1, <1>12, <2>1 DEF LockNextRow, Goes, Locked, Wants, At, IInv, TypeOK, Tx
  <2>3. NextRow(r) \in Listed(r)
    BY <1>1, <2>1, NextRowIs DEF Sound, ListSound, At, RowsToLock, Unlocked
  <2>4. \A i \in Listed(r) : i \in Ids /\ i.of \in Whose(r)
    BY <1>1 DEF Sound, ListSound, Listed, Tx
  <2>5. Whose(r)' = Whose(r) /\ EndsGround(r)' /\ Listed(r)' = Listed(r)
    BY <2>1, <2>2 DEF Whose, AskOf, EndsGround, Listed
  <2>6. ASSUME NEW l \in tx'[r].holds
        PROVE  l.what \in Ids /\ l.what.of \in Whose(r) /\ (l.what.table # "part" \/ l.what \in Listed(r))
    <3>1. CASE l \in tx[r].holds
      BY <1>1, <2>1, <3>1 DEF LockSound
    <3>2. CASE l = Alone(NextRow(r))
      BY <2>3, <2>4, <3>2, LockIs
    <3>. QED
      BY <2>2, <3>1, <3>2
  <2>. QED
    BY <2>2, <2>5, <2>6 DEF LockSound
<1>13. ASSUME NEW changes, Writes(r, changes), Runs(r, "write")
       PROVE  LockSound(r)'
  <2>1. After(r) = "commit"
    BY <1>1, <1>2, <1>13, Asked, AfterIs DEF Runs, At
  <2>2. tx'[r].phase = "commit"
    BY <1>1, <1>13, <2>1 DEF Writes, Goes, Locked, IInv, TypeOK, Tx
  <2>. QED
    BY <1>3, <2>2
<1>14. CASE Place(r) \/ Move(r) \/ EndPart(r) \/ Depart(r) \/ EndMembership(r)
  BY <1>5, <1>13, <1>14 DEF Place, Move, EndPart, Depart, EndMembership, Ending
<1>15. CASE Grant(r) \/ Enroll(r) \/ MakeLink(r) \/ ChangeProfile(r) \/ Unlink(r) \/ MoveTerm(r)
  BY <1>5, <1>13, <1>15 DEF Grant, Enroll, MakeLink, ChangeProfile, Unlink, MoveTerm
<1>16. AbortDeadlock(r) => Ends(r)
  BY DEF AbortDeadlock
<1>. QED
  BY <1>4, <1>5, <1>6, <1>7, <1>8, <1>9, <1>10, <1>11, <1>12, <1>14, <1>15, <1>16 DEF Serve

(* Every step leaves each lock telling where its request stands. *)
LEMMA LocksStepKeeps ==
  ASSUME LInv, [Next]_vars
  PROVE  LInv'
<1>1. IInv'
  BY StepKeeps DEF LInv
<1>2. ASSUME NEW q \in Requests, LockSound(q), tx'[q] = tx[q]
      PROVE  LockSound(q)'
  BY <1>2 DEF LockSound, AskOf, EndsGround, Whose, Listed
<1>3. ASSUME NEW r \in Requests, Begin(r) \/ Serve(r)
      PROVE  \A q \in Requests \ {r} : tx'[q] = tx[q]
  <2>1. ASSUME NEW to, Goes(r, to) PROVE \A q \in Requests \ {r} : tx'[q] = tx[q]
    BY <2>1 DEF Goes, LInv, IInv, TypeOK
  <2>2. ASSUME Commit(r) PROVE \A q \in Requests \ {r} : tx'[q] = tx[q]
    BY <2>2 DEF Commit, LInv, IInv, TypeOK
  <2>3. \/ Commit(r)
        \/ \E to : Goes(r, to)
    BY <1>3 DEF Begin, Serve, LockOffering, LockRow, TakeRole, HoldGround, LockLinks, ListRows, LockNextRow,
                Place, Move, EndPart, Depart, EndMembership, Ending, Grant, Enroll, MakeLink, ChangeProfile, Unlink,
                MoveTerm, AbortDeadlock, Ends, Writes
  <2>. QED
    BY <2>1, <2>2, <2>3
<1>4. CASE Tick \/ UNCHANGED vars
  <2>1. tx' = tx
    BY <1>4 DEF Tick, vars
  <2>. QED
    BY <1>1, <1>2, <2>1 DEF LInv
<1>5. ASSUME NEW r \in Requests, Begin(r) \/ Serve(r) PROVE \A q \in Requests : LockSound(q)'
  BY <1>2, <1>3, <1>5, LocksKeepPlace DEF LInv
<1>. QED
  BY <1>1, <1>4, <1>5 DEF LInv, Next

(* Whoever waits to write, waits for one about to commit, who waits for nobody. *)
LEMMA WritersWait ==
  ASSUME LInv, NEW q \in Requests, NEW s \in WaitsFor(q), WaitsFor(s) # {}
  PROVE  tx[q].phase \in {"offering", "row", "role", "ground", "links", "rows"}
<1>1. IInv /\ LockSound(s) /\ s \in Requests /\ Sound(s)
  BY Asked DEF LInv, WaitsFor, Blockers
<1>2. PICK k \in Wants(q), l \in tx[s].holds : Clash(k, l)
  BY DEF WaitsFor, Blockers
<1>3. k.what = l.what
  BY <1>2 DEF Clash
<1>4. tx[q].phase \in {"offering", "row", "role", "ground", "links", "rows", "write"}
  BY <1>2 DEF Wants, At
<1>5. tx[s].phase # "commit"
  BY DEF WaitsFor, Blockers, Wants, At
<1>6. CASE At(q, "write")
  <2>1. k \in EntriesWritten(q) \cup {Alone(Term), Shared(Term)}
    BY <1>2, <1>6 DEF Wants, At, WriteLocks
  <2>2. k.what = Term \/ k.what.index \in {"part", "stay", "link"}
    <3>1. k \in EntriesWritten(q) => \E index \in {"part", "stay", "link"} : \E p : k = Alone(Entry(index, p))
      BY DEF EntriesWritten
    <3>2. \A index, p : Entry(index, p).index = index
      BY DEF Entry
    <3>. QED
      BY <2>1, <3>1, <3>2, LockIs
  <2>3. k.what \notin Ids
    BY <1>1, <1>2, <1>6, WriteLocksAre
  <2>4. l.what = AskOf(s).on /\ AskOf(s).kind \in {"move", "end", "profile", "unlink"} => l.what \in Ids
    BY <1>1, Asked DEF AskSound
  <2>5. l.what \in Entries /\ l.what.index \in {"offering", "role"}
    BY <1>1, <1>3, <1>5, <2>3, <2>4 DEF LockSound
  <2>6. Term \notin Entries
    BY Apart DEF Rows
  <2>. QED
    BY <1>3, <2>2, <2>5, <2>6
<1>. QED
  BY <1>4, <1>6 DEF At

(* Whom a request waits for, if it waits for another that waits: a roster or *)
(* an assignment that has the Class Offering, a move that has its row, or an *)
(* ending.                                                                   *)
LEMMA WaitIs ==
  ASSUME LInv, NEW r \in Requests, NEW q \in WaitsFor(r), NEW s \in WaitsFor(q), WaitsFor(s) # {}
  PROVE  /\ q \in Requests /\ q # r
         /\ \/ At(r, "offering") /\ At(q, "ground")
            \/ /\ AskOf(q).kind = "move" /\ At(q, "ground")
               /\ At(r, "row") \/ (EndsGround(r) /\ Whose(r) = Whose(q))
            \/ /\ EndsGround(q) /\ (At(q, "links") \/ At(q, "rows"))
               /\ At(r, "row") \/ At(r, "ground") \/ (EndsGround(r) /\ Whose(r) = Whose(q))
<1>1. /\ IInv /\ LockSound(q) /\ q \in Requests /\ q # r /\ Sound(r) /\ Sound(q) /\ CourseSound(r)
      /\ tx[r] \in Tx /\ tx[q] \in Tx
  BY Asked DEF LInv, WaitsFor, Blockers
<1>2. PICK k \in Wants(r), l \in tx[q].holds : Clash(k, l)
  BY DEF WaitsFor, Blockers
<1>3. k.what = l.what
  BY <1>2 DEF Clash
<1>4. tx[q].phase \in {"offering", "row", "role", "ground", "links", "rows"}
  BY <1>1, WritersWait
<1>5. tx[r].phase \in {"offering", "row", "role", "ground", "links", "rows"}
  BY <1>4, WritersWait
<1>. DEFINE ofOffering == l.what \in Entries /\ l.what.index = "offering" /\ At(q, "ground")
            ofMove == AskOf(q).kind = "move" /\ At(q, "ground") /\ l.what = AskOf(q).on
            ofEnding == /\ EndsGround(q) /\ (At(q, "links") \/ At(q, "rows"))
                        /\ l.what \in Ids /\ l.what.of \in Whose(q)
<1>6. ofOffering \/ ofMove \/ ofEnding
  BY <1>1, <1>4 DEF LockSound, At
<1>7. ofMove => AskOf(q).on \in Ids /\ AskOf(q).on.table = "part" /\ Whose(q) = {l.what.of}
  BY <1>1, Asked DEF AskSound
<1>8. ofEnding => Whose(q) = {l.what.of}
  <2>1. SUFFICES ASSUME ofEnding PROVE Whose(q) = {l.what.of}
    OBVIOUS
  <2>2. \E p \in Persons : Whose(q) = {p}
    BY <1>1, <2>1, WhoIs DEF EndsGround
  <2>. QED
    BY <2>1, <2>2
<1>9. CASE At(r, "offering")
  <2>1. k.what \in Entries
    BY <1>2, <1>9, LockIs DEF Wants, At, Entry, Entries
  <2>. QED
    BY <1>1, <1>3, <1>6, <1>7, <1>9, <2>1, Apart DEF Rows
<1>10. CASE At(r, "row")
  <2>1. k.what = AskOf(r).on /\ AskOf(r).on \in Ids
    <3>1. Wants(r) = {Alone(AskOf(r).on)}
      BY <1>10 DEF Wants, At
    <3>2. AskOf(r).on \in Ids
      BY <1>1, <1>10, Asked DEF CourseSound, AskSound
    <3>. QED
      BY <1>2, <3>1, <3>2, LockIs
  <2>. QED
    BY <1>1, <1>3, <1>6, <1>10, <2>1, Apart DEF Rows
<1>11. CASE At(r, "role")
  <2>1. k.what \in Entries /\ k.what.index = "role"
    <3>1. Whose(r) \subseteq Persons
      BY <1>1, <1>11, WhoIs DEF CourseSound
    <3>2. \E p \in Persons : k = Alone(Entry("role", p))
      BY <1>2, <1>11, <3>1 DEF Wants, At
    <3>3. \A p \in Persons : Entry("role", p) \in Entries /\ Entry("role", p).index = "role"
      BY DEF Entry, Entries
    <3>. QED
      BY <3>2, <3>3, LockIs
  <2>. QED
    BY <1>3, <1>6, <1>7, <2>1, Apart DEF Rows
<1>12. CASE At(r, "ground")
  <2>1. k.what \in Ids /\ k.what.table # "part"
    <3>1. \A j \in Grounds(r) : j \in Ids /\ j.table # "part"
      BY DEF Grounds, GroundRows, OpenStay, Active, Held
    <3>2. \E j \in Grounds(r) : k = Shared(j)
      BY <1>2, <1>12 DEF Wants, At
    <3>. QED
      BY <3>1, <3>2, LockIs
  <2>. QED
    BY <1>1, <1>3, <1>6, <1>7, <1>12, <2>1, Apart DEF Rows
<1>13. CASE At(r, "links") \/ At(r, "rows")
  <2>1. EndsGround(r)
    BY <1>1, <1>13 DEF CourseSound, EndsGround
  <2>2. \E p \in Persons : Whose(r) = {p}
    BY <1>1, <2>1, WhoIs DEF EndsGround
  <2>3. k.what \in Ids /\ k.what.of \in Whose(r)
    <3>1. CASE At(r, "links")
      <4>1. \A j \in LinksToEnd(r) : j \in Ids /\ j.of \in Whose(r)
        BY DEF LinksToEnd, Unlocked, LinksInForce, Held
      <4>2. \E j \in LinksToEnd(r) : k = Alone(j)
        BY <1>2, <3>1 DEF Wants, At
      <4>. QED
        BY <4>1, <4>2, LockIs
    <3>2. CASE At(r, "rows")
      <4>1. NextRow(r) \in Listed(r)
        BY <1>1, <3>2, NextRowIs DEF Sound, ListSound, RowsToLock, Unlocked
      <4>2. \A i \in Listed(r) : i \in Ids /\ i.of \in Whose(r)
        BY <1>1 DEF Sound, ListSound, Listed, Tx
      <4>3. k = Alone(NextRow(r))
        BY <1>2, <3>2 DEF Wants, At
      <4>. QED
        BY <4>1, <4>2, <4>3, LockIs
    <3>. QED
      BY <1>13, <3>1, <3>2
  <2>4. ofMove \/ ofEnding
    BY <1>3, <1>6, <2>3, Apart DEF Rows
  <2>5. Whose(r) = Whose(q)
    BY <1>3, <1>7, <1>8, <2>2, <2>3, <2>4
  <2>. QED
    BY <1>1, <2>1, <2>4, <2>5
<1>. QED
  BY <1>5, <1>9, <1>10, <1>11, <1>12, <1>13 DEF At

(* Transactions that wait in a circle are an ending of what a Person's     *)
(* participations stand on, and a move of one of them or another such      *)
(* ending: an offering, a placement or a grant is in no circle of its own, *)
(* since what HoldGround and WriteLocks take is taken in one order.        *)
LEMMA CirclesAre ==
  ASSUME LInv, NEW D \in SUBSET Requests, D # {}, Deadlocked(D)
  PROVE  \E r, q \in D : r # q /\ EndsGround(q) /\ (AskOf(r).kind = "move" \/ EndsGround(r)) /\ Whose(r) = Whose(q)
<1>1. \A r \in D : \E q \in D : q \in WaitsFor(r) /\ q # r
  BY DEF Deadlocked, WaitsFor, Blockers
<1>2. \A r \in D : WaitsFor(r) # {}
  BY <1>1
<1>3. ASSUME NEW r \in D
      PROVE  \E q \in D :
               /\ q # r
               /\ \/ At(r, "offering") /\ At(q, "ground")
                  \/ /\ AskOf(q).kind = "move" /\ At(q, "ground")
                     /\ At(r, "row") \/ (EndsGround(r) /\ Whose(r) = Whose(q))
                  \/ /\ EndsGround(q) /\ (At(q, "links") \/ At(q, "rows"))
                     /\ At(r, "row") \/ At(r, "ground") \/ (EndsGround(r) /\ Whose(r) = Whose(q))
  <2>1. PICK q \in D : q \in WaitsFor(r)
    BY <1>1
  <2>2. PICK s \in D : s \in WaitsFor(q)
    BY <1>1
  <2>3. WaitsFor(s) # {}
    BY <1>2
  <2>. QED
    BY <2>1, <2>2, <2>3, WaitIs
<1>4. ASSUME NEW e \in D, EndsGround(e), At(e, "links") \/ At(e, "rows")
      PROVE  \E r, q \in D : r # q /\ EndsGround(q) /\ (AskOf(r).kind = "move" \/ EndsGround(r)) /\ Whose(r) = Whose(q)
  <2>1. PICK q \in D : q # e /\ (AskOf(q).kind = "move" \/ EndsGround(q)) /\ Whose(e) = Whose(q)
    BY <1>3, <1>4 DEF At
  <2>. QED
    BY <1>4, <2>1
<1>5. ASSUME NEW r \in D, At(r, "ground")
      PROVE  \E e \in D : EndsGround(e) /\ (At(e, "links") \/ At(e, "rows"))
  <2>1. ~EndsGround(r)
    BY <1>5, Asked DEF LInv, CourseSound, EndsGround
  <2>. QED
    BY <1>3, <1>5, <2>1 DEF At
<1>6. \E e \in D : EndsGround(e) /\ (At(e, "links") \/ At(e, "rows"))
  <2>1. PICK r \in D : TRUE
    OBVIOUS
  <2>2. PICK q \in D : At(q, "ground") \/ (EndsGround(q) /\ (At(q, "links") \/ At(q, "rows")))
    BY <1>3, <2>1
  <2>. QED
    BY <1>5, <2>2
<1>. QED
  BY <1>4, <1>6

(* Every lock tells where its request stands, whatever the requests. *)
THEOREM LocksTellTheStatement == Spec => []LInv
<1>1. Init => LInv
  <2>1. Init => \A r \in Requests : tx[r].holds = {}
    BY DEF Init, NewTx
  <2>. QED
    BY <2>1, InitKeeps DEF LInv, LockSound
<1>2. LInv /\ [Next]_vars => LInv'
  BY LocksStepKeeps
<1>. QED
  BY <1>1, <1>2, PTL DEF Spec

(* The only transactions PostgreSQL ever has to break apart are those of   *)
(* one Person: an ending of their Enrollment or School membership against  *)
(* a move of a participation of theirs, or against another such ending.    *)
THEOREM OnlyEndingsWaitInCircles == Spec => []OnlyEndingsDeadlock
<1>1. LInv => OnlyEndingsDeadlock
  BY CirclesAre DEF OnlyEndingsDeadlock
<1>. QED
  BY <1>1, LocksTellTheStatement, PTL

-----------------------------------------------------------------------------
(* How far a participation runs, and its request's reading of the Term. *)
LEMMA RunsToIs ==
  ASSUME NEW v \in Part, NEW last \in 0 .. LastDay
  PROVE  /\ RunsTo(v, last) \in 0 .. LastDay /\ LastDay \in Nat
         /\ v.last = Open => RunsTo(v, last) = last
         /\ v.last # Open => RunsTo(v, last) = v.last /\ v.last \in Dates
<1>1. v.last \in Dates \cup {Open} /\ LastDay \in Nat
  BY ParticipationAssumption DEF Part
<1>. QED
  BY <1>1 DEF RunsTo, Dates

(* The Term as it is, and as a request read it, ends on a date or is unread. *)
LEMMA TermReadIs ==
  ASSUME IInv, NEW r \in Requests
  PROVE  /\ tx[r].term \in 0 .. LastDay /\ row[Term].last \in 0 .. LastDay /\ LastDay \in Nat
         /\ tx[r].until \in 0 .. LastDay + 1
<1>1. tx[r].term \in TermEnds \cup {0} /\ row[Term].last \in 1 .. LastDay
  BY Asked, RowTyped DEF Tx
<1>2. TermEnds \subseteq 1 .. LastDay /\ LastDay \in Nat
  BY ParticipationAssumption
<1>3. \A n \in (1 .. LastDay) \cup {0} : n \in 0 .. LastDay
  BY <1>2
<1>4. tx[r].until \in 0 .. LastDay + 1
  BY Asked DEF Tx, Open
<1>. QED
  BY <1>1, <1>2, <1>3, <1>4

(* A participation is a row of its table. *)
LEMMA PartsAre ==
  ASSUME IInv, NEW i \in Parts
  PROVE  i \in Ids /\ i \in Rows /\ i.table = "part" /\ i.of \in Students \cup Faculty /\ row[i] # None /\ row[i] \in Part
BY RowTyped DEF Parts, Held, Rows

(* What a step of a request does to what it has listed and is to write. *)
LEMMA StepIs ==
  ASSUME IInv, NEW r \in Requests, Begin(r) \/ Serve(r), ~Commit(r)
  PROVE  /\ row' = row /\ stretched' = stretched /\ \A q \in Requests \ {r} : tx'[q] = tx[q]
         /\ \/ ListRows(r)
            \/ Place(r) \/ Move(r) \/ EndPart(r) \/ Depart(r) \/ EndMembership(r)
            \/ Grant(r) \/ Enroll(r) \/ MakeLink(r) \/ ChangeProfile(r) \/ Unlink(r) \/ MoveTerm(r)
            \/ /\ tx'[r].writes = {} /\ tx'[r].phase # "commit"
               /\ HasListed(r)' => HasListed(r) /\ \A field \in {"ask", "at", "saw", "todo", "term"} : tx'[r][field] = tx[r][field]
<1>1. tx[r] \in Tx /\ Sound(r) /\ CourseSound(r) /\ (AskOf(r).kind # "none" => AskSound(AskOf(r)))
  BY Asked
<1>2. \E to : Goes(r, to)
  BY DEF Begin, Serve, LockOffering, LockRow, TakeRole, HoldGround, LockLinks, ListRows, LockNextRow,
         Place, Move, EndPart, Depart, EndMembership, Ending, Grant, Enroll, MakeLink, ChangeProfile, Unlink,
         MoveTerm, AbortDeadlock, Ends, Writes
<1>3. row' = row /\ stretched' = stretched /\ \A q \in Requests \ {r} : tx'[q] = tx[q]
  BY <1>2 DEF Goes, IInv, TypeOK
<1>. DEFINE quiet == /\ tx'[r].writes = {} /\ tx'[r].phase # "commit"
                     /\ HasListed(r)' => /\ HasListed(r)
                                         /\ \A field \in {"ask", "at", "saw", "todo", "term"} : tx'[r][field] = tx[r][field]
<1>4. CASE Begin(r)
  <2>1. PICK ask \in Asks :
          Goes(r, [NewTx EXCEPT !.ask = ask, !.at = clock, !.phase = Statements[ask.kind][1],
                                !.saw = IF "on" \in DOMAIN ask THEN row[ask.on] ELSE None])
    BY <1>4 DEF Begin
  <2>2. Statements[ask.kind][1] \in {"offering", "row", "role", "ground"} \/ ask.kind \in {"enroll", "term"}
    BY AsksSound DEF AskSound, Statements
  <2>3. tx'[r].writes = {} /\ tx'[r].phase = Statements[ask.kind][1] /\ tx'[r].ask = ask
    BY <1>1, <2>1 DEF Goes, NewTx, IInv, TypeOK
  <2>4. Statements[ask.kind][1] # "commit"
    BY <2>2 DEF Statements
  <2>5. ~HasListed(r)'
    BY <2>2, <2>3 DEF HasListed, EndsGround, AskOf
  <2>. QED
    BY <1>3, <2>3, <2>4, <2>5
<1>5. CASE Ends(r)
  <2>1. tx'[r].writes = {} /\ tx'[r].phase = "ended"
    BY <1>1, <1>5 DEF Ends, Goes, Done, NewTx, IInv, TypeOK
  <2>. QED
    BY <1>3, <2>1 DEF HasListed
<1>6. CASE LockOffering(r) \/ TakeRole(r) \/ (HoldGround(r) /\ ~Ends(r))
  <2>1. tx'[r].writes = tx[r].writes /\ tx'[r].phase = After(r) /\ tx'[r].ask = tx[r].ask
    <3>1. CASE LockOffering(r)
      <4>1. Goes(r, [Locked(r) EXCEPT !.term = row[Term].last])
        BY <3>1 DEF LockOffering
      <4>. QED
        BY <1>1, <4>1 DEF Goes, Locked, IInv, TypeOK, Tx
    <3>2. CASE TakeRole(r)
      <4>1. Goes(r, Locked(r))
        BY <3>2 DEF TakeRole
      <4>. QED
        BY <1>1, <4>1 DEF Goes, Locked, IInv, TypeOK, Tx
    <3>3. CASE HoldGround(r) /\ ~Ends(r)
      <4>1. Goes(r, [Locked(r) EXCEPT !.until = GroundUntil(r)])
        BY <3>3 DEF HoldGround
      <4>. QED
        BY <1>1, <4>1 DEF Goes, Locked, IInv, TypeOK, Tx
    <3>. QED
      BY <1>6, <3>1, <3>2, <3>3
  <2>2. tx[r].phase \in {"offering", "role", "ground"}
    BY <1>6 DEF LockOffering, TakeRole, HoldGround, Runs, At
  <2>3. ~EndsGround(r) /\ After(r) # "commit" /\ tx[r].writes = {}
    BY <1>1, <2>2, Asked, AfterIs DEF CourseSound, EndsGround, At, Sound, WriteSound
  <2>4. ~HasListed(r)'
    BY <2>1, <2>3 DEF HasListed, EndsGround, AskOf
  <2>. QED
    BY <1>3, <2>1, <2>3, <2>4
<1>7. CASE LockRow(r) /\ ~Ends(r)
  <2>1. Goes(r, [Locked(r) EXCEPT !.saw = row[AskOf(r).on], !.term = row[Term].last])
    BY <1>7 DEF LockRow
  <2>2. tx'[r].writes = tx[r].writes /\ tx'[r].phase = After(r) /\ tx'[r].ask = tx[r].ask
    BY <1>1, <2>1 DEF Goes, Locked, IInv, TypeOK, Tx
  <2>3. tx[r].phase = "row"
    BY <1>7 DEF LockRow, Runs, At
  <2>4. AskOf(r).kind \in {"move", "end", "depart", "narrow", "revoke", "profile", "unlink"} /\ tx[r].writes = {}
    BY <1>1, <2>3 DEF CourseSound, At, Sound, WriteSound
  <2>5. After(r) # "commit" /\ (EndsGround(r) => After(r) \in {"links", "list"})
    BY <1>1, <2>3, <2>4, Asked, AfterIs DEF EndsGround, At
  <2>6. ~HasListed(r)'
    BY <2>2, <2>5 DEF HasListed, EndsGround, AskOf
  <2>. QED
    BY <1>3, <2>2, <2>4, <2>5, <2>6
<1>8. CASE LockLinks(r)
  <2>1. tx[r].phase = "links" /\ After(r) = "list" /\ tx[r].writes = {}
    BY <1>1, <1>8, Asked, AfterIs DEF LockLinks, Runs, At, CourseSound, Sound, WriteSound
  <2>2. tx'[r].writes = tx[r].writes /\ tx'[r].phase \in {"links", "list"}
    BY <1>1, <1>8, <2>1 DEF LockLinks, Goes, Locked, IInv, TypeOK, Tx
  <2>. QED
    BY <1>3, <2>1, <2>2 DEF HasListed
<1>9. CASE LockNextRow(r)
  <2>1. tx[r].phase = "rows" /\ After(r) = "write" /\ tx[r].writes = {} /\ EndsGround(r)
    BY <1>1, <1>9, Asked, AfterIs DEF LockNextRow, Runs, At, CourseSound, Sound, WriteSound
  <2>2. /\ tx'[r].writes = tx[r].writes /\ tx'[r].phase \in {"rows", "write"}
        /\ \A field \in {"ask", "at", "saw", "todo", "term"} : tx'[r][field] = tx[r][field]
    BY <1>1, <1>9, <2>1 DEF LockNextRow, Goes, Locked, IInv, TypeOK, Tx
  <2>3. HasListed(r)
    BY <2>1 DEF HasListed
  <2>. QED
    BY <1>3, <2>1, <2>2, <2>3
<1>12. AbortDeadlock(r) => Ends(r)
  BY DEF AbortDeadlock
<1>. QED
  BY <1>3, <1>4, <1>5, <1>6, <1>7, <1>8, <1>9, <1>12 DEF Serve

(* A participation outside its Term has no last date: what was written of  *)
(* it begins past the Term's last date and ends with the Term.             *)
LEMMA OutsideIsOpen ==
  ASSUME IInv, NEW i \in Parts, ~Inside(i)
  PROVE  row[i].last = Open
<1>1. i \in Ids /\ i.table = "part" /\ row[i] # None
  BY DEF Parts, Held
<1>2. row[i] \in Part /\ row[Term].last \in TermEnds
  BY <1>1, RowTyped
<1>3. row[i].first \in 1 .. LastDay /\ row[Term].last \in 1 .. LastDay /\ LastDay \in Nat
  BY <1>2, ParticipationAssumption DEF Part
<1>4. row[i].last \in Dates \cup {Open} /\ row[i].first <= row[i].last
  BY <1>2 DEF Part
<1>5. RunsTo(row[i], row[Term].last) <= row[Term].last
  BY DEF IInv, RunsInsideTerm
<1>6. row[i].first > row[Term].last
  BY <1>3, <1>5 DEF Inside
<1>. QED
  BY <1>3, <1>4, <1>5, <1>6 DEF RunsTo, Dates

(* A commit that moves the Term found nothing that it strands.             *)
LEMMA TermMoveKeepsInside ==
  ASSUME IInv, NEW r \in Requests, Commit(r), row'[Term] # row[Term], NEW i \in Parts'
  PROVE  Inside(i)'
<1>1. i \in Ids /\ i \in Rows /\ i.table = "part" /\ row'[i] # None
  BY DEF Parts, Held, Rows
<1>2. row'[i] = row[i] /\ i \in Parts
  <2>1. i \notin Written(r)
    BY <1>1, PartsWritten
  <2>2. row'[i] = row[i]
    BY <1>1, <2>1, CommitIs
  <2>3. i.of \in Students \cup Faculty
    BY DEF Parts, Held
  <2>. QED
    BY <1>1, <2>2, <2>3 DEF Parts, Held
<1>3. PICK c \in tx[r].writes : c.of = Term
  BY CommitIs DEF Rows
<1>4. row'[Term] = c.after /\ ChangeSound(r, c)
  BY <1>3, CommitIs
<1>5. AskOf(r).kind = "term" /\ c.after = [last |-> AskOf(r).last] /\ ~Strands(i, AskOf(r).last)
  BY <1>2, <1>3, <1>4, Apart DEF ChangeSound
<1>6. AskOf(r).last \in 1 .. LastDay /\ LastDay \in Nat
  BY <1>5, Asked, ParticipationAssumption DEF AskSound
<1>7. row[i] \in Part
  BY <1>1, <1>2, RowTyped
<1>8. row[i].first \in 1 .. LastDay /\ row[i].first <= AskOf(r).last
  <2>1. row[i].first \in 1 .. LastDay
    BY <1>7, ParticipationAssumption DEF Part
  <2>2. ~(row[i].first > AskOf(r).last)
    BY <1>5 DEF Strands
  <2>. QED
    BY <1>6, <2>1, <2>2
<1>9. RunsTo(row'[i], row'[Term].last) <= row'[Term].last
  <2>1. RunsInsideTerm'
    BY CommitRuns
  <2>. QED
    BY <2>1 DEF RunsInsideTerm, RunsTo
<1>. QED
  BY <1>2, <1>4, <1>5, <1>8, <1>9 DEF Inside, RunsTo

(* No move of the Term leaves a participation outside it, however the      *)
(* writes of the two interleave: each side's triggers hold the other's     *)
(* row. One outside has no last date of its own and was written to begin   *)
(* past the Term, which the triggers accept.                               *)
THEOREM TermMovesStrandNone == Spec => OutsideOnlyAsWritten
<1>. DEFINE OutsideOpen == \A i \in Parts : ~Inside(i) => row[i].last = Open
            Step == \A i \in Parts' : ~Inside(i)' => row'[i].last = Open /\ row'[Term] = row[Term]
<1>1. IInv => OutsideOpen
  BY OutsideIsOpen
<1>2. ASSUME IInv, IInv', OutsideOpen', Next, NEW i \in Parts', ~Inside(i)'
      PROVE  row'[i].last = Open /\ row'[Term] = row[Term]
  <2>1. CASE \E r \in Requests : Commit(r)
    BY <1>2, <2>1, TermMoveKeepsInside
  <2>2. CASE row' = row
    BY <1>2, <2>2
  <2>3. (\E r \in Requests : Commit(r)) \/ row' = row
    BY <1>2, StepIs DEF Next, Tick, Serve
  <2>. QED
    BY <2>1, <2>2, <2>3
<1>3. IInv /\ IInv' /\ OutsideOpen' /\ [Next]_vars => [Step]_vars
  BY <1>2
<1>. QED
  BY <1>1, <1>3, ParticipationInvariance, PTL DEF Spec, OutsideOnlyAsWritten

(* A step that writes nothing, of a request that has listed nothing new. *)
LEMMA QuietSound ==
  ASSUME NEW r \in Requests, PartSound(r), tx'[r].writes = {}, tx'[r].phase # "commit",
         HasListed(r)' => HasListed(r) /\ \A field \in {"ask", "at", "saw", "todo", "term"} : tx'[r][field] = tx[r][field]
  PROVE  PartSound(r)'
<1>1. CASE HasListed(r)'
  <2>1. tx'[r].ask = tx[r].ask /\ tx'[r].at = tx[r].at /\ tx'[r].saw = tx[r].saw /\ tx'[r].todo = tx[r].todo /\ tx'[r].term = tx[r].term
    BY <1>1
  <2>2. EndsOn(r)' = EndsOn(r) /\ Listed(r)' = Listed(r)
    BY <2>1 DEF EndsOn, EndInstant, AskOf, Listed
  <2>. QED
    BY <1>1, <2>1, <2>2 DEF PartSound, At
<1>2. CASE ~HasListed(r)'
  BY <1>2 DEF PartSound, At
<1>. QED
  BY <1>1, <1>2

(* A request that ends has nothing to write. *)
LEMMA EndsSound ==
  ASSUME IInv, NEW r \in Requests, PartSound(r), Ends(r)
  PROVE  PartSound(r)'
<1>1. tx'[r].writes = {} /\ tx'[r].phase = "ended"
  BY DEF Ends, Goes, Done, NewTx, IInv, TypeOK
<1>2. ~HasListed(r)'
  BY <1>1 DEF HasListed
<1>. QED
  BY <1>1, <1>2, QuietSound

(* What is listed runs past the end, so the Term it was read with does. *)
LEMMA ListedSound ==
  ASSUME IInv, NEW r \in Requests, PartSound(r), ListRows(r)
  PROVE  /\ PartSound(r)' /\ Listed(r)' = Running(r, row[Term].last)
         /\ AskOf(r)' = AskOf(r) /\ EndsOn(r)' = EndsOn(r)
<1>. DEFINE found == Running(r, row[Term].last)
            listed == {[on |-> i, first |-> row[i].first] : i \in found}
            to == [tx[r] EXCEPT !.todo = listed, !.term = row[Term].last,
                                !.phase = IF found = {} THEN "write" ELSE "rows"]
<1>1. Goes(r, to) /\ At(r, "list") /\ tx[r].phase = "list"
  BY DEF ListRows, Runs, At
<1>2. EndsGround(r) /\ tx[r] \in Tx /\ Sound(r) /\ HoldsRow(r)
  BY <1>1, Asked DEF CourseSound, EndsGround, HoldsRow
<1>3. /\ tx'[r].ask = tx[r].ask /\ tx'[r].at = tx[r].at /\ tx'[r].saw = tx[r].saw /\ tx'[r].writes = tx[r].writes
      /\ tx'[r].todo = listed /\ tx'[r].term = row[Term].last /\ tx'[r].phase \in {"write", "rows"}
  BY <1>1, <1>2 DEF Goes, IInv, TypeOK, Tx
<1>4. tx[r].writes = {}
  BY <1>1, <1>2 DEF Sound, WriteSound, At
<1>5. Listed(r)' = found
  <2>1. \A i \in found : [on |-> i, first |-> row[i].first] \in listed /\ [on |-> i, first |-> row[i].first].on = i
    OBVIOUS
  <2>2. \A e \in listed : e.on \in found
    OBVIOUS
  <2>3. Listed(r)' = {e.on : e \in listed}
    BY <1>3 DEF Listed
  <2>. HIDE DEF found, listed
  <2>. QED
    BY <2>1, <2>2, <2>3
<1>6. EndsOn(r)' = EndsOn(r)
  BY <1>3 DEF EndsOn, EndInstant, AskOf
<1>7. ASSUME NEW i \in found PROVE row[Term].last > EndsOn(r)
  <2>1. i \in Ids /\ i.table = "part" /\ row[i] # None /\ RunsTo(row[i], row[Term].last) > EndsOn(r) /\ i \in Parts
    <3>1. PICK p \in Whose(r) \cap EndsPartsOf(r) : i \in Held("part", p)
      BY DEF Running
    <3>2. p \in Students \cup Faculty
      BY DEF EndsPartsOf
    <3>. QED
      BY <3>1, <3>2 DEF Running, Held, Parts
  <2>2. RunsTo(row[i], row[Term].last) <= row[Term].last
    BY <2>1 DEF IInv, RunsInsideTerm
  <2>3. RunsTo(row[i], row[Term].last) \in 0 .. LastDay /\ row[Term].last \in 0 .. LastDay /\ LastDay \in Nat
    BY <2>1, PartsAre, TermReadIs, RunsToIs
  <2>4. EndsOn(r) \in 1 .. LastDay + 1
    BY <1>2, EndsOnIs
  <2>. QED
    BY <2>1, <2>2, <2>3, <2>4
<1>8. PartSound(r)'
  <2>. HIDE DEF found, listed, to
  <2>. QED
    BY <1>3, <1>4, <1>5, <1>6, <1>7 DEF PartSound, At
<1>. QED
  BY <1>3, <1>5, <1>6, <1>8 DEF AskOf

(* What a request is to commit is sound if each change of a participation is. *)
LEMMA WrittenSound ==
  ASSUME IInv, NEW r \in Requests, PartSound(r), NEW changes, Runs(r, "write"), Writes(r, changes),
         \A c \in changes : c.of.table = "part" /\ c.after # None =>
           \/ /\ AskOf(r).kind \in {"roster", "assign"} \/ (AskOf(r).kind = "move" /\ tx[r].until # Lapsed)
              /\ c.of.of \in Whose(r) /\ RunsTo(c.after, tx[r].term) <= tx[r].until
           \/ c.before # None /\ RunsTo(c.after, tx[r].term) <= RunsTo(c.before, tx[r].term),
         EndsGround(r) =>
           \A i \in Listed(r) : row[i] # None =>
             \/ RunsTo(row[i], tx[r].term) <= EndsOn(r)
             \/ \E c \in changes : c.of = i /\ (c.after # None => c.after.last = EndsOn(r))
  PROVE  PartSound(r)'
<1>1. Goes(r, [Locked(r) EXCEPT !.writes = changes]) /\ tx[r].phase = "write" /\ tx[r] \in Tx
  BY Asked DEF Writes, Runs, At
<1>2. /\ tx'[r].ask = tx[r].ask /\ tx'[r].at = tx[r].at /\ tx'[r].saw = tx[r].saw /\ tx'[r].todo = tx[r].todo
      /\ tx'[r].term = tx[r].term /\ tx'[r].until = tx[r].until /\ tx'[r].writes = changes
      /\ row' = row
  BY <1>1 DEF Goes, Locked, IInv, TypeOK, Tx
<1>3. EndsOn(r)' = EndsOn(r) /\ Listed(r)' = Listed(r) /\ AskOf(r)' = AskOf(r) /\ Whose(r)' = Whose(r) /\ EndsGround(r)' = EndsGround(r)
  BY <1>2 DEF EndsOn, EndInstant, AskOf, Listed, Whose, EndsGround
<1>4. HasListed(r)' => HasListed(r)
  BY <1>1, <1>3 DEF HasListed
<1>. QED
  BY <1>2, <1>3, <1>4 DEF PartSound

(* Place writes participations inside the ground it holds. *)
LEMMA PlaceSound ==
  ASSUME IInv, NEW r \in Requests, PartSound(r), Place(r)
  PROVE  PartSound(r)'
<1>. DEFINE v == BoundsAsked(r)
            ids == {Id("part", p, r) : p \in Whose(r)}
            changes == {Change(i, None, v) : i \in ids}
<1>1. Runs(r, "write") /\ AskOf(r).kind \in {"roster", "assign"} /\ ~EndsGround(r)
  BY DEF Place, EndsGround
<1>2. CASE Ends(r)
  BY <1>2, EndsSound
<1>3. CASE InsideGround(r, v) /\ Writes(r, changes)
  <2>1. \A i \in ids : i.of \in Whose(r)
    BY MadeIds
  <2>2. \A c \in changes : c.of \in ids /\ c.after = v
    BY DEF Change
  <2>3. RunsTo(v, tx[r].term) <= tx[r].until
    BY <1>3 DEF InsideGround
  <2>. HIDE DEF v, ids, changes
  <2>. QED
    BY <1>1, <1>3, <2>1, <2>2, <2>3, WrittenSound
<1>. QED
  BY <1>2, <1>3 DEF Place

(* Move writes one inside the ground it holds, or lapsed and no longer than it was. *)
LEMMA MoveSound ==
  ASSUME IInv, NEW r \in Requests, PartSound(r), Move(r)
  PROVE  PartSound(r)'
<1>. DEFINE v == BoundsAsked(r)
            i == AskOf(r).on
            c == Change(i, tx[r].saw, v)
<1>1. Runs(r, "write") /\ AskOf(r).kind = "move" /\ ~EndsGround(r) /\ HoldsRow(r)
  BY DEF Move, EndsGround, HoldsRow, Runs, At
<1>2. CASE Ends(r)
  BY <1>2, EndsSound
<1>3. CASE /\ InOrder(v) /\ (IF tx[r].until = Lapsed THEN ~Extends(r, v) ELSE InsideGround(r, v))
           /\ Writes(r, {c})
  <2>1. c.of = i /\ c.before = tx[r].saw /\ c.after = v
    BY DEF Change
  <2>2. i.of \in Whose(r) /\ tx[r].saw # None /\ tx[r].saw \in Part
    BY <1>1, NamedIs
  <2>3. v \in Part
    BY <1>1, <1>3, BoundsAre
  <2>4. tx[r].until # Lapsed => RunsTo(v, tx[r].term) <= tx[r].until
    BY <1>3 DEF InsideGround
  <2>5. tx[r].until = Lapsed => RunsTo(v, tx[r].term) <= RunsTo(tx[r].saw, tx[r].term)
    <3>1. tx[r].until = Lapsed => ~(RunsTo(v, tx[r].term) > RunsTo(tx[r].saw, tx[r].term))
      BY <1>3 DEF Extends
    <3>2. RunsTo(v, tx[r].term) \in 0 .. LastDay /\ RunsTo(tx[r].saw, tx[r].term) \in 0 .. LastDay
      BY <2>2, <2>3, TermReadIs, RunsToIs
    <3>. QED
      BY <3>1, <3>2
  <2>. HIDE DEF v, i, c
  <2>. QED
    BY <1>1, <1>3, <2>1, <2>2, <2>4, <2>5, WrittenSound
<1>. QED
  BY <1>2, <1>3 DEF Move

(* EndPart makes a participation no longer. *)
LEMMA EndPartSound ==
  ASSUME IInv, NEW r \in Requests, PartSound(r), EndPart(r)
  PROVE  PartSound(r)'
<1>. DEFINE today == DateOf(tx[r].at)
            saw == tx[r].saw
            c == Change(AskOf(r).on, saw, EndedOn(saw, today))
<1>1. Runs(r, "write") /\ AskOf(r).kind = "end" /\ ~EndsGround(r) /\ HoldsRow(r)
  BY DEF EndPart, EndsGround, HoldsRow, Runs, At
<1>2. CASE Ends(r)
  BY <1>2, EndsSound
<1>3. CASE ~(saw.first <= today /\ RunsTo(saw, tx[r].term) <= today) /\ Writes(r, {c})
  <2>1. c.before = saw /\ c.after = EndedOn(saw, today)
    BY DEF Change
  <2>2. saw # None /\ saw \in Part
    BY <1>1, NamedIs
  <2>3. today \in Dates
    BY Asked, ParticipationAssumption DEF Tx, Times, DateOf, Dates
  <2>4. c.after # None => RunsTo(c.after, tx[r].term) <= RunsTo(saw, tx[r].term)
    <3>. SUFFICES ASSUME c.after # None PROVE RunsTo(c.after, tx[r].term) <= RunsTo(saw, tx[r].term)
      OBVIOUS
    <3>1. c.after.last = today /\ ~(saw.first > today) /\ c.after \in Part
      <4>1. ~(saw.first > today)
        BY <2>1 DEF EndedOn
      <4>. QED
        BY <2>1, <2>2, <2>3, <4>1, EndedIs
    <3>2. saw.first <= today
      <4>. HIDE DEF saw, today
      <4>1. saw.first \in 1 .. LastDay
        <5>1. saw.first \in FirstDates
          BY <2>2 DEF Part
        <5>. QED
          BY <5>1, ParticipationAssumption
      <4>2. today \in 1 .. LastDay
        BY <2>3 DEF Dates
      <4>. QED
        BY <3>1, <4>1, <4>2
    <3>3. today # Open
      BY <2>3, ParticipationAssumption DEF Dates, Open
    <3>4. RunsTo(c.after, tx[r].term) = today
      BY <3>1, <3>3 DEF RunsTo
    <3>5. RunsTo(saw, tx[r].term) \in 0 .. LastDay /\ today \in 1 .. LastDay
      BY <2>2, <2>3, TermReadIs, RunsToIs DEF Dates
    <3>. QED
      BY <1>3, <3>2, <3>4, <3>5
  <2>. HIDE DEF today, saw, c
  <2>. QED
    BY <1>1, <1>3, <2>1, <2>2, <2>4, WrittenSound
<1>. QED
  BY <1>2, <1>3 DEF EndPart, Ending

(* An ending writes an end, or the removal, of what it listed and runs past it. *)
LEMMA EndingSound ==
  ASSUME IInv, NEW r \in Requests, PartSound(r), Runs(r, "write"), EndsGround(r), NEW others,
         Ending(r, others \cup EndedWith(r)), \A c \in others : c.of.table # "part"
  PROVE  PartSound(r)'
<1>. DEFINE changes == others \cup EndedWith(r)
<1>1. At(r, "write") /\ HoldsRow(r)
  BY DEF Runs, At, HoldsRow, EndsGround
<1>2. CASE Ends(r)
  BY <1>2, EndsSound
<1>3. CASE Writes(r, changes)
  <2>1. ASSUME NEW c \in changes, c.of.table = "part", c.after # None
        PROVE  c.before # None /\ RunsTo(c.after, tx[r].term) <= RunsTo(c.before, tx[r].term)
    <3>1. c \in EndedWith(r)
      BY <2>1
    <3>2. /\ c.before = row[c.of] /\ row[c.of] # None /\ RunsTo(row[c.of], tx[r].term) > EndsOn(r)
          /\ c.after = EndedOn(row[c.of], EndsOn(r)) /\ c.of \in Listed(r)
      BY <1>1, <3>1, EndedWithIs
    <3>3. row[c.of] \in Part
      BY <2>1, <3>2, Asked, RowTyped DEF Listed, Tx
    <3>4. EndsOn(r) \in Dates /\ EndsOn(r) # Open
      BY <1>1, <3>2, <3>3, EndsOnIs, ParticipationAssumption DEF Dates, Open
    <3>5. RunsTo(c.after, tx[r].term) = EndsOn(r)
      BY <2>1, <3>2, <3>3, <3>4, EndedIs DEF RunsTo
    <3>6. RunsTo(row[c.of], tx[r].term) \in 0 .. LastDay
      BY <3>3, TermReadIs, RunsToIs
    <3>. QED
      BY <3>2, <3>4, <3>5, <3>6 DEF Dates
  <2>2. ASSUME NEW i \in Listed(r), row[i] # None, ~(RunsTo(row[i], tx[r].term) <= EndsOn(r))
        PROVE  \E c \in changes : c.of = i /\ (c.after # None => c.after.last = EndsOn(r))
    <3>1. i \in Ids /\ i.table = "part"
      BY Asked DEF Listed, Tx, Sound, ListSound
    <3>2. row[i] \in Part
      BY <2>2, <3>1, RowTyped
    <3>3. RunsTo(row[i], tx[r].term) \in 0 .. LastDay /\ EndsOn(r) \in 1 .. LastDay + 1
      BY <1>1, <3>2, TermReadIs, RunsToIs, EndsOnIs
    <3>4. RunsTo(row[i], tx[r].term) > EndsOn(r)
      BY <2>2, <3>3
    <3>5. EndsOn(r) \in Dates
      BY <1>1, <3>2, <3>4, EndsOnIs
    <3>6. Change(i, row[i], EndedOn(row[i], EndsOn(r))) \in changes
      BY <2>2, <3>4 DEF EndedWith
    <3>7. EndedOn(row[i], EndsOn(r)) # None => EndedOn(row[i], EndsOn(r)).last = EndsOn(r)
      BY <3>2, <3>5, EndedIs
    <3>. QED
      BY <3>6, <3>7 DEF Change
  <2>. HIDE DEF changes
  <2>. QED
    BY <1>3, <2>1, <2>2, WrittenSound
<1>. QED
  BY <1>2, <1>3 DEF Ending

(* Depart ends the Roster memberships it listed. *)
LEMMA DepartSound ==
  ASSUME IInv, NEW r \in Requests, PartSound(r), Depart(r)
  PROVE  PartSound(r)'
<1>. DEFINE own == Change(AskOf(r).on, tx[r].saw, [ended |-> tx[r].at])
            links == {Change(l, row[l], [row[l] EXCEPT !.ended = tx[r].at]) : l \in UNION {LinksInForce(p) : p \in Whose(r)}}
            others == {own} \cup links
<1>1. Runs(r, "write") /\ EndsGround(r) /\ AskOf(r).kind = "depart" /\ HoldsRow(r)
  BY DEF Depart, EndsGround, HoldsRow, Runs, At
<1>2. Ending(r, others \cup EndedWith(r))
  BY DEF Depart
<1>3. own.of.table = "stay"
  BY <1>1, NamedIs DEF Change
<1>4. \A c \in links : c.of.table = "link"
  BY DEF Change, LinksInForce, Held
<1>5. \A c \in others : c.of.table # "part"
  BY <1>3, <1>4
<1>. HIDE DEF others
<1>. QED
  BY <1>1, <1>2, <1>5, EndingSound

(* EndMembership ends the assignments it listed. *)
LEMMA EndMembershipSound ==
  ASSUME IInv, NEW r \in Requests, PartSound(r), EndMembership(r)
  PROVE  PartSound(r)'
<1>. DEFINE own == Change(AskOf(r).on, tx[r].saw, [tx[r].saw EXCEPT !.ends = EndInstant(r)])
            others == {own}
<1>1. Runs(r, "write") /\ EndsGround(r) /\ HoldsRow(r) /\ AskOf(r).kind \in {"narrow", "revoke"}
  BY DEF EndMembership, EndsGround, HoldsRow, Runs, At
<1>2. Ending(r, others \cup EndedWith(r))
  BY DEF EndMembership
<1>3. own.of.table = "member"
  BY <1>1, NamedIs DEF Change
<1>4. \A c \in others : c.of.table # "part"
  BY <1>3
<1>. HIDE DEF others
<1>. QED
  BY <1>1, <1>2, <1>4, EndingSound

(* The other writes are of no participation. *)
LEMMA OtherWritesSound ==
  ASSUME IInv, NEW r \in Requests, PartSound(r),
         Grant(r) \/ Enroll(r) \/ MakeLink(r) \/ ChangeProfile(r) \/ Unlink(r) \/ MoveTerm(r)
  PROVE  PartSound(r)'
<1>1. Runs(r, "write") /\ ~EndsGround(r)
  BY DEF Grant, Enroll, MakeLink, ChangeProfile, Unlink, MoveTerm, EndsGround
<1>2. CASE Ends(r)
  BY <1>2, EndsSound
<1>3. ASSUME NEW changes, Writes(r, changes), \A c \in changes : c.of.table # "part"
      PROVE  PartSound(r)'
  BY <1>1, <1>3, WrittenSound
<1>4. \A t, p : Id(t, p, r).table = t
  BY DEF Id
<1>5. \A i, before, after : Change(i, before, after).of = i
  BY DEF Change
<1>6. CASE Grant(r) /\ ~Ends(r)
  <2>. DEFINE v == [starts |-> AskOf(r).starts, ends |-> AskOf(r).ends]
              changes == {Change(Id("member", p, r), None, v) : p \in Whose(r)}
  <2>1. Writes(r, changes)
    BY <1>6 DEF Grant
  <2>2. \A c \in changes : c.of.table # "part"
    BY <1>4, <1>5
  <2>. HIDE DEF changes
  <2>. QED
    BY <1>3, <2>1, <2>2
<1>7. CASE Enroll(r) /\ ~Ends(r)
  <2>. DEFINE changes == {Change(Id("stay", p, r), None, [ended |-> Never]) : p \in Whose(r)}
  <2>1. Writes(r, changes)
    BY <1>7 DEF Enroll
  <2>2. \A c \in changes : c.of.table # "part"
    BY <1>4, <1>5
  <2>. HIDE DEF changes
  <2>. QED
    BY <1>3, <2>1, <2>2
<1>8. CASE MakeLink(r) /\ ~Ends(r)
  <2>. DEFINE v == [guardian |-> AskOf(r).guardian, profile |-> AskOf(r).profile, ended |-> Never]
              changes == {Change(Id("link", p, r), None, v) : p \in Whose(r)}
  <2>1. Writes(r, changes)
    BY <1>8 DEF MakeLink
  <2>2. \A c \in changes : c.of.table # "part"
    BY <1>4, <1>5
  <2>. HIDE DEF changes
  <2>. QED
    BY <1>3, <2>1, <2>2
<1>9. CASE ChangeProfile(r) \/ Unlink(r)
  <2>1. HoldsRow(r) /\ AskOf(r).kind \in {"profile", "unlink"}
    BY <1>9 DEF ChangeProfile, Unlink, HoldsRow, Runs, At
  <2>2. AskOf(r).on.table = "link"
    BY <2>1, NamedIs
  <2>3. \E after : Writes(r, {Change(AskOf(r).on, tx[r].saw, after)})
    BY <1>9 DEF ChangeProfile, Unlink
  <2>. QED
    BY <1>3, <1>5, <2>2, <2>3
<1>10. CASE MoveTerm(r) /\ ~Ends(r)
  <2>1. Writes(r, {Change(Term, row[Term], [last |-> AskOf(r).last])})
    BY <1>10 DEF MoveTerm
  <2>. QED
    BY <1>3, <1>5, <2>1, Apart
<1>. QED
  BY <1>2, <1>6, <1>7, <1>8, <1>9, <1>10

(* A step of a request keeps sound what it is to write of participations. *)
LEMMA OwnSound ==
  ASSUME IInv, NEW r \in Requests, PartSound(r), Begin(r) \/ Serve(r), ~Commit(r)
  PROVE  PartSound(r)'
<1>1. CASE ListRows(r)
  BY <1>1, ListedSound
<1>2. CASE Place(r) \/ Move(r) \/ EndPart(r) \/ Depart(r) \/ EndMembership(r)
  BY <1>2, PlaceSound, MoveSound, EndPartSound, DepartSound, EndMembershipSound
<1>3. CASE Grant(r) \/ Enroll(r) \/ MakeLink(r) \/ ChangeProfile(r) \/ Unlink(r) \/ MoveTerm(r)
  BY <1>3, OtherWritesSound
<1>. QED
  BY <1>1, <1>2, <1>3, StepIs, QuietSound

(* What another request is to write stays sound, when none of what it lists changes. *)
LEMMA OthersSound ==
  ASSUME NEW q \in Requests, PartSound(q), tx'[q] = tx[q],
         EndsGround(q) /\ At(q, "commit") => \A i \in Listed(q) : row'[i] = row[i]
  PROVE  PartSound(q)'
<1>1. /\ AskOf(q)' = AskOf(q) /\ Whose(q)' = Whose(q) /\ EndsOn(q)' = EndsOn(q) /\ Listed(q)' = Listed(q)
      /\ EndsGround(q)' = EndsGround(q) /\ HasListed(q)' = HasListed(q) /\ At(q, "commit")' = At(q, "commit")
  BY DEF AskOf, Whose, EndsOn, EndInstant, Listed, EndsGround, HasListed, At
<1>. QED
  BY <1>1 DEF PartSound

(* A commit leaves what the others are to write sound. *)
LEMMA CommitSound ==
  ASSUME IInv, NEW r \in Requests, Commit(r), NEW q \in Requests, PartSound(q)
  PROVE  PartSound(q)'
<1>1. CASE q = r
  <2>1. tx'[r].writes = {} /\ tx'[r].phase = "ended"
    BY CommitIs DEF Done, NewTx
  <2>2. ~HasListed(r)'
    BY <2>1 DEF HasListed
  <2>. QED
    BY <1>1, <2>1, <2>2, QuietSound
<1>2. CASE q # r
  <2>1. tx'[q] = tx[q]
    BY <1>2, CommitIs
  <2>2. ASSUME At(q, "commit"), NEW i \in Listed(q) PROVE row'[i] = row[i]
    <3>1. Alone(i) \in tx[q].holds /\ i \in Rows
      BY <2>2, Asked DEF Sound, ListSound, Listed, Tx, Rows
    <3>. QED
      BY <1>2, <3>1, OthersStand, LockIs
  <2>. QED
    BY <2>1, <2>2, OthersSound
<1>. QED
  BY <1>1, <1>2

(* What a request found to end stays so; what it finds now, it lists. *)
LEMMA FoundIs ==
  ASSUME IInv, NEW r \in Requests, Begin(r) \/ Serve(r), ~Commit(r), ~ListRows(r), HasListed(r)'
  PROVE  HasListed(r) /\ AskOf(r)' = AskOf(r) /\ Listed(r)' = Listed(r) /\ EndsOn(r)' = EndsOn(r)
<1>1. ASSUME \A field \in {"ask", "at", "saw", "todo", "term"} : tx'[r][field] = tx[r][field]
      PROVE  AskOf(r)' = AskOf(r) /\ Listed(r)' = Listed(r) /\ EndsOn(r)' = EndsOn(r) /\ EndsGround(r)' = EndsGround(r)
  <2>1. tx'[r].ask = tx[r].ask /\ tx'[r].at = tx[r].at /\ tx'[r].saw = tx[r].saw /\ tx'[r].todo = tx[r].todo
    BY <1>1
  <2>. QED
    BY <2>1 DEF AskOf, Listed, EndsOn, EndInstant, EndsGround
<1>2. CASE Ends(r)
  BY <1>2, Asked DEF Ends, Goes, Done, NewTx, IInv, TypeOK, HasListed
<1>3. ASSUME NEW changes, Runs(r, "write"), Writes(r, changes)
      PROVE  HasListed(r) /\ \A field \in {"ask", "at", "saw", "todo", "term"} : tx'[r][field] = tx[r][field]
  <2>1. Goes(r, [Locked(r) EXCEPT !.writes = changes]) /\ tx[r].phase = "write" /\ tx[r] \in Tx
    BY <1>3, Asked DEF Writes, Runs, At
  <2>2. \A field \in {"ask", "at", "saw", "todo", "term"} : tx'[r][field] = tx[r][field]
    BY <2>1 DEF Goes, Locked, IInv, TypeOK, Tx
  <2>. QED
    BY <1>1, <2>1, <2>2 DEF HasListed
<1>4. CASE Place(r) \/ Move(r) \/ EndPart(r) \/ Depart(r) \/ EndMembership(r)
  BY <1>1, <1>2, <1>3, <1>4 DEF Place, Move, EndPart, Depart, EndMembership, Ending
<1>5. CASE Grant(r) \/ Enroll(r) \/ MakeLink(r) \/ ChangeProfile(r) \/ Unlink(r) \/ MoveTerm(r)
  BY <1>1, <1>2, <1>3, <1>5 DEF Grant, Enroll, MakeLink, ChangeProfile, Unlink, MoveTerm
<1>. QED
  BY <1>1, <1>4, <1>5, StepIs

(* The ground of a participation is its Person's Enrollments, or School memberships. *)
LEMMA GroundOfIs ==
  ASSUME NEW i \in Ids, NEW j \in GroundOf(i.of)
  PROVE  /\ j \in Ids /\ j.of = i.of /\ row[j] # None /\ j.table \in {"stay", "member"}
         /\ j.table = "stay" <=> i.of \in Students
BY DEF GroundOf, Held

(* What an ending of a ground does not list of its Person's participations *)
(* ends on time as it is.                                                  *)
LEMMA FoundAll ==
  ASSUME IInv, NEW r \in Requests, ListRows(r), NEW i \in Parts, NEW j \in GroundOf(i.of), AskOf(r).on = j
  PROVE  i \in Running(r, row[Term].last) \/ Last(row[i]) <= EndsOn(r)
<1>1. EndsGround(r) /\ HoldsRow(r)
  BY Asked DEF ListRows, Runs, At, CourseSound, EndsGround, HoldsRow
<1>2. i \in Ids /\ i.table = "part" /\ i.of \in Students \cup Faculty /\ row[i] # None /\ row[i] \in Part
  BY PartsAre
<1>3. j.of = i.of /\ (j.table = "stay" <=> i.of \in Students)
  BY <1>2, GroundOfIs
<1>4. i.of \in Whose(r) /\ i.of \in EndsPartsOf(r)
  <2>1. Whose(r) = {j.of}
    BY <1>1, NamedIs
  <2>2. AskOf(r).kind = "depart" <=> j.table = "stay"
    BY <1>1, NamedIs DEF EndsGround
  <2>. QED
    BY <1>2, <1>3, <2>1, <2>2 DEF EndsPartsOf
<1>5. i \in Held("part", i.of)
  BY <1>2 DEF Held
<1>6. RunsTo(row[i], row[Term].last) > EndsOn(r) => i \in Running(r, row[Term].last)
  BY <1>4, <1>5 DEF Running
<1>7. RunsTo(row[i], row[Term].last) \in 0 .. LastDay /\ EndsOn(r) \in 1 .. LastDay + 1 /\ LastDay \in Nat
  BY <1>1, <1>2, TermReadIs, RunsToIs, EndsOnIs
<1>. QED
  BY <1>6, <1>7 DEF Last

(* While no row changes, a participation stands on the same ground. *)
LEMMA SupportStays ==
  ASSUME IInv, row' = row, NEW i \in Parts, NEW j, Supports(i, j),
         \A r \in Requests :
           \/ HasListed(r)' => HasListed(r) /\ AskOf(r)' = AskOf(r) /\ Listed(r)' = Listed(r) /\ EndsOn(r)' = EndsOn(r)
           \/ ListRows(r) /\ AskOf(r)' = AskOf(r) /\ EndsOn(r)' = EndsOn(r) /\ Listed(r)' = Running(r, row[Term].last)
  PROVE  Supports(i, j)'
<1>1. j \in GroundOf(i.of) /\ Last(row[i]) <= DateOf(EndOf(j))
  BY DEF Supports
<1>2. (j \in GroundOf(i.of))' /\ Last(row[i])' = Last(row[i]) /\ EndOf(j)' = EndOf(j)
  BY <1>1 DEF GroundOf, Held, Last, EndOf
<1>3. ASSUME NEW r \in Requests, HasListed(r)', AskOf(r)'.on = j
      PROVE  i \in Listed(r)' \/ Last(row[i]) <= EndsOn(r)'
  <2>1. CASE HasListed(r) /\ AskOf(r)' = AskOf(r) /\ Listed(r)' = Listed(r) /\ EndsOn(r)' = EndsOn(r)
    BY <1>3, <2>1 DEF Supports
  <2>2. CASE ListRows(r) /\ AskOf(r)' = AskOf(r) /\ EndsOn(r)' = EndsOn(r) /\ Listed(r)' = Running(r, row[Term].last)
    BY <1>1, <1>3, <2>2, FoundAll
  <2>. QED
    BY <1>3, <2>1, <2>2
<1>. QED
  BY <1>1, <1>2, <1>3 DEF Supports

(* What a commit leaves of the rows a participation may stand on: as they  *)
(* are, but for the one an ending names, which ends when it says.          *)
LEMMA GroundAfter ==
  ASSUME IInv, NEW r \in Requests, Commit(r), NEW i \in Ids, NEW j \in GroundOf(i.of)
  PROVE  /\ (j \in GroundOf(i.of))'
         /\ \/ EndOf(j)' = EndOf(j)
            \/ EndsGround(r) /\ HoldsRow(r) /\ HasListed(r) /\ j = AskOf(r).on /\ EndOf(j)' = EndInstant(r)
         /\ ~EndsGround(r) => EndOf(j)' = EndOf(j)
<1>1. j \in Ids /\ j \in Rows /\ j.of = i.of /\ row[j] # None /\ j.table \in {"stay", "member"}
  BY GroundOfIs DEF Rows
<1>2. row'[j] # None => (j \in GroundOf(i.of))'
  BY DEF GroundOf, Held
<1>3. CASE j \notin Written(r)
  BY <1>1, <1>2, <1>3, CommitIs DEF EndOf
<1>4. CASE j \in Written(r) /\ j.table = "stay"
  <2>1. /\ AskOf(r).kind = "depart" /\ j = AskOf(r).on /\ row'[j] # None /\ row'[j].ended = tx[r].at
    BY <1>1, <1>4, StaysWritten
  <2>2. EndsGround(r) /\ HoldsRow(r) /\ HasListed(r)
    BY <2>1, CommitIs DEF EndsGround, HoldsRow, HasListed
  <2>. QED
    BY <1>2, <1>4, <2>1, <2>2 DEF EndOf, EndInstant
<1>5. CASE j \in Written(r) /\ j.table = "member"
  <2>1. PICK c \in tx[r].writes : c.of = j
    BY <1>5, CommitIs
  <2>2. row'[j] = c.after /\ row[j] = c.before /\ ChangeSound(r, c)
    BY <2>1, CommitIs
  <2>3. j.by # r
    BY <1>1, CommitIs, MadeIs
  <2>4. AskOf(r).kind \in {"narrow", "revoke"} /\ j = AskOf(r).on /\ c.after = [c.before EXCEPT !.ends = EndInstant(r)]
    BY <1>5, <2>1, <2>2, <2>3 DEF ChangeSound
  <2>5. EndsGround(r) /\ HoldsRow(r) /\ HasListed(r)
    BY <2>4, CommitIs DEF EndsGround, HoldsRow, HasListed
  <2>6. row[j] \in Member /\ EndInstant(r) \in Instants
    BY <1>1, <1>5, <2>5, RowTyped, EndsOnIs
  <2>7. c.after \in Member /\ c.after.ends = EndInstant(r)
    BY <2>2, <2>4, <2>6 DEF Member
  <2>8. row'[j] # None
    BY <2>2, <2>7, TablesAre
  <2>. QED
    BY <1>2, <1>5, <2>2, <2>4, <2>5, <2>7, <2>8 DEF EndOf
<1>. QED
  BY <1>1, <1>3, <1>4, <1>5

(* Others know of what is to end what they knew before a commit. *)
LEMMA FoundByOthers ==
  ASSUME IInv, NEW r \in Requests, Commit(r), NEW q \in Requests, HasListed(q)'
  PROVE  q # r /\ HasListed(q) /\ AskOf(q)' = AskOf(q) /\ Listed(q)' = Listed(q) /\ EndsOn(q)' = EndsOn(q)
<1>1. ~HasListed(r)'
  BY CommitIs DEF HasListed, Done, NewTx
<1>2. q # r /\ tx'[q] = tx[q]
  BY <1>1, CommitIs
<1>. QED
  BY <1>2 DEF HasListed, AskOf, Listed, EndsOn, EndInstant, EndsGround

(* What is reached by a ground nobody is ending stands on it. *)
LEMMA ReachedSupports ==
  ASSUME NEW i, Reached(i)'
  PROVE  \E j \in Ids : Supports(i, j)'
BY DEF Reached, Supports, GroundOf, Held

(* A participation there is after a commit, and the change that wrote it if any. *)
LEMMA PartAfter ==
  ASSUME IInv, NEW r \in Requests, Commit(r), NEW i \in Parts'
  PROVE  /\ i \in Ids /\ i \in Rows /\ i.table = "part" /\ i.of \in Students \cup Faculty /\ row'[i] \in Part
         /\ row'[Term].last \in 0 .. LastDay
         /\ i \in Written(r) => \E c \in tx[r].writes : c.of = i /\ c.after = row'[i] /\ c.after # None /\ c.before = row[i]
<1>1. i \in Ids /\ i \in Rows /\ i.table = "part" /\ i.of \in Students \cup Faculty /\ row'[i] # None
  BY DEF Parts, Held, Rows
<1>2. row'[i] \in Part
  BY <1>1, CommitTyped, TablesAre DEF TypeOK
<1>3. row'[Term].last \in 0 .. LastDay
  <2>1. row'[Term] \in [last : TermEnds]
    BY CommitTyped, TablesAre, Apart DEF TypeOK, Rows
  <2>2. row'[Term].last \in 1 .. LastDay /\ LastDay \in Nat
    BY <2>1, ParticipationAssumption
  <2>. QED
    BY <2>2
<1>4. ASSUME i \in Written(r)
      PROVE  \E c \in tx[r].writes : c.of = i /\ c.after = row'[i] /\ c.after # None /\ c.before = row[i]
  <2>1. PICK c \in tx[r].writes : c.of = i
    BY <1>4, CommitIs
  <2>2. c.after = row'[i] /\ c.before = row[i]
    BY <2>1, CommitIs
  <2>. QED
    BY <1>1, <2>1, <2>2
<1>. QED
  BY <1>1, <1>2, <1>3, <1>4

(* What a commit puts on ground its request holds is reached by it: nobody *)
(* else is ending that, having taken it for itself alone.                  *)
LEMMA PlacedStands ==
  ASSUME IInv, NEW r \in Requests, Commit(r), NEW i \in Parts',
         AskOf(r).kind \in {"roster", "assign"} \/ (AskOf(r).kind = "move" /\ tx[r].until # Lapsed),
         i.of \in Whose(r), Last(row[i])' <= tx[r].until
  PROVE  \E j \in Ids : Supports(i, j)'
<1>1. i \in Ids /\ i.of \in Students \cup Faculty /\ row'[i] \in Part /\ row'[Term].last \in 0 .. LastDay
  BY PartAfter
<1>2. Sound(r) /\ tx[r].phase = "commit" /\ ~EndsGround(r)
  BY CommitIs DEF EndsGround
<1>3. PICK j \in GroundRows(i.of, tx[r].at) : Shared(j) \in tx[r].holds /\ tx[r].until <= DateOf(EndOf(j))
  BY <1>2 DEF Sound, GroundSound, At
<1>4. j \in GroundOf(i.of) /\ j \in Ids
  BY DEF GroundRows, OpenStay, Active, Held, GroundOf
<1>5. (j \in GroundOf(i.of))' /\ EndOf(j)' = EndOf(j)
  BY <1>1, <1>2, <1>4, GroundAfter
<1>6. Last(row[i])' \in 0 .. LastDay
  BY <1>1, RunsToIs DEF Last
<1>7. EndOf(j) \in Instants
  BY <1>4, GroundOfIs, <1>1, RowTyped DEF EndOf, Stay, Member
<1>8. Last(row[i])' <= DateOf(EndOf(j))'
  BY <1>3, <1>5, <1>6, <1>7, TermReadIs, ParticipationAssumption DEF DateOf, Instants
<1>9. ASSUME NEW q \in Requests, HasListed(q)', AskOf(q)'.on = j
      PROVE  FALSE
  <2>1. q # r /\ HasListed(q) /\ AskOf(q).on = j
    BY <1>9, FoundByOthers
  <2>2. Alone(j) \in tx[q].holds
    BY <2>1, NamedIs DEF HasListed, EndsGround, HoldsRow
  <2>. QED
    BY <1>3, <2>1, <2>2, LockIs DEF IInv, Exclusive, Clash
<1>. QED
  BY <1>4, <1>5, <1>8, <1>9 DEF Supports

(* What a commit leaves or makes to run no longer than before stands where *)
(* it stood, if it ends by when the commit ends that.                      *)
LEMMA ShortenedStands ==
  ASSUME IInv, NEW r \in Requests, Commit(r), NEW i \in Parts', NEW j \in Ids, Supports(i, j),
         row[i] \in Part, Last(row[i])' <= Last(row[i]),
         EndsGround(r) /\ j = AskOf(r).on => Last(row[i])' <= EndsOn(r)
  PROVE  Supports(i, j)'
<1>1. i \in Ids /\ row'[i] \in Part /\ row'[Term].last \in 0 .. LastDay
  BY PartAfter
<1>2. j \in GroundOf(i.of) /\ Last(row[i]) <= DateOf(EndOf(j))
  BY DEF Supports
<1>3. Last(row[i])' \in 0 .. LastDay /\ Last(row[i]) \in 0 .. LastDay
  BY <1>1, TermReadIs, RunsToIs DEF Last
<1>4. EndOf(j) \in Instants
  BY <1>1, <1>2, GroundOfIs, RowTyped DEF EndOf, Stay, Member
<1>5. (j \in GroundOf(i.of))'
  BY <1>1, <1>2, GroundAfter
<1>6. Last(row[i])' <= DateOf(EndOf(j))'
  <2>1. CASE EndOf(j)' = EndOf(j)
    BY <1>2, <1>3, <1>4, <2>1, ParticipationAssumption DEF DateOf, Instants
  <2>2. CASE EndsGround(r) /\ HoldsRow(r) /\ j = AskOf(r).on /\ EndOf(j)' = EndInstant(r)
    BY <2>2, EndsOnIs DEF DateOf
  <2>. QED
    BY <1>1, <1>2, <2>1, <2>2, GroundAfter
<1>7. ASSUME NEW q \in Requests, HasListed(q)', AskOf(q)'.on = j
      PROVE  i \in Listed(q)' \/ Last(row[i])' <= EndsOn(q)'
  <2>1. q # r /\ HasListed(q) /\ AskOf(q).on = j /\ Listed(q)' = Listed(q) /\ EndsOn(q)' = EndsOn(q)
    BY <1>7, FoundByOthers
  <2>2. EndsOn(q) \in 1 .. LastDay + 1
    BY <2>1, EndsOnIs DEF HasListed, HoldsRow, EndsGround
  <2>. QED
    BY <1>3, <2>1, <2>2, ParticipationAssumption DEF Supports
<1>. QED
  BY <1>5, <1>6, <1>7 DEF Supports

(* A participation a commit leaves as it is. *)
LEMMA UnwrittenStands ==
  ASSUME IInv, NEW r \in Requests, Commit(r), PartSound(r),
         \A k \in Parts : k \in stretched \/ \E j \in Ids : Supports(k, j),
         NEW i \in Parts', i \notin Written(r), i \notin stretched'
  PROVE  \E j \in Ids : Supports(i, j)'
<1>1. i \in Ids /\ i \in Rows /\ i.table = "part" /\ i.of \in Students \cup Faculty /\ row'[Term].last \in 0 .. LastDay
  BY PartAfter
<1>2. row'[i] = row[i] /\ row[i] \in Part /\ i \in Parts
  <2>1. row'[i] = row[i]
    BY <1>1, CommitIs
  <2>2. row'[i] # None
    BY DEF Parts, Held
  <2>3. i \in Parts
    BY <1>1, <2>1, <2>2 DEF Parts, Held
  <2>. QED
    BY <2>1, <2>3, PartsAre
<1>3. stretched' = Stretched(r)
  BY CommitIs
<1>4. i \notin stretched
  BY <1>3 DEF Stretched, Lengthened
<1>5. PICK j \in Ids : Supports(i, j)
  BY <1>2, <1>4
<1>6. tx[r].term \in 0 .. LastDay /\ row[Term].last \in 0 .. LastDay /\ LastDay \in Nat
  BY TermReadIs
<1>7. Last(row[i])' = RunsTo(row[i], row'[Term].last) /\ Last(row[i]) = RunsTo(row[i], row[Term].last)
  BY <1>2 DEF Last
<1>8. CASE row'[Term].last > row[Term].last /\ row[i].last = Open
  <2>1. Reached(i)'
    BY <1>2, <1>3, <1>8 DEF Stretched
  <2>. QED
    BY <2>1, ReachedSupports
<1>9. CASE ~(row'[Term].last > row[Term].last /\ row[i].last = Open)
  <2>1. Last(row[i])' <= Last(row[i])
    BY <1>1, <1>2, <1>6, <1>7, <1>9, RunsToIs DEF Dates
  <2>2. ASSUME EndsGround(r), j = AskOf(r).on PROVE Last(row[i])' <= EndsOn(r)
    <3>1. HasListed(r) /\ HoldsRow(r) /\ At(r, "commit")
      BY <2>2, CommitIs DEF HasListed, HoldsRow, EndsGround, At
    <3>2. EndsOn(r) \in 1 .. LastDay + 1
      BY <2>2, <3>1, EndsOnIs
    <3>3. CASE i \in Listed(r)
      <4>1. tx[r].term > EndsOn(r) /\ RunsTo(row[i], tx[r].term) <= EndsOn(r)
        <5>1. \A c \in tx[r].writes : c.of # i
          BY DEF Written
        <5>2. row[i] # None
          BY <1>2, PartsAre
        <5>. QED
          BY <2>2, <3>1, <3>3, <5>1, <5>2 DEF PartSound
      <4>2. row[i].last # Open
        BY <1>2, <1>6, <3>2, <4>1, RunsToIs
      <4>. QED
        BY <1>1, <1>2, <1>6, <1>7, <4>1, <4>2, RunsToIs
    <3>4. CASE Last(row[i]) <= EndsOn(r)
      BY <1>1, <1>2, <1>6, <1>7, <2>1, <3>2, <3>4, RunsToIs
    <3>. QED
      BY <1>5, <2>2, <3>1, <3>3, <3>4 DEF Supports
  <2>. QED
    BY <1>2, <1>5, <2>1, <2>2, ShortenedStands
<1>. QED
  BY <1>8, <1>9

(* A participation a commit makes, moves or ends. *)
LEMMA WrittenStands ==
  ASSUME IInv, NEW r \in Requests, Commit(r), PartSound(r),
         \A k \in Parts : k \in stretched \/ \E j \in Ids : Supports(k, j),
         NEW i \in Parts', i \in Written(r), i \notin stretched'
  PROVE  \E j \in Ids : Supports(i, j)'
<1>1. i \in Ids /\ i \in Rows /\ i.table = "part" /\ i.of \in Students \cup Faculty /\ row'[i] \in Part
  BY PartAfter
<1>2. PICK c \in tx[r].writes : c.of = i /\ c.after = row'[i] /\ c.after # None /\ c.before = row[i]
  BY PartAfter
<1>3. stretched' = Stretched(r)
  BY CommitIs
<1>4. row'[Term] = row[Term] /\ InsideTerm(row'[i]) /\ Sound(r) /\ At(r, "commit")
  <2>1. row'[Term] = row[Term] /\ InsideTerm(row'[i])
    BY <1>1, <1>2, PartsWritten
  <2>. QED
    BY <2>1, CommitIs DEF At
<1>5. tx[r].term \in 0 .. LastDay /\ row[Term].last \in 0 .. LastDay /\ LastDay \in Nat /\ tx[r].until \in 0 .. LastDay + 1
  BY TermReadIs
<1>6. Last(row[i])' = RunsTo(row'[i], row[Term].last)
  BY <1>4 DEF Last
<1>7. RunsTo(row'[i], row[Term].last) <= row[Term].last
  BY <1>4 DEF InsideTerm
<1>8. CASE row[Term].last > tx[r].term /\ row'[i].last = Open
  <2>1. Reached(i)'
    BY <1>3, <1>8 DEF Stretched
  <2>. QED
    BY <2>1, ReachedSupports
<1>9. CASE /\ ~(row[Term].last > tx[r].term /\ row'[i].last = Open)
           /\ AskOf(r).kind \in {"roster", "assign"} \/ (AskOf(r).kind = "move" /\ tx[r].until # Lapsed)
           /\ i.of \in Whose(r) /\ RunsTo(row'[i], tx[r].term) <= tx[r].until
  <2>1. Last(row[i])' <= tx[r].until
    BY <1>1, <1>5, <1>6, <1>9, RunsToIs
  <2>. QED
    BY <1>9, <2>1, PlacedStands
<1>10. CASE /\ ~(row[Term].last > tx[r].term /\ row'[i].last = Open)
            /\ row[i] # None /\ RunsTo(row'[i], tx[r].term) <= RunsTo(row[i], tx[r].term)
  <2>1. row[i] \in Part /\ i \in Parts
    BY <1>1, <1>10, RowTyped DEF Parts, Held
  <2>2. ~Lengthened(r, i)
    BY <1>1, <1>5, <1>10, <2>1, RunsToIs DEF Lengthened
  <2>3. i \notin stretched
    BY <1>3, <2>2 DEF Stretched
  <2>4. PICK j \in Ids : Supports(i, j)
    BY <2>1, <2>3
  <2>5. Last(row[i]) = RunsTo(row[i], row[Term].last)
    BY DEF Last
  <2>6. Last(row[i])' <= Last(row[i])
    <3>1. CASE row'[i].last = Open /\ row[i].last = Open
      BY <1>1, <1>5, <1>6, <1>7, <2>1, <2>5, <3>1, RunsToIs
    <3>2. CASE row'[i].last = Open /\ row[i].last # Open
      BY <1>1, <1>5, <1>6, <1>10, <2>1, <2>5, <3>2, RunsToIs
    <3>3. CASE row'[i].last # Open /\ row[i].last = Open
      BY <1>1, <1>5, <1>6, <1>7, <2>1, <2>5, <3>3, RunsToIs
    <3>4. CASE row'[i].last # Open /\ row[i].last # Open
      BY <1>1, <1>5, <1>6, <1>10, <2>1, <2>5, <3>4, RunsToIs
    <3>. QED
      BY <3>1, <3>2, <3>3, <3>4
  <2>7. ASSUME EndsGround(r), j = AskOf(r).on PROVE Last(row[i])' <= EndsOn(r)
    <3>1. HasListed(r) /\ HoldsRow(r)
      BY <2>7, CommitIs DEF HasListed, HoldsRow, EndsGround
    <3>2. EndsOn(r) \in 1 .. LastDay + 1
      BY <2>7, <3>1, EndsOnIs
    <3>3. CASE Last(row[i]) <= EndsOn(r)
      BY <1>1, <1>5, <1>6, <2>1, <2>5, <2>6, <3>2, <3>3, RunsToIs
    <3>4. CASE i \in Listed(r) /\ RunsTo(row[i], tx[r].term) <= EndsOn(r)
      <4>1. tx[r].term > EndsOn(r)
        BY <3>1, <3>4 DEF PartSound
      <4>2. RunsTo(row'[i], tx[r].term) <= EndsOn(r)
        BY <1>1, <1>5, <1>10, <2>1, <3>2, <3>4, RunsToIs
      <4>3. row'[i].last # Open
        BY <1>1, <1>5, <3>2, <4>1, <4>2, RunsToIs
      <4>. QED
        BY <1>1, <1>5, <1>6, <4>2, <4>3, RunsToIs
    <3>5. ASSUME NEW d \in tx[r].writes, d.of = i, d.after # None => d.after.last = EndsOn(r)
          PROVE  Last(row[i])' <= EndsOn(r)
      <4>1. d = c
        BY <1>2, <1>4, <3>5 DEF Sound, WriteSound
      <4>2. row'[i].last = EndsOn(r)
        BY <1>2, <3>5, <4>1
      <4>. QED
        BY <1>1, <1>5, <1>6, <3>2, <4>2, RunsToIs DEF Open
    <3>. QED
      BY <1>4, <2>4, <2>7, <1>10, <3>1, <3>3, <3>4, <3>5 DEF Supports, PartSound
  <2>. QED
    BY <2>1, <2>4, <2>6, <2>7, ShortenedStands
<1>. QED
  BY <1>1, <1>2, <1>8, <1>9, <1>10 DEF PartSound

(* A statement changes no row, so what stood still stands; a commit is of  *)
(* the participations written, and of those left on a ground it ends.      *)
LEMMA GroundStepKeeps ==
  ASSUME GInv, [Next]_vars
  PROVE  GInv'
<1>1. IInv /\ IInv' /\ \A r \in Requests : PartSound(r)
  BY StepKeeps DEF GInv
<1>2. \A i \in Parts : i \in stretched \/ \E j \in Ids : Supports(i, j)
  BY DEF GInv
<1>3. ASSUME row' = row, stretched' = stretched,
             \A r \in Requests : HasListed(r)' =>
               \/ HasListed(r) /\ AskOf(r)' = AskOf(r) /\ Listed(r)' = Listed(r) /\ EndsOn(r)' = EndsOn(r)
               \/ ListRows(r) /\ AskOf(r)' = AskOf(r) /\ EndsOn(r)' = EndsOn(r) /\ Listed(r)' = Running(r, row[Term].last)
      PROVE  \A i \in Parts' : i \in stretched' \/ \E j \in Ids : Supports(i, j)'
  <2>1. Parts' = Parts
    BY <1>3 DEF Parts, Held
  <2>2. \A i \in Parts, j \in Ids : Supports(i, j) => Supports(i, j)'
    BY <1>1, <1>3, SupportStays
  <2>. QED
    BY <1>2, <1>3, <2>1, <2>2
<1>4. ASSUME NEW q \in Requests, tx'[q] = tx[q]
      PROVE  HasListed(q)' => HasListed(q) /\ AskOf(q)' = AskOf(q) /\ Listed(q)' = Listed(q) /\ EndsOn(q)' = EndsOn(q)
  BY <1>4 DEF HasListed, AskOf, Listed, EndsOn, EndInstant, EndsGround
<1>5. CASE row' = row /\ stretched' = stretched /\ tx' = tx
  BY <1>1, <1>3, <1>4, <1>5, OthersSound DEF GInv
<1>6. ASSUME NEW r \in Requests, Begin(r) \/ Serve(r), ~Commit(r)
      PROVE  GInv'
  <2>1. row' = row /\ stretched' = stretched /\ \A q \in Requests \ {r} : tx'[q] = tx[q]
    BY <1>1, <1>6, StepIs
  <2>2. \A q \in Requests : PartSound(q)'
    BY <1>1, <1>6, <2>1, OwnSound, OthersSound
  <2>3. HasListed(r)' =>
               \/ HasListed(r) /\ AskOf(r)' = AskOf(r) /\ Listed(r)' = Listed(r) /\ EndsOn(r)' = EndsOn(r)
               \/ ListRows(r) /\ AskOf(r)' = AskOf(r) /\ EndsOn(r)' = EndsOn(r) /\ Listed(r)' = Running(r, row[Term].last)
    <3>1. CASE ~ListRows(r)
      BY <1>1, <1>6, <3>1, FoundIs
    <3>2. CASE ListRows(r)
      BY <1>1, <3>2, ListedSound
    <3>. QED
      BY <3>1, <3>2
  <2>4. \A i \in Parts' : i \in stretched' \/ \E j \in Ids : Supports(i, j)'
    BY <1>3, <1>4, <2>1, <2>3
  <2>. QED
    BY <1>1, <2>2, <2>4 DEF GInv
<1>7. ASSUME NEW r \in Requests, Commit(r)
      PROVE  GInv'
  <2>1. \A i \in Parts' : i \in stretched' \/ \E j \in Ids : Supports(i, j)'
    BY <1>1, <1>2, <1>7, UnwrittenStands, WrittenStands
  <2>2. \A q \in Requests : PartSound(q)'
    BY <1>1, <1>7, CommitSound
  <2>. QED
    BY <1>1, <2>1, <2>2 DEF GInv
<1>. QED
  BY <1>5, <1>6, <1>7 DEF Next, Tick, vars

(* At first each participation stands on what its Person holds from the start. *)
LEMMA GroundAtFirst ==
  ASSUME Init
  PROVE  GInv
<1>1. IInv
  BY InitKeeps
<1>2. \A r \in Requests : tx[r].writes = {} /\ tx[r].phase = "new"
  BY DEF Init, NewTx
<1>3. \A r \in Requests : ~HasListed(r) /\ PartSound(r)
  BY <1>2 DEF HasListed, PartSound, At
<1>4. PICK first \in {None} \cup FirstDates, ends \in MemberEnds \cup {Never}, termLast \in TermEnds :
        row = [i \in Rows |-> IF i.by # None THEN None ELSE AtFirst(i, first, ends, termLast)]
  BY DEF Init, Rows
<1>5. LastDay \in Nat /\ Never = LastDay /\ Open = LastDay + 1 /\ ends \in 0 .. LastDay /\ termLast \in 1 .. LastDay
  BY ParticipationAssumption DEF Never, Open
<1>6. row[Term].last = termLast
  BY <1>4, Apart DEF Rows, AtFirst
<1>7. \A t \in DOMAIN Owners : \A p \in Owners[t] : Id(t, p, None) \in Ids
  BY DEF Ids
<1>8. DOMAIN Owners = {"stay", "member", "link", "part"} /\ Owners["stay"] = Students /\ Owners["member"] = Persons
  BY DEF Owners
<1>9. ASSUME NEW i \in Parts PROVE \E j \in Ids : Supports(i, j)
  <2>1. i \in Ids /\ i \in Rows /\ i.table = "part" /\ i.of \in Students \cup Faculty /\ row[i] # None /\ row[i] \in Part
    BY <1>1, PartsAre
  <2>2. /\ row[i] = [first |-> first,
                     last |-> IF i.of \in Faculty /\ DateOf(ends) < termLast THEN DateOf(ends) ELSE Open]
    BY <1>4, <2>1 DEF AtFirst
  <2>3. ASSUME NEW t \in {"stay", "member"}, Id(t, i.of, None) \in Ids, t = "stay" <=> i.of \in Students
        PROVE  /\ row[Id(t, i.of, None)] # None => Id(t, i.of, None) \in GroundOf(i.of)
               /\ row[Id(t, i.of, None)] = AtFirst(Id(t, i.of, None), first, ends, termLast)
    <3>1. Id(t, i.of, None).table = t /\ Id(t, i.of, None).of = i.of /\ Id(t, i.of, None).by = None
      BY DEF Id
    <3>. QED
      BY <1>4, <2>3, <3>1 DEF GroundOf, Held, Rows
  <2>4. CASE i.of \in Students
    <3>. DEFINE j == Id("stay", i.of, None)
    <3>1. j \in Ids /\ j.table = "stay"
      BY <1>7, <1>8, <2>4 DEF Id
    <3>2. row[j] = [ended |-> Never]
      BY <2>3, <2>4, <3>1 DEF AtFirst
    <3>3. j \in GroundOf(i.of)
      <4>1. [ended |-> Never] \in Stay
        BY <1>5 DEF Stay, Instants
      <4>. QED
        BY <2>3, <2>4, <3>1, <3>2, <4>1, TablesAre
    <3>4. DateOf(EndOf(j)) = LastDay + 1
      BY <1>5, <3>1, <3>2 DEF DateOf, EndOf
    <3>5. Last(row[i]) \in 0 .. LastDay
      <4>1. Last(row[i]) = RunsTo(row[i], row[Term].last) /\ row[Term].last \in 0 .. LastDay
        BY <1>5, <1>6 DEF Last
      <4>. QED
        BY <2>1, <4>1, RunsToIs
    <3>. QED
      BY <1>3, <1>5, <3>1, <3>3, <3>4, <3>5 DEF Supports
  <2>5. CASE i.of \notin Students
    <3>. DEFINE j == Id("member", i.of, None)
    <3>1. j \in Ids /\ j.table = "member" /\ j.of = i.of
      BY <1>7, <1>8, <2>1, <2>5 DEF Id, Persons
    <3>2. row[j] = [starts |-> 0, ends |-> ends]
      BY <2>1, <2>3, <2>5, <3>1 DEF AtFirst
    <3>3. [starts |-> 0, ends |-> ends] \in Member
      BY <1>5 DEF Member, Instants
    <3>4. j \in GroundOf(i.of)
      BY <2>3, <2>5, <3>1, <3>2, <3>3, TablesAre
    <3>5. DateOf(EndOf(j)) = ends + 1
      BY <3>1, <3>2 DEF DateOf, EndOf
    <3>6. Last(row[i]) <= ends + 1
      BY <1>5, <1>6, <2>1, <2>2, <2>5 DEF DateOf, Last, RunsTo
    <3>. QED
      BY <1>3, <3>1, <3>4, <3>5, <3>6 DEF Supports
  <2>. QED
    BY <2>4, <2>5
<1>. QED
  BY <1>1, <1>3, <1>9 DEF GInv

(* What a participation stands on reaches its last date. *)
LEMMA SupportedInside ==
  ASSUME IInv, NEW i \in Parts, NEW j, Supports(i, j)
  PROVE  ~Outlives(i)
<1>. DEFINE S == {0} \cup {DateOf(EndOf(k)) : k \in GroundOf(i.of)}
<1>1. i \in Ids /\ row[i] \in Part
  BY PartsAre
<1>2. \A k \in GroundOf(i.of) : EndOf(k) \in Instants
  BY <1>1, GroundOfIs, RowTyped DEF EndOf, Stay, Member
<1>3. LastDay + 1 \in Nat /\ \A n \in Instants : DateOf(n) \in 0 .. LastDay + 1
  BY ParticipationAssumption DEF Instants, DateOf
<1>4. S \in SUBSET (0 .. LastDay + 1) /\ S # {}
  BY <1>2, <1>3
<1>5. j \in GroundOf(i.of) /\ Last(row[i]) <= DateOf(EndOf(j))
  BY DEF Supports
<1>6. DateOf(EndOf(j)) \in S /\ DateOf(EndOf(j)) \in 0 .. LastDay + 1
  BY <1>2, <1>3, <1>5
<1>7. Last(row[i]) \in 0 .. LastDay
  <2>1. Last(row[i]) = RunsTo(row[i], row[Term].last) /\ row[Term].last \in 0 .. LastDay
    BY RowTyped DEF Last
  <2>. QED
    BY <1>1, <2>1, RunsToIs
<1>8. GroundEnds(i.of) = Max(S)
  BY DEF GroundEnds
<1>. HIDE DEF S
<1>9. Max(S) \in S /\ DateOf(EndOf(j)) <= Max(S) /\ Max(S) \in 0 .. LastDay + 1
  BY <1>3, <1>4, <1>6, MaxIs
<1>. QED
  BY <1>3, <1>5, <1>6, <1>7, <1>8, <1>9 DEF Outlives

(* What each participation stands on, however many requests move the Term, *)
(* the participations and what these stand on.                             *)
THEOREM GroundsStand == Spec => []GInv
<1>1. Init => GInv
  BY GroundAtFirst
<1>2. GInv /\ [Next]_vars => GInv'
  BY GroundStepKeeps
<1>. QED
  BY <1>1, <1>2, PTL DEF Spec

(* No participation runs past all its Person's Enrollments or School       *)
(* memberships, but for one that only a later end of its Term made run on; *)
(* and no Guardian link is in force to a Student without an open           *)
(* Enrollment. So what Depart and EndMembership list, lock and end cannot  *)
(* miss what Place, Move or MakeLink writes at the same time.              *)
THEOREM PartsOnTheirGround == Spec => []NothingOutlivesItsGround
<1>1. GInv => NothingOutlivesItsGround
  <2>1. GInv => IInv /\ LinksHaveGround
    BY DEF GInv, IInv
  <2>2. GInv => \A i \in Parts : Outlives(i) => i \in stretched
    BY <2>1, SupportedInside DEF GInv
  <2>. QED
    BY <2>1, <2>2 DEF NothingOutlivesItsGround, LinksHaveGround
<1>. QED
  BY <1>1, GroundsStand, PTL
=============================================================================
