--------------------------- MODULE TermResultsProofs ---------------------------
(***************************************************************************)
(* The inductive invariant IInv of TermResults, for any number of Students *)
(* and transactions, any scales and any requests: the initial states, then *)
(* one lemma for each action, and what the invariant says at once.         *)
(***************************************************************************)
EXTENDS TermResults, SequenceTheorems, TLAPS

-----------------------------------------------------------------------------
(* A transaction not under way has a record like any other. *)
LEMMA IdleInTx == Idle \in Tx
BY TermResultsAssumption DEF Idle, Tx, NoRows, Phases, Blank, Content, Ledger!Blank, Ledger!Content

(* Its fields, without the record. *)
LEMMA IdleFields ==
  /\ Idle.phase = "idle" /\ Idle.act = None /\ Idle.req = None
  /\ \A act \in Acts : None # act
BY NoneIsNothing DEF Idle

(* Before anything has happened the invariant holds. *)
LEMMA InitIInv == Init => IInv
<1>. SUFFICES ASSUME Init PROVE IInv
  OBVIOUS
<1>1. Ledger!LedgerTypeOK
  BY TermResultsAssumption DEF Init, Ledger!Init, Ledger!LedgerTypeOK, Ledger!Request, Ledger!NoRequest, Ledger!States
<1>2. TypeOK
  BY <1>1, IdleInTx, TermResultsAssumption DEF Init, TypeOK, Ends, Open
<1>3. TxSound
  BY IdleFields DEF Init, Acts, TxSound, Sound, HoldsItsLocks, ReadStands, ActSound, RaiseSound,
    DecisionSound, ResultsPhases
<1>4. RequestsSound /\ ResultsBound /\ TrailSound
  BY DEF Init, Ledger!Init, Ledger!NoRequest, RequestsSound, ResultsBound, TrailSound, TrailLeadsToTheResult
<1>. QED
  BY <1>2, <1>3, <1>4 DEF IInv

-----------------------------------------------------------------------------
(* What the invariant says of one transaction. *)
LEMMA TxTyped ==
  ASSUME IInv, NEW t \in Txns
  PROVE  tx[t] \in Tx /\ Sound(t) /\ t # None
BY TermResultsAssumption DEF IInv, TypeOK, TxSound

(* What it says of one Student's result. *)
LEMMA ResultTyped ==
  ASSUME IInv, NEW s \in Students
  PROVE  /\ results[s] \in Ledger!Result \union {None}
         /\ Ledger!SaysOf(results[s]) \in Content /\ Ledger!VersionOf(results[s]) \in Nat
         /\ Ledger!Published(results[s]) => results[s].says \in Ledger!PublishedContent
         /\ audit[s] # None => results[s] # None /\ audit[s][2] = Ledger!RecordOf(results[s])
<1>1. results[s] \in Ledger!Result \union {None}
  BY DEF IInv, TypeOK, Ledger!LedgerTypeOK
<1>2. Ledger!SaysOf(results[s]) \in Content /\ Ledger!VersionOf(results[s]) \in Nat
  BY <1>1 DEF Ledger!SaysOf, Ledger!VersionOf, Ledger!Result, Content, Ledger!Blank, Ledger!Content
<1>3. Ledger!Published(results[s]) => results[s].says \in Ledger!PublishedContent
  BY <1>1 DEF IInv, ResultsBound, Ledger!Published, Ledger!Result, Ledger!Content, Ledger!PublishedContent
<1>4. audit[s] # None => results[s] # None /\ audit[s][2] = Ledger!RecordOf(results[s])
  BY DEF IInv, TrailSound, TrailLeadsToTheResult
<1>. QED
  BY <1>1, <1>2, <1>3, <1>4

(* What it says of the scale and of one request. *)
LEMMA ScalesTyped ==
  ASSUME IInv
  PROVE  scales \in Seq(Scales) /\ Len(scales) \in Nat /\ Len(scales) \in DOMAIN scales /\ DOMAIN scales = 1..Len(scales)
<1>1. scales \in Seq(Scales) /\ scales # <<>>
  BY DEF IInv, TypeOK, Ledger!LedgerTypeOK
<1>. QED
  BY <1>1

(* A request that was raised is whole. *)
LEMMA RequestTyped ==
  ASSUME IInv, NEW r \in Requests
  PROVE  /\ requests[r] \in Ledger!Request
         /\ requests[r].state # "none" =>
              /\ requests[r].student \in Students /\ requests[r].by \in Persons
              /\ requests[r].before \in Ledger!PublishedContent
              /\ requests[r].after \in Ledger!PublishedContent
              /\ requests[r].before # requests[r].after
              /\ Ledger!Published(results[requests[r].student])
BY DEF IInv, TypeOK, Ledger!LedgerTypeOK, RequestsSound

-----------------------------------------------------------------------------
(* The phases in which an approval has its request's row. *)
Approving(u) == tx[u].act = "approve" /\ tx[u].phase \in {"waiting", "holding", "ready"}
HasItsRequest(u) == tx[u].phase = "judging" \/ Approving(u)

(* A transaction stays sound while the step of another leaves alone what its *)
(* phase relies on: its locks, the results or scale it read, and its request. *)
LEMMA OtherSound ==
  ASSUME IInv, NEW t \in Txns, NEW u \in Txns, u # t, \A v \in Txns \ {t} : tx'[v] = tx[v],
         tx[u].phase \in ResultsPhases => resultsLock' = resultsLock /\ results' = results,
         tx[u].phase = "scaled" => scaleLock' = scaleLock /\ scales' = scales,
         DOMAIN scales \subseteq DOMAIN scales',
         HasItsRequest(u) => requestLock'[tx[u].req] = requestLock[tx[u].req],
         tx[u].act = "raise" => requests'[tx[u].req] = requests[tx[u].req] /\ tx'[t].req # tx[u].req,
         Approving(u) => requests'[tx[u].req] = requests[tx[u].req],
         tx[u].act \in {"approve", "reject", "withdraw"} =>
           LET r == tx[u].req
           IN /\ requests'[r].state # "none" /\ requests'[r].student = requests[r].student
              /\ requests'[r].after = requests[r].after /\ requests'[r].by = requests[r].by
  PROVE  Sound(u)'
<1>. tx[u] \in Tx /\ Sound(u) /\ tx'[u] = tx[u]
  BY TxTyped
<1>1. HoldsItsLocks(u)'
  BY DEF Sound, HoldsItsLocks, HasItsRequest, Approving
<1>2. ReadStands(u)'
  BY DEF Sound, ReadStands, Approving, StillPending, OwnRequest, TargetUnchanged, Row
<1>3. ActSound(u)'
  BY DEF Sound, ActSound, Ready
<1>4. RaiseSound(u)'
  BY DEF Sound, RaiseSound, Row
<1>5. DecisionSound(u)'
  BY DEF Sound, DecisionSound
<1>. QED
  BY <1>1, <1>2, <1>3, <1>4, <1>5 DEF Sound

-----------------------------------------------------------------------------
(* A step that moves one transaction and takes free locks alone, records and *)
(* roster untouched, keeps the invariant if it leaves its transaction sound. *)
LEMMA StepIInv ==
  ASSUME IInv, NEW t \in Txns, NEW new \in Tx, tx' = [tx EXCEPT ![t] = new],
         UNCHANGED <<recordVars, rosterVars>>,
         resultsLock' \in Txns \union {None}, scaleLock' \in Txns \union {None},
         requestLock' \in [Requests -> Txns \union {None}],
         resultsLock # None => resultsLock' = resultsLock,
         scaleLock # None => scaleLock' = scaleLock,
         \A r \in Requests : requestLock[r] # None => requestLock'[r] = requestLock[r],
         \A u \in Txns \ {t} : tx[u].act = "raise" => new.req # tx[u].req,
         Sound(t)'
  PROVE  IInv'
<1>1. tx' \in [Txns -> Tx] /\ tx'[t] = new /\ \A u \in Txns \ {t} : tx'[u] = tx[u]
  BY DEF IInv, TypeOK
<1>2. UNCHANGED <<results, audit, scales, requests, termLast, rosteredTo, rosterMoves, termMoves>>
  BY DEF recordVars, rosterVars
<1>3. TypeOK'
  BY <1>1, <1>2 DEF IInv, TypeOK, Ledger!LedgerTypeOK
<1>4. ASSUME NEW u \in Txns, u # t PROVE Sound(u)'
  <2>1. Sound(u) /\ u # None
    BY TxTyped
  <2>2. HasItsRequest(u) => tx[u].req \in Requests /\ requestLock[tx[u].req] = u
    BY <2>1 DEF HasItsRequest, Approving, Sound, ActSound, HoldsItsLocks, DecisionSound
  <2>3. /\ tx[u].phase \in ResultsPhases => resultsLock' = resultsLock
        /\ tx[u].phase = "scaled" => scaleLock' = scaleLock
        /\ HasItsRequest(u) => requestLock'[tx[u].req] = requestLock[tx[u].req]
    BY <2>1, <2>2 DEF Sound, HoldsItsLocks
  <2>4. tx[u].act \in {"approve", "reject", "withdraw"} => requests[tx[u].req].state # "none"
    BY <2>1 DEF Sound, DecisionSound
  <2>. QED
    BY <1>1, <1>2, <1>4, <2>3, <2>4, OtherSound
<1>5. RequestsSound' /\ ResultsBound' /\ TrailSound'
  BY <1>2 DEF IInv, RequestsSound, ResultsBound, Ledger!Holds, TrailSound, TrailLeadsToTheResult
<1>. QED
  BY <1>1, <1>3, <1>4, <1>5 DEF IInv, TxSound

(* A transaction's identity in a raise is its own, whatever another's is. *)
LEMMA RaisesAlone ==
  ASSUME IInv, NEW t \in Txns, NEW u \in Txns, u # t, tx[u].act = "raise"
  PROVE  tx[t].req # tx[u].req /\ None # tx[u].req /\ requests[tx[u].req].state = "none"
BY TxTyped, TermResultsAssumption DEF Sound, RaiseSound

(* Steps that end a transaction. *)
LEMMA EndedTyped ==
  ASSUME IInv, NEW t \in Txns, Ended(t)
  PROVE  /\ tx' \in [Txns -> Tx] /\ tx'[t] = Idle /\ \A u \in Txns \ {t} : tx'[u] = tx[u]
         /\ resultsLock' \in Txns \union {None} /\ scaleLock' \in Txns \union {None}
         /\ requestLock' \in [Requests -> Txns \union {None}]
BY IdleInTx DEF IInv, TypeOK, Ended, Becomes

(* What it changed is what it had locked, so no other transaction relied on it. *)
LEMMA EndedSound ==
  ASSUME IInv, NEW t \in Txns, Ended(t),
         results' # results => tx[t].phase \in ResultsPhases,
         scales' # scales => tx[t].phase = "scaled",
         DOMAIN scales \subseteq DOMAIN scales',
         \A r \in Requests : requests'[r] # requests[r] =>
           tx[t].req = r /\ (tx[t].act = "raise" \/ HasItsRequest(t)),
         \A r \in Requests : requests[r].state # "none" =>
           /\ requests'[r].state # "none" /\ requests'[r].student = requests[r].student
           /\ requests'[r].after = requests[r].after /\ requests'[r].by = requests[r].by
  PROVE  TxSound'
<1>1. Sound(t)'
  BY EndedTyped, IdleFields DEF Acts, Sound, HoldsItsLocks, ReadStands, ActSound, RaiseSound,
    DecisionSound, ResultsPhases
<1>2. ASSUME NEW u \in Txns, u # t PROVE Sound(u)'
  <2>1. Sound(u) /\ Sound(t) /\ u # None
    BY TxTyped
  <2>2. tx[u].phase \in ResultsPhases => resultsLock' = resultsLock /\ results' = results
    BY <1>2, <2>1 DEF Sound, HoldsItsLocks, Ended
  <2>3. tx[u].phase = "scaled" => scaleLock' = scaleLock /\ scales' = scales
    BY <1>2, <2>1 DEF Sound, HoldsItsLocks, Ended
  <2>4. HasItsRequest(u) => tx[u].req \in Requests /\ requestLock[tx[u].req] = u
    BY <2>1 DEF HasItsRequest, Approving, Sound, ActSound, HoldsItsLocks, DecisionSound
  <2>5. HasItsRequest(u) => requestLock'[tx[u].req] = requestLock[tx[u].req]
    BY <1>2, <2>4 DEF Ended
  <2>6. tx[u].act = "raise" => requests'[tx[u].req] = requests[tx[u].req] /\ tx'[t].req # tx[u].req
    BY <1>2, <2>1, RaisesAlone, EndedTyped, IdleFields DEF Sound, RaiseSound
  <2>7. Approving(u) => requests'[tx[u].req] = requests[tx[u].req]
    <3>1. SUFFICES ASSUME Approving(u), requests'[tx[u].req] # requests[tx[u].req] PROVE FALSE
      OBVIOUS
    <3>2. tx[u].req \in Requests /\ requestLock[tx[u].req] = u /\ requests[tx[u].req].state = "pending"
      BY <2>1, <2>4, <3>1 DEF HasItsRequest, Approving, Sound, ReadStands, StillPending
    <3>3. tx[t].req = tx[u].req /\ (tx[t].act = "raise" \/ HasItsRequest(t))
      BY <3>1, <3>2
    <3>. QED
      BY <1>2, <2>1, <3>2, <3>3 DEF HasItsRequest, Approving, Sound, HoldsItsLocks, RaiseSound
  <2>8. tx[u].act \in {"approve", "reject", "withdraw"} =>
          tx[u].req \in Requests /\ requests[tx[u].req].state # "none"
    BY <2>1 DEF Sound, DecisionSound
  <2>. QED
    BY <1>2, <2>2, <2>3, <2>5, <2>6, <2>7, <2>8, OtherSound, EndedTyped
<1>. QED
  BY <1>1, <1>2 DEF TxSound

(* A rollback keeps the invariant. *)
LEMMA RolledBackIInv ==
  ASSUME IInv, NEW t \in Txns, RolledBack(t)
  PROVE  IInv'
<1>1. Ended(t) /\ UNCHANGED <<results, audit, scales, requests, termLast, rosteredTo, rosterMoves, termMoves>>
  BY DEF RolledBack, recordVars, rosterVars
<1>2. TypeOK'
  BY <1>1, EndedTyped DEF IInv, TypeOK, Ledger!LedgerTypeOK
<1>3. TxSound'
  BY <1>1, EndedSound
<1>4. RequestsSound' /\ ResultsBound' /\ TrailSound'
  BY <1>1 DEF IInv, RequestsSound, ResultsBound, Ledger!Holds, TrailSound, TrailLeadsToTheResult
<1>. QED
  BY <1>2, <1>3, <1>4 DEF IInv

-----------------------------------------------------------------------------
(* One lemma for each step short of a commit: it keeps the invariant. *)

(* GET term-results, its client's drafts loaded. *)
LEMMA LoadIInv ==
  ASSUME IInv, NEW t \in Txns, Load(t)
  PROVE  IInv'
<1>. DEFINE view == [s \in Students |-> Ledger!SaysOf(results[s])]
            new == [Idle EXCEPT !.phase = "loaded", !.act = "save", !.view = view]
<1>1. new \in Tx
  <2>1. view \in [Students -> Content]
    BY ResultTyped
  <2>. HIDE DEF view
  <2>. QED
    BY <2>1, IdleInTx DEF Tx, Phases, Acts
<1>2. tx' = [tx EXCEPT ![t] = new] /\ tx'[t] = new
  BY DEF IInv, TypeOK, Load, Becomes
<1>3. new.phase = "loaded" /\ new.act = "save" /\ new.req = None
  BY DEF Idle
<1>. HIDE DEF new
<1>4. Sound(t)'
  BY <1>2, <1>3 DEF Sound, HoldsItsLocks, ReadStands, ActSound, RaiseSound, DecisionSound, ResultsPhases
<1>. QED
  BY <1>1, <1>2, <1>3, <1>4, StepIInv, RaisesAlone DEF Load, lockVars, IInv, TypeOK

(* PATCH term-results, waiting for the results. *)
LEMMA BeginSaveIInv ==
  ASSUME IInv, NEW t \in Txns, NEW want \in [Students -> Content \union {None}], BeginSave(t, want)
  PROVE  IInv'
<1>. DEFINE new == [tx[t] EXCEPT !.phase = "waiting", !.want = want]
<1>0. tx[t] \in Tx /\ tx[t].phase = "loaded" /\ tx[t].act = "save"
  BY TxTyped DEF BeginSave, Sound, ActSound
<1>1. new \in Tx
  BY <1>0 DEF Tx, Phases
<1>2. tx' = [tx EXCEPT ![t] = new] /\ tx'[t] = new
  BY DEF IInv, TypeOK, BeginSave, Becomes
<1>3. new.phase = "waiting" /\ new.act = "save" /\ new.req = tx[t].req
  BY <1>0 DEF Tx
<1>. HIDE DEF new
<1>4. Sound(t)'
  BY <1>2, <1>3 DEF Sound, HoldsItsLocks, ReadStands, ActSound, RaiseSound, DecisionSound, ResultsPhases
<1>. QED
  BY <1>1, <1>2, <1>3, <1>4, StepIInv, RaisesAlone, ZenonT(60) DEF BeginSave, lockVars, IInv, TypeOK

(* POST publications, waiting for the results. *)
LEMMA BeginPublishIInv ==
  ASSUME IInv, NEW t \in Txns, BeginPublish(t)
  PROVE  IInv'
<1>. DEFINE new == [Idle EXCEPT !.phase = "waiting", !.act = "publish", !.term = termLast]
<1>0. termLast \in Ends /\ termLast # None
  BY TermResultsAssumption, NoneIsNothing DEF IInv, TypeOK, Ends
<1>1. new \in Tx
  BY <1>0, IdleInTx DEF Tx, Phases, Acts
<1>2. tx' = [tx EXCEPT ![t] = new] /\ tx'[t] = new
  BY DEF IInv, TypeOK, BeginPublish, Becomes
<1>3. new.phase = "waiting" /\ new.act = "publish" /\ new.term = termLast /\ new.req = None
  BY DEF Idle
<1>. HIDE DEF new
<1>4. Sound(t)'
  BY <1>0, <1>2, <1>3 DEF Sound, HoldsItsLocks, ReadStands, ActSound, RaiseSound, DecisionSound, ResultsPhases
<1>. QED
  BY <1>1, <1>2, <1>3, <1>4, StepIInv, RaisesAlone DEF BeginPublish, lockVars, IInv, TypeOK

(* POST correction-requests, waiting for the results: its request is nobody else's. *)
LEMMA BeginRaiseIInv ==
  ASSUME IInv, NEW t \in Txns, NEW p \in Persons, NEW r \in Requests, NEW s \in Students,
         NEW after \in Ledger!PublishedContent, BeginRaise(t, p, r, s, after)
  PROVE  IInv'
<1>. DEFINE new == [Idle EXCEPT !.phase = "waiting", !.act = "raise", !.who = p, !.req = r,
                                !.student = s, !.after = after]
<1>0. after \in Content
  BY DEF Ledger!PublishedContent, Content, Ledger!Content
<1>1. new \in Tx
  BY <1>0, IdleInTx DEF Tx, Phases, Acts
<1>2. tx' = [tx EXCEPT ![t] = new] /\ tx'[t] = new /\ \A u \in Txns \ {t} : tx'[u] = tx[u]
  BY DEF IInv, TypeOK, BeginRaise, Becomes
<1>3. /\ new.phase = "waiting" /\ new.act = "raise" /\ new.who = p /\ new.req = r
      /\ new.student = s /\ new.after = after
  BY DEF Idle
<1>. HIDE DEF new
<1>4. requests[r].state = "none" /\ (\A u \in Txns : tx[u].req # r) /\ UNCHANGED requests
  BY DEF BeginRaise, recordVars
<1>5. Sound(t)'
  BY <1>2, <1>3, <1>4 DEF Sound, HoldsItsLocks, ReadStands, ActSound, RaiseSound, DecisionSound, ResultsPhases
<1>. QED
  BY <1>1, <1>2, <1>3, <1>4, <1>5, StepIInv DEF BeginRaise, lockVars, IInv, TypeOK

(* PATCH correction-requests, waiting for the request's row. *)
LEMMA BeginDecideIInv ==
  ASSUME IInv, NEW t \in Txns, NEW p \in Persons, NEW r \in Requests,
         NEW act \in {"approve", "reject", "withdraw"}, BeginDecide(t, p, r, act)
  PROVE  IInv'
<1>. DEFINE new == [Idle EXCEPT !.phase = "deciding", !.act = act, !.who = p, !.req = r,
                                !.student = requests[r].student, !.after = requests[r].after]
<1>0. requests[r].state # "none" /\ requests[r].student \in Students /\ requests[r].after \in Content
  <2>1. requests[r].after \in Ledger!PublishedContent
    BY RequestTyped DEF BeginDecide
  <2>. QED
    BY <2>1, RequestTyped DEF BeginDecide, Ledger!PublishedContent, Content, Ledger!Content
<1>1. new \in Tx
  BY <1>0, IdleInTx DEF Tx, Phases, Acts
<1>2. tx' = [tx EXCEPT ![t] = new] /\ tx'[t] = new
  BY DEF IInv, TypeOK, BeginDecide, Becomes
<1>3. /\ new.phase = "deciding" /\ new.act = act /\ new.who = p /\ new.req = r
      /\ new.student = requests[r].student /\ new.after = requests[r].after
  BY DEF Idle
<1>. HIDE DEF new
<1>4. UNCHANGED requests /\ (act = "withdraw" => p = requests[r].by)
  BY DEF BeginDecide, recordVars
<1>5. Sound(t)'
  BY <1>0, <1>2, <1>3, <1>4 DEF Sound, HoldsItsLocks, ReadStands, ActSound, RaiseSound, DecisionSound, ResultsPhases
<1>6. \A u \in Txns \ {t} : tx[u].act = "raise" => new.req # tx[u].req
  BY <1>0, <1>3, RaisesAlone
<1>. QED
  BY <1>1, <1>2, <1>5, <1>6, StepIInv DEF BeginDecide, lockVars, IInv, TypeOK

(* POST result-value-scale, waiting for the scale. *)
LEMMA BeginScaleIInv ==
  ASSUME IInv, NEW t \in Txns, NEW values \in Scales, BeginScale(t, values)
  PROVE  IInv'
<1>. DEFINE new == [Idle EXCEPT !.phase = "scaling", !.act = "scale", !.values = values]
<1>1. new \in Tx
  BY IdleInTx DEF Tx, Phases, Acts
<1>2. tx' = [tx EXCEPT ![t] = new] /\ tx'[t] = new
  BY DEF IInv, TypeOK, BeginScale, Becomes
<1>3. new.phase = "scaling" /\ new.act = "scale" /\ new.values = values /\ new.req = None
  BY DEF Idle
<1>. HIDE DEF new
<1>4. Sound(t)'
  BY <1>2, <1>3, TermResultsAssumption DEF Sound, HoldsItsLocks, ReadStands, ActSound, RaiseSound, DecisionSound,
    ResultsPhases
<1>. QED
  BY <1>1, <1>2, <1>3, <1>4, StepIInv, RaisesAlone DEF BeginScale, lockVars, IInv, TypeOK

(* The types of the locks, for the steps that leave or take one. *)
LEMMA LocksTyped ==
  ASSUME IInv
  PROVE  /\ resultsLock \in Txns \union {None} /\ scaleLock \in Txns \union {None}
         /\ requestLock \in [Requests -> Txns \union {None}]
BY DEF IInv, TypeOK

(* The results granted, and read. *)
LEMMA HoldResultsIInv ==
  ASSUME IInv, NEW t \in Txns, HoldResults(t)
  PROVE  IInv'
<1>. DEFINE new == [tx[t] EXCEPT !.phase = "holding", !.rows = results]
<1>0. tx[t] \in Tx /\ Sound(t) /\ tx[t].phase = "waiting"
  BY TxTyped DEF HoldResults
<1>1. new \in Tx
  <2>1. results \in [Students -> Ledger!Result \union {None}]
    BY DEF IInv, TypeOK, Ledger!LedgerTypeOK
  <2>. QED
    BY <1>0, <2>1 DEF Tx, Phases
<1>2. tx' = [tx EXCEPT ![t] = new] /\ tx'[t] = new /\ \A u \in Txns \ {t} : tx'[u] = tx[u]
  BY DEF IInv, TypeOK, HoldResults, Becomes
<1>3. /\ new.phase = "holding" /\ new.rows = results /\ new.act = tx[t].act /\ new.who = tx[t].who
      /\ new.term = tx[t].term /\ new.req = tx[t].req /\ new.student = tx[t].student
      /\ new.after = tx[t].after /\ new.self = tx[t].self
  BY <1>0 DEF Tx
<1>. HIDE DEF new
<1>4. /\ resultsLock = None /\ resultsLock' = t /\ scaleLock' = scaleLock /\ requestLock' = requestLock
      /\ UNCHANGED <<recordVars, rosterVars, results, requests, scales>>
  BY DEF HoldResults, ResultsFree, recordVars
<1>5. Sound(t)'
  BY <1>0, <1>2, <1>3, <1>4 DEF Sound, HoldsItsLocks, ReadStands, StillPending, OwnRequest, ActSound, RaiseSound,
    DecisionSound, ResultsPhases
<1>10. \A u \in Txns \ {t} : tx[u].act = "raise" => new.req # tx[u].req
  BY <1>3, RaisesAlone
<1>. QED
  BY <1>1, <1>2, <1>3, <1>4, <1>5, <1>10, LocksTyped, StepIInv

(* A request's row granted. *)
LEMMA HoldRequestIInv ==
  ASSUME IInv, NEW t \in Txns, HoldRequest(t)
  PROVE  IInv'
<1>. DEFINE r == tx[t].req
            new == [tx[t] EXCEPT !.phase = "judging"]
<1>0. tx[t] \in Tx /\ Sound(t) /\ tx[t].phase = "deciding" /\ r \in Requests
  BY TxTyped DEF HoldRequest, Sound, ActSound, DecisionSound
<1>1. new \in Tx
  BY <1>0 DEF Tx, Phases
<1>2. tx' = [tx EXCEPT ![t] = new] /\ tx'[t] = new
  BY DEF IInv, TypeOK, HoldRequest, Becomes
<1>3. /\ new.phase = "judging" /\ new.act = tx[t].act /\ new.who = tx[t].who
      /\ new.req = r /\ new.student = tx[t].student /\ new.after = tx[t].after
  BY <1>0 DEF Tx
<1>. HIDE DEF new
<1>4. /\ requestLock[r] = None /\ requestLock' = [requestLock EXCEPT ![r] = t]
      /\ requestLock \in [Requests -> Txns \union {None}]
      /\ resultsLock' = resultsLock /\ scaleLock' = scaleLock
      /\ UNCHANGED <<recordVars, rosterVars, requests>>
  BY DEF HoldRequest, RequestFree, recordVars, IInv, TypeOK
<1>5. Sound(t)'
  BY <1>0, <1>2, <1>3, <1>4 DEF Sound, HoldsItsLocks, ReadStands, ActSound, RaiseSound, DecisionSound, ResultsPhases
<1>10. \A u \in Txns \ {t} : tx[u].act = "raise" => new.req # tx[u].req
  BY <1>3, RaisesAlone
<1>. QED
  BY <1>0, <1>1, <1>2, <1>3, <1>4, <1>5, <1>10, LocksTyped, StepIInv

(* The scale granted, and its current version read. *)
LEMMA HoldScaleIInv ==
  ASSUME IInv, NEW t \in Txns, HoldScale(t)
  PROVE  IInv'
<1>. DEFINE new == [tx[t] EXCEPT !.phase = "scaled", !.version = Len(scales)]
<1>0. tx[t] \in Tx /\ Sound(t) /\ tx[t].phase = "scaling"
  BY TxTyped DEF HoldScale
<1>1. new \in Tx
  BY <1>0, ScalesTyped DEF Tx, Phases
<1>2. tx' = [tx EXCEPT ![t] = new] /\ tx'[t] = new
  BY DEF IInv, TypeOK, HoldScale, Becomes
<1>3. /\ new.phase = "scaled" /\ new.act = tx[t].act /\ new.values = tx[t].values /\ new.req = tx[t].req
      /\ new.version = Len(scales)
  BY <1>0 DEF Tx
<1>. HIDE DEF new
<1>4. /\ scaleLock = None /\ scaleLock' = t /\ resultsLock' = resultsLock /\ requestLock' = requestLock
      /\ UNCHANGED <<recordVars, rosterVars, scales>>
  BY DEF HoldScale, recordVars
<1>5. Sound(t)'
  BY <1>0, <1>2, <1>3, <1>4 DEF Sound, HoldsItsLocks, ReadStands, ActSound, RaiseSound, DecisionSound, ResultsPhases
<1>10. \A u \in Txns \ {t} : tx[u].act = "raise" => new.req # tx[u].req
  BY <1>3, RaisesAlone
<1>. QED
  BY <1>1, <1>2, <1>3, <1>4, <1>5, <1>10, LocksTyped, StepIInv

(* The current scale version read, by whoever holds the results it goes on with. *)
LEMMA ReadScaleIInv ==
  ASSUME IInv, NEW t \in Txns, ReadScale(t)
  PROVE  IInv'
<1>. DEFINE new == [tx[t] EXCEPT !.phase = "ready", !.version = Len(scales)]
<1>0. tx[t] \in Tx /\ Sound(t) /\ tx[t].phase = "holding"
  BY TxTyped DEF ReadScale
<1>1. new \in Tx
  BY <1>0, ScalesTyped DEF Tx, Phases
<1>2. tx' = [tx EXCEPT ![t] = new] /\ tx'[t] = new /\ \A u \in Txns \ {t} : tx'[u] = tx[u]
  BY DEF IInv, TypeOK, ReadScale, Becomes
<1>3. /\ new.phase = "ready" /\ new.rows = tx[t].rows /\ new.act = tx[t].act /\ new.who = tx[t].who
      /\ new.req = tx[t].req /\ new.student = tx[t].student /\ new.after = tx[t].after
      /\ new.self = tx[t].self /\ new.version = Len(scales)
  BY <1>0 DEF Tx
<1>. HIDE DEF new
<1>4. /\ UNCHANGED <<recordVars, rosterVars, lockVars, results, requests, scales>>
      /\ resultsLock' = resultsLock /\ requestLock' = requestLock /\ scaleLock' = scaleLock
  BY DEF ReadScale, recordVars, lockVars
<1>5. /\ tx[t].act \in {"save", "raise", "approve"}
      /\ tx[t].act = "raise" => Ledger!Published(Row(t)) /\ Row(t).says # tx[t].after
      /\ tx[t].act = "approve" => TargetUnchanged(t)
  BY DEF ReadScale, Proceeds
<1>6. Row(t)' = Row(t)
  BY <1>2, <1>3 DEF Row
<1>7. HoldsItsLocks(t)' /\ ActSound(t)' /\ DecisionSound(t)'
  BY <1>0, <1>2, <1>3, <1>4, <1>5 DEF Sound, HoldsItsLocks, ActSound, DecisionSound, ResultsPhases
<1>8. ReadStands(t)'
  BY <1>0, <1>2, <1>3, <1>4, <1>5, <1>6, ScalesTyped DEF Sound, ReadStands, StillPending, OwnRequest,
    TargetUnchanged, ResultsPhases
<1>9. RaiseSound(t)'
  BY <1>0, <1>2, <1>3, <1>4, <1>5, <1>6 DEF Sound, RaiseSound
<1>10. \A u \in Txns \ {t} : tx[u].act = "raise" => new.req # tx[u].req
  BY <1>3, RaisesAlone
<1>. QED
  BY <1>1, <1>2, <1>3, <1>4, <1>7, <1>8, <1>9, <1>10, LocksTyped, StepIInv DEF Sound

(* A Publication's outlook read, and found complete. *)
LEMMA ReadOutlookIInv ==
  ASSUME IInv, NEW t \in Txns, ReadOutlook(t)
  PROVE  IInv'
<1>. DEFINE new == [tx[t] EXCEPT !.phase = "ready"]
<1>0. tx[t] \in Tx /\ Sound(t) /\ tx[t].phase = "holding" /\ tx[t].act = "publish" /\ Ready(t) # {}
  BY TxTyped DEF ReadOutlook
<1>1. new \in Tx
  BY <1>0 DEF Tx, Phases
<1>2. tx' = [tx EXCEPT ![t] = new] /\ tx'[t] = new
  BY DEF IInv, TypeOK, ReadOutlook, Becomes
<1>3. new.phase = "ready" /\ new.rows = tx[t].rows /\ new.act = "publish" /\ new.term = tx[t].term /\ new.req = tx[t].req
  BY <1>0 DEF Tx
<1>. HIDE DEF new
<1>4. /\ UNCHANGED <<recordVars, rosterVars, lockVars, results>>
      /\ resultsLock' = resultsLock /\ requestLock' = requestLock /\ scaleLock' = scaleLock
  BY DEF ReadOutlook, recordVars, lockVars
<1>5. Ready(t)' = Ready(t)
  BY <1>2, <1>3 DEF Ready, Ledger!Publishable
<1>6. Sound(t)'
  BY <1>0, <1>2, <1>3, <1>4, <1>5 DEF Sound, HoldsItsLocks, ReadStands, ActSound, RaiseSound, DecisionSound,
    ResultsPhases
<1>10. \A u \in Txns \ {t} : tx[u].act = "raise" => new.req # tx[u].req
  BY <1>3, RaisesAlone
<1>. QED
  BY <1>1, <1>2, <1>3, <1>4, <1>6, <1>10, LocksTyped, StepIInv

(* An approval judged under its request's row, now waiting for the results. *)
LEMMA JudgeIInv ==
  ASSUME IInv, NEW t \in Txns, Judge(t)
  PROVE  IInv'
<1>. DEFINE new == [tx[t] EXCEPT !.phase = "waiting", !.self = OwnRequest(t)]
<1>0. tx[t] \in Tx /\ Sound(t) /\ tx[t].phase = "judging" /\ tx[t].act = "approve" /\ StillPending(t)
  BY TxTyped DEF Judge
<1>1. new \in Tx
  <2>1. OwnRequest(t) \in BOOLEAN
    BY DEF OwnRequest
  <2>. QED
    BY <1>0, <2>1 DEF Tx, Phases
<1>2. tx' = [tx EXCEPT ![t] = new] /\ tx'[t] = new
  BY DEF IInv, TypeOK, Judge, Becomes
<1>3. /\ new.phase = "waiting" /\ new.act = "approve" /\ new.who = tx[t].who /\ new.self = OwnRequest(t)
      /\ new.req = tx[t].req /\ new.student = tx[t].student /\ new.after = tx[t].after
  BY <1>0 DEF Tx
<1>. HIDE DEF new
<1>4. /\ UNCHANGED <<recordVars, rosterVars, lockVars, requests>>
      /\ resultsLock' = resultsLock /\ requestLock' = requestLock /\ scaleLock' = scaleLock
  BY DEF Judge, recordVars, lockVars
<1>5. HoldsItsLocks(t)' /\ ActSound(t)' /\ RaiseSound(t)' /\ DecisionSound(t)'
  BY <1>0, <1>2, <1>3, <1>4 DEF Sound, HoldsItsLocks, ActSound, RaiseSound, DecisionSound, ResultsPhases
<1>6. ReadStands(t)'
  BY <1>0, <1>2, <1>3, <1>4 DEF ReadStands, StillPending, OwnRequest, ResultsPhases
<1>10. \A u \in Txns \ {t} : tx[u].act = "raise" => new.req # tx[u].req
  BY <1>3, RaisesAlone
<1>. QED
  BY <1>1, <1>2, <1>3, <1>4, <1>5, <1>6, <1>10, LocksTyped, StepIInv DEF Sound

-----------------------------------------------------------------------------
(* A result saying what it may is bound to a version just when it has a value, *)
(* and the version holds the value: its own version still does, and the        *)
(* current one does for a value newly chosen.                                  *)
LEMMA BoundHolds ==
  ASSUME IInv, NEW t \in Txns, tx[t].version \in DOMAIN scales, NEW s \in Students, NEW says \in Content,
         Allowed(t, Ledger!SaysOf(results[s]), says)
  PROVE  LET version == Bound(t, results[s], says)
         IN /\ version \in Nat
            /\ says.value = None <=> version = 0
            /\ says.value # None => Ledger!Holds(version, says.value)
            /\ Ledger!BoundTo(results[s], says, version)
<1>. DEFINE held == Ledger!SaysOf(results[s])
            version == Bound(t, results[s], says)
<1>1. tx[t].version \in Nat /\ tx[t].version # 0 /\ 0 \in Nat /\ Ledger!VersionOf(results[s]) \in Nat
  BY ScalesTyped, ResultTyped
<1>2. /\ held.value = None <=> Ledger!VersionOf(results[s]) = 0
      /\ held.value # None => Ledger!Holds(Ledger!VersionOf(results[s]), held.value)
  BY DEF IInv, ResultsBound, Ledger!SaysOf, Ledger!VersionOf, Ledger!Blank
<1>3. CASE says.value = held.value
  <2>1. version = Ledger!VersionOf(results[s])
    BY <1>3 DEF Bound
  <2>. QED
    BY <1>1, <1>2, <1>3, <2>1 DEF Ledger!BoundTo
<1>4. CASE says.value # held.value /\ says.value = None
  BY <1>1, <1>4 DEF Bound, Ledger!BoundTo
<1>5. CASE says.value # held.value /\ says.value # None
  <2>1. version = tx[t].version /\ Ledger!Holds(version, says.value)
    BY <1>5 DEF Bound, Allowed, InScale, Ledger!Holds
  <2>. QED
    BY <1>1, <1>5, <2>1 DEF Ledger!BoundTo
<1>. QED
  BY <1>3, <1>4, <1>5

(* What a save makes of a draft it applies, given that what it read stands. *)
LEMMA DraftTyped ==
  ASSUME IInv, NEW t \in Txns, tx[t].phase = "ready", tx[t].act = "save", NEW s \in Students, Applies(t, s)
  PROVE  LET draft == Draft(t, s)
         IN /\ tx[t].rows = results
            /\ draft \in Ledger!Result /\ draft # None /\ ~draft.published
            /\ draft.says = tx[t].want[s] /\ tx[t].want[s] # Ledger!SaysOf(results[s])
            /\ ~Ledger!Published(results[s]) /\ Ledger!SaysOf(results[s]) = tx[t].view[s]
            /\ draft.says.value = None <=> draft.version = 0
            /\ draft.says.value # None => Ledger!Holds(draft.version, draft.says.value)
            /\ Ledger!BoundTo(results[s], draft.says, draft.version)
            /\ Ledger!RecordOf(draft) \in Ledger!Recorded
<1>. DEFINE want == tx[t].want[s]
            version == Bound(t, results[s], want)
<1>1. tx[t].rows = results /\ tx[t].version \in DOMAIN scales /\ want \in Content \union {None}
  BY TxTyped DEF Sound, ReadStands, ResultsPhases, Tx
<1>2. /\ want \in Content /\ ~Ledger!Published(results[s]) /\ Ledger!SaysOf(results[s]) = tx[t].view[s]
      /\ want # Ledger!SaysOf(results[s]) /\ Allowed(t, Ledger!SaysOf(results[s]), want)
  BY <1>1 DEF Applies
<1>3. /\ version \in Nat
      /\ want.value = None <=> version = 0
      /\ want.value # None => Ledger!Holds(version, want.value)
      /\ Ledger!BoundTo(results[s], want, version)
  BY <1>1, <1>2, BoundHolds
<1>4. Draft(t, s) = [says |-> want, version |-> version, published |-> FALSE]
  BY <1>1 DEF Draft
<1>. HIDE DEF want, version
<1>5. /\ Draft(t, s).says = want /\ Draft(t, s).version = version /\ ~Draft(t, s).published
      /\ Draft(t, s) \in Ledger!Result /\ Ledger!RecordOf(Draft(t, s)) \in Ledger!Recorded
  BY <1>2, <1>3, <1>4 DEF Ledger!Result, Ledger!RecordOf, Ledger!Recorded, Content
<1>. QED
  BY <1>1, <1>2, <1>3, <1>5, NoneIsNothing DEF want

(* A save's commit keeps the invariant. *)
LEMMA CommitSaveIInv ==
  ASSUME IInv, NEW t \in Txns, CommitSave(t)
  PROVE  IInv'
<1>1. /\ tx[t].phase = "ready" /\ tx[t].act = "save" /\ Ended(t) /\ tx[t].rows = results
      /\ UNCHANGED <<scales, requests, termLast, rosteredTo, rosterMoves, termMoves>>
  BY TxTyped DEF CommitSave, rosterVars, Sound, ReadStands, ResultsPhases
<1>2. \A s \in Students :
        /\ results'[s] = IF Applies(t, s) THEN Draft(t, s) ELSE results[s]
        /\ audit'[s] = IF Audits(t, s) THEN SaveRecord(t, s) ELSE audit[s]
  BY DEF CommitSave
<1>3. ASSUME NEW s \in Students
      PROVE  /\ results'[s] \in Ledger!Result \union {None}
             /\ audit'[s] \in (Ledger!Recorded \X Ledger!Recorded) \union {None}
             /\ results'[s] # None =>
                  /\ results'[s].says.value = None <=> results'[s].version = 0
                  /\ results'[s].says.value # None => Ledger!Holds(results'[s].version, results'[s].says.value)
                  /\ results'[s].published => results'[s].says.value # None
             /\ audit'[s] # None => results'[s] # None /\ audit'[s][2] = Ledger!RecordOf(results'[s])
             /\ Ledger!Published(results[s]) => Ledger!Published(results'[s])
  <2>1. /\ results[s] \in Ledger!Result \union {None}
        /\ audit[s] # None => results[s] # None /\ audit[s][2] = Ledger!RecordOf(results[s])
        /\ audit[s] \in (Ledger!Recorded \X Ledger!Recorded) \union {None}
    BY ResultTyped DEF IInv, TypeOK, Ledger!LedgerTypeOK
  <2>2. CASE ~Applies(t, s)
    <3>1. results'[s] = results[s] /\ audit'[s] = audit[s]
      BY <1>2, <2>2 DEF Audits
    <3>. QED
      BY <2>1, <3>1 DEF IInv, ResultsBound
  <2>3. CASE Applies(t, s)
    <3>. DEFINE draft == Draft(t, s)
    <3>1. /\ results'[s] = draft /\ draft \in Ledger!Result /\ draft # None /\ ~draft.published
          /\ ~Ledger!Published(results[s])
          /\ draft.says.value = None <=> draft.version = 0
          /\ draft.says.value # None => Ledger!Holds(draft.version, draft.says.value)
          /\ Ledger!RecordOf(draft) \in Ledger!Recorded
      BY <1>1, <1>2, <2>3, DraftTyped
    <3>. HIDE DEF draft
    <3>2. CASE results[s] = None
      <4>1. audit[s] = None /\ audit'[s] = audit[s]
        BY <1>1, <1>2, <2>1, <3>2 DEF Audits
      <4>. QED
        BY <3>1, <4>1
    <3>3. CASE results[s] # None
      <4>1. audit'[s] = <<Ledger!RecordOf(results[s]), Ledger!RecordOf(draft)>>
        BY <1>1, <1>2, <2>3, <3>3 DEF Audits, SaveRecord, draft
      <4>2. Ledger!RecordOf(results[s]) \in Ledger!Recorded
        BY <2>1, <3>3 DEF Ledger!RecordOf, Ledger!Recorded, Ledger!Result
      <4>. QED
        BY <3>1, <4>1, <4>2
    <3>. QED
      BY <3>2, <3>3
  <2>. QED
    BY <2>2, <2>3
<1>4. Ledger!LedgerTypeOK'
  <2>1. results' = [s \in Students |-> results'[s]] /\ audit' = [s \in Students |-> audit'[s]]
    BY DEF CommitSave
  <2>2. results' \in [Students -> Ledger!Result \union {None}]
        /\ audit' \in [Students -> (Ledger!Recorded \X Ledger!Recorded) \union {None}]
    BY <1>3, <2>1
  <2>. QED
    BY <1>1, <2>2 DEF IInv, TypeOK, Ledger!LedgerTypeOK
<1>5. TypeOK'
  BY <1>1, <1>4, EndedTyped DEF IInv, TypeOK
<1>6. TxSound'
  BY <1>1, EndedSound DEF ResultsPhases
<1>7. RequestsSound'
  BY <1>1, <1>3 DEF IInv, RequestsSound
<1>8. ResultsBound' /\ TrailSound'
  <2>1. DOMAIN scales' = DOMAIN scales /\ scales' = scales
    BY <1>1
  <2>. QED
    BY <1>3, <2>1 DEF ResultsBound, Ledger!Holds, TrailSound, TrailLeadsToTheResult
<1>. QED
  BY <1>5, <1>6, <1>7, <1>8 DEF IInv

(* What a Publication makes of one result: whatever has a value is published, *)
(* and nothing else of it changes.                                            *)
LEMMA PublishedTyped ==
  ASSUME IInv, NEW t \in Txns, CommitPublication(t), NEW s \in Students
  PROVE  /\ Ready(t) = {q \in Students : Ledger!Publishable(results[q])} /\ Ready(t) # {}
         /\ Ledger!Publishable(results[s]) =>
              /\ results'[s] = [results[s] EXCEPT !.published = TRUE]
              /\ results'[s] \in Ledger!Result /\ results'[s].says = results[s].says
              /\ results'[s].version = results[s].version /\ results'[s].published
         /\ ~Ledger!Publishable(results[s]) => results'[s] = results[s]
<1>1. tx[t].rows = results /\ Ready(t) # {}
  BY TxTyped DEF CommitPublication, Sound, ReadStands, ActSound, ResultsPhases
<1>2. Ready(t) = {q \in Students : Ledger!Publishable(results[q])}
  BY <1>1 DEF Ready
<1>3. results'[s] = IF Ledger!Publishable(results[s]) THEN [results[s] EXCEPT !.published = TRUE] ELSE results[s]
  BY <1>2 DEF CommitPublication, Publishes
<1>4. Ledger!Publishable(results[s]) => results[s] \in Ledger!Result
  BY ResultTyped DEF Ledger!Publishable
<1>. QED
  BY <1>1, <1>2, <1>3, <1>4 DEF Ledger!Result

(* A Publication's commit keeps the invariant. *)
LEMMA CommitPublicationIInv ==
  ASSUME IInv, NEW t \in Txns, CommitPublication(t)
  PROVE  IInv'
<1>1. /\ tx[t].phase = "ready" /\ Ended(t)
      /\ UNCHANGED <<audit, scales, requests, termLast, rosteredTo, rosterMoves, termMoves>>
  BY DEF CommitPublication, rosterVars
<1>2. ASSUME NEW s \in Students
      PROVE  /\ results'[s] \in Ledger!Result \union {None}
             /\ results'[s] # None =>
                  /\ results'[s].says.value = None <=> results'[s].version = 0
                  /\ results'[s].says.value # None => Ledger!Holds(results'[s].version, results'[s].says.value)
                  /\ results'[s].published => results'[s].says.value # None
             /\ audit'[s] # None => results'[s] # None /\ audit'[s][2] = Ledger!RecordOf(results'[s])
             /\ Ledger!Published(results[s]) => Ledger!Published(results'[s])
  <2>1. CASE Ledger!Publishable(results[s])
    <3>1. /\ results'[s] \in Ledger!Result /\ results'[s] # None /\ results'[s].says = results[s].says
          /\ results'[s].version = results[s].version /\ results'[s].published
      BY <2>1, PublishedTyped, NoneIsNothing
    <3>2. Ledger!RecordOf(results'[s]) = Ledger!RecordOf(results[s]) /\ audit'[s] = audit[s]
      BY <1>1, <3>1 DEF Ledger!RecordOf
    <3>3. results[s] # None /\ results[s].says.value # None
      BY <2>1 DEF Ledger!Publishable
    <3>. QED
      BY <3>1, <3>2, <3>3, ResultTyped DEF IInv, ResultsBound, Ledger!Published
  <2>2. CASE ~Ledger!Publishable(results[s])
    <3>1. results'[s] = results[s] /\ audit'[s] = audit[s]
      BY <1>1, <2>2, PublishedTyped
    <3>. QED
      BY <3>1, ResultTyped DEF IInv, ResultsBound
  <2>. QED
    BY <2>1, <2>2
<1>3. TypeOK'
  <2>1. results' = [s \in Students |-> results'[s]]
    BY DEF CommitPublication
  <2>2. results' \in [Students -> Ledger!Result \union {None}]
    BY <1>2, <2>1
  <2>. QED
    BY <1>1, <2>2, EndedTyped DEF IInv, TypeOK, Ledger!LedgerTypeOK
<1>4. TxSound'
  BY <1>1, EndedSound DEF ResultsPhases
<1>5. RequestsSound'
  BY <1>1, <1>2 DEF IInv, RequestsSound
<1>6. ResultsBound' /\ TrailSound'
  <2>1. scales' = scales
    BY <1>1
  <2>. QED
    BY <1>2, <2>1 DEF ResultsBound, Ledger!Holds, TrailSound, TrailLeadsToTheResult
<1>. QED
  BY <1>3, <1>4, <1>5, <1>6 DEF IInv

(* A raise's commit keeps it: the request names a published result it would change. *)
LEMMA CommitRaiseIInv ==
  ASSUME IInv, NEW t \in Txns, CommitRaise(t)
  PROVE  IInv'
<1>. DEFINE r == tx[t].req
            s == tx[t].student
            raised == [state |-> "pending", student |-> s, before |-> Row(t).says, after |-> tx[t].after,
                       by |-> tx[t].who, decidedBy |-> None, self |-> FALSE]
<1>1. /\ tx[t].act = "raise" /\ Ended(t) /\ requests' = [requests EXCEPT ![r] = raised]
      /\ UNCHANGED <<results, audit, scales, termLast, rosteredTo, rosterMoves, termMoves>>
  BY DEF CommitRaise, rosterVars
<1>2. /\ r \in Requests /\ s \in Students /\ tx[t].who \in Persons /\ tx[t].after \in Ledger!PublishedContent
      /\ requests[r].state = "none" /\ Row(t) = results[s]
      /\ Ledger!Published(results[s]) /\ results[s].says # tx[t].after
  BY TxTyped DEF CommitRaise, Sound, ReadStands, RaiseSound, Row, ResultsPhases
<1>3. results[s].says \in Ledger!PublishedContent
  BY <1>2, ResultTyped
<1>4. raised \in Ledger!Request
  BY <1>2, <1>3 DEF Ledger!Request, Ledger!States
<1>5. /\ raised.state = "pending" /\ raised.student = s /\ raised.before = results[s].says
      /\ raised.after = tx[t].after /\ raised.by = tx[t].who
  BY <1>2
<1>. HIDE DEF raised, r
<1>6. /\ requests' \in [Requests -> Ledger!Request] /\ requests'[r] = raised
      /\ \A q \in Requests : q # r => requests'[q] = requests[q]
  BY <1>1, <1>2, <1>4 DEF IInv, TypeOK, Ledger!LedgerTypeOK
<1>7. TypeOK'
  BY <1>1, <1>6, EndedTyped DEF IInv, TypeOK, Ledger!LedgerTypeOK
<1>8. TxSound'
  BY <1>1, <1>2, <1>6, EndedSound DEF r
<1>9. RequestsSound'
  BY <1>1, <1>2, <1>3, <1>5, <1>6 DEF IInv, RequestsSound
<1>10. ResultsBound' /\ TrailSound'
  BY <1>1 DEF IInv, ResultsBound, Ledger!Holds, TrailSound, TrailLeadsToTheResult
<1>. QED
  BY <1>7, <1>8, <1>9, <1>10 DEF IInv

(* What a decision makes of its request: another state, and by whom. *)
LEMMA DecidedTyped ==
  ASSUME IInv, NEW t \in Txns, HasItsRequest(t), NEW state \in Ledger!States, state # "none",
         NEW self \in BOOLEAN,
         requests' = [requests EXCEPT ![tx[t].req].state = state, ![tx[t].req].decidedBy = tx[t].who,
                                      ![tx[t].req].self = self]
  PROVE  /\ tx[t].req \in Requests
         /\ requests' \in [Requests -> Ledger!Request]
         /\ requests'[tx[t].req].state = state
         /\ \A q \in Requests \ {tx[t].req} : requests'[q] = requests[q]
         /\ \A q \in Requests :
              /\ requests'[q].student = requests[q].student /\ requests'[q].before = requests[q].before
              /\ requests'[q].after = requests[q].after /\ requests'[q].by = requests[q].by
              /\ requests'[q].state # "none" <=> requests[q].state # "none"
<1>. DEFINE r == tx[t].req
            decided == [requests[r] EXCEPT !.state = state, !.decidedBy = tx[t].who, !.self = self]
<1>1. r \in Requests /\ requests[r].state # "none" /\ tx[t].who \in Persons
  BY TxTyped DEF HasItsRequest, Approving, Sound, ActSound, DecisionSound
<1>2. requests \in [Requests -> Ledger!Request] /\ requests[r] \in Ledger!Request
  BY <1>1 DEF IInv, TypeOK, Ledger!LedgerTypeOK
<1>3. decided \in Ledger!Request
  BY <1>1, <1>2 DEF Ledger!Request
<1>4. requests' = [requests EXCEPT ![r] = decided]
  BY <1>1, <1>2
<1>5. /\ decided.state = state /\ decided.student = requests[r].student
      /\ decided.before = requests[r].before /\ decided.after = requests[r].after /\ decided.by = requests[r].by
  BY <1>2 DEF Ledger!Request
<1>. HIDE DEF decided
<1>6. requests'[r] = decided /\ \A q \in Requests \ {r} : requests'[q] = requests[q]
  BY <1>1, <1>2, <1>4
<1>7. requests' \in [Requests -> Ledger!Request]
  <2>. HIDE DEF r
  <2>. QED
    BY ONLY <1>1, <1>2, <1>3, <1>4
<1>. QED
  BY <1>1, <1>5, <1>6, <1>7

(* A rejection or a withdrawal keeps the invariant. *)
LEMMA CommitDecisionIInv ==
  ASSUME IInv, NEW t \in Txns, CommitDecision(t)
  PROVE  IInv'
<1>1. /\ tx[t].phase = "judging" /\ HasItsRequest(t) /\ Ended(t)
      /\ UNCHANGED <<results, audit, scales, termLast, rosteredTo, rosterMoves, termMoves>>
  BY DEF CommitDecision, HasItsRequest, rosterVars
<1>2. PICK state \in {"rejected", "withdrawn"} :
        requests' = [requests EXCEPT ![tx[t].req].state = state, ![tx[t].req].decidedBy = tx[t].who]
  BY DEF CommitDecision
<1>3. tx[t].req \in Requests /\ requests[tx[t].req] \in Ledger!Request
  BY <1>1, TxTyped, RequestTyped DEF Sound, ActSound, DecisionSound
<1>4. requests' = [requests EXCEPT ![tx[t].req].state = state, ![tx[t].req].decidedBy = tx[t].who,
                                   ![tx[t].req].self = requests[tx[t].req].self]
  BY <1>2, <1>3 DEF Ledger!Request, IInv, TypeOK, Ledger!LedgerTypeOK
<1>5. requests[tx[t].req].self \in BOOLEAN /\ state \in Ledger!States /\ state # "none"
  BY <1>3 DEF Ledger!Request, Ledger!States
<1>6. TypeOK'
  BY <1>1, <1>4, <1>5, DecidedTyped, EndedTyped DEF IInv, TypeOK, Ledger!LedgerTypeOK
<1>7. TxSound'
  BY <1>1, <1>4, <1>5, DecidedTyped, EndedSound
<1>8. RequestsSound'
  <2>1. \A q \in Requests :
          /\ requests'[q].student = requests[q].student /\ requests'[q].before = requests[q].before
          /\ requests'[q].after = requests[q].after /\ requests'[q].by = requests[q].by
          /\ requests'[q].state # "none" <=> requests[q].state # "none"
    BY <1>1, <1>4, <1>5, DecidedTyped
  <2>. QED
    BY <1>1, <2>1 DEF IInv, RequestsSound
<1>9. ResultsBound' /\ TrailSound'
  BY <1>1 DEF IInv, ResultsBound, Ledger!Holds, TrailSound, TrailLeadsToTheResult
<1>. QED
  BY <1>6, <1>7, <1>8, <1>9 DEF IInv

(* What an approval commits: the corrected result, its Audit record and its *)
(* request, all of what it read still standing.                             *)
LEMMA ApprovalTyped ==
  ASSUME IInv, NEW t \in Txns, CommitApproval(t)
  PROVE  LET s == tx[t].student
             r == tx[t].req
             after == tx[t].after
             version == Bound(t, results[s], after)
             corrected == [says |-> after, version |-> version, published |-> TRUE]
         IN /\ r \in Requests /\ s \in Students /\ after \in Ledger!PublishedContent
            /\ s = requests[r].student /\ after = requests[r].after
            /\ requests[r].state = "pending" /\ results[s].says = requests[r].before
            /\ Ledger!Published(results[s]) /\ tx[t].self = OwnRequest(t)
            /\ version \in Nat /\ after.value # None /\ version # 0
            /\ Ledger!Holds(version, after.value) /\ Ledger!BoundTo(results[s], after, version)
            /\ corrected \in Ledger!Result /\ corrected # None
            /\ results' = [results EXCEPT ![s] = corrected]
            /\ audit' = [audit EXCEPT ![s] = <<Ledger!RecordOf(results[s]), Ledger!RecordOf(corrected)>>]
            /\ <<Ledger!RecordOf(results[s]), Ledger!RecordOf(corrected)>> \in Ledger!Recorded \X Ledger!Recorded
<1>. DEFINE s == tx[t].student
            r == tx[t].req
            after == tx[t].after
            version == Bound(t, results[s], after)
            corrected == [says |-> after, version |-> version, published |-> TRUE]
<1>1. /\ tx[t].phase = "ready" /\ tx[t].act = "approve" /\ Allowed(t, Row(t).says, after)
      /\ results' = [results EXCEPT ![s] = [says |-> after, version |-> Bound(t, Row(t), after), published |-> TRUE]]
      /\ audit' = [audit EXCEPT ![s] = <<Ledger!RecordOf(Row(t)),
           Ledger!RecordOf([says |-> after, version |-> Bound(t, Row(t), after), published |-> TRUE])>>]
  BY Zenon DEF CommitApproval
<1>2. /\ r \in Requests /\ requests[r].state = "pending" /\ s = requests[r].student /\ after = requests[r].after
      /\ tx[t].rows = results /\ tx[t].version \in DOMAIN scales /\ tx[t].self = OwnRequest(t)
      /\ Row(t).says = requests[r].before
  BY <1>1, TxTyped DEF Sound, ReadStands, DecisionSound, StillPending, TargetUnchanged, ResultsPhases
<1>3. /\ s \in Students /\ after \in Ledger!PublishedContent /\ Ledger!Published(results[s])
  BY <1>2, RequestTyped
<1>4. Row(t) = results[s] /\ Ledger!SaysOf(results[s]) = results[s].says /\ results[s] \in Ledger!Result
  BY <1>2, <1>3, ResultTyped DEF Row, Ledger!SaysOf, Ledger!Published
<1>5. after \in Content /\ after.value # None
  BY <1>3, TermResultsAssumption DEF Ledger!PublishedContent, Content, Ledger!Content
<1>6. /\ version \in Nat /\ version # 0
      /\ Ledger!Holds(version, after.value) /\ Ledger!BoundTo(results[s], after, version)
  BY <1>1, <1>2, <1>3, <1>4, <1>5, BoundHolds, ZenonT(60)
<1>7. /\ corrected \in Ledger!Result /\ corrected # None
      /\ Ledger!RecordOf(corrected) \in Ledger!Recorded /\ Ledger!RecordOf(results[s]) \in Ledger!Recorded
  <2>. HIDE DEF version
  <2>1. corrected \in Ledger!Result
    BY <1>5, <1>6 DEF Ledger!Result, Content
  <2>2. \A result \in Ledger!Result : Ledger!RecordOf(result) \in Ledger!Recorded
    BY DEF Ledger!Result, Ledger!RecordOf, Ledger!Recorded
  <2>. QED
    BY <1>4, <2>1, <2>2, NoneIsNothing
<1>. HIDE DEF version, corrected
<1>8. /\ results' = [results EXCEPT ![s] = corrected]
      /\ audit' = [audit EXCEPT ![s] = <<Ledger!RecordOf(results[s]), Ledger!RecordOf(corrected)>>]
  BY <1>1, <1>4 DEF version, corrected
<1>. QED
  BY <1>2, <1>3, <1>4, <1>5, <1>6, <1>7, <1>8 DEF version, corrected

(* An approval's commit keeps the invariant. *)
LEMMA CommitApprovalIInv ==
  ASSUME IInv, NEW t \in Txns, CommitApproval(t)
  PROVE  IInv'
<1>. DEFINE s == tx[t].student
            r == tx[t].req
            after == tx[t].after
            version == Bound(t, results[s], after)
            corrected == [says |-> after, version |-> version, published |-> TRUE]
            record == <<Ledger!RecordOf(results[s]), Ledger!RecordOf(corrected)>>
<1>1. /\ tx[t].phase = "ready" /\ HasItsRequest(t) /\ Ended(t)
      /\ UNCHANGED <<scales, termLast, rosteredTo, rosterMoves, termMoves>>
      /\ requests' = [requests EXCEPT ![r].state = "approved", ![r].decidedBy = tx[t].who,
                                      ![r].self = tx[t].self]
  BY DEF CommitApproval, HasItsRequest, Approving, rosterVars
<1>2. "approved" \in Ledger!States /\ tx[t].self \in BOOLEAN
  BY TxTyped DEF Ledger!States, Tx
<1>3. /\ s \in Students /\ after.value # None /\ version # 0 /\ Ledger!Holds(version, after.value)
      /\ corrected \in Ledger!Result /\ corrected # None
      /\ results' = [results EXCEPT ![s] = corrected] /\ audit' = [audit EXCEPT ![s] = record]
      /\ record \in Ledger!Recorded \X Ledger!Recorded
  BY ApprovalTyped
<1>4. corrected.says = after /\ corrected.version = version /\ corrected.published
      /\ record[2] = Ledger!RecordOf(corrected)
  OBVIOUS
<1>. HIDE DEF version, corrected, record
<1>5. /\ results' \in [Students -> Ledger!Result \union {None}] /\ results'[s] = corrected /\ audit'[s] = record
      /\ audit' \in [Students -> (Ledger!Recorded \X Ledger!Recorded) \union {None}]
      /\ \A q \in Students : q # s => results'[q] = results[q] /\ audit'[q] = audit[q]
  BY <1>3 DEF IInv, TypeOK, Ledger!LedgerTypeOK
<1>6. TypeOK'
  BY <1>1, <1>2, <1>5, DecidedTyped, EndedTyped, Zenon DEF IInv, TypeOK, Ledger!LedgerTypeOK
<1>7. TxSound'
  BY <1>1, <1>2, DecidedTyped, EndedSound, Zenon DEF ResultsPhases
<1>8. RequestsSound'
  <2>1. \A q \in Requests :
          /\ requests'[q].student = requests[q].student /\ requests'[q].before = requests[q].before
          /\ requests'[q].after = requests[q].after /\ requests'[q].by = requests[q].by
          /\ requests'[q].state # "none" <=> requests[q].state # "none"
    BY <1>1, <1>2, DecidedTyped
  <2>2. \A p \in Students : Ledger!Published(results[p]) => Ledger!Published(results'[p])
    BY <1>3, <1>4, <1>5 DEF Ledger!Published
  <2>. QED
    BY <2>1, <2>2 DEF IInv, RequestsSound
<1>9. ResultsBound'
  <2>1. scales' = scales
    BY <1>1
  <2>2. SUFFICES ASSUME NEW q \in Students, results'[q] # None
                 PROVE  /\ results'[q].says.value = None <=> results'[q].version = 0
                        /\ results'[q].says.value # None =>
                             Ledger!Holds(results'[q].version, results'[q].says.value)
                        /\ results'[q].published => results'[q].says.value # None
    BY <2>1 DEF ResultsBound, Ledger!Holds
  <2>3. CASE q = s
    BY <1>3, <1>4, <1>5, <2>3
  <2>4. CASE q # s
    BY <1>5, <2>2, <2>4 DEF IInv, ResultsBound
  <2>. QED
    BY <2>3, <2>4
<1>10. TrailSound'
  <2>1. SUFFICES ASSUME NEW q \in Students, audit'[q] # None
                 PROVE  results'[q] # None /\ audit'[q][2] = Ledger!RecordOf(results'[q])
    BY DEF TrailSound, TrailLeadsToTheResult
  <2>. QED
    BY <1>3, <1>4, <1>5, <2>1, ResultTyped
<1>. QED
  BY <1>6, <1>7, <1>8, <1>9, <1>10 DEF IInv

(* A new version of the scale keeps it: the versions before are what they were. *)
LEMMA CommitScaleIInv ==
  ASSUME IInv, NEW t \in Txns, CommitScale(t)
  PROVE  IInv'
<1>1. /\ tx[t].phase = "scaled" /\ Ended(t)
      /\ UNCHANGED <<results, audit, requests, termLast, rosteredTo, rosterMoves, termMoves>>
  BY DEF CommitScale, rosterVars
<1>2. tx[t].version = Len(scales) /\ tx[t].values \in Scales
  BY <1>1, TxTyped DEF Sound, ReadStands, ActSound, Tx
<1>3. scales' = Append(scales, tx[t].values)
  BY <1>2, ScalesTyped, SubSeqFull DEF CommitScale
<1>4. /\ scales' \in Seq(Scales) /\ scales' # <<>> /\ DOMAIN scales \subseteq DOMAIN scales'
      /\ \A version \in DOMAIN scales : scales'[version] = scales[version]
  BY <1>2, <1>3, ScalesTyped, AppendProperties
<1>5. TypeOK'
  BY <1>1, <1>4, EndedTyped DEF IInv, TypeOK, Ledger!LedgerTypeOK
<1>6. TxSound'
  BY <1>1, <1>4, EndedSound
<1>7. RequestsSound' /\ ResultsBound' /\ TrailSound'
  BY <1>1, <1>4 DEF IInv, RequestsSound, ResultsBound, Ledger!Holds, TrailSound, TrailLeadsToTheResult
<1>. QED
  BY <1>5, <1>6, <1>7 DEF IInv

-----------------------------------------------------------------------------
(* The roster and the Term are no part of what the invariant relies on. *)
LEMMA RosterIInv ==
  ASSUME IInv, UNCHANGED <<recordVars, lockVars, tx>>,
         termLast' \in Ends, rosteredTo' \in [Students -> 0..Open],
         rosterMoves' \in 0..MaxRosterMoves, termMoves' \in 0..MaxTermMoves
  PROVE  IInv'
<1>1. UNCHANGED <<results, audit, scales, requests, resultsLock, scaleLock, requestLock, tx>>
  BY DEF recordVars, lockVars
<1>2. TypeOK'
  BY <1>1 DEF IInv, TypeOK, Ledger!LedgerTypeOK
<1>3. TxSound'
  BY <1>1 DEF IInv, TxSound, Sound, HoldsItsLocks, ReadStands, StillPending, OwnRequest, TargetUnchanged, Row,
    ActSound, Ready, RaiseSound, DecisionSound
<1>4. RequestsSound' /\ ResultsBound' /\ TrailSound'
  BY <1>1 DEF IInv, RequestsSound, ResultsBound, Ledger!Holds, TrailSound, TrailLeadsToTheResult
<1>. QED
  BY <1>2, <1>3, <1>4 DEF IInv

(* A Roster membership moved keeps the invariant, and so does the Term. *)
LEMMA MoveIInv ==
  ASSUME IInv, \/ \E s \in Students, to \in 0..Open : MoveRoster(s, to)
               \/ \E to \in Ends : MoveTerm(to)
  PROVE  IInv'
<1>1. ASSUME NEW s \in Students, NEW to \in 0..Open, MoveRoster(s, to) PROVE IInv'
  <2>1. rosterMoves' \in 0..MaxRosterMoves /\ rosteredTo' \in [Students -> 0..Open]
    BY <1>1, TermResultsAssumption DEF MoveRoster, IInv, TypeOK
  <2>. QED
    BY <1>1, <2>1, RosterIInv DEF MoveRoster, IInv, TypeOK
<1>2. ASSUME NEW to \in Ends, MoveTerm(to) PROVE IInv'
  <2>1. termMoves' \in 0..MaxTermMoves
    BY <1>2, TermResultsAssumption DEF MoveTerm, IInv, TypeOK
  <2>. QED
    BY <1>2, <2>1, RosterIInv DEF MoveTerm, IInv, TypeOK
<1>. QED
  BY <1>1, <1>2

(* And so does a step of something else. *)
LEMMA StutterIInv ==
  ASSUME IInv, UNCHANGED vars
  PROVE  IInv'
BY RosterIInv DEF vars, rosterVars, IInv, TypeOK

(* Every first step of a transaction keeps the invariant. *)
LEMMA StartIInv ==
  ASSUME IInv, NEW t \in Txns, Start(t)
  PROVE  IInv'
<1>1. CASE \E want \in [Students -> Content \union {None}] : BeginSave(t, want)
  BY <1>1, BeginSaveIInv
<1>2. CASE \E p \in Persons, r \in Requests, s \in Students, after \in Ledger!PublishedContent :
             BeginRaise(t, p, r, s, after)
  BY <1>2, BeginRaiseIInv
<1>3. CASE \E p \in Persons, r \in Requests, act \in {"approve", "reject", "withdraw"} :
             BeginDecide(t, p, r, act)
  BY <1>3, BeginDecideIInv
<1>4. CASE \E values \in Scales : BeginScale(t, values)
  BY <1>4, BeginScaleIInv
<1>. QED
  BY <1>1, <1>2, <1>3, <1>4, LoadIInv, BeginPublishIInv DEF Start

(* Every step keeps the invariant. *)
LEMMA NextIInv ==
  ASSUME IInv, [Next]_vars
  PROVE  IInv'
<1>1. ASSUME NEW t \in Txns, Start(t) PROVE IInv'
  BY <1>1, StartIInv
<1>2. ASSUME NEW t \in Txns, Acquire(t) PROVE IInv'
  BY <1>2, HoldResultsIInv, HoldRequestIInv, HoldScaleIInv DEF Acquire
<1>3. ASSUME NEW t \in Txns, Proceed(t) PROVE IInv'
  BY <1>3, ReadScaleIInv, ReadOutlookIInv, JudgeIInv, CommitSaveIInv, CommitPublicationIInv, CommitRaiseIInv,
    CommitDecisionIInv, CommitApprovalIInv, CommitScaleIInv, RolledBackIInv DEF Proceed, Refuse
<1>4. ASSUME NEW t \in Txns, Abort(t) PROVE IInv'
  BY <1>4, RolledBackIInv DEF Abort
<1>. QED
  BY <1>1, <1>2, <1>3, <1>4, MoveIInv, StutterIInv DEF Next

-----------------------------------------------------------------------------
(* The inductive invariant: types, locks held where they are relied on,     *)
(* what was read under them still true at the commit, requests that name    *)
(* published results, results bound to versions that hold their values, and *)
(* trails that lead to them (term-result and scale routes, through their    *)
(* every interleaving).                                                     *)
THEOREM ResultsInvariance == Spec => []IInv
<1>. QED
  BY InitIInv, NextIInv, PTL DEF Spec

(* Every variable keeps its type, whatever the offering's size. *)
THEOREM ResultsTyped == Spec => []TypeOK
<1>1. IInv => TypeOK
  BY DEF IInv
<1>. QED
  BY <1>1, ResultsInvariance, PTL

(* However the scale is saved meanwhile, a result is bound to a version that *)
(* holds its value, and a published one has a value (boundValueId).          *)
THEOREM ResultsStayBound == Spec => []ResultsBound
<1>1. IInv => ResultsBound
  BY DEF IInv
<1>. QED
  BY <1>1, ResultsInvariance, PTL

(* A result's latest Audit record says what the result says, bound to what  *)
(* it is bound to (recordResultChange), for any number of concurrent saves, *)
(* Publications and approvals.                                              *)
THEOREM TrailsLeadToResults == Spec => []TrailLeadsToTheResult
<1>1. IInv => TrailLeadsToTheResult
  BY DEF IInv, TrailSound
<1>. QED
  BY <1>1, ResultsInvariance, PTL

-----------------------------------------------------------------------------
(* Only six commits change a result, its Audit record, the scale or a request. *)
LEMMA Writers ==
  ASSUME [Next]_vars
  PROVE  \/ \E t \in Txns : \/ CommitSave(t) \/ CommitPublication(t) \/ CommitRaise(t)
                            \/ CommitDecision(t) \/ CommitApproval(t) \/ CommitScale(t)
         \/ UNCHANGED recordVars
<1>1. ASSUME NEW t \in Txns, Start(t) PROVE UNCHANGED recordVars
  BY <1>1 DEF Start, Load, BeginSave, BeginPublish, BeginRaise, BeginDecide, BeginScale
<1>2. ASSUME NEW t \in Txns, Acquire(t) PROVE UNCHANGED recordVars
  BY <1>2 DEF Acquire, HoldResults, HoldRequest, HoldScale
<1>3. ASSUME NEW t \in Txns, ReadScale(t) \/ ReadOutlook(t) \/ Judge(t) \/ Refuse(t) \/ Abort(t)
      PROVE  UNCHANGED recordVars
  BY <1>3 DEF ReadScale, ReadOutlook, Judge, Refuse, Abort, RolledBack
<1>4. (\E s \in Students, to \in 0..Open : MoveRoster(s, to)) \/ (\E to \in Ends : MoveTerm(to)) \/ UNCHANGED vars
        => UNCHANGED recordVars
  BY DEF MoveRoster, MoveTerm, vars
<1>. QED
  BY <1>1, <1>2, <1>3, <1>4 DEF Next, Proceed

(* What each of the six is in the ledger.  A save: *)
LEMMA SaveIsLedgerSave ==
  ASSUME IInv, NEW t \in Txns, CommitSave(t)
  PROVE  Ledger!Save
<1>1. /\ tx[t].phase = "ready" /\ tx[t].act = "save" /\ tx[t].rows = results
      /\ UNCHANGED <<scales, requests>>
      /\ \A s \in Students : results'[s] = IF Applies(t, s) THEN Draft(t, s) ELSE results[s]
      /\ audit' = [s \in Students |-> IF Audits(t, s) THEN SaveRecord(t, s) ELSE audit[s]]
  BY TxTyped DEF CommitSave, Sound, ReadStands, ResultsPhases
<1>2. ASSUME NEW s \in Students
      PROVE  /\ s \in Ledger!Changed <=> Applies(t, s)
             /\ Applies(t, s) =>
                  /\ results'[s] # None /\ ~Ledger!Published(results[s]) /\ ~Ledger!Published(results'[s])
                  /\ Ledger!BoundTo(results[s], results'[s].says, results'[s].version)
                  /\ results'[s] = Draft(t, s)
  <2>1. CASE ~Applies(t, s)
    BY <1>1, <2>1 DEF Ledger!Changed
  <2>2. CASE Applies(t, s)
    <3>. DEFINE draft == Draft(t, s)
    <3>1. /\ results'[s] = draft /\ draft # None /\ ~draft.published /\ ~Ledger!Published(results[s])
          /\ draft.says = tx[t].want[s] /\ tx[t].want[s] # Ledger!SaysOf(results[s])
          /\ Ledger!BoundTo(results[s], draft.says, draft.version)
      BY <1>1, <2>2, DraftTyped
    <3>. HIDE DEF draft
    <3>2. results'[s] # results[s]
      BY <3>1 DEF Ledger!SaysOf
    <3>. QED
      BY <2>2, <3>1, <3>2 DEF Ledger!Changed, Ledger!Published, draft
  <2>. QED
    BY <2>1, <2>2
<1>3. \A s \in Students :
        (IF Audits(t, s) THEN SaveRecord(t, s) ELSE audit[s])
          = IF s \in Ledger!Changed /\ results[s] # None
            THEN <<Ledger!RecordOf(results[s]), Ledger!RecordOf(results'[s])>> ELSE audit[s]
  <2>1. SUFFICES ASSUME NEW s \in Students
                 PROVE  (IF Audits(t, s) THEN SaveRecord(t, s) ELSE audit[s])
                          = IF s \in Ledger!Changed /\ results[s] # None
                            THEN <<Ledger!RecordOf(results[s]), Ledger!RecordOf(results'[s])>> ELSE audit[s]
    OBVIOUS
  <2>2. Audits(t, s) <=> s \in Ledger!Changed /\ results[s] # None
    BY <1>1, <1>2 DEF Audits
  <2>3. Audits(t, s) => SaveRecord(t, s) = <<Ledger!RecordOf(results[s]), Ledger!RecordOf(results'[s])>>
    BY <1>1, <1>2 DEF Audits, SaveRecord
  <2>. QED
    BY <2>2, <2>3
<1>4. Ledger!AuditChanges(Ledger!Changed)
  BY <1>1, <1>3 DEF Ledger!AuditChanges
<1>5. \A s \in Ledger!Changed : s \in Students
  BY DEF Ledger!Changed
<1>. QED
  BY <1>1, <1>2, <1>4, <1>5 DEF Ledger!Save

(* a Publication, *)
LEMMA PublicationIsLedgerPublish ==
  ASSUME IInv, NEW t \in Txns, CommitPublication(t)
  PROVE  Ledger!Publish
<1>1. Ready(t) = {s \in Students : Ledger!Publishable(results[s])} /\ Ready(t) # {}
  <2>1. tx[t].rows = results /\ Ready(t) # {}
    BY TxTyped DEF CommitPublication, Sound, ReadStands, ActSound, ResultsPhases
  <2>. QED
    BY <2>1 DEF Ready
<1>2. /\ results' = [s \in Students |-> IF s \in Ready(t) THEN [results[s] EXCEPT !.published = TRUE] ELSE results[s]]
      /\ UNCHANGED <<audit, scales, requests>>
  BY DEF CommitPublication, Publishes
<1>3. results' = [s \in Students |-> IF Ledger!Publishable(results[s])
                                     THEN [results[s] EXCEPT !.published = TRUE] ELSE results[s]]
  BY <1>1, <1>2
<1>. QED
  BY <1>1, <1>2, <1>3 DEF Ledger!Publish

(* a raise, *)
LEMMA RaiseIsLedgerRaise ==
  ASSUME IInv, NEW t \in Txns, CommitRaise(t)
  PROVE  \E r \in Requests, s \in Students, after \in Ledger!PublishedContent, p \in Persons :
           Ledger!Raise(r, s, after, p)
<1>1. /\ tx[t].req \in Requests /\ tx[t].student \in Students /\ tx[t].who \in Persons
      /\ tx[t].after \in Ledger!PublishedContent
      /\ requests[tx[t].req].state = "none" /\ Row(t) = results[tx[t].student]
      /\ Ledger!Published(results[tx[t].student]) /\ results[tx[t].student].says # tx[t].after
  BY TxTyped DEF CommitRaise, Sound, ReadStands, RaiseSound, Row, ResultsPhases
<1>2. Ledger!Raise(tx[t].req, tx[t].student, tx[t].after, tx[t].who)
  BY <1>1 DEF CommitRaise, Ledger!Raise, Ledger!NoRequest
<1>. QED
  BY <1>1, <1>2

(* a rejection or a withdrawal, *)
LEMMA DecisionIsLedgerClose ==
  ASSUME IInv, NEW t \in Txns, CommitDecision(t)
  PROVE  \E r \in Requests, p \in Persons, state \in {"rejected", "withdrawn"} : Ledger!Close(r, p, state)
<1>1. /\ tx[t].req \in Requests /\ tx[t].who \in Persons
      /\ tx[t].act = "withdraw" => tx[t].who = requests[tx[t].req].by
  BY TxTyped DEF CommitDecision, Sound, ActSound, DecisionSound
<1>2. \E state \in {"rejected", "withdrawn"} : Ledger!Close(tx[t].req, tx[t].who, state)
  BY <1>1 DEF CommitDecision, StillPending, Ledger!Close
<1>. QED
  BY <1>1, <1>2

(* an approval, *)
LEMMA ApprovalIsLedgerApprove ==
  ASSUME IInv, NEW t \in Txns, CommitApproval(t)
  PROVE  \E r \in Requests, p \in Persons : Ledger!Approve(r, p)
<1>. DEFINE s == tx[t].student
            r == tx[t].req
            after == tx[t].after
            version == Bound(t, results[s], after)
            corrected == [says |-> after, version |-> version, published |-> TRUE]
            record == <<Ledger!RecordOf(results[s]), Ledger!RecordOf(corrected)>>
<1>1. /\ r \in Requests /\ s \in Students /\ s = requests[r].student /\ after = requests[r].after
      /\ requests[r].state = "pending" /\ results[s].says = requests[r].before
      /\ Ledger!Published(results[s]) /\ tx[t].self = OwnRequest(t)
      /\ after.value # None /\ version # 0 /\ version \in Nat
      /\ Ledger!Holds(version, after.value) /\ Ledger!BoundTo(results[s], after, version)
      /\ results' = [results EXCEPT ![s] = corrected] /\ audit' = [audit EXCEPT ![s] = record]
  BY ApprovalTyped
<1>2. /\ requests' = [requests EXCEPT ![r].state = "approved", ![r].decidedBy = tx[t].who, ![r].self = tx[t].self]
      /\ UNCHANGED scales
      /\ tx[t].who \in Persons
  BY TxTyped DEF CommitApproval, Sound, DecisionSound
<1>3. version \in 1..Len(scales)
  BY <1>1, ScalesTyped DEF Ledger!Holds
<1>. HIDE DEF version
<1>4. corrected = [says |-> after, version |-> version, published |-> TRUE]
  OBVIOUS
<1>. HIDE DEF corrected
<1>5. results[s] # None /\ results'[s] = corrected
  BY <1>1 DEF Ledger!Published, IInv, TypeOK, Ledger!LedgerTypeOK
<1>6. Ledger!AuditChanges({s})
  <2>1. audit' = [q \in Students |-> IF q = s THEN record ELSE audit[q]]
    BY <1>1 DEF IInv, TypeOK, Ledger!LedgerTypeOK
  <2>2. \A q \in Students :
          (IF q = s THEN record ELSE audit[q])
            = IF q \in {s} /\ results[q] # None THEN <<Ledger!RecordOf(results[q]), Ledger!RecordOf(results'[q])>>
              ELSE audit[q]
    BY <1>5
  <2>. QED
    BY <2>1, <2>2 DEF Ledger!AuditChanges
<1>7. tx[t].self = (requests[r].by = tx[t].who)
  BY <1>1, Zenon DEF OwnRequest
<1>8. Ledger!Approve(r, tx[t].who)
  BY <1>1, <1>2, <1>3, <1>4, <1>6, <1>7 DEF Ledger!Approve
<1>. QED
  BY <1>1, <1>2, <1>8

(* and a save of the scale. *)
LEMMA ScaleIsLedgerSaveScale ==
  ASSUME IInv, NEW t \in Txns, CommitScale(t)
  PROVE  \E values \in Scales : Ledger!SaveScale(values)
<1>1. tx[t].phase = "scaled" /\ tx[t].version = Len(scales) /\ tx[t].values \in Scales
  BY TxTyped DEF CommitScale, Sound, ReadStands, ActSound, Tx
<1>2. scales' = Append(scales, tx[t].values)
  BY <1>1, ScalesTyped, SubSeqFull DEF CommitScale
<1>3. Ledger!SaveScale(tx[t].values)
  BY <1>1, <1>2 DEF CommitScale, NewValues, Ledger!SaveScale
<1>. QED
  BY <1>1, <1>3

(* Every step is the ledger's, or leaves the ledger alone. *)
LEMMA NextIsLedgerNext ==
  ASSUME IInv, [Next]_vars
  PROVE  [Ledger!Next]_(Ledger!ledgerVars)
<1>1. ASSUME NEW t \in Txns, CommitSave(t) \/ CommitPublication(t) PROVE Ledger!Next
  BY <1>1, SaveIsLedgerSave, PublicationIsLedgerPublish DEF Ledger!Next
<1>2. ASSUME NEW t \in Txns, CommitRaise(t) PROVE Ledger!Next
  BY <1>2, RaiseIsLedgerRaise DEF Ledger!Next
<1>3. ASSUME NEW t \in Txns, CommitDecision(t) PROVE Ledger!Next
  BY <1>3, DecisionIsLedgerClose DEF Ledger!Next
<1>4. ASSUME NEW t \in Txns, CommitApproval(t) PROVE Ledger!Next
  BY <1>4, ApprovalIsLedgerApprove DEF Ledger!Next
<1>5. ASSUME NEW t \in Txns, CommitScale(t) PROVE Ledger!Next
  BY <1>5, ScaleIsLedgerSaveScale DEF Ledger!Next
<1>. QED
  BY <1>1, <1>2, <1>3, <1>4, <1>5, Writers DEF recordVars, Ledger!ledgerVars

(* The component implements the ledger: behind every interleaving of loads,  *)
(* saves, Publications, raises, decisions and scale saves, results are       *)
(* published together and for good, audited truthfully, corrected by an      *)
(* approved request alone, and bound to versions that hold their values.     *)
THEOREM ResultsRefinement == Spec => ImplementsResultLedger
<1>1. Init => Ledger!Init
  BY DEF Init
<1>2. IInv /\ [Next]_vars => [Ledger!Next]_(Ledger!ledgerVars)
  BY NextIsLedgerNext
<1>. QED
  BY <1>1, <1>2, ResultsInvariance, PTL DEF Spec, ImplementsResultLedger, Ledger!Spec

-----------------------------------------------------------------------------
(* Only three commits change a result, and each says how. *)
LEMMA ResultWriters ==
  ASSUME IInv, [Next]_vars, NEW s \in Students, results'[s] # results[s]
  PROVE  \E t \in Txns :
           /\ Ended(t)
           /\ \/ CommitSave(t) /\ Applies(t, s)
              \/ CommitPublication(t) /\ Ledger!Publishable(results[s])
              \/ CommitApproval(t) /\ s = tx[t].student
<1>1. PICK t \in Txns : CommitSave(t) \/ CommitPublication(t) \/ CommitApproval(t)
  BY Writers DEF recordVars, CommitRaise, CommitDecision, CommitScale
<1>2. CASE CommitSave(t)
  BY <1>2 DEF CommitSave
<1>3. CASE CommitPublication(t)
  BY <1>3, PublishedTyped DEF CommitPublication
<1>4. CASE CommitApproval(t)
  <2>1. PICK corrected : results' = [results EXCEPT ![tx[t].student] = corrected]
    BY <1>4 DEF CommitApproval
  <2>2. s = tx[t].student
    BY <2>1 DEF IInv, TypeOK, Ledger!LedgerTypeOK
  <2>. QED
    BY <1>4, <2>2 DEF CommitApproval
<1>. QED
  BY <1>1, <1>2, <1>3, <1>4

(* What is published changes only in the step that approves a request holding *)
(* its content before and after, never by a save that read the draft first    *)
(* (migrations/0026; term-result-routes.ts, the "published" refusal).         *)
THEOREM OnlyApprovalsCorrect == Spec => PublishedOnlyCorrected
<1>. DEFINE Corrected(s) ==
       Ledger!Published(results[s]) /\ results'[s] # results[s] =>
         /\ Ledger!Published(results'[s])
         /\ \E r \in Requests :
              /\ requests[r].state = "pending" /\ requests'[r].state = "approved"
              /\ requests[r].student = s
              /\ requests[r].before = results[s].says
              /\ requests[r].after = results'[s].says
<1>1. ASSUME IInv, [Next]_vars, NEW s \in Students PROVE Corrected(s)
  <2>1. SUFFICES ASSUME Ledger!Published(results[s]), results'[s] # results[s]
                 PROVE  /\ Ledger!Published(results'[s])
                        /\ \E r \in Requests :
                             /\ requests[r].state = "pending" /\ requests'[r].state = "approved"
                             /\ requests[r].student = s
                             /\ requests[r].before = results[s].says
                             /\ requests[r].after = results'[s].says
    OBVIOUS
  <2>2. PICK t \in Txns : \/ CommitSave(t) /\ Applies(t, s)
                          \/ CommitPublication(t) /\ Ledger!Publishable(results[s])
                          \/ CommitApproval(t) /\ s = tx[t].student
    BY <1>1, <2>1, ResultWriters
  <2>3. ~(CommitSave(t) /\ Applies(t, s))
    BY <1>1, <2>1, DraftTyped DEF CommitSave
  <2>4. ~Ledger!Publishable(results[s])
    BY <2>1 DEF Ledger!Published, Ledger!Publishable
  <2>5. CommitApproval(t) /\ s = tx[t].student
    BY <2>2, <2>3, <2>4
  <2>. DEFINE r == tx[t].req
              corrected == [says |-> tx[t].after, version |-> Bound(t, results[s], tx[t].after), published |-> TRUE]
  <2>6. /\ r \in Requests /\ requests[r].state = "pending" /\ requests[r].student = s
        /\ requests[r].before = results[s].says /\ requests[r].after = tx[t].after
        /\ corrected # None /\ results' = [results EXCEPT ![s] = corrected]
    BY <1>1, <2>5, ApprovalTyped
  <2>7. results'[s] = corrected
    BY <1>1, <2>6 DEF IInv, TypeOK, Ledger!LedgerTypeOK
  <2>8. requests'[r].state = "approved"
    <3>1. HasItsRequest(t) /\ "approved" \in Ledger!States /\ tx[t].self \in BOOLEAN
      BY <1>1, <2>5, TxTyped DEF CommitApproval, HasItsRequest, Approving, Ledger!States, Tx
    <3>2. requests' = [requests EXCEPT ![r].state = "approved", ![r].decidedBy = tx[t].who, ![r].self = tx[t].self]
      BY <2>5 DEF CommitApproval
    <3>. QED
      BY <1>1, <3>1, <3>2, DecidedTyped
  <2>. QED
    BY <2>6, <2>7, <2>8 DEF Ledger!Published
<1>2. IInv /\ [Next]_vars => \A s \in Students : Corrected(s)
  BY <1>1
<1>. QED
  BY <1>2, ResultsInvariance, PTL DEF Spec, PublishedOnlyCorrected

(* No lost update: a save changes a draft only while it still says what its  *)
(* client had loaded, and never a published result, whoever commits between  *)
(* (term-result-routes.ts, the "stale" and "published" refusals).            *)
THEOREM NoLostDraft == Spec => SavedOverLoaded
<1>. DEFINE Expected(t, s) ==
       tx[t].act = "save" /\ tx'[t] = Idle /\ results'[s] # results[s]
         => Ledger!SaysOf(results[s]) = tx[t].view[s] /\ ~Ledger!Published(results[s])
<1>1. ASSUME IInv, [Next]_vars, NEW t \in Txns, NEW s \in Students PROVE Expected(t, s)
  <2>1. SUFFICES ASSUME tx[t].act = "save", tx'[t] = Idle, results'[s] # results[s]
                 PROVE  Ledger!SaysOf(results[s]) = tx[t].view[s] /\ ~Ledger!Published(results[s])
    OBVIOUS
  <2>2. PICK u \in Txns : /\ Ended(u)
                          /\ \/ CommitSave(u) /\ Applies(u, s)
                             \/ CommitPublication(u) /\ Ledger!Publishable(results[s])
                             \/ CommitApproval(u) /\ s = tx[u].student
    BY <1>1, <2>1, ResultWriters
  <2>3. u = t
    BY <1>1, <2>1, <2>2, EndedTyped, IdleFields DEF Acts
  <2>4. CommitSave(t) /\ Applies(t, s)
    BY <2>1, <2>2, <2>3 DEF CommitPublication, CommitApproval
  <2>. QED
    BY <1>1, <2>4, DraftTyped DEF CommitSave
<1>2. IInv /\ [Next]_vars => \A t \in Txns, s \in Students : Expected(t, s)
  BY <1>1
<1>. QED
  BY <1>2, ResultsInvariance, PTL DEF Spec, SavedOverLoaded

-----------------------------------------------------------------------------
(* What a step makes of one transaction's own state. *)
LEMMA Moves ==
  ASSUME IInv, [Next]_vars, NEW t \in Txns
  PROVE  \/ tx'[t] = tx[t] \/ tx'[t] = Idle
         \/ Start(t) \/ Acquire(t) \/ ReadScale(t) \/ ReadOutlook(t) \/ Judge(t)
<1>1. ASSUME NEW u \in Txns, u # t, Start(u) \/ Acquire(u) PROVE tx'[t] = tx[t]
  BY <1>1, Zenon DEF Start, Load, BeginSave, BeginPublish, BeginRaise, BeginDecide, BeginScale, Acquire, HoldResults,
    HoldRequest, HoldScale, Becomes, IInv, TypeOK
<1>2. ASSUME NEW u \in Txns, Proceed(u) \/ Abort(u)
      PROVE  tx'[t] = tx[t] \/ tx'[t] = Idle \/ ReadScale(t) \/ ReadOutlook(t) \/ Judge(t)
  <2>1. CASE ReadScale(u) \/ ReadOutlook(u) \/ Judge(u)
    BY <2>1 DEF ReadScale, ReadOutlook, Judge, Becomes, IInv, TypeOK
  <2>2. CASE Ended(u)
    BY <2>2, EndedTyped
  <2>. QED
    BY <1>2, <2>1, <2>2 DEF Proceed, CommitSave, CommitPublication, CommitRaise, CommitDecision,
      CommitApproval, CommitScale, Refuse, Abort, RolledBack
<1>3. (\E s \in Students, to \in 0..Open : MoveRoster(s, to)) \/ (\E to \in Ends : MoveTerm(to)) \/ UNCHANGED vars
        => tx' = tx
  BY DEF MoveRoster, MoveTerm, vars
<1>. QED
  BY <1>1, <1>2, <1>3 DEF Next

(* A Publication goes on only by finding its outlook complete. *)
LEMMA PublishingMoves ==
  ASSUME IInv, [Next]_vars, NEW t \in Txns, tx[t].act = "publish", tx[t].phase = "holding", tx'[t].phase = "ready"
  PROVE  ReadOutlook(t)
<1>1. tx'[t] # tx[t] /\ tx'[t] # Idle
  BY IdleFields
<1>2. ~Start(t)
  BY IdleFields DEF Start, Load, BeginSave, BeginPublish, BeginRaise, BeginDecide, BeginScale
<1>3. ~Acquire(t) /\ ~Judge(t) /\ ~ReadScale(t)
  BY DEF Acquire, HoldResults, HoldRequest, HoldScale, Judge, ReadScale, Proceeds
<1>. QED
  BY <1>1, <1>2, <1>3, Moves

(* When it does, everyone rostered to the last date it read of the Term has a value. *)
LEMMA OutlookComplete ==
  ASSUME IInv, NEW t \in Txns, ReadOutlook(t), NEW s \in Students, rosteredTo[s] >= tx[t].term
  PROVE  Ledger!SaysOf(results[s]).value # None
<1>1. tx[t].rows = results /\ tx[t].term \in Ends
  BY TxTyped DEF ReadOutlook, Sound, ReadStands, ActSound, ResultsPhases, Tx
<1>2. rosteredTo[s] \in 0..Open
  BY DEF IInv, TypeOK
<1>3. Active(s, tx[t].term)
  BY <1>1, <1>2, TermResultsAssumption DEF Active, Left, Rostered, Ends, Open
<1>4. s \notin Missing(t)
  BY DEF ReadOutlook
<1>. QED
  BY <1>1, <1>3, <1>4 DEF Missing

(* A Publication goes on only once everyone rostered to the last date it read *)
(* of the Term has a value, for any roster, any Term and whoever saves or      *)
(* moves either meanwhile (term-result-routes.ts, the outlook's missingValue). *)
THEOREM PublicationsWait == Spec => PublicationWaitsByItsTerm
<1>1. IInv /\ [Next]_vars =>
        \A t \in Txns : tx[t].act = "publish" /\ tx[t].phase = "holding" /\ tx'[t].phase = "ready"
          => \A s \in Students : rosteredTo[s] >= tx[t].term => Ledger!SaysOf(results[s]).value # None
  BY PublishingMoves, OutlookComplete
<1>. QED
  BY <1>1, ResultsInvariance, PTL DEF Spec, PublicationWaitsByItsTerm

=============================================================================
