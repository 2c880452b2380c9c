------------------------------- MODULE Trials -------------------------------
(***************************************************************************)
(* Trial Schools: a visitor's sign-in with an outside identity, the Trial  *)
(* School it starts or returns to, the change of role within one, sign-in  *)
(* and sign-out, and the deletion of the expired.  A transaction judges    *)
(* every expiry by the time it began, however long it then waited for the  *)
(* start lock; a cookie reaches its browser some time after the answer     *)
(* that carries it was decided, and answers overtake each other.           *)
(***************************************************************************)
EXTENDS Integers, FiniteSets

CONSTANTS
  Browsers,         \* each with one cookie jar
  Visitors,         \* the outside identities a provider vouches for
  Guests,           \* the people whom an Invitation gives an account with a password
  ROLES,
  Caps,             \* how many Trial Schools a deployment may let be live at once
  TRIAL_LIFETIME,
  SESSION_LIFETIME,
  FLOW_LIFETIME,
  MaxTime,          \* bound: the clock stops here
  MaxSchools,       \* bound on the Trial Schools ever started
  MaxFlows,         \* bound on the sign-ins ever begun at a provider
  MaxSessions,      \* bound on the Sessions ever started
  Start, Busy,      \* what a callback may decide, besides a School to return to
  None

ASSUME TrialAssumption ==
  /\ Caps \subseteq Nat /\ TRIAL_LIFETIME \in Nat \ {0}
  /\ SESSION_LIFETIME \in Nat \ {0} /\ FLOW_LIFETIME \in Nat \ {0}
  /\ MaxTime \in Nat /\ MaxSchools \in Nat /\ MaxFlows \in Nat /\ MaxSessions \in Nat
  /\ "school_administrator" \in ROLES
  /\ None \notin Nat \cup Visitors \cup Guests
  /\ Start \notin Nat /\ Busy \notin Nat /\ Start # Busy

VARIABLES
  clock,
  liveCap,    \* the deployment's setting
  schools,    \* app.school: the Trial Schools that exist
  started,    \* the ids of all that were ever started
  visitors,   \* app.trial_visitor: the identities kept
  guest,      \* app.user_account: each Guest's account, or None
  sessions,   \* app.user_session
  issued,     \* how many Sessions were ever started
  ended,      \* the lines of Sessions a sign-out ended
  jar,        \* each browser's cookies
  begun,      \* how many sign-ins were ever begun
  abroad,     \* the visitors away at a provider: browser and state
  entering,   \* each browser's callback, in its transaction
  switching,  \* each browser's change of role, between its lookups and its transaction
  answers     \* the answers on their way to a browser

vars == <<clock, liveCap, schools, started, visitors, guest, sessions, issued, ended,
          jar, begun, abroad, entering, switching, answers>>
rows == <<schools, started, visitors, guest, sessions, issued, ended>>

Ids == 1 .. MaxSchools
Tokens == 1 .. MaxSessions
School == [id : Ids, visitor : Visitors, expires : Nat]
RoleAccounts == [school : Ids, role : ROLES]
GuestAccount == [createdIn : Ids \cup {None}, persons : SUBSET Ids, born : Ids]
ASSUME NoneIsNoAccount == None \notin GuestAccount /\ Guests \cap RoleAccounts = {}

(* A Session descends from the one a change of role replaced: its line is  *)
(* the token of the first.                                                 *)
Session == [token : Tokens, account : RoleAccounts \cup Guests, expires : Nat, line : Tokens]

NotEntering == [phase |-> "none", visitor |-> None, now |-> 0, doomed |-> {}, outcome |-> None]
Entering ==
  [phase : {"none", "waiting", "deciding"}, visitor : Visitors \cup {None}, now : Nat,
   doomed : SUBSET Ids, outcome : Ids \cup {None, Start, Busy}]

Answer == [to : Browsers, session : Tokens \cup {None}]

NotSwitching == [token |-> None, target |-> None]
Switching == [token : Tokens, target : RoleAccounts] \cup {NotSwitching}

TypeOK ==
  /\ clock \in 0 .. MaxTime /\ liveCap \in Caps
  /\ schools \in SUBSET School /\ started \in SUBSET Ids
  /\ visitors \in SUBSET Visitors
  /\ guest \in [Guests -> GuestAccount \cup {None}]
  /\ sessions \in SUBSET Session /\ issued \in 0 .. MaxSessions
  /\ ended \in SUBSET Tokens
  /\ jar \in [Browsers -> [session : Tokens \cup {None},
                           state : 1 .. MaxFlows \cup {None}, lapses : Nat]]
  /\ begun \in 0 .. MaxFlows
  /\ abroad \in SUBSET [from : Browsers, state : 1 .. MaxFlows]
  /\ entering \in [Browsers -> Entering]
  /\ switching \in [Browsers -> Switching]
  /\ answers \in SUBSET Answer

Init ==
  /\ clock = 0 /\ liveCap \in Caps /\ schools = {} /\ started = {} /\ visitors = {}
  /\ guest = [g \in Guests |-> None]
  /\ sessions = {} /\ issued = 0 /\ ended = {}
  /\ jar = [b \in Browsers |-> [session |-> None, state |-> None, lapses |-> 0]]
  /\ begun = 0 /\ abroad = {}
  /\ entering = [b \in Browsers |-> NotEntering]
  /\ switching = [b \in Browsers |-> NotSwitching]
  /\ answers = {}

-----------------------------------------------------------------------------
SchoolIds == {s.id : s \in schools}
LiveAt(s, now) == s.expires > now
(* Slip: a School expires only after the moment it expires at.          *)
ExpiredBefore(now) == {s.id : s \in {t \in schools : t.expires < now}}

ExpiredIds(now) == {s.id : s \in {t \in schools : ~LiveAt(t, now)}}

(* The School an account was created in, while it is still counted there.  *)
CreatedIn(account) ==
  IF account \in Guests THEN guest[account].createdIn ELSE account.school

(* authenticate's conditions on the Session a request presents.            *)
IsLive(session) ==
  /\ session.expires > clock
  /\ \A s \in schools : s.id = CreatedIn(session.account) => LiveAt(s, clock)

Presented(b) == {s \in sessions : s.token = jar[b].session}
Authenticated(b) == {s \in Presented(b) : IsLive(s)}

(* The Schools an open transaction is deleting: a statement that touches   *)
(* their rows waits until it has ended.                                    *)
Doomed == UNION {entering[b].doomed : b \in Browsers}

Holders == {b \in Browsers : entering[b].phase = "deciding"}

(* An account goes with the School it was created in unless it has a       *)
(* Person elsewhere by then; Schools are deleted in the order of their ids. *)
GoesWith(account, gone) ==
  /\ account.createdIn \in gone
  /\ account.persons \subseteq {i \in gone : i <= account.createdIn}

GuestAfter(gone) ==
  [g \in Guests |->
     IF guest[g] = None \/ GoesWith(guest[g], gone) THEN None
     ELSE [guest[g] EXCEPT !.persons = @ \ gone,
                           !.createdIn = IF @ \in gone THEN None ELSE @]]

Cascaded(session, gone) ==
  IF session.account \in Guests THEN GuestAfter(gone)[session.account] = None
  ELSE session.account.school \in gone

SchoolsAfter(gone) == {s \in schools : s.id \notin gone}
SessionsAfter(gone) == {s \in sessions : ~Cascaded(s, gone)}

(* A visitor is forgotten once no School of theirs remains.                *)
VisitorsAfter(gone) ==
  {v \in visitors : (\E s \in schools : s.visitor = v) => \E s \in SchoolsAfter(gone) : s.visitor = v}

NewSession(account, line) ==
  [token |-> issued + 1, account |-> account, expires |-> clock + SESSION_LIFETIME, line |-> line]

SetCookie(b, token) == [to |-> b, session |-> token]
FlowEnded(b) == [jar EXCEPT ![b].state = None, ![b].lapses = 0]

-----------------------------------------------------------------------------
(* A link on SchoolGrid's own page leaves for the provider; the flow cookie *)
(* remembers its state, replacing that of a sign-in begun before.          *)
BeginSignIn(b) ==
  /\ begun < MaxFlows
  /\ begun' = begun + 1
  /\ jar' = [jar EXCEPT ![b].state = begun + 1, ![b].lapses = clock + FLOW_LIFETIME]
  /\ abroad' = abroad \cup {[from |-> b, state |-> begun + 1]}
  /\ UNCHANGED <<clock, liveCap, rows, entering, switching, answers>>

(* The redirect back of a sign-in that proves nothing: turned down at the  *)
(* provider, answered to another flow cookie than its own or to a lapsed   *)
(* one, or refused by the provider.  It expires whatever flow cookie the   *)
(* browser holds.                                                          *)
TurnedBack(b) ==
  \E flow \in abroad :
    /\ flow.from = b
    /\ abroad' = abroad \ {flow}
    /\ jar' = FlowEnded(b)
    /\ UNCHANGED <<clock, liveCap, rows, begun, entering, switching, answers>>

(* The redirect back that proves an identity: its transaction begins, and  *)
(* waits for the start lock.                                               *)
Proven(b, v) ==
  \E flow \in abroad :
    /\ flow.from = b /\ flow.state = jar[b].state /\ clock < jar[b].lapses
    /\ entering[b] = NotEntering
    /\ abroad' = abroad \ {flow}
    /\ entering' = [entering EXCEPT ![b] =
         [NotEntering EXCEPT !.phase = "waiting", !.visitor = v, !.now = clock]]
    /\ UNCHANGED <<clock, liveCap, rows, jar, begun, switching, answers>>

(* What enterTrialSchool decides once the expired are deleted: the live    *)
(* School the visitor has, none when the deployment is full, or a new one. *)
Decided(v, now) ==
  LET left == {s \in schools : LiveAt(s, now)}
      theirs == {s \in left : s.visitor = v}
  IN IF theirs # {} THEN (CHOOSE s \in theirs : TRUE).id
     ELSE IF Cardinality(left) >= liveCap THEN Busy
     ELSE Start

(* Slip: there is no start lock.                                        *)
LockUnasked(b) == TRUE

LockFree(b) == Holders = {}

EnterTrialSchool(b) ==
  LET e == entering[b]
  IN /\ e.phase = "waiting" /\ LockFree(b)
     /\ ExpiredIds(e.now) \cap Doomed = {}
     /\ entering' = [entering EXCEPT ![b].phase = "deciding",
                                     ![b].doomed = ExpiredIds(e.now),
                                     ![b].outcome = Decided(e.visitor, e.now)]
     /\ UNCHANGED <<clock, liveCap, rows, jar, begun, abroad, switching, answers>>

(* The expired Schools are deleted, and with the same transaction a School *)
(* and a Session may be begun.                                             *)
Delete(gone, begins, session) ==
  /\ guest' = GuestAfter(gone)
  /\ schools' = SchoolsAfter(gone) \cup begins
  /\ visitors' = VisitorsAfter(gone) \cup {s.visitor : s \in begins}
  /\ sessions' = SessionsAfter(gone) \cup session

(* The transaction commits: the deletions, and the School started or       *)
(* returned to, with a Session of its School Administrator's account.      *)
CommitEntry(b) ==
  LET e == entering[b]
      new(id) == [id |-> id, visitor |-> e.visitor, expires |-> e.now + TRIAL_LIFETIME]
      session(id) == NewSession([school |-> id, role |-> "school_administrator"], issued + 1)
  IN /\ e.phase = "deciding"
     /\ jar' = FlowEnded(b)
     /\ entering' = [entering EXCEPT ![b] = NotEntering]
     /\ \/ /\ e.outcome = Busy
           /\ Delete(e.doomed, {}, {})
           /\ UNCHANGED <<started, issued, answers>>
        \/ /\ e.outcome # Busy /\ issued < MaxSessions
           /\ \/ /\ e.outcome = Start
                 /\ \E id \in Ids \ started :
                      /\ started' = started \cup {id}
                      /\ Delete(e.doomed, {new(id)}, {session(id)})
              \/ /\ e.outcome \in SchoolIds
                 /\ Delete(e.doomed, {}, {session(e.outcome)})
                 /\ UNCHANGED started
           /\ issued' = issued + 1
           /\ answers' = answers \cup {SetCookie(b, issued + 1)}
     /\ UNCHANGED <<clock, liveCap, ended, begun, abroad, switching>>

(* A transaction that fails, or whose server stops, leaves nothing: the    *)
(* School it was to return to swept away meanwhile is one reason.          *)
LoseEntry(b) ==
  /\ entering[b].phase # "none"
  /\ entering' = [entering EXCEPT ![b] = NotEntering]
  /\ UNCHANGED <<clock, liveCap, rows, jar, begun, abroad, switching, answers>>

-----------------------------------------------------------------------------
(* A change of role: the account presented and the account asked for, both *)
(* live, are looked up before the transaction that replaces the Session.   *)
SwitchRole(b, role) ==
  \E s \in Authenticated(b) :
    /\ switching[b] = NotSwitching
    /\ s.account \notin Guests
    /\ switching' = [switching EXCEPT ![b] =
         [token |-> s.token, target |-> [school |-> s.account.school, role |-> role]]]
    /\ UNCHANGED <<clock, liveCap, rows, jar, begun, abroad, entering, answers>>

(* The Session presented before the lookups, if no one has ended it since. *)
Replaceable(b) == {s \in sessions : s.token = switching[b].token /\ s.expires > clock}

(* Slip: the Session replaced is not ended.                             *)
AddSession(b) ==
  /\ switching[b] # NotSwitching
  /\ switching[b].target.school \notin Doomed
  /\ switching' = [switching EXCEPT ![b] = NotSwitching]
  /\ \/ /\ Replaceable(b) = {}
        /\ UNCHANGED <<rows, answers>>
     \/ \E s \in Replaceable(b) :
          /\ issued < MaxSessions
          /\ sessions' = sessions \cup {NewSession(switching[b].target, s.line)}
          /\ issued' = issued + 1
          /\ answers' = answers \cup {SetCookie(b, issued + 1)}
          /\ UNCHANGED <<schools, started, visitors, guest, ended>>
  /\ UNCHANGED <<clock, liveCap, jar, begun, abroad, entering>>

ReplaceSession(b) ==
  /\ switching[b] # NotSwitching
  /\ switching[b].target.school \notin Doomed
  /\ switching' = [switching EXCEPT ![b] = NotSwitching]
  /\ \/ /\ Replaceable(b) = {}
        /\ UNCHANGED <<rows, answers>>
     \/ \E s \in Replaceable(b) :
          /\ issued < MaxSessions
          /\ sessions' = (sessions \ {s}) \cup {NewSession(switching[b].target, s.line)}
          /\ issued' = issued + 1
          /\ answers' = answers \cup {SetCookie(b, issued + 1)}
          /\ UNCHANGED <<schools, started, visitors, guest, ended>>
  /\ UNCHANGED <<clock, liveCap, jar, begun, abroad, entering>>

(* Sign-out ends the Session behind the cookie, if one is, and expires the *)
(* cookie either way.                                                      *)
SignOut(b) ==
  LET live == {s \in Presented(b) : s.expires > clock}
  IN /\ jar[b].session # None
     /\ \A s \in live : CreatedIn(s.account) \notin Doomed
     /\ sessions' = sessions \ live
     /\ ended' = ended \cup {s.line : s \in live}
     /\ answers' = answers \cup {SetCookie(b, None)}
     /\ UNCHANGED <<clock, liveCap, schools, started, visitors, guest, issued,
                    jar, begun, abroad, entering, switching>>

(* An answer reaches its browser, which replaces or drops whatever cookie  *)
(* it holds by then.                                                       *)
Deliver(a) ==
  /\ answers' = answers \ {a}
  /\ jar' = [jar EXCEPT ![a.to].session = a.session]
  /\ UNCHANGED <<clock, liveCap, rows, begun, abroad, entering, switching>>

-----------------------------------------------------------------------------
StartSession(b, g) ==
  /\ issued < MaxSessions
  /\ issued' = issued + 1
  /\ sessions' = sessions \cup {NewSession(g, issued + 1)}
  /\ answers' = answers \cup {SetCookie(b, issued + 1)}

(* An Invitation redeemed with a new account: the account is created in    *)
(* the Invitation's School, expired or not.                                *)
RedeemWithNewAccount(b, g, i) ==
  /\ i \in SchoolIds \ Doomed
  /\ guest[g] = None
  /\ guest' = [guest EXCEPT ![g] = [createdIn |-> i, persons |-> {i}, born |-> i]]
  /\ StartSession(b, g)
  /\ UNCHANGED <<clock, liveCap, schools, started, visitors, ended, jar, begun, abroad, entering, switching>>

(* An Invitation redeemed as the account signed in: it goes on to another  *)
(* School.                                                                 *)
RedeemSignedIn(b, i) ==
  \E s \in Authenticated(b) :
    /\ s.account \in Guests
    /\ i \in SchoolIds \ (Doomed \cup guest[s.account].persons)
    /\ guest[s.account].createdIn \notin Doomed
    /\ guest' = [guest EXCEPT ![s.account].persons = @ \cup {i}]
    /\ UNCHANGED <<clock, liveCap, schools, started, visitors, sessions, issued, ended,
                   jar, begun, abroad, entering, switching, answers>>

(* Credentials that verify start a Session, live or not.                   *)
SignIn(b, g) ==
  /\ guest[g] # None /\ guest[g].createdIn \notin Doomed
  /\ StartSession(b, g)
  /\ UNCHANGED <<clock, liveCap, schools, started, visitors, guest, ended, jar, begun, abroad, entering, switching>>

(* The daily run: it takes no start lock, and waits for a deletion under   *)
(* way.                                                                    *)
Sweep ==
  LET gone == ExpiredIds(clock)
  IN /\ gone # {} /\ gone \cap Doomed = {}
     /\ Delete(gone, {}, {})
     /\ UNCHANGED <<clock, liveCap, started, issued, ended, jar, begun, abroad, entering, switching, answers>>

Tick ==
  /\ clock < MaxTime
  /\ clock' = clock + 1
  /\ UNCHANGED <<liveCap, rows, jar, begun, abroad, entering, switching, answers>>

-----------------------------------------------------------------------------
Next ==
  \/ \E b \in Browsers :
       \/ BeginSignIn(b) \/ TurnedBack(b)
       \/ EnterTrialSchool(b) \/ CommitEntry(b) \/ LoseEntry(b)
       \/ ReplaceSession(b) \/ SignOut(b)
       \/ \E v \in Visitors : Proven(b, v)
       \/ \E role \in ROLES : SwitchRole(b, role)
       \/ \E i \in Ids : RedeemSignedIn(b, i)
       \/ \E g \in Guests : SignIn(b, g) \/ \E i \in Ids : RedeemWithNewAccount(b, g, i)
  \/ \E a \in answers : Deliver(a)
  \/ Sweep
  \/ Tick

Spec == Init /\ [][Next]_vars

-----------------------------------------------------------------------------
(* No more Trial Schools are ever live than the cap, whoever signs in at   *)
(* once, and however stale the time by which they were counted.            *)
WithinTheCap == Cardinality({s \in schools : LiveAt(s, clock)}) <= liveCap

(* A visitor never has two Trial Schools, not even a live one beside one   *)
(* expired and not yet deleted, from two browsers at once.                 *)
OneTrialEach == \A s, t \in schools : s.visitor = t.visitor => s = t

(* A visitor's identity is kept exactly while a Trial School of theirs is, *)
(* though a sweep may run beside a start.                                  *)
VisitorsForgotten == visitors = {s.visitor : s \in schools}

(* A change of role replaces a Session and never adds one: however changes *)
(* of role and sign-outs race, at most one Session descends from each      *)
(* sign-in, and none once a sign-out has ended one of them.                *)
SessionsNeverFork ==
  /\ \A s, t \in sessions : s.line = t.line => s = t
  /\ \A s \in sessions : s.line \notin ended

(* "An account created in a Trial School is deleted with it, and holds no  *)
(* live Session once it has expired" (authentication/index.ts): an account *)
(* that has gone on to another School is locked out at the expiry and let  *)
(* in again, by the very Session it held, once the School is deleted.      *)
Expired(i) == \A s \in schools : s.id = i => ~LiveAt(s, clock)
NoSessionComesBack ==
  \A s \in sessions :
    s.account \in Guests /\ Expired(guest[s.account].born) => ~IsLive(s)

-----------------------------------------------------------------------------
(* The inductive invariant.  A School's id is its own, and was started.     *)
IdsSound ==
  /\ IsFiniteSet(schools)
  /\ \A s, t \in schools : s.id = t.id => s = t
  /\ SchoolIds \subseteq started

(* Whoever holds the start lock holds it alone, and what it counted and     *)
(* decided still bounds what is there: Schools only go while it is held.    *)
LockSound == \A b, c \in Holders : b = c

EntrySound(b) ==
  LET e == entering[b]
  IN /\ e.phase # "none" => e.visitor \in Visitors /\ e.now <= clock
     /\ e.phase = "deciding" =>
          /\ \A s \in schools : s.id \in e.doomed <=> ~LiveAt(s, e.now)
          /\ e.outcome = Start =>
               /\ \A s \in schools : LiveAt(s, e.now) => s.visitor # e.visitor
               /\ Cardinality({s \in schools : LiveAt(s, e.now)}) < liveCap

(* Tokens and lines are counted out, and a Guest's Session has its account. *)
TokensSound ==
  /\ \A s, t \in sessions : s.token = t.token => s = t
  /\ \A s \in sessions : s.token <= issued /\ s.line <= issued
  /\ \A line \in ended : line <= issued

AccountsSound == \A s \in sessions : s.account \in Guests => guest[s.account] # None

IInv ==
  /\ TypeOK /\ IdsSound /\ LockSound /\ TokensSound /\ AccountsSound
  /\ \A b \in Browsers : EntrySound(b)
  /\ WithinTheCap /\ OneTrialEach /\ VisitorsForgotten /\ SessionsNeverFork
=============================================================================
