------------------------------- MODULE Offers -------------------------------
(***************************************************************************)
(* What Invitations promise, with the clock, the locks and the requests    *)
(* left out.  A Person who is not yet attached to a User account has at    *)
(* most one open offer; making another closes it; an open offer ends once, *)
(* by being withdrawn, by lapsing, or by being taken, and taking it is     *)
(* what attaches the Person.  Where an answer may come Late, one that came *)
(* in time is still taken when it is carried out after the offer lapsed,   *)
(* and, a further offer being there by then, the second taking of the two  *)
(* is answered as taken and attaches nobody.                               *)
(***************************************************************************)
EXTENDS Naturals, Sequences

CONSTANTS
  Persons, Accounts,
  Late,   \* may an offer be taken in time and the taking be carried out later?
  None

VARIABLES
  person,   \* the account each Person is attached to, or None
  offers    \* every offer ever made: whose it is, and where it stands

offerVars == <<person, offers>>

Standings == {"open", "withdrawn", "lapsed"} \cup Accounts

OffersTypeOK ==
  /\ person \in [Persons -> Accounts \cup {None}]
  /\ offers \in Seq([person : Persons, standing : Standings])

(* At most one offer per Person is open, and only one was ever taken, by   *)
(* the account the Person is attached to.                                  *)
OffersAgree ==
  \A i, j \in DOMAIN offers :
    /\ offers[i].standing \in Accounts => person[offers[i].person] = offers[i].standing
    /\ i # j /\ offers[i].person = offers[j].person =>
         /\ {offers[i].standing, offers[j].standing} # {"open"}
         /\ ~ {offers[i].standing, offers[j].standing} \subseteq Accounts

Open(i) == offers[i].standing = "open"

OffersInit == OffersTypeOK /\ OffersAgree

Make(p) ==
  /\ person[p] = None
  /\ offers' = Append([i \in DOMAIN offers |->
                         IF Open(i) /\ offers[i].person = p
                         THEN [offers[i] EXCEPT !.standing = "withdrawn"]
                         ELSE offers[i]],
                      [person |-> p, standing |-> "open"])
  /\ UNCHANGED person

Withdraw(i) ==
  /\ Open(i)
  /\ offers' = [offers EXCEPT ![i].standing = "withdrawn"]
  /\ UNCHANGED person

(* Time passes: some open offers lapse together.                           *)
Lapse(some) ==
  /\ some # {} /\ \A i \in some : Open(i)
  /\ offers' = [i \in DOMAIN offers |->
                  IF i \in some THEN [offers[i] EXCEPT !.standing = "lapsed"] ELSE offers[i]]
  /\ UNCHANGED person

Takeable(i) == Open(i) \/ (Late /\ offers[i].standing = "lapsed")

Take(i, a) ==
  /\ Takeable(i)
  /\ person[offers[i].person] = None
  /\ offers' = [offers EXCEPT ![i].standing = a]
  /\ person' = [person EXCEPT ![offers[i].person] = a]

TakeInVain(i, a) ==
  /\ Late /\ Takeable(i)
  /\ person[offers[i].person] # None
  /\ offers' = [offers EXCEPT ![i].standing = a]
  /\ UNCHANGED person

OffersNext ==
  \/ \E p \in Persons : Make(p)
  \/ \E some \in SUBSET DOMAIN offers : Lapse(some)
  \/ \E i \in DOMAIN offers : Withdraw(i) \/ \E a \in Accounts : Take(i, a) \/ TakeInVain(i, a)

Offers == OffersInit /\ [][OffersNext]_offerVars
=============================================================================
