-------------------------- MODULE ReservationOnce --------------------------
(***************************************************************************)
(* What the acceptance of funding offers promises for a trade: an approval *)
(* is spent on one reservation, made while it is in force and for its own  *)
(* offer; a reservation takes the trade only when the one before it is     *)
(* over; and whoever asks with the same approval is told of the same       *)
(* reservation.                                                            *)
(***************************************************************************)
CONSTANTS Offer, Approval, Acceptance, OfferOf, None

VARIABLES
  granted,  \* the approvals in force for their offer as it is
  asked,    \* the offer and the approval of those acceptances that were sent
  spent,    \* the acceptance that made the reservation of an approval
  active,   \* the acceptances whose reservation has the trade
  over,     \* the offers and the reservations whose time has passed
  told      \* the reservation an acceptance was answered with

vars == <<granted, asked, spent, active, over, told>>

Init ==
  /\ granted = {}
  /\ asked = [c \in {} |-> None]
  /\ spent = [a \in Approval |-> None]
  /\ active = {}
  /\ over = [offers |-> {}, reservations |-> {}]
  /\ told = [c \in Acceptance |-> None]

\* Decisions give and take approvals; so do the rankings of their offers.
Regrant ==
  /\ granted' \in SUBSET Approval
  /\ UNCHANGED <<asked, spent, active, over, told>>

Ask(c) ==
  /\ c \notin DOMAIN asked
  /\ \E r \in [offer : Offer, approval : Approval] :
       asked' = [d \in DOMAIN asked \cup {c} |-> IF d = c THEN r ELSE asked[d]]
  /\ UNCHANGED <<granted, spent, active, over, told>>

Lapse ==
  /\ \/ \E o \in Offer : over' = [over EXCEPT !.offers = @ \cup {o}]
     \/ \E c \in Acceptance : over' = [over EXCEPT !.reservations = @ \cup {c}]
  /\ UNCHANGED <<granted, asked, spent, active, told>>

\* A reservation is over by its own time or by that of its offer.
Over(c) == c \in over.reservations \/ asked[c].offer \in over.offers

Waits(c) == c \in DOMAIN asked /\ told[c] = None

Reserve(c) ==
  LET a == asked[c].approval IN
  /\ Waits(c)
  /\ a \in granted
  /\ OfferOf[a] = asked[c].offer
  /\ spent[a] = None
  /\ \A d \in active : Over(d)
  /\ spent' = [spent EXCEPT ![a] = c]
  /\ active' = {c}
  /\ told' = [told EXCEPT ![c] = c]
  /\ UNCHANGED <<granted, asked, over>>

Repeat(c) ==
  LET a == asked[c].approval IN
  /\ Waits(c)
  /\ spent[a] # None
  /\ told' = [told EXCEPT ![c] = spent[a]]
  /\ UNCHANGED <<granted, asked, spent, active, over>>

Next ==
  \/ Regrant \/ Lapse
  \/ \E c \in Acceptance : Ask(c) \/ Reserve(c) \/ Repeat(c)

Spec == Init /\ [][Next]_vars
=============================================================================
