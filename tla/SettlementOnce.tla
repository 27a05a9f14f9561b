--------------------------- MODULE SettlementOnce ---------------------------
(***************************************************************************)
(* What the settlement of payments promises: a payment that was opened is  *)
(* moved by what the provider has reported, each report once, by a booking *)
(* of the bank, which only ends a payment that is open, or by a user; and  *)
(* an end that no user brought about is announced together with it.        *)
(***************************************************************************)
EXTENDS Naturals

CONSTANTS
  Payment,
  ByUser,   \* payments a user may end
  Report,   \* what the provider says of a payment
  Meaning   \* the state a report moves its payment to, if any

End == {"executed", "failed", "returned", "refunded"}
Event == [payment : Payment, report : Report]

VARIABLES
  state,     \* "absent", "open" or how the payment ended
  reported,  \* the events the provider has told of
  heard,     \* the events that have been taken note of
  effects,   \* how often an event moved its payment
  booked,    \* the payments the bank has carried out
  due,       \* ends brought about by a user that have yet to be announced
  told       \* ends that were announced

vars == <<state, reported, heard, effects, booked, due, told>>

Init ==
  /\ state = [p \in Payment |-> "absent"]
  /\ reported = {} /\ heard = {} /\ booked = {}
  /\ effects = [e \in Event |-> 0]
  /\ due = [p \in Payment |-> {}]
  /\ told = [p \in Payment |-> {}]

Opened(p) == state[p] # "absent"

Open(p) ==
  /\ ~Opened(p)
  /\ state' = [state EXCEPT ![p] = "open"]
  /\ UNCHANGED <<reported, heard, effects, booked, due, told>>

Tell(e) ==
  /\ reported' = reported \cup {e}
  /\ UNCHANGED <<state, heard, effects, booked, due, told>>

Book(p) ==
  /\ booked' = booked \cup {p}
  /\ UNCHANGED <<state, reported, heard, effects, due, told>>

\* A report takes effect once, whatever the payment has come to by then.
Hear(e) ==
  LET p == e.payment  s == Meaning[e.report] IN
  /\ e \in reported \ heard
  /\ Opened(p)
  /\ heard' = heard \cup {e}
  /\ IF s \in {"open"} \cup End
     THEN /\ state' = [state EXCEPT ![p] = s]
          /\ effects' = [effects EXCEPT ![e] = @ + 1]
          /\ told' = [told EXCEPT ![p] = @ \cup ({s} \cap End)]
     ELSE UNCHANGED <<state, effects, told>>
  /\ UNCHANGED <<reported, booked, due>>

\* A statement ends payments that it shows as booked and that are open.
Settle(ps) ==
  /\ \A p \in ps : p \in booked /\ state[p] = "open"
  /\ state' = [p \in Payment |-> IF p \in ps THEN "executed" ELSE state[p]]
  /\ told' = [p \in Payment |->
       IF p \in ps THEN told[p] \cup {"executed"} ELSE told[p]]
  /\ UNCHANGED <<reported, heard, effects, booked, due>>

Complete(p, s) ==
  /\ p \in ByUser
  /\ Opened(p)
  /\ state' = [state EXCEPT ![p] = s]
  /\ due' = [due EXCEPT ![p] = @ \cup {s}]
  /\ UNCHANGED <<reported, heard, effects, booked, told>>

\* The announcement that is due is made, or forgotten by a process that dies.
Announce(p, s) ==
  /\ s \in due[p]
  /\ due' = [due EXCEPT ![p] = @ \ {s}]
  /\ told' \in {told, [told EXCEPT ![p] = @ \cup {s}]}
  /\ UNCHANGED <<state, reported, heard, effects, booked>>

Refund(p) ==
  /\ Opened(p)
  /\ state' = [state EXCEPT ![p] = "refunded"]
  /\ told' = [told EXCEPT ![p] = @ \cup {"refunded"}]
  /\ UNCHANGED <<reported, heard, effects, booked, due>>

Next ==
  \/ \E ps \in SUBSET Payment : Settle(ps)
  \/ \E p \in Payment :
       \/ Open(p) \/ Book(p) \/ Refund(p)
       \/ \E s \in {"executed", "failed"} : Complete(p, s) \/ Announce(p, s)
  \/ \E e \in Event : Tell(e) \/ Hear(e)

Spec == Init /\ [][Next]_vars
=============================================================================
