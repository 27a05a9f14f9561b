---------------------------- MODULE PaymentOnce ----------------------------
(***************************************************************************)
(* What protected payment execution promises: an approval is granted and   *)
(* may be withdrawn; an intent is paid once, by one approval granted for   *)
(* it; an approval pays once; the provider is given an order only for a    *)
(* granted approval of an unpaid intent, and a live payment has its order. *)
(***************************************************************************)
CONSTANTS Approval, Intent, TargetOf, Live, None

VARIABLES
  granted,   \* the approvals that release their payment
  ordered,   \* the approvals for which the provider holds an order
  paidBy     \* the approval that paid an intent

vars == <<granted, ordered, paidBy>>

Init ==
  /\ granted = {}
  /\ ordered = {}
  /\ paidBy = [i \in Intent |-> None]

Unpaid(a) == a \in granted /\ paidBy[TargetOf[a]] = None

Grant(a) ==
  /\ granted' = granted \cup {a}
  /\ UNCHANGED <<ordered, paidBy>>

Withdraw(a) ==
  /\ granted' = granted \ {a}
  /\ UNCHANGED <<ordered, paidBy>>

Order(a) ==
  /\ a \in Live
  /\ Unpaid(a)
  /\ ordered' = ordered \cup {a}
  /\ UNCHANGED <<granted, paidBy>>

Pay(a) ==
  /\ Unpaid(a)
  /\ a \in Live => a \in ordered
  /\ paidBy' = [paidBy EXCEPT ![TargetOf[a]] = a]
  /\ UNCHANGED <<granted, ordered>>

Next == \E a \in Approval : Grant(a) \/ Withdraw(a) \/ Order(a) \/ Pay(a)

Spec == Init /\ [][Next]_vars
=============================================================================
