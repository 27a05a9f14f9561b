----------------------------- MODULE MCWebClient -----------------------------
(* The instance of WebClient that TLC checks.                               *)
EXTENDS WebClient, TLC

\* Which organisation is which makes no difference.
Symmetry == Permutations(Org)

\* A trade that has everything but a payment.
AllButPayment == Kind \ {"payment_intent"}
=============================================================================
