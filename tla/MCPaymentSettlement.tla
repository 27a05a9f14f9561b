------------------------ MODULE MCPaymentSettlement ------------------------
(* Small instances of PaymentSettlement for TLC. *)
EXTENDS PaymentSettlement, TLC

\* Deliveries and workers are interchangeable. Only safety is checked with it.
Interchangeable == Permutations(Delivery) \cup Permutations(Worker)
=============================================================================
