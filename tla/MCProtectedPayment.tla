------------------------ MODULE MCProtectedPayment ------------------------
(* Small instances of ProtectedPayment for TLC. *)
EXTENDS ProtectedPayment, TLC

CONSTANTS a1, a2, i1, i2

\* Every approval is for the same intent ...
OneTarget == [a \in Approval |-> i1]
\* ... or there are two intents, and calls that name the wrong one.
TwoTargets == [a \in Approval |-> IF a = a1 THEN i1 ELSE i2]

\* Approvals, calls, reviews and keys are interchangeable when every approval
\* has the same target and the same rail. Only safety is checked with it.
Interchangeable ==
  Permutations(Approval) \cup Permutations(Call) \cup Permutations(Review)
    \cup Permutations(Key)

\* When the approvals differ only keys and requests are interchangeable.
InterchangeableRequests ==
  Permutations(Call) \cup Permutations(Review) \cup Permutations(Attachment)
    \cup Permutations(Key)
=============================================================================
