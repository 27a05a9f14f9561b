------------------------ MODULE MCFundingAcceptance ------------------------
EXTENDS FundingAcceptance, TLC

CONSTANTS a1, a2, o1, o2

\* Each approval is for an offer of its own.
TwoOffers == (a1 :> o1) @@ (a2 :> o2)

OneOffer == a1 :> o1

Exchange == (a1 :> a2) @@ (a2 :> a1) @@ (o1 :> o2) @@ (o2 :> o1)
Leave == (a1 :> a1) @@ (a2 :> a2) @@ (o1 :> o1) @@ (o2 :> o2)

\* Requests are interchangeable, and so are the offers with their approvals.
Interchangeable ==
  {requests @@ offers : requests \in Permutations(Acceptance),
                        offers \in {Exchange, Leave}}
=============================================================================
