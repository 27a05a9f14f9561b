-------------------------- MODULE MCTradeContext --------------------------
(* Instances of TradeContext for TLC.                                      *)
EXTENDS TradeContext, TLC

CONSTANTS r1, r2, r3

\* One request of any kind, one that derives, reviews or attaches, and one
\* that reviews or attaches.
Few == (r1 :> Kind)
       @@ (r2 :> {"extract", "clearance", "readiness", "review", "attach"})
       @@ (r3 :> {"review", "attach"})

\* Two requests to share, each with its recipient, and a decision.
Shares == [r \in Request |-> IF r = r3 THEN {"review"} ELSE {"share"}]

\* Trades are alike.
Interchangeable == Permutations(Trade)
============================================================================
