------------------------------ MODULE MCTrade -------------------------------
(***************************************************************************)
(* Instances of the match lifecycle for TLC: who owns and wants what, and  *)
(* which rows users edit while the run lasts.                              *)
(***************************************************************************)
EXTENDS TradeProperties, TLC

CONSTANTS u1, u2, u3, a, b, c, g1, g2

OneEach(rows) == [r \in Rows |-> IF r \in rows THEN 1 ELSE 0]
NoStock == OneEach({})

\* u1 has a to give for b, u2 has b to give for a: one possible exchange.
SwapRows ==
    {<<u1, a, "TRADE">>, <<u2, a, "WANT">>, <<u2, b, "TRADE">>, <<u1, b, "WANT">>}
SwapStock == OneEach(SwapRows)
OneSwap == {SwapStock}
SwapStockOfTwo == [r \in Rows |-> IF r \in SwapRows THEN 2 ELSE 0]

\* u1 has one a, which both u2 and u3 want for the b they trade.
RivalRows ==
    SwapRows \cup {<<u3, a, "WANT">>, <<u3, b, "TRADE">>}
RivalStock == OneEach(RivalRows)

\* As the swap, and u2 has c to give as well.
ThirdItemStock ==
    OneEach(SwapRows \cup {<<u2, c, "TRADE">>, <<u1, c, "WANT">>})

TradeOfA == {<<u1, a, "TRADE">>}
BothTrades == {<<u1, a, "TRADE">>, <<u2, b, "TRADE">>}

\* Users enter quantities below zero as well.
AnySign == {-1, 0, 1}

AllInG1 == [m \in Merch |-> g1]

SessionSymmetry == Permutations(Sessions)

=============================================================================
