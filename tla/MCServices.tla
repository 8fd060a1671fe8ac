----------------------------- MODULE MCServices -----------------------------
(***************************************************************************)
(* The services beside the trade on small instances.                       *)
(***************************************************************************)
EXTENDS Services, TLC

CONSTANTS s1, s2, ann, bob, m1, p, q, d1, d2

Symmetry == Permutations({s1, s2})

\* One match of ann and bob, and the pushes it causes.
MCBetween == m1 :> <<ann, bob>>
MCDeals == {<<ann, bob>>}

\* Two trades of the same two users over two goods: the first gives p for q,
\* the second the same again or the other way round.
MCPartners == [d \in {d1, d2} |-> <<ann, bob>>]
Exchange(given, taken) ==
    [leg \in {ann, bob} \X {p, q} |->
        IF leg \in {<<ann, given>>, <<bob, taken>>} THEN 1 ELSE 0]
MCProposals == (d1 :> {Exchange(p, q)}) @@ (d2 :> {Exchange(p, q), Exchange(q, p)})

\* ann holds one piece of p, too few for both trades, or two.
Holding(n) ==
    [r \in {ann, bob} \X {p, q} \X {"HAVE", "WANT", "TRADE"} |->
        IF <<r[1], r[2]>> # <<ann, p>> THEN 1 ELSE IF r[3] = "WANT" THEN 0 ELSE n]
MCStocks == {Holding(1), Holding(2)}
MCEdits == {<< <<ann, p, "HAVE">>, 0>>, << <<ann, p, "HAVE">>, -1>>}

\* What only one service looks at is varied when that one is in focus.
MCInit ==
    /\ Init
    /\ focus # "push" => enabled
    /\ focus # "projection" => stock = Holding(1)

MCSpec == MCInit /\ [][Next]_vars
=============================================================================
