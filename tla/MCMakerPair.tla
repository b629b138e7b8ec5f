----------------------------- MODULE MCMakerPair -----------------------------
(***************************************************************************)
(* Finite instances of MakerPair. Order ids are interchangeable.           *)
(***************************************************************************)
EXTENDS MakerPair, TLC

IdSymmetry == Permutations(OrderIds)

Quote(m, t) == [maker |-> m, taker |-> t]

\* The pair's price stays, rises past the tolerance, or falls back.
MCTwoPrices == {Quote(100, 1), Quote(150, 1)}
MCOnePrice == {Quote(100, 1)}

\* A floor of 120 lies between the two USD prices of the maker. The pair's price is
\* the same in the first two: only the floor tells them apart. The taker's
\* price in the last differs from that in the second by less than the tolerance.
MCFloorQuotes == {Quote(150, 2000), Quote(75, 1000), Quote(75, 995)}
=============================================================================
