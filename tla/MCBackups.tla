------------------------------ MODULE MCBackups ------------------------------
EXTENDS PhoneBackups, TLC

CONSTANTS timer, release, courier1, courier2

\* The first two generations are of one week; the cutoff may fall between them.
MCWeek == [r \in Ids |-> (r + 1) \div 2]

\* The host alone, with many generations or many restores, and both on one host.
MCShares == {<<3, 0, 1>>, <<2, 0, 2>>, <<1, 1, 0>>, <<0, 2, 0>>}

Symmetry == Permutations(Backers) \cup Permutations(Couriers)
=============================================================================
