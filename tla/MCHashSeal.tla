----------------------------- MODULE MCHashSeal -----------------------------
(***************************************************************************)
(* Instances of HashSeal for TLC.                                          *)
(***************************************************************************)
EXTENDS HashSeal, TLC

CONSTANTS m1, m2, h1, h2, h3, w1, w2, w3

\* Each merchant has its own advisory lock, so that the inserts of two merchants'
\* workers can meet at one event_hash while both hold their locks.
OwnLocks == m1 :> 1 @@ m2 :> 2
\* Workers, merchants and hashes are interchangeable: no definition of the
\* specification tells one from another, and every lock treats merchants alike.
Symmetry ==
    Permutations(Workers) \union Permutations(Merchants) \union Permutations(Hashes)
=============================================================================
