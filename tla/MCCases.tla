------------------------------ MODULE MCCases -------------------------------
EXTENDS Cases, TLC

CONSTANTS minor, major

RuleSeverity == minor :> 1 @@ major :> 3

Symmetry == Permutations(Workers)
=============================================================================
