----------------------------- MODULE MerkleTree -----------------------------
(***************************************************************************)
(* BuildMerkleTree and VerifyProof of internal/protocol/sub3/merkle.go.    *)
(* The loop that builds the tree is a state machine with one step for each *)
(* level, so that its loop invariant can be stated; VerifyProof is an      *)
(* operator.                                                               *)
(*                                                                         *)
(* SHA-256 of two 32-byte digests is modelled by the pair of the digests,  *)
(* a value different from every leaf.                                      *)
(***************************************************************************)
EXTENDS Naturals, Sequences, FiniteSets, Functions

CONSTANTS
    ChainHashes,   \* the digests that may be leaves
    MaxLeaves      \* bound: leaves of a tree (SUB3_BATCH_SIZE)

VARIABLES
    leaves,        \* the argument
    currentLevel,  \* the nodes of the level reached, each with its leaves
    proofs         \* leaf index -> its proof up to that level

vars == <<leaves, currentLevel, proofs>>

merkleParent(left, right) == <<left, right>>

\* BuildMerkleTree refuses an empty list of leaves.
Batches == UNION {[1..n -> ChainHashes] : n \in 1..MaxLeaves}

Init ==
    /\ leaves \in Batches
    /\ currentLevel = [i \in DOMAIN leaves |-> [hash |-> leaves[i], leafIdxs |-> {i}]]
    /\ proofs = [i \in DOMAIN leaves |-> << >>]

\* The i-th pair of a level; the last node of an odd level is its own sibling.
Left(i)      == currentLevel[2 * i - 1]
Duplicate(i) == 2 * i > Len(currentLevel)
Right(i)     == IF Duplicate(i) THEN Left(i) ELSE currentLevel[2 * i]
Pairs        == 1 .. (Len(currentLevel) + 1) \div 2

Parent(i) == [hash     |-> merkleParent(Left(i).hash, Right(i).hash),
              leafIdxs |-> Left(i).leafIdxs \union Right(i).leafIdxs]

\* Mutant of ProofNode: records the leaf's own side.
ProofNodeSwapped(li) ==
    LET i == CHOOSE i \in Pairs : li \in Parent(i).leafIdxs
    IN  IF li \in Left(i).leafIdxs
        THEN [sibling |-> Right(i).hash, position |-> "left"]
        ELSE [sibling |-> Left(i).hash, position |-> "right"]

\* The proof node that leaf li gets on this level.
ProofNode(li) ==
    LET i == CHOOSE i \in Pairs : li \in Parent(i).leafIdxs
    IN  IF li \in Left(i).leafIdxs
        THEN [sibling |-> Right(i).hash, position |-> "right"]
        ELSE [sibling |-> Left(i).hash, position |-> "left"]

Climb ==
    /\ Len(currentLevel) > 1
    /\ currentLevel' = [i \in Pairs |-> Parent(i)]
    /\ proofs' = [li \in DOMAIN leaves |-> Append(proofs[li], ProofNode(li))]
    /\ UNCHANGED leaves

Next == Climb

Spec == Init /\ [][Next]_vars

Done == Len(currentLevel) = 1
Root == currentLevel[1].hash

\* What VerifyProof computes before it compares with the root.
FoldProof(leafHash, proof) ==
    LET current[n \in 0..Len(proof)] ==
            IF n = 0 THEN leafHash
            ELSE IF proof[n].position = "left"
                 THEN merkleParent(proof[n].sibling, current[n - 1])
                 ELSE merkleParent(current[n - 1], proof[n].sibling)
    IN  current[Len(proof)]

VerifyProof(root, leafHash, proof) == FoldProof(leafHash, proof) = root

-----------------------------------------------------------------------------
(***************************************************************************)
(* LevelInvariant: at every level, each leaf belongs to exactly one node,  *)
(* and its proof so far leads from the leaf to that node, on the side and  *)
(* with the sibling that the code recorded, duplicated nodes included.     *)
(* On the last level it says that every proof verifies against the root.   *)
(***************************************************************************)
LevelInvariant ==
    \A li \in DOMAIN leaves :
        LET owners == {i \in DOMAIN currentLevel : li \in currentLevel[i].leafIdxs}
        IN  /\ Cardinality(owners) = 1
            /\ \A i \in owners : VerifyProof(currentLevel[i].hash, leaves[li], proofs[li])

(***************************************************************************)
(* ProofsBind: a leaf's proof verifies no other leaf against the root, and *)
(* with distinct leaves no two leaves have the same proof: a proof says    *)
(* which position of which batch it is for.                                *)
(***************************************************************************)
ProofsBind ==
    Done => \A li \in DOMAIN leaves :
                /\ \A h \in ChainHashes : VerifyProof(Root, h, proofs[li]) => h = leaves[li]
                /\ \A lj \in DOMAIN leaves :
                      IsInjective(leaves) /\ proofs[li] = proofs[lj] => li = lj

-----------------------------------------------------------------------------
(***************************************************************************)
(* The reference: the root of a list from its shape, by recursion from the *)
(* root down.  Node n of level d covers the leaves 2^d * n + 1 .. and, on  *)
(* a level whose last node is unpaired, is its own sibling.                *)
(***************************************************************************)
LastOn(d, s) == (Len(s) - 1) \div 2^d

Nodes(s) ==
    LET node[d \in 0..Len(s), n \in 0..Len(s)] ==
            IF d = 0 THEN s[n + 1]
            ELSE LET r == IF 2 * n + 1 <= LastOn(d - 1, s) THEN 2 * n + 1 ELSE 2 * n
                 IN  merkleParent(node[d - 1, 2 * n], node[d - 1, r])
    IN  node

Depth(s) == CHOOSE d \in 0..Len(s) : LastOn(d, s) = 0 /\ \A e \in 0..(d - 1) : LastOn(e, s) > 0

RootOf(s) == Nodes(s)[Depth(s), 0]

\* MeetsReference: the loop computes the reference root, and proofs as long as
\* the tree is deep (BuildMerkleTree).
MeetsReference ==
    Done => /\ Root = RootOf(leaves)
            /\ \A li \in DOMAIN leaves : Len(proofs[li]) = Depth(leaves)

(***************************************************************************)
(* RootBindsLeaves: two lists without repetition that have the same root   *)
(* are the same list.  (The evidence of a batch never repeats a chain      *)
(* hash.  With repetition it fails: <<a, b, c>> and <<a, b, c, c>>.)       *)
(***************************************************************************)
RootBindsLeaves ==
    Done /\ IsInjective(leaves) =>
        \A s \in Batches :
            IsInjective(s) /\ RootOf(s) = Root => s = leaves
=============================================================================
