---------------------------- MODULE MerkleAnchor ----------------------------
(***************************************************************************)
(* Sub 3, Merkle & Ordinal: cmd/sub3-merkle-ordinal, and worker.go and     *)
(* store.go of internal/protocol/sub3.  A worker's tick fetches unanchored *)
(* evidence under row locks (Tx 1), groups it by merchant, and for each    *)
(* group that is large enough inscribes a Merkle root with an external     *)
(* service and records the anchor and one proof row per leaf (Tx 2).       *)
(*                                                                         *)
(* The row <<m, n>> is merchant m's n-th event by ingested_at.  A Merkle   *)
(* root is modelled by the set of its leaves: leaves are in ingested_at    *)
(* order, and MerkleTree checks that trees of different leaves have        *)
(* different roots.  A leaf's proof is modelled by its anchor and index.   *)
(***************************************************************************)
EXTENDS Naturals, Sequences, FiniteSets

CONSTANTS
    Merchants,    \* merchant ids, ordered as ORDER BY merchant_id orders them
    MaxPerMerchant, \* bound: events of one merchant
    Workers,      \* Sub 3 processes
    Survivor,     \* the process whose ticker goes on for ever
    BatchSize,    \* SUB3_BATCH_SIZE, the LIMIT of the fetch
    MinBatch,     \* SUB3_MIN_BATCH, the smallest group that is anchored
    MaxFailed     \* bound: 'failed' rows in protocol.anchors

ASSUME MerkleAnchorAssumption ==
    /\ Merchants \subseteq Nat
    /\ Survivor \in Workers
    /\ MaxPerMerchant \in Nat
    /\ BatchSize \in Nat \ {0}
    /\ MinBatch \in Nat \ {0}
    /\ MaxFailed \in Nat

Rows == Merchants \X (1..MaxPerMerchant)

VARIABLES
    evidence,     \* rows of protocol.evidence
    anchors,      \* rows of protocol.anchors; an anchor's index is its id
    proofs,       \* rows of protocol.evidence_anchors
    inscribed,    \* external: the roots the inscription service has accepted
    pc,           \* worker -> where it is in WriteAnchor
    fetched,      \* worker -> rows locked by Tx 1, then those still to anchor
    result        \* worker -> the anchor_status its inscription calls for

anchoringVars == <<evidence, anchors, proofs, inscribed, pc, fetched, result>>

\* by is a history field: the worker that wrote the anchor.
Anchor == [root : SUBSET Rows, event_count : Nat, by : Workers,
           anchor_status : {"pending", "inscribed", "failed"}]
Proof  == [row : Rows, anchor : Nat \ {0}, leaf_index : Nat]

AnchoringTypeOK ==
    /\ evidence \subseteq Rows
    /\ anchors \in Seq(Anchor)
    /\ proofs \subseteq Proof
    /\ \A p \in proofs : p.row \in evidence /\ p.anchor \in DOMAIN anchors
    /\ inscribed \subseteq SUBSET Rows
    /\ pc \in [Workers -> {"idle", "locked", "inscribe", "write"}]
    /\ fetched \in [Workers -> SUBSET evidence]
    /\ \A w \in Workers : pc[w] = "idle" <=> fetched[w] = {}
    /\ result \in [Workers -> {"pending", "inscribed"}]

AnchoringInit ==
    /\ evidence = {}
    /\ anchors = << >>
    /\ proofs = {}
    /\ inscribed = {}
    /\ pc = [w \in Workers |-> "idle"]
    /\ fetched = [w \in Workers |-> {}]
    /\ result = [w \in Workers |-> "pending"]

-----------------------------------------------------------------------------
\* Sub 1 seals an event.  Events need not be sealed in ingested_at order.
Seal(r) ==
    /\ r \notin evidence
    /\ evidence' = evidence \union {r}
    /\ UNCHANGED <<anchors, proofs, inscribed, pc, fetched, result>>

\* ORDER BY merchant_id, ingested_at
Precedes(r, s) == r[1] < s[1] \/ (r[1] = s[1] /\ r[2] < s[2])

\* Mutant of Unanchored: no NOT EXISTS over evidence_anchors.
AllEvidence == evidence

Unanchored == {r \in evidence : \A p \in proofs : p.row # r}

\* FOR UPDATE SKIP LOCKED: the rows other workers hold in their Tx 1.
Locked(w) == UNION {fetched[v] : v \in {v \in Workers \ {w} : pc[v] = "locked"}}

\* The first BatchSize rows of S.
Limit(S) == {r \in S : Cardinality({s \in S : Precedes(s, r)}) < BatchSize}

\* WriteAnchor with nothing to anchor: the tick does nothing.
IdleTick(w) ==
    /\ pc[w] = "idle"
    /\ Limit(Unanchored \ Locked(w)) = {}
    /\ UNCHANGED anchoringVars

\* WriteAnchor, lockAndFetchUnanchored
Fetch(w) ==
    /\ pc[w] = "idle"
    /\ Limit(Unanchored \ Locked(w)) # {}
    /\ fetched' = [fetched EXCEPT ![w] = Limit(Unanchored \ Locked(w))]
    /\ pc' = [pc EXCEPT ![w] = "locked"]
    /\ UNCHANGED <<evidence, anchors, proofs, inscribed, result>>

OfMerchant(S, m) == {r \in S : r[1] = m}

\* Mutant of LargeGroups: skips a group of exactly MinBatch rows too.
LargerGroups(S) == {r \in S : Cardinality(OfMerchant(S, r[1])) > MinBatch}

\* Groups of fewer than MinBatch rows are skipped.
LargeGroups(S) == {r \in S : Cardinality(OfMerchant(S, r[1])) >= MinBatch}

\* WriteAnchor goes on with rows S; it returns when none are left.
Continue(w, S) ==
    /\ fetched' = [fetched EXCEPT ![w] = S]
    /\ pc' = [pc EXCEPT ![w] = IF S = {} THEN "idle" ELSE "inscribe"]

\* Commit of Tx 1, which releases the locks, and the grouping.
CommitFetch(w) ==
    /\ pc[w] = "locked"
    /\ Continue(w, LargeGroups(fetched[w]))
    /\ UNCHANGED <<evidence, anchors, proofs, inscribed, result>>

\* merchantOrder: the group of the first merchant that still has rows.
Group(w) == {r \in fetched[w] : \A s \in fetched[w] : r[1] <= s[1]}

\* inscribeAndWriteForMerchant: the service accepts the root; without an
\* inscription id the anchor is only pending.
Inscribe(w) ==
    /\ pc[w] = "inscribe"
    /\ inscribed' = inscribed \union {Group(w)}
    /\ \E status \in {"pending", "inscribed"} : result' = [result EXCEPT ![w] = status]
    /\ pc' = [pc EXCEPT ![w] = "write"]
    /\ UNCHANGED <<evidence, anchors, proofs, fetched>>

\* The anchor of worker w's current group.
AnchorOf(w, status) ==
    [root |-> Group(w), event_count |-> Cardinality(Group(w)), by |-> w, anchor_status |-> status]

FailedCount == Cardinality({k \in DOMAIN anchors : anchors[k].anchor_status = "failed"})

\* Mutant of InscribeFailed: goes on to write the anchor.
InscribeFailedIgnored(w) ==
    /\ pc[w] = "inscribe"
    /\ pc' = [pc EXCEPT ![w] = "write"]
    /\ UNCHANGED <<evidence, anchors, proofs, inscribed, fetched, result>>

\* Inscribe returns an error, with or without the service having accepted the
\* root; WriteFailed records it, unless it fails too.
InscribeFailed(w) ==
    /\ pc[w] = "inscribe"
    /\ \/ UNCHANGED inscribed
       \/ inscribed' = inscribed \union {Group(w)}
    /\ \/ UNCHANGED anchors
       \/ FailedCount < MaxFailed /\ anchors' = Append(anchors, AnchorOf(w, "failed"))
    /\ Continue(w, fetched[w] \ Group(w))
    /\ UNCHANGED <<evidence, proofs, result>>

\* The position of a row in its group's order, counted from 0.
LeafIndex(r, group) == Cardinality({s \in group : Precedes(s, r)})

\* writeAnchorResults: one transaction for the anchor and all its proofs.
\* The anchor's id is new, so ON CONFLICT (event_hash, anchor_id) never fires.
WriteResults(w) ==
    /\ pc[w] = "write"
    /\ anchors' = Append(anchors, AnchorOf(w, result[w]))
    /\ proofs' = proofs \union
                   {[row |-> r, anchor |-> Len(anchors) + 1, leaf_index |-> LeafIndex(r, Group(w))] :
                        r \in Group(w)}
    /\ Continue(w, fetched[w] \ Group(w))
    /\ UNCHANGED <<evidence, inscribed, result>>

\* Tx 2 fails; WriteAnchor swallows the error and takes the next merchant.
WriteFails(w) ==
    /\ pc[w] = "write"
    /\ Continue(w, fetched[w] \ Group(w))
    /\ UNCHANGED <<evidence, anchors, proofs, inscribed, result>>

\* Tx 1 fails, or the process stops and starts again: the tick is lost.
Abort(w) ==
    /\ pc[w] # "idle"
    /\ Continue(w, {})
    /\ UNCHANGED <<evidence, anchors, proofs, inscribed, result>>

Step(w) == Fetch(w) \/ CommitFetch(w) \/ Inscribe(w) \/ WriteResults(w)

TickFault(w) == InscribeFailed(w) \/ WriteFails(w) \/ Abort(w)

AnchoringNext ==
    \/ \E r \in Rows : Seal(r)
    \/ \E w \in Workers : IdleTick(w) \/ Step(w) \/ TickFault(w)

AnchoringSpec == AnchoringInit /\ [][AnchoringNext]_anchoringVars

\* Every tick goes on to its end, Survivor's ticker keeps ticking, and from some
\* point on nothing fails and nobody else starts a tick: two tickers could for
\* ever lock parts of a group that are each too small.  (An aborted tick and one
\* that finds no large group leave the same state behind.)
CalmSpec ==
    /\ AnchoringSpec
    /\ \A w \in Workers : WF_anchoringVars(pc[w] # "idle" /\ Step(w))
    /\ WF_anchoringVars(Step(Survivor))
    /\ <>[][\A w \in Workers : (TickFault(w) => Step(w)) /\ (Fetch(w) => w = Survivor)]_anchoringVars

-----------------------------------------------------------------------------
(***************************************************************************)
(* ProofsMatchAnchors: an anchor that did not fail has exactly one proof   *)
(* row for each of its leaves, each with an index of its own below the     *)
(* event_count; a failed one has none, so its rows are fetched again.      *)
(* The proofs are in one transaction with their anchor                     *)
(* (writeAnchorResults, WriteFailed).                                      *)
(***************************************************************************)
ProofsMatchAnchors ==
    \A k \in DOMAIN anchors :
        LET mine == {p \in proofs : p.anchor = k}
        IN  IF anchors[k].anchor_status = "failed" THEN mine = {}
            ELSE /\ {p.row : p \in mine} = anchors[k].root
                 /\ {p.leaf_index : p \in mine} = 0..(anchors[k].event_count - 1)
                 /\ Cardinality(mine) = anchors[k].event_count

(***************************************************************************)
(* TenantsApart: the leaves of an anchor all belong to one merchant, so a  *)
(* tenant's proof never refers to another tenant's events (WriteAnchor).   *)
(***************************************************************************)
TenantsApart ==
    \A k \in DOMAIN anchors : \A r, s \in anchors[k].root : r[1] = s[1]

(***************************************************************************)
(* AnchoredRootsInscribed: an anchor is recorded as pending or inscribed   *)
(* only for a root that the service accepted, and has at least MinBatch    *)
(* leaves (inscribeAndWriteForMerchant).                                   *)
(***************************************************************************)
AnchoredRootsInscribed ==
    \A k \in DOMAIN anchors : anchors[k].anchor_status # "failed" =>
        /\ anchors[k].root \in inscribed
        /\ anchors[k].event_count >= MinBatch

\* AnchoringInv: types, and what protocol.anchors and protocol.evidence_anchors
\* say of each other, of tenants and of the inscription service (WriteAnchor).
AnchoringInv == AnchoringTypeOK /\ ProofsMatchAnchors /\ TenantsApart /\ AnchoredRootsInscribed

(***************************************************************************)
(* OncePerWorker: a worker never anchors a row twice, however often its    *)
(* inscriptions, writes and ticks fail: a row with a proof is not fetched  *)
(* again.  Two workers may each anchor it once: the locks that keep them   *)
(* apart end with Tx 1, before the proofs are written                      *)
(* (lockAndFetchUnanchored, WriteAnchor).                                  *)
(***************************************************************************)
OncePerWorker ==
    \A p, q \in proofs : p.row = q.row /\ anchors[p.anchor].by = anchors[q.anchor].by => p = q

\* What keeps OncePerWorker: the rows that a worker has in hand have no proof in an
\* anchor of its own (Unanchored).
HeldUnanchored ==
    \A w \in Workers, p \in proofs : p.row \in fetched[w] => anchors[p.anchor].by # w

\* The rows that stay in front of merchant m's: those of the merchants before it
\* whose groups are too small to be anchored.
Crowd(m) ==
    {r \in Unanchored : r[1] < m /\ Cardinality(OfMerchant(Unanchored, r[1])) < MinBatch}

(***************************************************************************)
(* EventuallyAnchored: once ticks stop failing, rows of a merchant that    *)
(* has enough of them do not stay unanchored for ever (WriteAnchor: "the   *)
(* next cycle will pick these rows up"), as long as the small groups of    *)
(* the merchants before it leave room for MinBatch of them in a batch.     *)
(* Without that room the code never fetches them: the LIMIT cuts before    *)
(* the grouping (lockAndFetchUnanchored).                                  *)
(***************************************************************************)
EventuallyAnchored ==
    \A m \in Merchants :
        LET waits == /\ Cardinality(OfMerchant(Unanchored, m)) >= MinBatch
                     /\ Cardinality(Crowd(m)) + MinBatch <= BatchSize
        IN  waits ~> ~waits
=============================================================================
