--------------------------- MODULE EvidenceLedger ---------------------------
(***************************************************************************)
(* What Sub 1 promises of the evidence table, without its workers, locks   *)
(* and stream: events are sealed one at a time, each at most once, each    *)
(* one onto the row that is its merchant's latest at the moment the new    *)
(* row appears, and no row ever changes afterwards.                        *)
(***************************************************************************)
EXTENDS Evidence

VARIABLE evidence

Init == evidence = << >>

Seal(evt) ==
    /\ ~ Sealed(evidence, evt.event_hash)
    /\ \E prev \in LookupPrevChainHash(evidence, evt.merchant_id) :
          evidence' = Append(evidence, EvidenceRow(evt, prev))

Next == \E evt \in Event : Seal(evt)

Spec == Init /\ [][Next]_evidence

-----------------------------------------------------------------------------
\* The rows of row k's merchant that were sealed before it.
Before(k) == {j \in RowsOf(evidence, evidence[k].merchant_id) : j < k}

(***************************************************************************)
(* Chained: a merchant has at most one first event, and every other row of *)
(* it names the chain hash of a row of the same merchant sealed before it. *)
(* A chain walked back from any row therefore ends, and ends at the        *)
(* merchant's only first event (WriteEvidence).                            *)
(***************************************************************************)
Chained ==
    \A k \in DOMAIN evidence :
        IF Before(k) = {} THEN evidence[k].prev_chain_hash = NoPrev
        ELSE \E j \in Before(k) : evidence[k].prev_chain_hash = evidence[j].chain_hash

\* The rows of m were sealed in the order of their ingested_at.
InOrder(m) ==
    \A j, k \in RowsOf(evidence, m) : j < k => evidence[j].ingested_at < evidence[k].ingested_at

\* No two rows of m continue the same row.
Linear(m) ==
    \A j, k \in RowsOf(evidence, m) :
        evidence[j].prev_chain_hash = evidence[k].prev_chain_hash => j = k

(***************************************************************************)
(* LinearWhenInOrder: a merchant whose events were sealed in the order of  *)
(* their gateway timestamps has a linear chain.  WriteEvidence's comment   *)
(* claims linearity outright; this is the part of the claim that its lock  *)
(* and its ORDER BY ingested_at DESC deliver.                              *)
(***************************************************************************)
LinearWhenInOrder == \A m \in Merchants : InOrder(m) => Linear(m)

-----------------------------------------------------------------------------
(***************************************************************************)
(* The inductive invariant.  Chained and Linear speak of the whole table;  *)
(* ExtendsLatest keeps, for each row, what was true when it was sealed.    *)
(***************************************************************************)
OncePerHash ==
    \A j, k \in DOMAIN evidence : evidence[j].event_hash = evidence[k].event_hash => j = k

HashesInputs ==
    \A k \in DOMAIN evidence : \E ts \in Times :
        evidence[k].chain_hash =
            ComputeChainHash(evidence[k].event_hash, evidence[k].prev_chain_hash, ts)

ExtendsLatest ==
    \A k \in DOMAIN evidence :
        \/ Before(k) = {} /\ evidence[k].prev_chain_hash = NoPrev
        \/ \E j \in Before(k) :
              /\ evidence[k].prev_chain_hash = evidence[j].chain_hash
              /\ \A i \in Before(k) : evidence[i].ingested_at <= evidence[j].ingested_at

LedgerInv == IsTable(evidence) /\ OncePerHash /\ HashesInputs /\ ExtendsLatest
=============================================================================
