------------------------------ MODULE Evidence ------------------------------
(***************************************************************************)
(* The protocol.evidence table as Sub 1 (internal/protocol/sub1/seal.go)   *)
(* reads and writes it.  The table is the sequence of its rows in commit   *)
(* order.  Every query of the code is an operator on that sequence.        *)
(*                                                                         *)
(* A chain hash is SHA-256 of its three inputs; it is modelled by the      *)
(* triple of the inputs, so two chain hashes are equal exactly when their  *)
(* inputs are.                                                             *)
(***************************************************************************)
EXTENDS Naturals, Sequences

CONSTANTS
    Merchants,   \* merchant_id values
    Hashes,      \* event_hash values: SHA-256 of a payload
    Times,       \* clock readings a producer may put into ingested_at
    Precision    \* clock ticks in one unit of a timestamptz column

ASSUME EvidenceAssumption ==
    /\ Merchants # {} /\ Hashes # {} /\ Times # {}
    /\ Times \subseteq Nat
    /\ Precision \in Nat \ {0}

\* The "" that LookupPrevChainHash returns for a merchant without evidence.
NoPrev == << >>

ComputeChainHash(eventHash, prevChainHash, ts) == <<eventHash, prevChainHash, ts>>

\* pgx sends a time.Time to a timestamptz column in whole microseconds.
Timestamptz(ts) == ts \div Precision

\* The row that the INSERT of WriteEvidence writes for an event.
EvidenceRow(evt, prev) ==
    [event_hash      |-> evt.event_hash,
     chain_hash      |-> ComputeChainHash(evt.event_hash, prev, evt.ingested_at),
     prev_chain_hash |-> prev,
     merchant_id     |-> evt.merchant_id,
     ingested_at     |-> Timestamptz(evt.ingested_at)]

\* The part of a published event that sealing depends on.
Event == [event_hash : Hashes, merchant_id : Merchants, ingested_at : Times]

\* ev is a table: a sequence of rows (a chain hash has no type of its own).
IsTable(ev) ==
    /\ ev \in Seq({ev[k] : k \in DOMAIN ev})
    /\ \A k \in DOMAIN ev : /\ ev[k].event_hash \in Hashes
                            /\ ev[k].merchant_id \in Merchants
                            /\ ev[k].ingested_at \in Nat

RowsOf(ev, m) == {k \in DOMAIN ev : ev[k].merchant_id = m}

\* Mutant of LatestRowsOf: the rows come in ascending order.
EarliestRowsOf(ev, m) ==
    {k \in RowsOf(ev, m) : \A j \in RowsOf(ev, m) : ev[k].ingested_at <= ev[j].ingested_at}

\* ORDER BY ingested_at DESC: the rows of m that may come first.
LatestRowsOf(ev, m) ==
    {k \in RowsOf(ev, m) : \A j \in RowsOf(ev, m) : ev[j].ingested_at <= ev[k].ingested_at}

\* Mutant of LookupPrevChainHash: no WHERE merchant_id.
LookupPrevOfAnyone(ev, m) ==
    IF ev = << >> THEN {NoPrev} ELSE {ev[Len(ev)].chain_hash}

\* The answers the query may give; rows with equal ingested_at come in any order.
LookupPrevChainHash(ev, m) ==
    IF RowsOf(ev, m) = {} THEN {NoPrev}
    ELSE {ev[k].chain_hash : k \in LatestRowsOf(ev, m)}

\* event_hash TEXT NOT NULL UNIQUE: one event_hash for all merchants together.
Sealed(ev, h) == \E k \in DOMAIN ev : ev[k].event_hash = h
=============================================================================
