------------------------------ MODULE HashSeal ------------------------------
(***************************************************************************)
(* Sub 1, Hash & Seal: cmd/sub1-hash-seal and internal/protocol/sub1.      *)
(* Any number of worker processes share one consumer group on the Valkey   *)
(* stream protocol:events.  A worker reads a batch, and for each message   *)
(* opens a transaction, takes the merchant's advisory lock, looks up the   *)
(* previous chain hash, inserts the evidence row, commits and acks.        *)
(*                                                                         *)
(* Every database or Valkey call may fail, a commit or a read may take     *)
(* effect although its caller sees an error, and a worker may crash        *)
(* between any two calls; the server then rolls its transaction back and   *)
(* releases its lock.                                                      *)
(***************************************************************************)
EXTENDS Evidence

CONSTANTS
    Workers,      \* the consumers of the group, one process each
    LockKeys,     \* values of hashtext(merchant_id)
    hashtext,     \* the key of each merchant's advisory lock
    NoWorker,     \* the owner of a free lock
    BatchCount,   \* COUNT of the XREADGROUP call
    MaxEvents     \* bound: entries ever added to the stream

ASSUME HashSealAssumption ==
    /\ hashtext \in [Merchants -> LockKeys]
    /\ NoWorker \notin Workers
    /\ BatchCount \in Nat \ {0}
    /\ MaxEvents \in Nat

VARIABLES
    stream,      \* entries of protocol:events; an entry's index is its id
    group,       \* the consumer group: whether it exists, its last-delivered-id
    pending,     \* the group's pending entries list: delivered, not acked
    acked,       \* history: the entries that have been acked
    evidence,    \* committed rows of protocol.evidence
    lock,        \* advisory lock -> its owner
    pc,          \* worker -> the call it makes next
    batch,       \* worker -> the messages of its batch it has not finished
    prev         \* worker -> the prev_chain_hash it looked up

vars == <<stream, group, pending, acked, evidence, lock, pc, batch, prev>>

Entry == [wellFormed : BOOLEAN, event : Event]

\* A worker is in its transaction, holding its merchant's lock.
Sealing == {"lookup", "insert", "commit"}

PC == {"down", "read", "handle", "ack"} \union Sealing

Evt(i)  == stream[i].event
Msg(w)  == Head(batch[w])
Key(i)  == hashtext[Evt(i).merchant_id]

TypeOK ==
    /\ stream \in Seq(Entry)
    /\ group \in [created : BOOLEAN, last : Nat]
    /\ group.last <= Len(stream)
    /\ pending \subseteq 1..group.last
    /\ acked \subseteq 1..group.last
    /\ IsTable(evidence)
    /\ lock \in [LockKeys -> Workers \union {NoWorker}]
    /\ pc \in [Workers -> PC]
    /\ batch \in [Workers -> Seq(1..group.last)]
    /\ DOMAIN prev = Workers
    /\ \A w \in Workers : pc[w] \notin {"down", "read"} <=> batch[w] # << >>

Init ==
    /\ stream = << >>
    /\ group = [created |-> FALSE, last |-> 0]
    /\ pending = {}
    /\ acked = {}
    /\ evidence = << >>
    /\ lock = [k \in LockKeys |-> NoWorker]
    /\ pc = [w \in Workers |-> "down"]
    /\ batch = [w \in Workers |-> << >>]
    /\ prev = [w \in Workers |-> NoPrev]

-----------------------------------------------------------------------------
(***************************************************************************)
(* The producers: the gateway, the poller and the DLQ replay.  ingested_at *)
(* is a clock reading taken before XADD, by any of several processes, so   *)
(* stream order says nothing of it.  An entry that is not well formed has  *)
(* no "event" field or one that does not unmarshal.                        *)
(***************************************************************************)
Publish(entry) ==
    /\ Len(stream) < MaxEvents
    /\ stream' = Append(stream, entry)
    /\ UNCHANGED <<group, pending, acked, evidence, lock, pc, batch, prev>>

\* Run, EnsureGroup: the group starts at "$", the end of the stream.
EnsureGroup(w) ==
    /\ pc[w] = "down"
    /\ group' = IF group.created THEN group
                ELSE [created |-> TRUE, last |-> Len(stream)]
    /\ pc' = [pc EXCEPT ![w] = "read"]
    /\ UNCHANGED <<stream, pending, acked, evidence, lock, batch, prev>>

\* XREADGROUP ">" with COUNT: the last entry of the next batch, and the batch.
LastRead ==
    IF Len(stream) < group.last + BatchCount THEN Len(stream) ELSE group.last + BatchCount

Undelivered == (group.last + 1) .. LastRead

\* Mutant of ReadGroup: waits until a whole batch is there.
ReadGroupWhole(w) ==
    /\ pc[w] = "read"
    /\ Len(stream) >= group.last + BatchCount
    /\ group' = [group EXCEPT !.last = LastRead]
    /\ pending' = pending \union Undelivered
    /\ batch' = [batch EXCEPT ![w] = [i \in 1..BatchCount |-> group.last + i]]
    /\ pc' = [pc EXCEPT ![w] = "handle"]
    /\ UNCHANGED <<stream, acked, evidence, lock, prev>>

\* processBatch
ReadGroup(w) ==
    /\ pc[w] = "read"
    /\ Undelivered # {}
    /\ group' = [group EXCEPT !.last = LastRead]
    /\ pending' = pending \union Undelivered
    /\ batch' = [batch EXCEPT ![w] = [i \in 1..(LastRead - group.last) |-> group.last + i]]
    /\ pc' = [pc EXCEPT ![w] = "handle"]
    /\ UNCHANGED <<stream, acked, evidence, lock, prev>>

\* The call delivers entries but its reply is lost: "xreadgroup: ..." is logged.
ReadGroupLost(w) ==
    /\ pc[w] = "read"
    /\ Undelivered # {}
    /\ group' = [group EXCEPT !.last = LastRead]
    /\ pending' = pending \union Undelivered
    /\ UNCHANGED <<stream, acked, evidence, lock, pc, batch, prev>>

\* handle returns and the loop of processBatch takes the next message.
NextMessage(w) ==
    /\ batch' = [batch EXCEPT ![w] = Tail(@)]
    /\ pc' = [pc EXCEPT ![w] = IF Tail(batch[w]) = << >> THEN "read" ELSE "handle"]

XAck(i) ==
    /\ pending' = pending \ {i}
    /\ acked' = acked \union {i}

\* handle: a poison entry is acked, and an error of the ack is dropped.
AckPoison(w) ==
    /\ pc[w] = "handle"
    /\ ~ stream[Msg(w)].wellFormed
    /\ XAck(Msg(w)) \/ UNCHANGED <<pending, acked>>
    /\ NextMessage(w)
    /\ UNCHANGED <<stream, group, evidence, lock, prev>>

\* Mutant of Lock: the try form of the lock, its answer not looked at.
LockTry(w) ==
    /\ pc[w] = "handle"
    /\ stream[Msg(w)].wellFormed
    /\ lock' = [lock EXCEPT ![Key(Msg(w))] = IF @ = NoWorker THEN w ELSE @]
    /\ pc' = [pc EXCEPT ![w] = "lookup"]
    /\ UNCHANGED <<stream, group, pending, acked, evidence, batch, prev>>

\* WriteEvidence: Begin and pg_advisory_xact_lock, which waits for the lock.
Lock(w) ==
    /\ pc[w] = "handle"
    /\ stream[Msg(w)].wellFormed
    /\ lock[Key(Msg(w))] = NoWorker
    /\ lock' = [lock EXCEPT ![Key(Msg(w))] = w]
    /\ pc' = [pc EXCEPT ![w] = "lookup"]
    /\ UNCHANGED <<stream, group, pending, acked, evidence, batch, prev>>

Lookup(w) ==
    /\ pc[w] = "lookup"
    /\ \E p \in LookupPrevChainHash(evidence, Evt(Msg(w)).merchant_id) :
          prev' = [prev EXCEPT ![w] = p]
    /\ pc' = [pc EXCEPT ![w] = "insert"]
    /\ UNCHANGED <<stream, group, pending, acked, evidence, lock, batch>>

\* Mutant of Unlock: a session lock, which outlives the transaction.
UnlockForgotten(w) == lock' = lock

\* Commit and Rollback release the transaction's advisory lock.
Unlock(w) == lock' = [k \in LockKeys |-> IF lock[k] = w THEN NoWorker ELSE lock[k]]

\* ErrDuplicateEvent: the insert meets the UNIQUE constraint and rolls back.
InsertDuplicate(w) ==
    /\ pc[w] = "insert"
    /\ Sealed(evidence, Evt(Msg(w)).event_hash)
    /\ Unlock(w)
    /\ pc' = [pc EXCEPT ![w] = "ack"]
    /\ UNCHANGED <<stream, group, pending, acked, evidence, batch, prev>>

\* An insert waits for another transaction that has inserted the same key.
Insert(w) ==
    /\ pc[w] = "insert"
    /\ ~ Sealed(evidence, Evt(Msg(w)).event_hash)
    /\ \A v \in Workers :
          pc[v] = "commit" => Evt(Msg(v)).event_hash # Evt(Msg(w)).event_hash
    /\ pc' = [pc EXCEPT ![w] = "commit"]
    /\ UNCHANGED <<stream, group, pending, acked, evidence, lock, batch, prev>>

Committed(w) == evidence' = Append(evidence, EvidenceRow(Evt(Msg(w)), prev[w]))

Commit(w) ==
    /\ pc[w] = "commit"
    /\ Committed(w)
    /\ Unlock(w)
    /\ pc' = [pc EXCEPT ![w] = "ack"]
    /\ UNCHANGED <<stream, group, pending, acked, batch, prev>>

\* The commit takes effect but returns an error: the message is not acked.
CommitLost(w) ==
    /\ pc[w] = "commit"
    /\ Committed(w)
    /\ Unlock(w)
    /\ NextMessage(w)
    /\ UNCHANGED <<stream, group, pending, acked, prev>>

\* Mutant of SealFailed: acks whatever the error was.
SealFailedAcks(w) ==
    /\ \/ pc[w] = "handle" /\ stream[Msg(w)].wellFormed
       \/ pc[w] \in Sealing
    /\ Unlock(w)
    /\ XAck(Msg(w))
    /\ NextMessage(w)
    /\ UNCHANGED <<stream, group, evidence, prev>>

\* "seal failed": any other error of WriteEvidence rolls back, without an ack.
SealFailed(w) ==
    /\ \/ pc[w] = "handle" /\ stream[Msg(w)].wellFormed
       \/ pc[w] \in Sealing
    /\ Unlock(w)
    /\ NextMessage(w)
    /\ UNCHANGED <<stream, group, pending, acked, evidence, prev>>

Ack(w) ==
    /\ pc[w] = "ack"
    /\ XAck(Msg(w))
    /\ NextMessage(w)
    /\ UNCHANGED <<stream, group, evidence, lock, prev>>

\* "ack failed" is logged and the message left in the pending entries list.
AckFailed(w) ==
    /\ pc[w] = "ack"
    /\ NextMessage(w)
    /\ UNCHANGED <<stream, group, pending, acked, evidence, lock, prev>>

\* The process stops; its batch is lost and its transaction rolled back.
Crash(w) ==
    /\ pc[w] # "down"
    /\ pc' = [pc EXCEPT ![w] = "down"]
    /\ batch' = [batch EXCEPT ![w] = << >>]
    /\ Unlock(w)
    /\ UNCHANGED <<stream, group, pending, acked, evidence, prev>>

\* What a running worker does when every call it makes succeeds.
Step(w) ==
    \/ AckPoison(w) \/ Lock(w) \/ Lookup(w) \/ InsertDuplicate(w)
    \/ Insert(w) \/ Commit(w) \/ Ack(w)

Fault(w) ==
    ReadGroupLost(w) \/ CommitLost(w) \/ SealFailed(w) \/ AckFailed(w) \/ Crash(w)

\* One entry stands for every entry that handle cannot decode.
Poison == [wellFormed |-> FALSE, event |-> CHOOSE evt \in Event : TRUE]

Next ==
    \/ \E evt \in Event : Publish([wellFormed |-> TRUE, event |-> evt])
    \/ Publish(Poison)
    \/ \E w \in Workers : EnsureGroup(w) \/ ReadGroup(w) \/ Step(w) \/ Fault(w)

Spec == Init /\ [][Next]_vars

\* A worker that runs keeps going, one that stopped is started again, and it
\* does not crash before every read it is about to make.
Fairness ==
    \A w \in Workers : /\ WF_vars(EnsureGroup(w))
                       /\ WF_vars(Step(w))
                       /\ SF_vars(ReadGroup(w))

FairSpec == Spec /\ Fairness

\* FairSpec, and from some point on nothing fails.
CalmSpec == FairSpec /\ <>[][\A w \in Workers : ~ Fault(w)]_vars

-----------------------------------------------------------------------------
Ledger == INSTANCE EvidenceLedger

(***************************************************************************)
(* SealsLedger: the workers together implement the evidence ledger: every  *)
(* change of the table is one event appended onto the row that is its      *)
(* merchant's latest when the new row appears, although the lookup, the    *)
(* insert and the commit are separate calls (WriteEvidence's lock).        *)
(***************************************************************************)
SealsLedger == Ledger!Spec

(***************************************************************************)
(* Chained: in the table the workers build, a chain walked back from any   *)
(* row stays in one merchant and ends at that merchant's only first event  *)
(* (WriteEvidence, LookupPrevChainHash).                                   *)
(***************************************************************************)
Chained == Ledger!Chained

(***************************************************************************)
(* LinearWhenInOrder: a merchant whose events the workers commit in the    *)
(* order of their timestamps has a linear chain: no two workers extend the *)
(* same row (WriteEvidence's lock, held from the lookup to the commit).    *)
(***************************************************************************)
LinearWhenInOrder == Ledger!LinearWhenInOrder

(***************************************************************************)
(* AckedSealed: a well-formed message is acked only once its event_hash is *)
(* in the committed table, by this worker or by another (handle).  An ack  *)
(* is final: the group never delivers the message again.                   *)
(***************************************************************************)
AckedSealed ==
    \A i \in acked : stream[i].wellFormed => Sealed(evidence, Evt(i).event_hash)

(***************************************************************************)
(* The inductive invariant.  A sealing worker owns its merchant's lock, so *)
(* what it looked up is still its merchant's latest row when it commits.   *)
(***************************************************************************)
Locked ==
    \A w \in Workers : pc[w] \in Sealing => lock[Key(Msg(w))] = w

PrevLatest ==
    \A w \in Workers : pc[w] \in {"insert", "commit"} =>
        prev[w] \in LookupPrevChainHash(evidence, Evt(Msg(w)).merchant_id)

InsertedOnce ==
    \A w \in Workers : pc[w] = "commit" =>
        /\ ~ Sealed(evidence, Evt(Msg(w)).event_hash)
        /\ \A v \in Workers : pc[v] = "commit" /\ v # w =>
              Evt(Msg(v)).event_hash # Evt(Msg(w)).event_hash

AckingSealed ==
    \A w \in Workers : pc[w] = "ack" => Sealed(evidence, Evt(Msg(w)).event_hash)

SealInv == TypeOK /\ Locked /\ PrevLatest /\ InsertedOnce /\ AckingSealed /\ AckedSealed

-----------------------------------------------------------------------------
\* The messages some worker has in its batch.
Held(i) == \E w \in Workers : \E n \in DOMAIN batch[w] : batch[w][n] = i

(***************************************************************************)
(* HandlingEnds: no message stays in a worker's batch for ever: every wait *)
(* for an advisory lock or for another transaction's key ends.             *)
(***************************************************************************)
HandlingEnds == \A i \in 1..MaxEvents : Held(i) ~> ~ Held(i)

(***************************************************************************)
(* ReadByGroup: an entry added after the group was created is delivered.   *)
(***************************************************************************)
ReadByGroup ==
    \A i \in 1..MaxEvents : (group.created /\ i <= Len(stream)) ~> (i <= group.last)

(***************************************************************************)
(* Redelivered: what the comments of Run and handle say of a message whose *)
(* handling failed and left it un-acked: Valkey delivers it again until it *)
(* is sealed.                                                              *)
(***************************************************************************)
Redelivered ==
    \A i \in 1..MaxEvents :
        (Held(i) /\ stream[i].wellFormed) ~> Sealed(evidence, Evt(i).event_hash)
=============================================================================
