--------------------------- MODULE HashSealProofs ---------------------------
(***************************************************************************)
(* Proofs about the evidence table and about Sub 1, for any number of      *)
(* workers, merchants, events, clock readings and timestamp precisions,    *)
(* with every failure and crash of HashSeal.                               *)
(***************************************************************************)
EXTENDS HashSeal, SequenceTheorems, TLAPS

(***************************************************************************)
(* Appending the row of an event to a table gives a table that has one row *)
(* more and keeps the others (the INSERT of WriteEvidence).                *)
(***************************************************************************)
LEMMA AppendRow ==
    ASSUME NEW ev, IsTable(ev), NEW evt \in Event, NEW p
    PROVE  LET new == Append(ev, EvidenceRow(evt, p)) IN
           /\ IsTable(new)
           /\ Len(ev) \in Nat
           /\ DOMAIN ev = 1 .. Len(ev)
           /\ DOMAIN new = 1 .. (Len(ev) + 1)
           /\ new[Len(ev) + 1] = EvidenceRow(evt, p)
           /\ \A k \in DOMAIN ev : new[k] = ev[k]
  <1> DEFINE row  == EvidenceRow(evt, p)
             new  == Append(ev, row)
             R    == {ev[k] : k \in DOMAIN ev} \union {row}
  <1>1. ev \in Seq(R) /\ row \in R
    BY SeqMonotonic DEF IsTable
  <1>2. /\ new \in Seq(R)
        /\ Len(ev) \in Nat
        /\ DOMAIN ev = 1 .. Len(ev)
        /\ DOMAIN new = 1 .. (Len(ev) + 1)
        /\ new[Len(ev) + 1] = row
        /\ \A k \in DOMAIN ev : new[k] = ev[k]
    BY <1>1, AppendProperties, LenProperties
  <1>3. row.event_hash \in Hashes /\ row.merchant_id \in Merchants /\ row.ingested_at \in Nat
    <2>1. evt.ingested_at \in Nat /\ Precision \in Nat \ {0}
      BY EvidenceAssumption DEF Event
    <2>2. evt.ingested_at \div Precision \in Nat
      BY <2>1
    <2> QED BY <2>2 DEF Event, EvidenceRow, Timestamptz
  <1>4. R \subseteq {new[k] : k \in DOMAIN new}
    <2> SUFFICES ASSUME NEW r \in R PROVE \E k \in DOMAIN new : r = new[k]
      OBVIOUS
    <2>1. CASE r = row
      BY <2>1, <1>2
    <2>2. CASE r # row
      BY <2>2, <1>2
    <2> QED BY <2>1, <2>2
  <1>5. new \in Seq({new[k] : k \in DOMAIN new})
    BY <1>2, <1>4, SeqMonotonic
  <1>6. \A k \in DOMAIN new : /\ new[k].event_hash \in Hashes
                              /\ new[k].merchant_id \in Merchants
                              /\ new[k].ingested_at \in Nat
    BY <1>2, <1>3 DEF IsTable
  <1> QED BY <1>2, <1>5, <1>6 DEF IsTable

(***************************************************************************)
(* A new row of one merchant changes neither the rows of another merchant  *)
(* nor what LookupPrevChainHash answers for it; and it seals its own       *)
(* event_hash and no other.                                                *)
(***************************************************************************)
LEMMA AppendOther ==
    ASSUME NEW ev, IsTable(ev), NEW evt \in Event, NEW p
    PROVE  LET new == Append(ev, EvidenceRow(evt, p)) IN
           /\ \A m \in Merchants : m # evt.merchant_id =>
                  LookupPrevChainHash(new, m) = LookupPrevChainHash(ev, m)
           /\ \A h : Sealed(new, h) <=> Sealed(ev, h) \/ h = evt.event_hash
  <1> DEFINE row  == EvidenceRow(evt, p)
             new  == Append(ev, row)
  <1>1. /\ Len(ev) \in Nat
        /\ DOMAIN ev = 1 .. Len(ev)
        /\ DOMAIN new = 1 .. (Len(ev) + 1)
        /\ new[Len(ev) + 1] = row
        /\ \A k \in DOMAIN ev : new[k] = ev[k]
    BY AppendRow
  <1>2. row.merchant_id = evt.merchant_id /\ row.event_hash = evt.event_hash
    BY DEF EvidenceRow
  <1> HIDE DEF new, row
  <1>3. ASSUME NEW m \in Merchants, m # evt.merchant_id
        PROVE  LookupPrevChainHash(new, m) = LookupPrevChainHash(ev, m)
    <2>1. RowsOf(new, m) = RowsOf(ev, m)
      BY <1>1, <1>2, <1>3 DEF RowsOf
    <2>2. \A k \in RowsOf(ev, m) : new[k] = ev[k]
      BY <1>1 DEF RowsOf
    <2>3. LatestRowsOf(new, m) = LatestRowsOf(ev, m)
      BY <2>1, <2>2 DEF LatestRowsOf
    <2>4. {new[k].chain_hash : k \in LatestRowsOf(ev, m)} = {ev[k].chain_hash : k \in LatestRowsOf(ev, m)}
      BY <2>2 DEF LatestRowsOf
    <2> QED BY <2>1, <2>3, <2>4 DEF LookupPrevChainHash
  <1>4. ASSUME NEW h PROVE Sealed(new, h) <=> Sealed(ev, h) \/ h = evt.event_hash
    <2>1. Sealed(new, h) => Sealed(ev, h) \/ h = evt.event_hash
      BY <1>1, <1>2 DEF Sealed
    <2>2. Sealed(ev, h) => Sealed(new, h)
      BY <1>1 DEF Sealed
    <2>3. h = evt.event_hash => Sealed(new, h)
      BY <1>1, <1>2 DEF Sealed
    <2> QED BY <2>1, <2>2, <2>3
  <1> QED BY <1>3, <1>4 DEF new, row

(***************************************************************************)
(* The ledger's operators on the evidence table are Sub 1's.               *)
(***************************************************************************)
LEMMA SameTerms ==
    /\ Ledger!Event = Event
    /\ \A e, p : Ledger!EvidenceRow(e, p) = EvidenceRow(e, p)
    /\ \A ev : Ledger!IsTable(ev) <=> IsTable(ev)
    /\ \A ev, m : Ledger!LookupPrevChainHash(ev, m) = LookupPrevChainHash(ev, m)
    /\ \A ev, h : Ledger!Sealed(ev, h) <=> Sealed(ev, h)
  <1>1. Ledger!Event = Event
    BY DEF Event, Ledger!Event
  <1>2. \A e, p : Ledger!EvidenceRow(e, p) = EvidenceRow(e, p)
    BY DEF EvidenceRow, Ledger!EvidenceRow, ComputeChainHash, Ledger!ComputeChainHash,
           Timestamptz, Ledger!Timestamptz
  <1>3. \A ev : Ledger!IsTable(ev) <=> IsTable(ev)
    BY DEF IsTable, Ledger!IsTable
  <1>4. \A ev, m : Ledger!LookupPrevChainHash(ev, m) = LookupPrevChainHash(ev, m)
    BY DEF LookupPrevChainHash, Ledger!LookupPrevChainHash, LatestRowsOf, Ledger!LatestRowsOf,
           RowsOf, Ledger!RowsOf, NoPrev, Ledger!NoPrev
  <1>5. \A ev, h : Ledger!Sealed(ev, h) <=> Sealed(ev, h)
    BY DEF Sealed, Ledger!Sealed
  <1> QED BY <1>1, <1>2, <1>3, <1>4, <1>5

-----------------------------------------------------------------------------
\* A batch of delivered entries stays one when more entries are delivered.
LEMMA SeqWiden ==
    ASSUME NEW a \in Nat, NEW b \in Nat, a <= b, NEW s \in Seq(1 .. a)
    PROVE  s \in Seq(1 .. b)
  <1>1. 1 .. a \subseteq 1 .. b
    OBVIOUS
  <1> QED BY <1>1, SeqMonotonic

\* The batch that XREADGROUP returns is a non-empty sequence of entries.
LEMMA BatchSeq ==
    ASSUME NEW a \in Nat, NEW b \in Nat, a < b
    PROVE  LET s == [i \in 1 .. (b - a) |-> a + i] IN s \in Seq(1 .. b) /\ s # << >>
  <1> DEFINE s == [i \in 1 .. (b - a) |-> a + i]
  <1>1. b - a \in Nat \ {0}
    OBVIOUS
  <1>2. \A i \in 1 .. (b - a) : a + i \in 1 .. b
    OBVIOUS
  <1>3. s \in [1 .. (b - a) -> 1 .. b]
    BY <1>2
  <1>4. s \in Seq(1 .. b)
    BY <1>1, <1>3, SeqDef
  <1>5. 1 \in DOMAIN s
    BY <1>1
  <1> QED BY <1>4, <1>5

\* What the worker of a batch works on is an entry of the stream.
LEMMA MsgType ==
    ASSUME TypeOK, NEW w \in Workers, batch[w] # << >>
    PROVE  /\ Msg(w) \in 1 .. group.last
           /\ Msg(w) \in 1 .. Len(stream)
           /\ stream[Msg(w)] \in Entry
           /\ Evt(Msg(w)) \in Event
           /\ Key(Msg(w)) \in LockKeys
           /\ Tail(batch[w]) \in Seq(1 .. group.last)
  <1>1. /\ batch[w] \in Seq(1 .. group.last)
        /\ group.last \in Nat /\ Len(stream) \in Nat /\ group.last <= Len(stream)
        /\ stream \in Seq(Entry)
    BY DEF TypeOK
  <1>2. Msg(w) \in 1 .. group.last /\ Tail(batch[w]) \in Seq(1 .. group.last)
    BY <1>1, HeadTailProperties DEF Msg
  <1>3. Msg(w) \in 1 .. Len(stream)
    BY <1>1, <1>2
  <1>4. stream[Msg(w)] \in Entry
    BY <1>1, <1>3, ElementOfSeq
  <1>5. Evt(Msg(w)) \in Event /\ Evt(Msg(w)).merchant_id \in Merchants
    BY <1>4 DEF Entry, Evt, Event
  <1> QED BY <1>2, <1>3, <1>4, <1>5, HashSealAssumption DEF Key

\* Releasing the locks of a worker leaves the locks well typed.
LEMMA UnlockType ==
    ASSUME TypeOK, NEW w \in Workers, Unlock(w)
    PROVE  lock' \in [LockKeys -> Workers \union {NoWorker}]
  BY DEF TypeOK, Unlock

\* Going on to the next message keeps the types of pc and batch.
LEMMA NextMessageType ==
    ASSUME TypeOK, NEW w \in Workers, batch[w] # << >>, NextMessage(w)
    PROVE  /\ pc' \in [Workers -> PC]
           /\ batch' \in [Workers -> Seq(1 .. group.last)]
           /\ \A v \in Workers : pc'[v] \notin {"down", "read"} <=> batch'[v] # << >>
  <1>1. Tail(batch[w]) \in Seq(1 .. group.last)
    BY MsgType
  <1> QED BY <1>1 DEF TypeOK, NextMessage, PC

\* An entry a producer may add is well typed.
LEMMA EntryType == Poison \in Entry /\ \A evt \in Event : [wellFormed |-> TRUE, event |-> evt] \in Entry
  <1>1. PICK m \in Merchants, h \in Hashes, t \in Times : TRUE
    BY EvidenceAssumption
  <1>2. [event_hash |-> h, merchant_id |-> m, ingested_at |-> t] \in Event
    BY DEF Event
  <1>3. (CHOOSE evt \in Event : TRUE) \in Event
    BY <1>2
  <1> QED BY <1>3 DEF Poison, Entry

\* Every step keeps the state well typed.
LEMMA TypeStep == TypeOK /\ [Next]_vars => TypeOK'
  <1> SUFFICES ASSUME TypeOK, [Next]_vars PROVE TypeOK'
    OBVIOUS
  <1> USE HashSealAssumption
  <1>1. ASSUME NEW entry \in Entry, Publish(entry) PROVE TypeOK'
    <2>1. stream' \in Seq(Entry) /\ Len(stream') = Len(stream) + 1 /\ Len(stream) \in Nat
      BY <1>1, AppendProperties DEF TypeOK, Publish
    <2>2. group.last \in Nat
      BY DEF TypeOK
    <2> QED BY <1>1, <2>1, <2>2 DEF TypeOK, Publish
  <1>2. ASSUME NEW w \in Workers, EnsureGroup(w) PROVE TypeOK'
    <2>1. Len(stream) \in Nat /\ group.last \in Nat /\ group.last <= Len(stream)
      BY DEF TypeOK
    <2>2. /\ group' \in [created : BOOLEAN, last : Nat]
          /\ group'.last <= Len(stream) /\ group.last <= group'.last
      BY <1>2, <2>1 DEF TypeOK, EnsureGroup
    <2>3. 1 .. group.last \subseteq 1 .. group'.last
      BY <2>1, <2>2
    <2>4. batch' \in [Workers -> Seq(1 .. group'.last)]
      BY <1>2, <2>3, SeqMonotonic DEF TypeOK, EnsureGroup
    <2>5. pending' \subseteq 1 .. group'.last /\ acked' \subseteq 1 .. group'.last
      BY <1>2, <2>3 DEF TypeOK, EnsureGroup
    <2>6. /\ pc' \in [Workers -> PC]
          /\ \A v \in Workers : pc'[v] \notin {"down", "read"} <=> batch'[v] # << >>
      BY <1>2 DEF TypeOK, EnsureGroup, PC
    <2> QED BY <1>2, <2>2, <2>4, <2>5, <2>6 DEF TypeOK, EnsureGroup
  <1>3. ASSUME NEW w \in Workers, ReadGroup(w) \/ ReadGroupLost(w) PROVE TypeOK'
    <2>1. Len(stream) \in Nat /\ group.last \in Nat /\ group.last <= Len(stream)
      BY DEF TypeOK
    <2>2. /\ LastRead \in Nat /\ LastRead <= Len(stream) /\ group.last < LastRead
          /\ Undelivered = (group.last + 1) .. LastRead
      BY <1>3, <2>1 DEF LastRead, ReadGroup, ReadGroupLost, Undelivered
    <2>3. /\ group' \in [created : BOOLEAN, last : Nat]
          /\ group'.last = LastRead
      BY <1>3, <2>2 DEF TypeOK, ReadGroup, ReadGroupLost
    <2>4. 1 .. group.last \subseteq 1 .. LastRead /\ Undelivered \subseteq 1 .. LastRead
      BY <2>1, <2>2
    <2>5. pending' \subseteq 1 .. LastRead /\ acked' \subseteq 1 .. LastRead
      BY <1>3, <2>4 DEF TypeOK, ReadGroup, ReadGroupLost
    <2>6. \A v \in Workers : batch[v] \in Seq(1 .. LastRead)
      <3> SUFFICES ASSUME NEW v \in Workers PROVE batch[v] \in Seq(1 .. LastRead)
        OBVIOUS
      <3>1. batch[v] \in Seq(1 .. group.last)
        BY DEF TypeOK
      <3> QED BY <2>1, <2>2, <3>1, SeqWiden
    <2>7. CASE ReadGroup(w)
      <3> DEFINE b == [i \in 1..(LastRead - group.last) |-> group.last + i]
      <3>2. b \in Seq(1 .. LastRead) /\ b # << >>
        BY <2>1, <2>2, BatchSeq
      <3>3. batch' = [batch EXCEPT ![w] = b] /\ pc' = [pc EXCEPT ![w] = "handle"]
        BY <2>7 DEF ReadGroup
      <3> HIDE DEF b
      <3>4. batch' \in [Workers -> Seq(1 .. LastRead)]
        BY <2>6, <3>2, <3>3 DEF TypeOK
      <3>5. /\ pc' \in [Workers -> PC]
            /\ \A v \in Workers : pc'[v] \notin {"down", "read"} <=> batch'[v] # << >>
        BY <3>2, <3>3 DEF TypeOK, PC
      <3> QED BY <2>2, <2>3, <2>5, <2>7, <3>4, <3>5 DEF TypeOK, ReadGroup
    <2>8. CASE ReadGroupLost(w)
      <3>1. batch' \in [Workers -> Seq(1 .. LastRead)]
        BY <2>6, <2>8 DEF TypeOK, ReadGroupLost
      <3> QED BY <2>2, <2>3, <2>5, <2>8, <3>1 DEF TypeOK, ReadGroupLost
    <2> QED BY <1>3, <2>7, <2>8
  <1>4. ASSUME NEW w \in Workers, AckPoison(w) \/ Ack(w) \/ AckFailed(w) PROVE TypeOK'
    <2>1. batch[w] # << >> /\ NextMessage(w)
      BY <1>4 DEF TypeOK, AckPoison, Ack, AckFailed
    <2>2. pending' \subseteq 1 .. group.last /\ acked' \subseteq 1 .. group.last
      BY <1>4, <2>1, MsgType DEF TypeOK, AckPoison, Ack, AckFailed, XAck
    <2>3. UNCHANGED <<stream, group, evidence, lock, prev>>
      BY <1>4 DEF AckPoison, Ack, AckFailed
    <2> QED BY <2>1, <2>2, <2>3, NextMessageType DEF TypeOK
  <1>5. ASSUME NEW w \in Workers, Lock(w) \/ Lookup(w) \/ Insert(w) \/ InsertDuplicate(w)
        PROVE  TypeOK'
    <2>1. batch[w] # << >>
      BY <1>5 DEF TypeOK, Lock, Lookup, Insert, InsertDuplicate
    <2>2. lock' \in [LockKeys -> Workers \union {NoWorker}]
      <3>1. CASE Lock(w)
        <4>1. Key(Msg(w)) \in LockKeys
          BY <2>1, MsgType
        <4> QED BY <3>1, <4>1 DEF TypeOK, Lock
      <3>2. CASE InsertDuplicate(w)
        BY <3>2, UnlockType DEF InsertDuplicate
      <3>3. CASE Lookup(w) \/ Insert(w)
        BY <3>3 DEF TypeOK, Lookup, Insert
      <3> QED BY <1>5, <3>1, <3>2, <3>3
    <2>3. /\ pc' \in [Workers -> PC]
          /\ \A v \in Workers : pc'[v] \notin {"down", "read"} <=> batch'[v] # << >>
      BY <1>5 DEF TypeOK, Lock, Lookup, Insert, InsertDuplicate, PC, Sealing
    <2>4. UNCHANGED <<stream, group, pending, acked, evidence, batch>> /\ DOMAIN prev' = Workers
      BY <1>5 DEF TypeOK, Lock, Lookup, Insert, InsertDuplicate
    <2> QED BY <2>2, <2>3, <2>4 DEF TypeOK
  <1>6. ASSUME NEW w \in Workers, Commit(w) \/ CommitLost(w) PROVE TypeOK'
    <2>1. batch[w] # << >> /\ Unlock(w) /\ Committed(w)
      BY <1>6 DEF TypeOK, Commit, CommitLost
    <2>2. IsTable(evidence')
      BY <2>1, MsgType, AppendRow DEF TypeOK, Committed
    <2>3. /\ pc' \in [Workers -> PC]
          /\ batch' \in [Workers -> Seq(1 .. group.last)]
          /\ \A v \in Workers : pc'[v] \notin {"down", "read"} <=> batch'[v] # << >>
      <3>1. CASE Commit(w)
        BY <3>1 DEF TypeOK, Commit, PC
      <3>2. CASE CommitLost(w)
        BY <2>1, <3>2, NextMessageType DEF CommitLost
      <3> QED BY <1>6, <3>1, <3>2
    <2>4. UNCHANGED <<stream, group, pending, acked, prev>>
      BY <1>6 DEF Commit, CommitLost
    <2> QED BY <2>1, <2>2, <2>3, <2>4, UnlockType DEF TypeOK
  <1>7. ASSUME NEW w \in Workers, SealFailed(w) \/ Crash(w) PROVE TypeOK'
    <2>1. Unlock(w) /\ UNCHANGED <<stream, group, pending, acked, evidence, prev>>
      BY <1>7 DEF SealFailed, Crash
    <2>2. /\ pc' \in [Workers -> PC]
          /\ batch' \in [Workers -> Seq(1 .. group.last)]
          /\ \A v \in Workers : pc'[v] \notin {"down", "read"} <=> batch'[v] # << >>
      <3>1. CASE SealFailed(w)
        <4>1. batch[w] # << >>
          BY <3>1 DEF TypeOK, SealFailed, Sealing
        <4> QED BY <3>1, <4>1, NextMessageType DEF SealFailed
      <3>2. CASE Crash(w)
        <4>1. << >> \in Seq(1 .. group.last)
          BY EmptySeq
        <4> QED BY <3>2, <4>1 DEF TypeOK, Crash, PC
      <3> QED BY <1>7, <3>1, <3>2
    <2> QED BY <2>1, <2>2, UnlockType DEF TypeOK
  <1>8. CASE UNCHANGED vars
    BY <1>8 DEF TypeOK, vars
  <1> QED BY <1>1, <1>2, <1>3, <1>4, <1>5, <1>6, <1>7, <1>8, EntryType DEF Next, Step, Fault

\* So are the initial states.
LEMMA TypeInit == Init => TypeOK
  <1> SUFFICES ASSUME Init PROVE TypeOK
    OBVIOUS
  <1>1. IsTable(evidence)
    BY DEF Init, IsTable
  <1> QED BY <1>1, HashSealAssumption DEF Init, TypeOK, PC

\* The state of Sub 1 is always well typed.
THEOREM TypeCorrect == Spec => []TypeOK
  BY TypeInit, TypeStep, PTL DEF Spec

-----------------------------------------------------------------------------
\* The part of SealInv that speaks of one worker.
WorkerInv(w) ==
    /\ pc[w] \in Sealing => lock[Key(Msg(w))] = w
    /\ pc[w] \in {"insert", "commit"} =>
          prev[w] \in LookupPrevChainHash(evidence, Evt(Msg(w)).merchant_id)
    /\ pc[w] = "commit" => ~ Sealed(evidence, Evt(Msg(w)).event_hash)
    /\ pc[w] = "ack" => Sealed(evidence, Evt(Msg(w)).event_hash)

\* No two workers are about to commit the same event_hash.
Distinct ==
    \A v, w \in Workers : pc[v] = "commit" /\ pc[w] = "commit" /\ v # w =>
        Evt(Msg(v)).event_hash # Evt(Msg(w)).event_hash

\* SealInv is WorkerInv of every worker, and two facts about the whole group.
LEMMA SealInvSplit ==
    SealInv <=> /\ TypeOK
                /\ \A w \in Workers : WorkerInv(w)
                /\ Distinct
                /\ AckedSealed
  BY DEF SealInv, WorkerInv, Distinct, Locked, PrevLatest, InsertedOnce, AckingSealed

\* The same of the next state.
LEMMA SealInvJoin ==
    ASSUME TypeOK', \A w \in Workers : WorkerInv(w)', Distinct', AckedSealed'
    PROVE  SealInv'
  BY DEF SealInv, WorkerInv, Distinct, Locked, PrevLatest, InsertedOnce, AckingSealed

\* Two workers in their transactions work for different merchants.
LEMMA SealingExcludes ==
    ASSUME SealInv, NEW v \in Workers, NEW w \in Workers, v # w,
           pc[v] \in Sealing, pc[w] \in Sealing
    PROVE  Evt(Msg(v)).merchant_id # Evt(Msg(w)).merchant_id
  BY DEF SealInv, Locked, Key

(***************************************************************************)
(* A step of worker w that neither adds to the stream nor to the table     *)
(* concerns only w: every other worker keeps its lock and what it knows.   *)
(***************************************************************************)
LEMMA OtherWorkers ==
    ASSUME SealInv, NEW w \in Workers, NEW v \in Workers, v # w,
           UNCHANGED <<stream, evidence>>,
           pc'[v] = pc[v], batch'[v] = batch[v], prev'[v] = prev[v],
           pc[v] \in Sealing => lock'[Key(Msg(v))] = lock[Key(Msg(v))]
    PROVE  WorkerInv(v)'
  BY SealInvSplit DEF WorkerInv, Evt, Msg, Key, Sealing

\* Releasing the locks of one worker leaves those of the others alone.
LEMMA UnlockOthers ==
    ASSUME SealInv, NEW w \in Workers, NEW v \in Workers, v # w, Unlock(w), pc[v] \in Sealing
    PROVE  lock'[Key(Msg(v))] = lock[Key(Msg(v))]
  <1>1. batch[v] # << >>
    BY DEF SealInv, TypeOK, Sealing
  <1>2. Key(Msg(v)) \in LockKeys
    BY <1>1, MsgType DEF SealInv
  <1> QED BY <1>2 DEF SealInv, Locked, Unlock

\* A new entry changes nothing for the messages already delivered.
LEMMA SealPublish ==
    ASSUME SealInv, TypeOK', NEW entry \in Entry, Publish(entry) PROVE SealInv'
  <1>1. /\ stream \in Seq(Entry) /\ Len(stream) \in Nat /\ group.last \in Nat
        /\ group.last <= Len(stream) /\ acked \subseteq 1 .. group.last
    BY DEF SealInv, TypeOK
  <1>2. \A i \in 1 .. Len(stream) : stream'[i] = stream[i]
    BY <1>1, AppendProperties DEF Publish
  <1>3. ASSUME NEW w \in Workers, pc[w] \in Sealing \union {"ack"}
        PROVE  stream'[Msg(w)] = stream[Msg(w)]
    <2>1. batch[w] # << >>
      BY <1>3 DEF SealInv, TypeOK, Sealing
    <2> QED BY <1>2, <2>1, MsgType DEF SealInv
  <1>4. \A w \in Workers : WorkerInv(w)'
    BY <1>3, SealInvSplit DEF WorkerInv, Publish, Evt, Msg, Key, Sealing
  <1>5. Distinct'
    <2> SUFFICES ASSUME NEW v \in Workers, NEW w \in Workers, v # w,
                        pc'[v] = "commit", pc'[w] = "commit"
                 PROVE  Evt(Msg(v))'.event_hash # Evt(Msg(w))'.event_hash
      BY DEF Distinct
    <2>1. pc[v] = "commit" /\ pc[w] = "commit" /\ Msg(v)' = Msg(v) /\ Msg(w)' = Msg(w)
      BY DEF Publish, Msg
    <2>2. Evt(Msg(v))' = Evt(Msg(v)) /\ Evt(Msg(w))' = Evt(Msg(w))
      BY <1>3, <2>1 DEF Evt, Sealing
    <2> QED BY <2>1, <2>2, SealInvSplit DEF Distinct
  <1>6. AckedSealed'
    <2>1. \A i \in acked : stream'[i] = stream[i]
      BY <1>1, <1>2
    <2> QED BY <2>1 DEF SealInv, AckedSealed, Publish, Evt
  <1> QED BY <1>4, <1>5, <1>6, SealInvJoin

(***************************************************************************)
(* Every step that leaves the stream and the table alone: the worker that  *)
(* takes it keeps its own part of the invariant, and OtherWorkers does the *)
(* rest.                                                                   *)
(***************************************************************************)
Quiet(w) ==
    \/ EnsureGroup(w) \/ ReadGroup(w) \/ ReadGroupLost(w) \/ AckPoison(w) \/ Lock(w)
    \/ Lookup(w) \/ InsertDuplicate(w) \/ Insert(w) \/ SealFailed(w) \/ Ack(w)
    \/ AckFailed(w) \/ Crash(w)

\* What a quiet step of w leaves alone, and where it may take w.
LEMMA QuietFrame ==
    ASSUME SealInv, NEW w \in Workers, Quiet(w)
    PROVE  /\ UNCHANGED <<stream, evidence>>
           /\ \A v \in Workers : v # w => /\ pc'[v] = pc[v]
                                          /\ batch'[v] = batch[v]
                                          /\ prev'[v] = prev[v]
           /\ pc'[w] = "commit" => Insert(w)
           /\ pc'[w] = "insert" => Lookup(w)
           /\ pc'[w] = "lookup" => Lock(w)
           /\ pc'[w] = "ack" => InsertDuplicate(w)
  <1>1. UNCHANGED <<stream, evidence>>
    BY DEF Quiet, EnsureGroup, ReadGroup, ReadGroupLost, AckPoison, Lock, Lookup,
           InsertDuplicate, Insert, SealFailed, Ack, AckFailed, Crash
  <1>2. \A v \in Workers : v # w => /\ pc'[v] = pc[v]
                                    /\ batch'[v] = batch[v]
                                    /\ prev'[v] = prev[v]
    BY DEF SealInv, TypeOK, Quiet, EnsureGroup, ReadGroup, ReadGroupLost, AckPoison, Lock, Lookup,
           InsertDuplicate, Insert, SealFailed, Ack, AckFailed, Crash, NextMessage
  <1>3. /\ pc'[w] = "commit" => Insert(w)
        /\ pc'[w] = "insert" => Lookup(w)
        /\ pc'[w] = "lookup" => Lock(w)
        /\ pc'[w] = "ack" => InsertDuplicate(w)
    BY DEF SealInv, TypeOK, Quiet, EnsureGroup, ReadGroup, ReadGroupLost, AckPoison, Lock, Lookup,
           InsertDuplicate, Insert, SealFailed, Ack, AckFailed, Crash, NextMessage, PC, Sealing
  <1> QED BY <1>1, <1>2, <1>3

\* A quiet step leaves the locks of the other workers alone.
LEMMA QuietLocks ==
    ASSUME SealInv, NEW w \in Workers, NEW v \in Workers, v # w, Quiet(w), pc[v] \in Sealing
    PROVE  lock'[Key(Msg(v))] = lock[Key(Msg(v))]
  <1>1. CASE Lock(w)
    <2>1. batch[v] # << >>
      BY DEF SealInv, TypeOK, Sealing
    <2>2. Key(Msg(v)) \in LockKeys /\ lock[Key(Msg(v))] = v /\ v # NoWorker
      BY <2>1, MsgType, HashSealAssumption DEF SealInv, Locked
    <2> QED BY <1>1, <2>2 DEF Lock, SealInv, TypeOK
  <1>2. CASE InsertDuplicate(w) \/ SealFailed(w) \/ Crash(w)
    BY <1>2, UnlockOthers DEF InsertDuplicate, SealFailed, Crash
  <1>3. CASE UNCHANGED lock
    BY <1>3
  <1> QED BY <1>1, <1>2, <1>3 DEF Quiet, EnsureGroup, ReadGroup, ReadGroupLost, AckPoison,
                                  Lookup, Insert, Ack, AckFailed

\* A quiet step keeps SealInv.
LEMMA SealQuiet ==
    ASSUME SealInv, TypeOK', NEW w \in Workers, Quiet(w) PROVE SealInv'
  <1>1. \A v \in Workers : v # w => WorkerInv(v)'
    BY OtherWorkers, QuietFrame, QuietLocks
  <1>2. WorkerInv(w)'
    <2>1. CASE Lock(w)
      <3>1. batch[w] # << >>
        BY <2>1 DEF SealInv, TypeOK, Lock
      <3>2. Key(Msg(w)) \in LockKeys
        BY <3>1, MsgType DEF SealInv
      <3> QED BY <2>1, <3>2 DEF SealInv, TypeOK, Lock, WorkerInv, Key, Msg, Evt, Sealing
    <2>2. CASE Lookup(w)
      BY <2>2 DEF SealInv, TypeOK, Locked, Lookup, WorkerInv, Key, Msg, Evt, Sealing
    <2>3. CASE Insert(w)
      BY <2>3 DEF SealInv, TypeOK, Locked, PrevLatest, Insert, WorkerInv, Key, Msg, Evt, Sealing
    <2>4. CASE InsertDuplicate(w)
      BY <2>4 DEF SealInv, TypeOK, InsertDuplicate, WorkerInv, Key, Msg, Evt, Sealing
    <2>5. CASE ~ (Lock(w) \/ Lookup(w) \/ Insert(w) \/ InsertDuplicate(w))
      BY <2>5, QuietFrame DEF WorkerInv, Sealing
    <2> QED BY <2>1, <2>2, <2>3, <2>4, <2>5
  <1>3. Distinct'
    <2> SUFFICES ASSUME NEW u \in Workers, NEW v \in Workers, u # v, u # w,
                        pc'[u] = "commit", pc'[v] = "commit"
                 PROVE  Evt(Msg(u))'.event_hash # Evt(Msg(v))'.event_hash
      BY DEF Distinct
    <2>1. pc[u] = "commit" /\ Msg(u)' = Msg(u) /\ Evt(Msg(u))' = Evt(Msg(u))
      BY QuietFrame DEF Msg, Evt
    <2>2. CASE v # w
      <3>1. pc[v] = "commit" /\ Msg(v)' = Msg(v) /\ Evt(Msg(v))' = Evt(Msg(v))
        BY <2>2, QuietFrame DEF Msg, Evt
      <3> QED BY <2>1, <3>1, SealInvSplit DEF Distinct
    <2>3. CASE v = w
      <3>1. Insert(w)
        BY <2>3, QuietFrame
      <3> QED BY <2>1, <2>3, <3>1 DEF Insert, Msg, Evt
    <2> QED BY <2>2, <2>3
  <1>4. AckedSealed'
    <2>1. CASE AckPoison(w)
      BY <2>1 DEF AckPoison, XAck, SealInv, AckedSealed, Evt
    <2>2. CASE Ack(w)
      BY <2>2 DEF Ack, XAck, SealInv, AckedSealed, AckingSealed, Evt
    <2>3. CASE UNCHANGED acked
      BY <2>3, QuietFrame DEF SealInv, AckedSealed, Evt
    <2> QED BY <2>1, <2>2, <2>3 DEF Quiet, EnsureGroup, ReadGroup, ReadGroupLost, Lock, Lookup,
                                    InsertDuplicate, Insert, SealFailed, AckFailed, Crash
  <1> QED BY <1>1, <1>2, <1>3, <1>4, SealInvJoin

(***************************************************************************)
(* A commit appends the row of an unsealed event onto its merchant's       *)
(* latest row: it is the Seal step of the ledger.                          *)
(***************************************************************************)
LEMMA CommitIsSeal ==
    ASSUME SealInv, NEW w \in Workers, Commit(w) \/ CommitLost(w)
    PROVE  /\ Evt(Msg(w)) \in Event
           /\ Evt(Msg(w)) \in Ledger!Event
           /\ Ledger!Seal(Evt(Msg(w)))
  <1>1. batch[w] # << >> /\ pc[w] = "commit" /\ Committed(w)
    BY DEF SealInv, TypeOK, Commit, CommitLost
  <1>2. Evt(Msg(w)) \in Event
    BY <1>1, MsgType DEF SealInv
  <1>3. /\ ~ Sealed(evidence, Evt(Msg(w)).event_hash)
        /\ prev[w] \in LookupPrevChainHash(evidence, Evt(Msg(w)).merchant_id)
    BY <1>1, SealInvSplit DEF WorkerInv
  <1> QED BY <1>1, <1>2, <1>3, SameTerms DEF Committed, Ledger!Seal

\* A commit keeps SealInv: the other sealing workers have other merchants.
LEMMA SealCommit ==
    ASSUME SealInv, TypeOK', NEW w \in Workers, Commit(w) \/ CommitLost(w) PROVE SealInv'
  <1> DEFINE evt == Evt(Msg(w))
  <1>1. /\ pc[w] = "commit" /\ Committed(w) /\ Unlock(w) /\ UNCHANGED <<stream, acked, prev>>
        /\ pc'[w] \in {"ack", "read", "handle"}
        /\ \A v \in Workers : v # w => pc'[v] = pc[v] /\ batch'[v] = batch[v]
    BY DEF SealInv, TypeOK, Commit, CommitLost, NextMessage
  <1>2. evt \in Event
    BY CommitIsSeal
  <1>3. /\ \A m \in Merchants : m # evt.merchant_id =>
              LookupPrevChainHash(evidence', m) = LookupPrevChainHash(evidence, m)
        /\ \A h : Sealed(evidence', h) <=> Sealed(evidence, h) \/ h = evt.event_hash
    BY <1>1, <1>2, AppendOther DEF Committed, SealInv, TypeOK
  <1>4. ASSUME NEW v \in Workers, v # w PROVE WorkerInv(v)'
    <2>1. Msg(v)' = Msg(v) /\ Evt(Msg(v))' = Evt(Msg(v)) /\ Key(Msg(v))' = Key(Msg(v))
      BY <1>1, <1>4 DEF Msg, Evt, Key
    <2>2. CASE pc[v] \in Sealing
      <3>1. batch[v] # << >>
        BY <2>2 DEF SealInv, TypeOK, Sealing
      <3>2. Evt(Msg(v)).merchant_id \in Merchants
        BY <3>1, MsgType DEF SealInv, Event
      <3>3. Evt(Msg(v)).merchant_id # evt.merchant_id
        BY <1>1, <1>4, <2>2, SealingExcludes DEF Sealing
      <3>4. LookupPrevChainHash(evidence', Evt(Msg(v)).merchant_id) =
                LookupPrevChainHash(evidence, Evt(Msg(v)).merchant_id)
        BY <1>3, <3>2, <3>3
      <3>5. lock'[Key(Msg(v))] = v
        BY <1>1, <1>4, <2>2, UnlockOthers DEF SealInv, Locked
      <3>6. pc[v] = "commit" => ~ Sealed(evidence', Evt(Msg(v)).event_hash)
        BY <1>1, <1>3, <1>4, SealInvSplit DEF Distinct, WorkerInv
      <3> QED BY <1>1, <1>4, <2>1, <2>2, <3>4, <3>5, <3>6, SealInvSplit DEF WorkerInv, Sealing
    <2>3. CASE pc[v] \notin Sealing
      BY <1>1, <1>3, <1>4, <2>1, <2>3, SealInvSplit DEF WorkerInv, Sealing
    <2> QED BY <2>2, <2>3
  <1>5. WorkerInv(w)'
    <2>1. CASE Commit(w)
      <3>1. Evt(Msg(w))' = evt
        BY <2>1 DEF Commit, Evt, Msg
      <3>2. pc'[w] = "ack"
        BY <2>1 DEF Commit, SealInv, TypeOK
      <3> QED BY <1>3, <3>1, <3>2 DEF WorkerInv, Sealing
    <2>2. CASE CommitLost(w)
      <3>1. pc'[w] \in {"read", "handle"}
        BY <2>2 DEF CommitLost, NextMessage, SealInv, TypeOK
      <3> QED BY <3>1 DEF WorkerInv, Sealing
    <2> QED BY <2>1, <2>2
  <1>6. Distinct'
    <2> SUFFICES ASSUME NEW u \in Workers, NEW v \in Workers, u # v,
                        pc'[u] = "commit", pc'[v] = "commit"
                 PROVE  Evt(Msg(u))'.event_hash # Evt(Msg(v))'.event_hash
      BY DEF Distinct
    <2>1. u # w /\ v # w
      BY <1>1
    <2>2. /\ pc[u] = "commit" /\ Evt(Msg(u))' = Evt(Msg(u))
          /\ pc[v] = "commit" /\ Evt(Msg(v))' = Evt(Msg(v))
      BY <1>1, <2>1 DEF Msg, Evt
    <2> QED BY <2>2, SealInvSplit DEF Distinct
  <1>7. AckedSealed'
    BY <1>1, <1>3 DEF SealInv, AckedSealed, Evt
  <1> QED BY <1>4, <1>5, <1>6, <1>7, SealInvJoin

\* Every step of the workers and the producers keeps SealInv.
LEMMA SealStep == SealInv /\ [Next]_vars => SealInv'
  <1> SUFFICES ASSUME SealInv, [Next]_vars PROVE SealInv'
    OBVIOUS
  <1>1. TypeOK'
    BY TypeStep DEF SealInv
  <1>2. CASE \E entry \in Entry : Publish(entry)
    BY <1>1, <1>2, SealPublish
  <1>3. CASE \E w \in Workers : Quiet(w)
    BY <1>1, <1>3, SealQuiet
  <1>4. CASE \E w \in Workers : Commit(w) \/ CommitLost(w)
    BY <1>1, <1>4, SealCommit
  <1>5. CASE UNCHANGED vars
    BY <1>5 DEF vars, SealInv, TypeOK, Locked, PrevLatest, InsertedOnce, AckingSealed, AckedSealed,
                Msg, Evt, Key
  <1> QED BY <1>2, <1>3, <1>4, <1>5, EntryType DEF Next, Step, Fault, Quiet

(***************************************************************************)
(* SealInv holds in every state, whatever fails and whoever crashes.       *)
(***************************************************************************)
THEOREM SealInvariant == Spec => []SealInv
  <1>1. Init => SealInv
    <2> SUFFICES ASSUME Init PROVE SealInv
      OBVIOUS
    <2>1. TypeOK
      BY TypeInit
    <2> QED BY <2>1 DEF Init, SealInv, Locked, PrevLatest, InsertedOnce, AckingSealed,
                        AckedSealed, Sealing
  <1> QED BY <1>1, SealStep, PTL DEF Spec

(***************************************************************************)
(* A well-formed message is acked only when its event_hash is sealed: no   *)
(* crash, lost reply or race between workers acks an unsealed event.       *)
(***************************************************************************)
THEOREM AckedAreSealed == Spec => []AckedSealed
  <1>1. SealInv => AckedSealed
    BY DEF SealInv
  <1> QED BY <1>1, SealInvariant, PTL

(***************************************************************************)
(* The workers implement the ledger: a commit is a Seal step, and no other *)
(* step changes the table.                                                 *)
(***************************************************************************)
THEOREM ImplementsLedger == Spec => SealsLedger
  <1>1. Init => Ledger!Init
    BY DEF Init, Ledger!Init
  <1>2. SealInv /\ [Next]_vars => [Ledger!Next]_evidence
    <2> SUFFICES ASSUME SealInv, [Next]_vars PROVE [Ledger!Next]_evidence
      OBVIOUS
    <2>1. CASE \E w \in Workers : Commit(w) \/ CommitLost(w)
      BY <2>1, CommitIsSeal DEF Ledger!Next
    <2>2. CASE \E w \in Workers : Quiet(w)
      BY <2>2, QuietFrame
    <2>3. CASE (\E entry \in Entry : Publish(entry)) \/ UNCHANGED vars
      BY <2>3 DEF Publish, vars
    <2> QED BY <2>1, <2>2, <2>3, EntryType DEF Next, Step, Fault, Quiet
  <1> QED BY <1>1, <1>2, SealInvariant, PTL DEF Spec, SealsLedger, Ledger!Spec

-----------------------------------------------------------------------------
(***************************************************************************)
(* The properties of the ledger hold of every ledger, and so of Sub 1's.   *)
(***************************************************************************)
\* The empty table satisfies the inductive invariant.
LEMMA LedgerInit == Ledger!Init => Ledger!LedgerInv
  <1> SUFFICES ASSUME Ledger!Init PROVE Ledger!LedgerInv
    OBVIOUS
  <1>1. evidence = << >> /\ DOMAIN evidence = {}
    BY DEF Ledger!Init
  <1>2. Ledger!IsTable(evidence)
    BY <1>1 DEF Ledger!IsTable
  <1> QED BY <1>1, <1>2 DEF Ledger!LedgerInv, Ledger!OncePerHash, Ledger!HashesInputs, Ledger!ExtendsLatest

(***************************************************************************)
(* Sealing an event keeps the inductive invariant: the new row extends a   *)
(* latest row, and the rows before an old row are the ones they were.      *)
(***************************************************************************)
LEMMA LedgerSeal ==
    ASSUME Ledger!LedgerInv, NEW evt \in Ledger!Event, Ledger!Seal(evt)
    PROVE  Ledger!LedgerInv'
  <1> DEFINE m == evt.merchant_id
  <1>0. PICK n : n = Len(evidence)
    OBVIOUS
  <1>1. PICK p \in Ledger!LookupPrevChainHash(evidence, m) :
            evidence' = Append(evidence, Ledger!EvidenceRow(evt, p))
    BY DEF Ledger!Seal
  <1>2. /\ Ledger!IsTable(evidence')
        /\ n \in Nat
        /\ DOMAIN evidence = 1 .. n
        /\ DOMAIN evidence' = 1 .. (n + 1)
        /\ evidence'[n + 1] = Ledger!EvidenceRow(evt, p)
        /\ \A k \in DOMAIN evidence : evidence'[k] = evidence[k]
    <2>1. Ledger!IsTable(evidence)
      BY DEF Ledger!LedgerInv
    <2>2. /\ Ledger!IsTable(evidence')
          /\ Len(evidence) \in Nat
          /\ DOMAIN evidence = 1 .. Len(evidence)
          /\ DOMAIN evidence' = 1 .. (Len(evidence) + 1)
          /\ evidence'[Len(evidence) + 1] = Ledger!EvidenceRow(evt, p)
          /\ \A k \in DOMAIN evidence : evidence'[k] = evidence[k]
      BY <1>1, <2>1, AppendRow, SameTerms
    <2> QED BY <1>0, <2>2, Zenon
  <1>3. Ledger!OncePerHash'
    <2>1. \A k \in DOMAIN evidence : evidence[k].event_hash # evt.event_hash
      BY DEF Ledger!Seal, Ledger!Sealed
    <2>2. evidence'[n + 1].event_hash = evt.event_hash
      BY <1>2 DEF Ledger!EvidenceRow
    <2> QED BY <1>2, <2>1, <2>2 DEF Ledger!LedgerInv, Ledger!OncePerHash
  <1>4. Ledger!HashesInputs'
    <2>1. evt.ingested_at \in Times
      BY DEF Ledger!Event
    <2>2. evidence'[n + 1].chain_hash =
            Ledger!ComputeChainHash(evidence'[n + 1].event_hash, evidence'[n + 1].prev_chain_hash,
                             evt.ingested_at)
      BY <1>2 DEF Ledger!EvidenceRow
    <2> QED BY <1>2, <2>1, <2>2 DEF Ledger!LedgerInv, Ledger!HashesInputs
  <1>5. Ledger!ExtendsLatest'
    <2>1. \A k \in 1 .. n : Ledger!Before(k)' = Ledger!Before(k)
      BY <1>2 DEF Ledger!Before, Ledger!RowsOf
    <2>2. Ledger!Before(n + 1)' = Ledger!RowsOf(evidence, m)
      BY <1>2 DEF Ledger!Before, Ledger!RowsOf, Ledger!EvidenceRow
    <2>3. ASSUME NEW k \in 1 .. n
          PROVE  \/ Ledger!Before(k)' = {} /\ evidence'[k].prev_chain_hash = Ledger!NoPrev
                 \/ \E j \in Ledger!Before(k)' :
                      /\ evidence'[k].prev_chain_hash = evidence'[j].chain_hash
                      /\ \A i \in Ledger!Before(k)' : evidence'[i].ingested_at <= evidence'[j].ingested_at
      <3>1. Ledger!Before(k) \subseteq 1 .. n
        BY <1>2 DEF Ledger!Before, Ledger!RowsOf
      <3> QED BY <1>2, <2>1, <3>1 DEF Ledger!LedgerInv, Ledger!ExtendsLatest
    <2>4. \/ Ledger!RowsOf(evidence, m) = {} /\ p = Ledger!NoPrev
          \/ \E j \in Ledger!RowsOf(evidence, m) :
                /\ p = evidence[j].chain_hash
                /\ \A i \in Ledger!RowsOf(evidence, m) : evidence[i].ingested_at <= evidence[j].ingested_at
      BY DEF Ledger!LookupPrevChainHash, Ledger!LatestRowsOf
    <2>5. evidence'[n + 1].prev_chain_hash = p /\ Ledger!RowsOf(evidence, m) \subseteq 1 .. n
      BY <1>2 DEF Ledger!EvidenceRow, Ledger!RowsOf
    <2> QED BY <1>2, <2>2, <2>3, <2>4, <2>5 DEF Ledger!ExtendsLatest
  <1> QED BY <1>2, <1>3, <1>4, <1>5 DEF Ledger!LedgerInv

\* The inductive invariant holds in every state of the ledger.
THEOREM LedgerInvariant == Ledger!Spec => []Ledger!LedgerInv
  <1>1. Ledger!LedgerInv /\ [Ledger!Next]_evidence => Ledger!LedgerInv'
    <2> SUFFICES ASSUME Ledger!LedgerInv, [Ledger!Next]_evidence PROVE Ledger!LedgerInv'
      OBVIOUS
    <2>1. CASE Ledger!Next
      BY <2>1, LedgerSeal DEF Ledger!Next
    <2>2. CASE UNCHANGED evidence
      BY <2>2 DEF Ledger!LedgerInv, Ledger!IsTable, Ledger!OncePerHash, Ledger!HashesInputs, Ledger!ExtendsLatest, Ledger!Before, Ledger!RowsOf
    <2> QED BY <2>1, <2>2
  <1> QED BY <1>1, LedgerInit, PTL DEF Ledger!Spec

-----------------------------------------------------------------------------
\* Two rows with the same chain hash are the same row, and no row has chain
\* hash NoPrev: the digest covers the event_hash, which is UNIQUE.
LEMMA ChainHashNamesRow ==
    ASSUME Ledger!LedgerInv, NEW j \in DOMAIN evidence, NEW k \in DOMAIN evidence
    PROVE  /\ evidence[j].chain_hash # Ledger!NoPrev
           /\ evidence[j].chain_hash = evidence[k].chain_hash => j = k
  <1>1. PICK s \in Times : evidence[j].chain_hash =
            Ledger!ComputeChainHash(evidence[j].event_hash, evidence[j].prev_chain_hash, s)
    BY DEF Ledger!LedgerInv, Ledger!HashesInputs
  <1>2. PICK t \in Times : evidence[k].chain_hash =
            Ledger!ComputeChainHash(evidence[k].event_hash, evidence[k].prev_chain_hash, t)
    BY DEF Ledger!LedgerInv, Ledger!HashesInputs
  <1>3. evidence[j].chain_hash # Ledger!NoPrev
    BY <1>1 DEF Ledger!ComputeChainHash, Ledger!NoPrev
  <1>4. ASSUME evidence[j].chain_hash = evidence[k].chain_hash PROVE j = k
    <2>1. evidence[j].event_hash = evidence[k].event_hash
      BY <1>1, <1>2, <1>4 DEF Ledger!ComputeChainHash
    <2> QED BY <2>1 DEF Ledger!LedgerInv, Ledger!OncePerHash
  <1> QED BY <1>3, <1>4

(***************************************************************************)
(* Every ledger is chained: each merchant has one first event, and every   *)
(* other row continues an earlier row of its merchant.                     *)
(***************************************************************************)
THEOREM LedgerChained == Ledger!Spec => []Ledger!Chained
  <1>1. Ledger!LedgerInv => Ledger!Chained
    BY DEF Ledger!LedgerInv, Ledger!ExtendsLatest, Ledger!Chained
  <1> QED BY <1>1, LedgerInvariant, PTL

(***************************************************************************)
(* In every ledger, a merchant whose rows were sealed in ingested_at order *)
(* has a linear chain: of two rows that continue the same row, the later   *)
(* one would have had to skip the earlier, which is a later row to extend. *)
(***************************************************************************)
THEOREM LedgerLinearWhenInOrder == Ledger!Spec => []Ledger!LinearWhenInOrder
  <1>1. Ledger!LedgerInv => Ledger!LinearWhenInOrder
    <2> SUFFICES ASSUME Ledger!LedgerInv, NEW m \in Merchants, Ledger!InOrder(m),
                        NEW a \in Ledger!RowsOf(evidence, m), NEW b \in Ledger!RowsOf(evidence, m),
                        evidence[a].prev_chain_hash = evidence[b].prev_chain_hash,
                        a < b
                 PROVE  FALSE
      <3>1. Ledger!LedgerInv => \A m \in Merchants : Ledger!RowsOf(evidence, m) \subseteq Nat
        <4> SUFFICES ASSUME Ledger!LedgerInv PROVE DOMAIN evidence \subseteq Nat
          BY DEF Ledger!RowsOf
        <4> DEFINE R == {evidence[k] : k \in DOMAIN evidence}
        <4>1. evidence \in Seq(R)
          BY DEF Ledger!LedgerInv, Ledger!IsTable
        <4> HIDE DEF R
        <4>2. DOMAIN evidence = 1 .. Len(evidence) /\ Len(evidence) \in Nat
          BY <4>1, LenProperties
        <4> QED BY <4>2
      <3> QED BY <3>1 DEF Ledger!LinearWhenInOrder, Ledger!Linear
    <2>1. /\ a \in DOMAIN evidence /\ b \in DOMAIN evidence
          /\ a \in Ledger!Before(b)
          /\ evidence[a].merchant_id = m /\ evidence[b].merchant_id = m
      BY DEF Ledger!RowsOf, Ledger!Before
    <2>2. PICK jb \in Ledger!Before(b) :
             /\ evidence[b].prev_chain_hash = evidence[jb].chain_hash
             /\ \A i \in Ledger!Before(b) : evidence[i].ingested_at <= evidence[jb].ingested_at
      BY <2>1 DEF Ledger!LedgerInv, Ledger!ExtendsLatest
    <2>3. jb \in Ledger!RowsOf(evidence, m) /\ jb \in DOMAIN evidence
      BY <2>1, <2>2 DEF Ledger!Before, Ledger!RowsOf
    <2>4. evidence[a].prev_chain_hash # Ledger!NoPrev
      BY <2>2, <2>3, ChainHashNamesRow
    <2>5. PICK ja \in Ledger!Before(a) : evidence[a].prev_chain_hash = evidence[ja].chain_hash
      BY <2>1, <2>4 DEF Ledger!LedgerInv, Ledger!ExtendsLatest
    <2>6. ja \in Ledger!RowsOf(evidence, m) /\ ja \in DOMAIN evidence /\ ja < a
      BY <2>1, <2>5 DEF Ledger!Before, Ledger!RowsOf
    <2>7. ja = jb
      BY <2>2, <2>3, <2>5, <2>6, ChainHashNamesRow
    <2>8. evidence[ja].ingested_at < evidence[a].ingested_at
      BY <2>6 DEF Ledger!InOrder
    <2>9. evidence[a].ingested_at \in Nat /\ evidence[ja].ingested_at \in Nat
      BY <2>1, <2>6 DEF Ledger!LedgerInv, Ledger!IsTable
    <2> QED BY <2>1, <2>2, <2>7, <2>8, <2>9
  <1> QED BY <1>1, LedgerInvariant, PTL

-----------------------------------------------------------------------------
(***************************************************************************)
(* The chains of the table that concurrent, failing and crashing workers   *)
(* build stay in one merchant and lead back to its only first event.       *)
(***************************************************************************)
THEOREM SealedChained == Spec => []Chained
  BY ImplementsLedger, LedgerChained, PTL DEF SealsLedger, Chained

(***************************************************************************)
(* A merchant whose events the workers commit in timestamp order has a     *)
(* linear chain, however many workers there are.                           *)
(***************************************************************************)
THEOREM SealedLinear == Spec => []LinearWhenInOrder
  BY ImplementsLedger, LedgerLinearWhenInOrder, PTL DEF SealsLedger, LinearWhenInOrder
=============================================================================
