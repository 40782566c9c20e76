-------------------------- MODULE ParseRouteProofs --------------------------
(***************************************************************************)
(* Proofs about Sub 2 for any number of workers, merchants, sales and      *)
(* messages, any batch size, and every failure and crash of ParseRoute:    *)
(* RoutingInv is inductive.                                                *)
(***************************************************************************)
EXTENDS ParseRoute, SequenceTheorems, TLAPS

\* A batch of delivered entries stays one when more entries are delivered.
LEMMA BatchWiden ==
    ASSUME NEW a \in Nat, NEW b \in Nat, a <= b, NEW s \in Seq(1 .. a)
    PROVE  s \in Seq(1 .. b)
  <1>1. 1 .. a \subseteq 1 .. b
    OBVIOUS
  <1> QED BY <1>1, SeqMonotonic

\* The batch that XREADGROUP returns is a non-empty sequence of entries.
LEMMA BatchRead ==
    ASSUME NEW a \in Nat, NEW b \in Nat, a < b
    PROVE  LET s == [i \in 1 .. (b - a) |-> a + i] IN s \in Seq(1 .. b) /\ s # << >>
  <1> DEFINE s == [i \in 1 .. (b - a) |-> a + i]
  <1>1. b - a \in Nat \ {0} /\ \A i \in 1 .. (b - a) : a + i \in 1 .. b
    OBVIOUS
  <1>2. s \in [1 .. (b - a) -> 1 .. b]
    BY <1>1
  <1>3. s \in Seq(1 .. b)
    BY <1>1, <1>2, SeqDef
  <1>4. 1 \in DOMAIN s
    BY <1>1
  <1> QED BY <1>3, <1>4

\* What the worker of a batch handles is an entry of the stream.
LEMMA MsgType ==
    ASSUME TypeOK, NEW w \in Workers, batch[w] # << >>
    PROVE  /\ Msg(w) \in 1 .. group
           /\ Msg(w) \in 1 .. Len(stream)
           /\ Env(w) \in Sale \union Other
           /\ Tail(batch[w]) \in Seq(1 .. group)
  <1>1. /\ batch[w] \in Seq(1 .. group)
        /\ group \in Nat /\ Len(stream) \in Nat /\ group <= Len(stream)
        /\ stream \in Seq(Sale \union Other)
    BY DEF TypeOK
  <1>2. Msg(w) \in 1 .. group /\ Tail(batch[w]) \in Seq(1 .. group)
    BY <1>1, HeadTailProperties DEF Msg
  <1>3. Msg(w) \in 1 .. Len(stream)
    BY <1>1, <1>2
  <1> QED BY <1>1, <1>2, <1>3, ElementOfSeq DEF Env

\* A sale is told by its kind.
LEMMA SaleKind == \A e \in Sale \union Other : e.kind = "sale" => e \in Sale
  BY DEF Sale, Other

\* pc and batch keep their types when a worker goes on to its next message.
LEMMA NextMessageType ==
    ASSUME TypeOK, NEW w \in Workers, batch[w] # << >>, NextMessage(w)
    PROVE  /\ pc' \in [Workers -> {"read", "handle", "insert", "ack"} \union Inserted]
           /\ batch' \in [Workers -> Seq(1 .. group)]
           /\ \A v \in Workers : pc'[v] = "read" <=> batch'[v] = << >>
  <1>1. Tail(batch[w]) \in Seq(1 .. group)
    BY MsgType
  <1> QED BY <1>1 DEF TypeOK, NextMessage

\* And when it takes another step with the message it has.
LEMMA GotoType ==
    ASSUME TypeOK, NEW w \in Workers, pc[w] # "read",
           NEW label \in {"handle", "insert", "ack"} \union Inserted, Goto(w, label)
    PROVE  /\ pc' \in [Workers -> {"read", "handle", "insert", "ack"} \union Inserted]
           /\ batch' = batch
           /\ \A v \in Workers : pc'[v] = "read" <=> batch'[v] = << >>
  BY DEF TypeOK, Goto, Inserted

-----------------------------------------------------------------------------
(***************************************************************************)
(* Type correctness.                                                       *)
(***************************************************************************)
LEMMA TypeInit == Init => TypeOK
  BY EmptySeq DEF Init, TypeOK

LEMMA TypePublish ==
    ASSUME TypeOK, NEW entry \in Sale \union Other, Publish(entry) PROVE TypeOK'
  <1>1. stream' \in Seq(Sale \union Other) /\ Len(stream') = Len(stream) + 1 /\ Len(stream) \in Nat
    BY AppendProperties DEF TypeOK, Publish
  <1> QED BY <1>1 DEF TypeOK, Publish, tables

LEMMA TypeProvision ==
    ASSUME TypeOK, NEW m \in Merchants, Provision(m) \/ SeedTenderType(m) PROVE TypeOK'
  <1>1. merchants \subseteq merchants' /\ merchants' \subseteq Merchants
    BY DEF TypeOK, Provision, SeedTenderType
  <1>2. transactions' \subseteq [merchant : merchants', number : Numbers, tenders : BOOLEAN]
    BY <1>1 DEF TypeOK, Provision, SeedTenderType
  <1> QED BY <1>1, <1>2 DEF TypeOK, Provision, SeedTenderType

LEMMA TypeRead ==
    ASSUME TypeOK, NEW w \in Workers, ReadGroup(w) PROVE TypeOK'
  <1> USE ParseRouteAssumption
  <1>1. Len(stream) \in Nat /\ group \in Nat /\ group <= Len(stream)
    BY DEF TypeOK
  <1>2. LastRead \in Nat /\ LastRead <= Len(stream) /\ group < LastRead /\ group' = LastRead
    BY <1>1 DEF LastRead, ReadGroup
  <1> DEFINE b == [i \in 1..(LastRead - group) |-> group + i]
  <1>3. b \in Seq(1 .. LastRead) /\ b # << >>
    BY <1>1, <1>2, BatchRead
  <1>4. batch' = [batch EXCEPT ![w] = b] /\ pc' = [pc EXCEPT ![w] = "handle"]
    BY DEF ReadGroup
  <1> HIDE DEF b
  <1>5. \A v \in Workers : batch[v] \in Seq(1 .. LastRead)
    <2> SUFFICES ASSUME NEW v \in Workers PROVE batch[v] \in Seq(1 .. LastRead)
      OBVIOUS
    <2>1. batch[v] \in Seq(1 .. group)
      BY DEF TypeOK
    <2> QED BY <1>1, <1>2, <2>1, BatchWiden
  <1>6. batch' \in [Workers -> Seq(1 .. LastRead)]
    BY <1>3, <1>4, <1>5 DEF TypeOK
  <1>7. /\ pc' \in [Workers -> {"read", "handle", "insert", "ack"} \union Inserted]
        /\ \A v \in Workers : pc'[v] = "read" <=> batch'[v] = << >>
    BY <1>3, <1>4 DEF TypeOK
  <1>8. acked' \subseteq 1 .. group' /\ deadletters' \subseteq 1 .. group'
    BY <1>1, <1>2 DEF TypeOK, ReadGroup
  <1>9. UNCHANGED <<stream, merchants, tenderTypes, transactions, tenders>>
    BY DEF ReadGroup, tables
  <1>10. group' \in 0 .. Len(stream')
    BY <1>1, <1>2, <1>9
  <1>11. batch' \in [Workers -> Seq(1 .. group')]
    BY <1>2, <1>6
  <1> QED BY <1>7, <1>8, <1>9, <1>10, <1>11 DEF TypeOK

\* The steps of a worker that leave its batch and the tables alone.
Moves(w) ==
    \/ DeadLetter(w) \/ Drop(w) \/ Resolve(w) \/ InsertDuplicate(w) \/ Insert(w)
    \/ InsertTenders(w) \/ TenderLookupFails(w)

LEMMA MovesFrame ==
    ASSUME NEW w \in Workers, Moves(w)
    PROVE  /\ pc[w] # "read"
           /\ UNCHANGED <<stream, group, acked, merchants, tenderTypes, transactions, batch>>
           /\ deadletters' = deadletters \/ deadletters' = deadletters \union {Msg(w)}
           /\ tenders' = tenders \/ \E x \in BOOLEAN : tenders' = [tenders EXCEPT ![w] = x]
           /\ \E label \in {"handle", "insert", "ack"} \union Inserted : Goto(w, label)
  <1>1. CASE DeadLetter(w)
    BY <1>1 DEF DeadLetter, Goto, tables
  <1>2. CASE Drop(w)
    BY <1>2 DEF Drop, Goto, tables
  <1>3. CASE Resolve(w)
    BY <1>3 DEF Resolve, Goto, tables
  <1>4. CASE InsertDuplicate(w)
    BY <1>4 DEF InsertDuplicate, Goto, tables
  <1>5. CASE Insert(w)
    BY <1>5 DEF Insert, Goto, tables, Inserted
  <1>6. CASE InsertTenders(w)
    <2> DEFINE x == Env(w).merchant \in tenderTypes
    <2>1. x \in BOOLEAN /\ tenders' = [tenders EXCEPT ![w] = x]
      BY <1>6 DEF InsertTenders
    <2> HIDE DEF x
    <2> QED BY <1>6, <2>1 DEF InsertTenders, Goto, tables, Inserted
  <1>7. CASE TenderLookupFails(w)
    BY <1>7 DEF TenderLookupFails, Goto, tables, Inserted
  <1> QED BY <1>1, <1>2, <1>3, <1>4, <1>5, <1>6, <1>7 DEF Moves

LEMMA TypeMoves == ASSUME TypeOK, NEW w \in Workers, Moves(w) PROVE TypeOK'
  <1>1. pc[w] # "read" /\ batch[w] # << >>
    BY MovesFrame DEF TypeOK
  <1>2. PICK label \in {"handle", "insert", "ack"} \union Inserted : Goto(w, label)
    BY MovesFrame
  <1>3. /\ pc' \in [Workers -> {"read", "handle", "insert", "ack"} \union Inserted]
        /\ batch' = batch /\ \A v \in Workers : pc'[v] = "read" <=> batch'[v] = << >>
    BY <1>1, <1>2, GotoType
  <1>4. UNCHANGED <<stream, group, acked, merchants, tenderTypes, transactions>>
    BY MovesFrame
  <1>5. deadletters' \subseteq 1 .. group
    <2>1. Msg(w) \in 1 .. group
      BY <1>1, MsgType
    <2>2. deadletters \subseteq 1 .. group
      BY DEF TypeOK
    <2> QED BY <2>1, <2>2, MovesFrame
  <1>6. tenders' \in [Workers -> BOOLEAN]
    BY MovesFrame DEF TypeOK
  <1> QED BY <1>3, <1>4, <1>5, <1>6 DEF TypeOK

\* The steps with which it is done with its message, or with its batch.
Leaves(w) == ResolveUnknown(w) \/ PersistFails(w) \/ Ack(w) \/ Crash(w)

LEMMA LeavesFrame ==
    ASSUME NEW w \in Workers, Leaves(w)
    PROVE  /\ pc[w] # "read"
           /\ UNCHANGED <<stream, group, deadletters, merchants, tenderTypes, transactions, tenders>>
           /\ acked' = acked \/ (pc[w] = "ack" /\ acked' = acked \union {Msg(w)})
           /\ \/ NextMessage(w)
              \/ /\ pc' = [pc EXCEPT ![w] = "read"]
                 /\ batch' = [batch EXCEPT ![w] = << >>]
  <1>1. CASE ResolveUnknown(w)
    BY <1>1 DEF ResolveUnknown, tables
  <1>2. CASE PersistFails(w)
    BY <1>2 DEF PersistFails, tables, Inserted
  <1>3. CASE Ack(w)
    BY <1>3 DEF Ack, tables
  <1>4. CASE Crash(w)
    BY <1>4 DEF Crash, tables
  <1> QED BY <1>1, <1>2, <1>3, <1>4 DEF Leaves

LEMMA TypeLeaves == ASSUME TypeOK, NEW w \in Workers, Leaves(w) PROVE TypeOK'
  <1>1. batch[w] # << >>
    BY LeavesFrame DEF TypeOK
  <1>2. /\ pc' \in [Workers -> {"read", "handle", "insert", "ack"} \union Inserted]
        /\ batch' \in [Workers -> Seq(1 .. group)]
        /\ \A v \in Workers : pc'[v] = "read" <=> batch'[v] = << >>
    <2>1. CASE NextMessage(w)
      BY <1>1, <2>1, NextMessageType
    <2>2. CASE pc' = [pc EXCEPT ![w] = "read"] /\ batch' = [batch EXCEPT ![w] = << >>]
      <3>1. << >> \in Seq(1 .. group)
        BY EmptySeq
      <3> QED BY <2>2, <3>1 DEF TypeOK
    <2> QED BY <2>1, <2>2, LeavesFrame
  <1>3. acked' \subseteq 1 .. group
    <2>1. Msg(w) \in 1 .. group
      BY <1>1, MsgType
    <2>2. acked \subseteq 1 .. group
      BY DEF TypeOK
    <2> QED BY <2>1, <2>2, LeavesFrame
  <1>4. UNCHANGED <<stream, group, deadletters, merchants, tenderTypes, transactions, tenders>>
    BY LeavesFrame
  <1> QED BY <1>2, <1>3, <1>4 DEF TypeOK

\* A committed transaction is one of a merchant that is set up.
LEMMA TypeCommit ==
    ASSUME TypeOK, NEW w \in Workers, WorkerInv(w), Commit(w) \/ CommitLost(w) PROVE TypeOK'
  <1>1. /\ pc[w] = "commit" /\ batch[w] # << >> /\ Committed(w)
        /\ UNCHANGED <<stream, group, acked, deadletters, merchants, tenderTypes, tenders>>
    BY DEF TypeOK, Commit, CommitLost
  <1>2. Env(w) \in Sale /\ Env(w).merchant \in merchants /\ Env(w).number \in Numbers
    BY <1>1 DEF WorkerInv, Inserted, Sale
  <1>3. transactions' \subseteq [merchant : merchants, number : Numbers, tenders : BOOLEAN]
    BY <1>1, <1>2 DEF TypeOK, Committed
  <1>4. /\ pc' \in [Workers -> {"read", "handle", "insert", "ack"} \union Inserted]
        /\ batch' \in [Workers -> Seq(1 .. group)]
        /\ \A v \in Workers : pc'[v] = "read" <=> batch'[v] = << >>
    <2>1. CASE Commit(w)
      <3>1. Goto(w, "ack")
        BY <2>1 DEF Commit
      <3> QED BY <1>1, <3>1, GotoType DEF TypeOK
    <2>2. CASE CommitLost(w)
      BY <1>1, <2>2, NextMessageType DEF CommitLost
    <2> QED BY <2>1, <2>2
  <1> QED BY <1>1, <1>3, <1>4 DEF TypeOK

-----------------------------------------------------------------------------
(***************************************************************************)
(* Acks and transactions.                                                  *)
(***************************************************************************)

\* An entry that a worker has, and one that was acked, stay what they are when the
\* stream grows.
LEMMA PublishKeeps ==
    ASSUME TypeOK, NEW entry \in Sale \union Other, Publish(entry)
    PROVE  /\ \A i \in 1 .. group : stream'[i] = stream[i]
           /\ \A w \in Workers : batch[w] # << >> => Env(w)' = Env(w)
  <1>1. /\ stream \in Seq(Sale \union Other) /\ Len(stream) \in Nat /\ group \in Nat
        /\ group <= Len(stream)
    BY DEF TypeOK
  <1>2. \A i \in 1 .. Len(stream) : stream'[i] = stream[i]
    BY <1>1, AppendProperties DEF Publish
  <1>3. \A w \in Workers : batch[w] # << >> => Msg(w) \in 1 .. Len(stream) /\ Msg(w)' = Msg(w)
    BY MsgType DEF Publish, Msg
  <1> QED BY <1>1, <1>2, <1>3 DEF Env

LEMMA RoutingPublish ==
    ASSUME RoutingInv, NEW entry \in Sale \union Other, Publish(entry) PROVE RoutingInv'
  <1>1. TypeOK /\ TypeOK'
    BY TypePublish DEF RoutingInv
  <1>2. UNCHANGED <<group, acked, merchants, transactions, pc, batch>>
    BY DEF Publish, tables
  <1>3. \A w \in Workers : pc[w] # "read" => Env(w)' = Env(w)
    BY <1>1, PublishKeeps DEF TypeOK
  <1>4. \A w \in Workers : WorkerInv(w)'
    BY <1>2, <1>3 DEF RoutingInv, WorkerInv, Recorded, Inserted
  <1>5. OneInserts'
    BY <1>2, <1>3 DEF RoutingInv, OneInserts, Inserted
  <1>6. \A i \in acked : stream'[i] = stream[i]
    BY <1>1, PublishKeeps DEF TypeOK
  <1>7. AckedRecorded'
    BY <1>2, <1>6 DEF RoutingInv, AckedRecorded, Recorded
  <1>8. RecordedOnce'
    BY <1>2 DEF RoutingInv, RecordedOnce
  <1> QED BY <1>1, <1>4, <1>5, <1>7, <1>8 DEF RoutingInv

\* More merchants and tender types take nothing away.
LEMMA RoutingProvision ==
    ASSUME RoutingInv, NEW m \in Merchants, Provision(m) \/ SeedTenderType(m) PROVE RoutingInv'
  <1>1. /\ UNCHANGED <<stream, acked, transactions, pc, batch>>
        /\ merchants \subseteq merchants'
    BY DEF Provision, SeedTenderType
  <1>2. TypeOK'
    BY TypeProvision DEF RoutingInv
  <1>3. \A w \in Workers : Env(w)' = Env(w)
    BY <1>1 DEF Env, Msg
  <1>4. \A w \in Workers : WorkerInv(w)'
    BY <1>1, <1>3 DEF RoutingInv, WorkerInv, Recorded
  <1> QED BY <1>1, <1>2, <1>3, <1>4 DEF RoutingInv, OneInserts, AckedRecorded, RecordedOnce, Recorded

(***************************************************************************)
(* A step of w that neither adds to the stream nor to the tables concerns  *)
(* only w, and what has been acked.                                        *)
(***************************************************************************)
LEMMA RoutingQuiet ==
    ASSUME RoutingInv, TypeOK', NEW w \in Workers,
           UNCHANGED <<stream, merchants, transactions>>,
           \A v \in Workers \ {w} : pc'[v] = pc[v] /\ batch'[v] = batch[v],
           WorkerInv(w)',
           pc'[w] \in Inserted =>
              \A v \in Workers \ {w} : pc[v] \in Inserted => /\ ~ SameSale(Env(v), Env(w)')
                                                          /\ ~ SameSale(Env(w)', Env(v)),
           AckedRecorded'
    PROVE  RoutingInv'
  <1>1. \A v \in Workers \ {w} : Env(v)' = Env(v)
    BY DEF Env, Msg
  <1>2. \A v \in Workers : WorkerInv(v)'
    BY <1>1 DEF RoutingInv, WorkerInv, Recorded
  <1>3. OneInserts'
    BY <1>1 DEF RoutingInv, OneInserts
  <1> QED BY <1>2, <1>3 DEF RoutingInv, RecordedOnce

LEMMA RoutingRead ==
    ASSUME RoutingInv, NEW w \in Workers, ReadGroup(w) PROVE RoutingInv'
  <1>1. /\ UNCHANGED <<stream, acked, merchants, transactions>> /\ pc' = [pc EXCEPT ![w] = "handle"]
        /\ \A v \in Workers \ {w} : batch'[v] = batch[v]
    BY DEF ReadGroup, tables, RoutingInv, TypeOK
  <1>2. pc'[w] = "handle" /\ \A v \in Workers \ {w} : pc'[v] = pc[v]
    BY <1>1 DEF RoutingInv, TypeOK
  <1>3. WorkerInv(w)'
    BY <1>2 DEF WorkerInv, Inserted
  <1>4. AckedRecorded'
    BY <1>1 DEF RoutingInv, AckedRecorded, Recorded
  <1>5. TypeOK'
    BY TypeRead DEF RoutingInv
  <1> QED BY <1>1, <1>2, <1>3, <1>4, <1>5, RoutingQuiet DEF Inserted

\* Where a move takes a worker, and what it found.
LEMMA MovesTo ==
    ASSUME TypeOK, NEW w \in Workers, Moves(w)
    PROVE  /\ \A v \in Workers \ {w} : pc'[v] = pc[v]
           /\ \/ pc'[w] = "ack" /\ (Env(w).kind # "sale" \/ Recorded(Env(w)))
              \/ pc'[w] = "insert" /\ Env(w).kind = "sale" /\ Env(w).merchant \in merchants
              \/ pc'[w] = "tenders" /\ pc[w] = "insert" /\ ~ Recorded(Env(w)) /\ ~ Waits(w)
              \/ pc'[w] = "commit" /\ pc[w] = "tenders"
  <1> USE DEF TypeOK, Goto
  <1>1. CASE DeadLetter(w)
    BY <1>1 DEF DeadLetter
  <1>2. CASE Drop(w)
    BY <1>2 DEF Drop
  <1>3. CASE Resolve(w)
    BY <1>3 DEF Resolve
  <1>4. CASE InsertDuplicate(w)
    BY <1>4 DEF InsertDuplicate
  <1>5. CASE Insert(w)
    BY <1>5 DEF Insert
  <1>6. CASE InsertTenders(w)
    BY <1>6 DEF InsertTenders
  <1>7. CASE TenderLookupFails(w)
    BY <1>7 DEF TenderLookupFails
  <1> QED BY <1>1, <1>2, <1>3, <1>4, <1>5, <1>6, <1>7 DEF Moves

LEMMA SameSaleSymmetric == \A e, f : SameSale(e, f) => SameSale(f, e)
  BY DEF SameSale

LEMMA RoutingMoves ==
    ASSUME RoutingInv, NEW w \in Workers, Moves(w) PROVE RoutingInv'
  <1>1. TypeOK /\ TypeOK' /\ batch[w] # << >>
    BY TypeMoves, MovesFrame DEF RoutingInv, TypeOK
  <1>2. UNCHANGED <<stream, acked, merchants, transactions, batch>>
    BY MovesFrame
  <1>3. Env(w)' = Env(w) /\ Env(w) \in Sale \union Other
    BY <1>1, <1>2, MsgType DEF Env, Msg
  <1>4. Recorded(Env(w))' <=> Recorded(Env(w))
    BY <1>2, <1>3 DEF Recorded
  <1>5. WorkerInv(w)'
    BY <1>1, <1>2, <1>3, <1>4, MovesTo, SaleKind DEF RoutingInv, WorkerInv, Inserted
  <1>6. pc'[w] \in Inserted =>
           \A v \in Workers \ {w} : pc[v] \in Inserted => /\ ~ SameSale(Env(v), Env(w)')
                                                       /\ ~ SameSale(Env(w)', Env(v))
    <2>1. CASE pc'[w] = "tenders"
      <3>1. ~ Waits(w)
        BY <1>1, <2>1, MovesTo
      <3> QED BY <1>3, <3>1, SameSaleSymmetric DEF Waits
    <2>2. CASE pc'[w] = "commit"
      <3>1. pc[w] \in Inserted
        BY <1>1, <2>2, MovesTo DEF Inserted
      <3> QED BY <1>3, <3>1 DEF RoutingInv, OneInserts
    <2> QED BY <2>1, <2>2 DEF Inserted
  <1>7. AckedRecorded'
    BY <1>2 DEF RoutingInv, AckedRecorded, Recorded
  <1>8. \A v \in Workers \ {w} : pc'[v] = pc[v] /\ batch'[v] = batch[v]
    BY <1>1, <1>2, MovesTo
  <1> QED BY <1>1, <1>2, <1>5, <1>6, <1>7, <1>8, RoutingQuiet

LEMMA RoutingLeaves ==
    ASSUME RoutingInv, NEW w \in Workers, Leaves(w) PROVE RoutingInv'
  <1>1. TypeOK /\ TypeOK' /\ batch[w] # << >>
    BY TypeLeaves, LeavesFrame DEF RoutingInv, TypeOK
  <1>2. UNCHANGED <<stream, merchants, transactions>>
    BY LeavesFrame
  <1>3. /\ pc'[w] \in {"read", "handle"}
        /\ \A v \in Workers \ {w} : pc'[v] = pc[v] /\ batch'[v] = batch[v]
    <2>1. pc = [v \in Workers |-> pc[v]] /\ batch = [v \in Workers |-> batch[v]]
      BY <1>1 DEF TypeOK
    <2>2. CASE NextMessage(w)
      BY <2>1, <2>2 DEF NextMessage
    <2>3. CASE pc' = [pc EXCEPT ![w] = "read"] /\ batch' = [batch EXCEPT ![w] = << >>]
      BY <2>1, <2>3
    <2> QED BY <2>2, <2>3, LeavesFrame
  <1>4. WorkerInv(w)' /\ pc'[w] \notin Inserted
    BY <1>3 DEF WorkerInv, Inserted
  <1>5. AckedRecorded'
    <2>1. pc[w] = "ack" /\ stream[Msg(w)].kind = "sale" => Recorded(stream[Msg(w)])
      BY DEF RoutingInv, WorkerInv, Env
    <2>2. \A i \in acked : stream[i].kind = "sale" => Recorded(stream[i])
      BY DEF RoutingInv, AckedRecorded
    <2>3. \A i \in acked' : stream[i].kind = "sale" => Recorded(stream[i])
      BY <2>1, <2>2, LeavesFrame
    <2> QED BY <1>2, <2>3 DEF AckedRecorded, Recorded
  <1> QED BY <1>1, <1>2, <1>3, <1>4, <1>5, RoutingQuiet

(***************************************************************************)
(* The commit: no other open transaction has the key, so what the others   *)
(* know stays true, and no committed one has it, so the sale is new.       *)
(***************************************************************************)
LEMMA RoutingCommit ==
    ASSUME RoutingInv, NEW w \in Workers, Commit(w) \/ CommitLost(w) PROVE RoutingInv'
  <1> DEFINE t == [merchant |-> Env(w).merchant, number |-> Env(w).number, tenders |-> tenders[w]]
  <1>1. /\ pc[w] = "commit" /\ batch[w] # << >>
        /\ UNCHANGED <<stream, acked, merchants>> /\ transactions' = transactions \union {t}
    BY DEF RoutingInv, TypeOK, Commit, CommitLost, Committed
  <1>2. TypeOK /\ TypeOK'
    BY TypeCommit DEF RoutingInv
  <1>3. /\ \A v \in Workers \ {w} : pc'[v] = pc[v] /\ batch'[v] = batch[v]
        /\ pc'[w] \in {"read", "handle"} \/ (pc'[w] = "ack" /\ batch' = batch)
    BY <1>2 DEF Commit, CommitLost, Goto, NextMessage, TypeOK
  <1>4. \A e : SameSale(t, e) <=> SameSale(Env(w), e)
    BY DEF SameSale
  <1>5. ~ Recorded(Env(w)) /\ (\A e : Recorded(e) => Recorded(e)')
    BY <1>1 DEF RoutingInv, WorkerInv, Inserted, Recorded
  <1>6. \A v \in Workers \ {w} : Env(v)' = Env(v)
    BY <1>1, <1>3 DEF Env, Msg
  <1>7. ASSUME NEW v \in Workers \ {w} PROVE WorkerInv(v)'
    <2>1. pc[v] \in Inserted => ~ SameSale(Env(w), Env(v)) /\ ~ Recorded(Env(v))
      BY <1>1 DEF RoutingInv, OneInserts, WorkerInv, Inserted
    <2>2. pc[v] \in Inserted => ~ Recorded(Env(v))'
      BY <1>1, <1>4, <1>6, <2>1 DEF Recorded
    <2>3. Recorded(Env(v)) => Recorded(Env(v))'
      BY <1>1, <1>6 DEF Recorded
    <2> QED BY <1>1, <1>3, <1>6, <2>2, <2>3 DEF RoutingInv, WorkerInv
  <1>8. WorkerInv(w)'
    <2>1. CASE pc'[w] \in {"read", "handle"}
      BY <2>1 DEF WorkerInv, Inserted
    <2>2. CASE pc'[w] = "ack" /\ batch' = batch
      <3>1. Env(w)' = Env(w)
        BY <1>1, <2>2 DEF Env, Msg
      <3>2. t \in transactions' /\ SameSale(t, Env(w)')
        BY <1>1, <3>1 DEF SameSale
      <3>3. Recorded(Env(w))'
        BY <3>2 DEF Recorded
      <3> QED BY <2>2, <3>3 DEF WorkerInv, Inserted
    <2> QED BY <1>3, <2>1, <2>2
  <1>9. OneInserts'
    BY <1>3, <1>6 DEF RoutingInv, OneInserts, Inserted
  <1>10. AckedRecorded'
    BY <1>1 DEF RoutingInv, AckedRecorded, Recorded
  <1>11. RecordedOnce'
    <2>1. \A u \in transactions : ~ SameSale(u, t) /\ ~ SameSale(t, u)
      BY <1>5 DEF Recorded, SameSale
    <2> HIDE DEF t
    <2> QED BY <1>1, <2>1 DEF RoutingInv, RecordedOnce
  <1> QED BY <1>2, <1>7, <1>8, <1>9, <1>10, <1>11 DEF RoutingInv

LEMMA RoutingInit == Init => RoutingInv
  BY TypeInit DEF Init, RoutingInv, WorkerInv, OneInserts, AckedRecorded, RecordedOnce, Inserted

LEMMA RoutingStep == RoutingInv /\ [Next]_vars => RoutingInv'
  <1> SUFFICES ASSUME RoutingInv, [Next]_vars PROVE RoutingInv'
    OBVIOUS
  <1>1. ASSUME NEW w \in Workers, Step(w) \/ Fault(w) PROVE RoutingInv'
    <2>1. Moves(w) \/ Leaves(w) \/ Commit(w) \/ CommitLost(w)
      BY <1>1 DEF Step, Fault, Moves, Leaves
    <2> QED BY <2>1, RoutingMoves, RoutingLeaves, RoutingCommit
  <1>2. CASE UNCHANGED vars
    BY <1>2 DEF vars, RoutingInv, TypeOK, WorkerInv, OneInserts, AckedRecorded, RecordedOnce,
                Recorded, Env, Msg
  <1> QED BY <1>1, <1>2, RoutingPublish, RoutingProvision, RoutingRead DEF Next

(***************************************************************************)
(* However many workers run, fail and crash: a sale is acked only once it  *)
(* is recorded, and it is recorded once (handle and Persist of Sub 2).     *)
(***************************************************************************)
THEOREM SalesRecordedOnce == Spec => []RoutingInv
  BY RoutingInit, RoutingStep, PTL DEF Spec
=============================================================================
