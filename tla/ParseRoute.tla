----------------------------- MODULE ParseRoute -----------------------------
(***************************************************************************)
(* Sub 2, Parse & Route: cmd/sub2-parse-route and internal/protocol/sub2.  *)
(* Workers share a consumer group on protocol:events.  A message is        *)
(* dead-lettered, dropped, or parsed by its source's adapter and persisted *)
(* with all its child rows in one transaction, and then acked; a message   *)
(* that cannot be persisted is left un-acked.                              *)
(*                                                                         *)
(* What an adapter makes of a payload is the entry's kind.  Of the child   *)
(* rows only the tenders are told apart, because only they may be left     *)
(* out of a transaction that commits.                                      *)
(***************************************************************************)
EXTENDS Naturals, Sequences

CONSTANTS
    Merchants,    \* merchants that webhooks arrive for
    Numbers,      \* (location, business_date, transaction_number) of a sale
    Workers,      \* the consumers of the group
    BatchCount,   \* COUNT of the XREADGROUP call
    MaxEvents     \* bound: entries ever added to the stream

ASSUME ParseRouteAssumption ==
    /\ Merchants # {} /\ Numbers # {}
    /\ BatchCount \in Nat \ {0}
    /\ MaxEvents \in Nat

VARIABLES
    stream,        \* entries of protocol:events; an entry's index is its id
    group,         \* the group's last-delivered-id
    acked,         \* the entries that have been acked
    deadletters,   \* protocol:events:dlq, by the ids of the original entries
    merchants,     \* the merchants that have a tenant and locations
    tenderTypes,   \* those of them with a default tender type
    transactions,  \* committed transactions, each with its child rows
    pc,            \* worker -> the call it makes next
    batch,         \* worker -> the messages of its batch it has not finished
    tenders        \* worker -> whether its transaction includes the tenders

vars == <<stream, group, acked, deadletters, merchants, tenderTypes, transactions,
          pc, batch, tenders>>

Sale == [kind : {"sale"}, merchant : Merchants, number : Numbers]

\* poison: no envelope.  unknown: no adapter.  invalid: Parse returns an
\* error.  discard: Parse returns nothing.
Other == [kind : {"poison", "unknown", "invalid", "discard"}]

\* A worker has inserted its header row and not yet committed.
Inserted == {"tenders", "commit"}

TypeOK ==
    /\ stream \in Seq(Sale \union Other)
    /\ group \in 0..Len(stream)
    /\ acked \subseteq 1..group
    /\ deadletters \subseteq 1..group
    /\ tenderTypes \subseteq merchants /\ merchants \subseteq Merchants
    /\ transactions \subseteq [merchant : merchants, number : Numbers, tenders : BOOLEAN]
    /\ pc \in [Workers -> {"read", "handle", "insert", "ack"} \union Inserted]
    /\ batch \in [Workers -> Seq(1..group)]
    /\ \A w \in Workers : pc[w] = "read" <=> batch[w] = << >>
    /\ tenders \in [Workers -> BOOLEAN]

Init ==
    /\ stream = << >>
    /\ group = 0
    /\ acked = {}
    /\ deadletters = {}
    /\ merchants = {}
    /\ tenderTypes = {}
    /\ transactions = {}
    /\ pc = [w \in Workers |-> "read"]
    /\ batch = [w \in Workers |-> << >>]
    /\ tenders = [w \in Workers |-> FALSE]

tables == <<merchants, tenderTypes, transactions>>

-----------------------------------------------------------------------------
Publish(entry) ==
    /\ Len(stream) < MaxEvents
    /\ stream' = Append(stream, entry)
    /\ UNCHANGED <<group, acked, deadletters, tables, pc, batch, tenders>>

\* A merchant is set up, or its tender types are seeded, at any time.
Provision(m) ==
    /\ merchants' = merchants \union {m}
    /\ UNCHANGED <<stream, group, acked, deadletters, tenderTypes, transactions,
                   pc, batch, tenders>>

SeedTenderType(m) ==
    /\ m \in merchants
    /\ tenderTypes' = tenderTypes \union {m}
    /\ UNCHANGED <<stream, group, acked, deadletters, merchants, transactions,
                   pc, batch, tenders>>

Msg(w)  == Head(batch[w])
Env(w)  == stream[Msg(w)]

\* XREADGROUP ">" with COUNT: the last entry of the next batch.
LastRead == IF Len(stream) < group + BatchCount THEN Len(stream) ELSE group + BatchCount

\* processBatch.  The group exists: it was created, at "$", before any entry.
ReadGroup(w) ==
    /\ pc[w] = "read"
    /\ group < Len(stream)
    /\ group' = LastRead
    /\ batch' = [batch EXCEPT ![w] = [i \in 1..(LastRead - group) |-> group + i]]
    /\ pc' = [pc EXCEPT ![w] = "handle"]
    /\ UNCHANGED <<stream, acked, deadletters, tables, tenders>>

\* handle returns, and processBatch takes the next message.
NextMessage(w) ==
    /\ batch' = [batch EXCEPT ![w] = Tail(@)]
    /\ pc' = [pc EXCEPT ![w] = IF Tail(batch[w]) = << >> THEN "read" ELSE "handle"]

Goto(w, label) == pc' = [pc EXCEPT ![w] = label] /\ UNCHANGED batch

\* deadletter: an error of XADD is logged and the message acked all the same.
DeadLetter(w) ==
    /\ pc[w] = "handle"
    /\ Env(w).kind \in {"poison", "invalid"}
    /\ deadletters' \in {deadletters \union {Msg(w)}, deadletters}
    /\ Goto(w, "ack")
    /\ UNCHANGED <<stream, group, acked, tables, tenders>>

\* No adapter, or nothing to persist: just acked.
Drop(w) ==
    /\ pc[w] = "handle"
    /\ Env(w).kind \in {"unknown", "discard"}
    /\ Goto(w, "ack")
    /\ UNCHANGED <<stream, group, acked, deadletters, tables, tenders>>

\* Persist: lookupTenant, lookupLocation, lookupEmployee and Begin.
Resolve(w) ==
    /\ pc[w] = "handle"
    /\ Env(w).kind = "sale"
    /\ Env(w).merchant \in merchants
    /\ Goto(w, "insert")
    /\ UNCHANGED <<stream, group, acked, deadletters, tables, tenders>>

\* Mutant of ResolveUnknown: tries again until the merchant is set up.
ResolveUnknownRetries(w) ==
    /\ pc[w] = "handle"
    /\ Env(w).kind = "sale"
    /\ Env(w).merchant \notin merchants
    /\ UNCHANGED vars

\* ErrTenantUnknown or ErrLocationUnknown: not acked.
ResolveUnknown(w) ==
    /\ pc[w] = "handle"
    /\ Env(w).kind = "sale"
    /\ Env(w).merchant \notin merchants
    /\ NextMessage(w)
    /\ UNCHANGED <<stream, group, acked, deadletters, tables, tenders>>

SameSale(e, f) == e.merchant = f.merchant /\ e.number = f.number

\* UNIQUE (tenant_id, location_id, business_date, transaction_number)
Recorded(env) == \E t \in transactions : SameSale(t, env)

\* Mutant of Waits: an insert does not wait for another transaction's key.
WaitsNot(w) == FALSE

\* An insert waits for another transaction that has inserted the same key.
Waits(w) == \E v \in Workers \ {w} : pc[v] \in Inserted /\ SameSale(Env(v), Env(w))

\* insertTransaction meets the constraint: Persist rolls back and returns nil.
InsertDuplicate(w) ==
    /\ pc[w] = "insert"
    /\ Recorded(Env(w))
    /\ Goto(w, "ack")
    /\ UNCHANGED <<stream, group, acked, deadletters, tables, tenders>>

\* insertTransaction and the line items.
Insert(w) ==
    /\ pc[w] = "insert"
    /\ ~ Recorded(Env(w))
    /\ ~ Waits(w)
    /\ Goto(w, "tenders")
    /\ UNCHANGED <<stream, group, acked, deadletters, tables, tenders>>

\* resolveTenderTypeID, outside the transaction; without a default the tenders
\* are left out.
InsertTenders(w) ==
    /\ pc[w] = "tenders"
    /\ tenders' = [tenders EXCEPT ![w] = Env(w).merchant \in tenderTypes]
    /\ Goto(w, "commit")
    /\ UNCHANGED <<stream, group, acked, deadletters, tables>>

\* The same for any error of the lookup.
TenderLookupFails(w) ==
    /\ pc[w] = "tenders"
    /\ tenders' = [tenders EXCEPT ![w] = FALSE]
    /\ Goto(w, "commit")
    /\ UNCHANGED <<stream, group, acked, deadletters, tables>>

\* The rest of the child rows, and Commit.
Committed(w) ==
    transactions' = transactions \union
        {[merchant |-> Env(w).merchant, number |-> Env(w).number, tenders |-> tenders[w]]}

Commit(w) ==
    /\ pc[w] = "commit"
    /\ Committed(w)
    /\ Goto(w, "ack")
    /\ UNCHANGED <<stream, group, acked, deadletters, merchants, tenderTypes, tenders>>

\* The commit takes effect but returns an error: the message is not acked.
CommitLost(w) ==
    /\ pc[w] = "commit"
    /\ Committed(w)
    /\ NextMessage(w)
    /\ UNCHANGED <<stream, group, acked, deadletters, merchants, tenderTypes, tenders>>

\* Any other error of Persist rolls back; the message is not acked.
PersistFails(w) ==
    /\ \/ pc[w] \in {"insert"} \union Inserted
       \/ pc[w] = "handle" /\ Env(w).kind = "sale"
    /\ NextMessage(w)
    /\ UNCHANGED <<stream, group, acked, deadletters, tables, tenders>>

\* ack: an error of XACK is logged.
Ack(w) ==
    /\ pc[w] = "ack"
    /\ acked' \in {acked \union {Msg(w)}, acked}
    /\ NextMessage(w)
    /\ UNCHANGED <<stream, group, deadletters, tables, tenders>>

\* The process stops and starts again; its batch is lost.
Crash(w) ==
    /\ pc[w] # "read"
    /\ pc' = [pc EXCEPT ![w] = "read"]
    /\ batch' = [batch EXCEPT ![w] = << >>]
    /\ UNCHANGED <<stream, group, acked, deadletters, tables, tenders>>

Step(w) ==
    \/ DeadLetter(w) \/ Drop(w) \/ Resolve(w) \/ ResolveUnknown(w) \/ InsertDuplicate(w)
    \/ Insert(w) \/ InsertTenders(w) \/ Commit(w) \/ Ack(w)

Fault(w) == TenderLookupFails(w) \/ CommitLost(w) \/ PersistFails(w) \/ Crash(w)

Next ==
    \/ \E entry \in Sale \union Other : Publish(entry)
    \/ \E m \in Merchants : Provision(m) \/ SeedTenderType(m)
    \/ \E w \in Workers : ReadGroup(w) \/ Step(w) \/ Fault(w)

Spec == Init /\ [][Next]_vars

\* Workers that run keep going.
FairSpec == Spec /\ \A w \in Workers : WF_vars(ReadGroup(w)) /\ WF_vars(Step(w))

-----------------------------------------------------------------------------
(***************************************************************************)
(* AckedRecorded: a sale is acked only once its transaction is committed,  *)
(* by this worker or by another one that was delivered the same sale; an   *)
(* ack is final (handle, and Persist's handling of a unique violation).    *)
(***************************************************************************)
AckedRecorded == \A i \in acked : stream[i].kind = "sale" => Recorded(stream[i])

(***************************************************************************)
(* RecordedOnce: however often a sale is published and whichever workers   *)
(* handle it at the same time, it is one transaction with one set of child *)
(* rows (Persist's idempotency).                                           *)
(***************************************************************************)
RecordedOnce == \A t, u \in transactions : SameSale(t, u) => t = u

\* What a worker may rely on while it handles a message: a sale that is being
\* stored has a merchant; while its header is inserted no committed transaction has
\* its key; and a sale whose ack is next has been recorded (Persist).
WorkerInv(w) ==
    /\ pc[w] \in {"insert"} \union Inserted => Env(w) \in Sale /\ Env(w).merchant \in merchants
    /\ pc[w] \in Inserted => ~ Recorded(Env(w))
    /\ pc[w] = "ack" /\ Env(w).kind = "sale" => Recorded(Env(w))

\* No two open transactions hold the same key (insertTransaction).
OneInserts ==
    \A v, w \in Workers :
        pc[v] \in Inserted /\ pc[w] \in Inserted /\ v # w => ~ SameSale(Env(v), Env(w))

\* RoutingInv: types, that acks and transactions agree, both ways, and what makes
\* that hold of every next step (handle and Persist).
RoutingInv ==
    /\ TypeOK /\ (\A w \in Workers : WorkerInv(w)) /\ OneInserts
    /\ AckedRecorded /\ RecordedOnce

\* Messages some worker has in its batch.
Held(i) == \E w \in Workers : \E n \in DOMAIN batch[w] : batch[w][n] = i

(***************************************************************************)
(* HandlingEnds: no message stays in a worker's batch for ever: every wait *)
(* for another transaction's key ends (processBatch).                      *)
(***************************************************************************)
HandlingEnds == \A i \in 1..MaxEvents : Held(i) ~> ~ Held(i)
=============================================================================
