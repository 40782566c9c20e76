------------------------------ MODULE Adapters ------------------------------
(***************************************************************************)
(* From a source's event to a row: internal/adapters (Square, Counterpoint *)
(* and the Clover stub), the registry they are looked up in, and what Sub  *)
(* 2's store makes of the result.  The interleavings of Sub 2's workers    *)
(* are in ParseRoute; here a message is handled in one step, and it is the *)
(* order, the number and the contents of the messages that vary.           *)
(*                                                                         *)
(* Days stand for times.  Texts that are only passed on are left out.      *)
(***************************************************************************)
EXTENDS Integers, Sequences, FiniteSets

\* An event: the object it is of, its amount (Square's are in cents, Counterpoint's
\* in ten-thousandths), whether the object's time of creation is in it (dated), else
\* the day its envelope gives (on, 0 for none), the day the gateway ingested it,
\* whether the object, its number and its location are there (whole), and a
\* document's lines, a sequence of [number, quantity].
CONSTANTS
    Objects,    \* [source, type, number, store, day]: what the sources' events are about
    Sendable,   \* the events that they may send
    LastDay,    \* bound: days on which events are sent
    MaxSent     \* bound: events that are sent

VARIABLES
    sent,         \* events that the sources sent
    waiting,      \* those that Sub 2 is yet to read
    stores,       \* the locations that are set up
    rows,         \* transaction.transactions and their lines and tenders
    acked, deadletters, left  \* what became of an event; left: not acked

vars == <<sent, waiting, stores, rows, acked, deadletters, left>>

Days == 1..LastDay

TypeOK ==
    /\ waiting \subseteq sent
    /\ acked \union deadletters \union left \subseteq sent
    /\ \A e \in sent : e.of \in Objects
    /\ stores \subseteq {o.store : o \in Objects}
    /\ \A r \in rows : r.by \in Objects /\ r.day \in Days /\ r.type \in {"sale", "refund"}

Init ==
    /\ sent = {} /\ waiting = {} /\ stores = {} /\ rows = {}
    /\ acked = {} /\ deadletters = {} /\ left = {}
-----------------------------------------------------------------------------
(* The adapters *)
Invalid == [is |-> "invalid"]
Discarded == [is |-> "discarded"]

\* The first time that is there: the object's, the envelope's, the gateway's.
EventDay(e, day) ==
    IF e.dated THEN day ELSE IF e.on # 0 THEN e.on ELSE e.ingested

\* zeroPad2: the two digits after the point.
Digits(cents) == <<(cents % 100) \div 10, cents % 10>>

\* centsToDecimalString, read by the numeric(14,4) column: in ten-thousandths.
centsToDecimalString(cents) ==
    LET size == IF cents < 0 THEN -cents ELSE cents
        read == 10000 * (size \div 100) + 1000 * Digits(size)[1] + 100 * Digits(size)[2]
    IN IF cents < 0 THEN -read ELSE read

\* Every payment is a completed sale without lines, whatever its status.
parsePayment(e, type) ==
    IF ~e.whole THEN Invalid
    ELSE [is |-> "canonical", number |-> e.of.number, type |-> type, store |-> e.of.store,
          day |-> EventDay(e, e.of.day), total |-> centsToDecimalString(e.amount),
          lines |-> << >>,
          tenders |-> <<[number |-> 1, amount |-> centsToDecimalString(e.amount),
                         refund |-> type = "refund"]>>]

SquareParse(e) ==
    CASE e.of.type = "payment" -> parsePayment(e, "sale")
      [] e.of.type = "refund" -> parsePayment(e, "refund")
      [] OTHER -> Discarded

\* Documents have no envelope of their own; a return's payments are not marked.
CounterpointParse(e) ==
    IF e.of.type \notin {"TKT", "RET"} THEN Discarded
    ELSE IF ~e.whole THEN Invalid
    ELSE [is |-> "canonical", number |-> e.of.number, store |-> e.of.store,
          type |-> IF e.of.type = "TKT" THEN "sale" ELSE "refund",
          day |-> IF e.dated THEN e.of.day ELSE e.ingested, total |-> e.amount,
          lines |-> [i \in 1..Len(e.lines) |->
                       [number |-> e.lines[i].number, quantity |-> e.lines[i].quantity,
                        return |-> e.of.type = "RET"]],
          tenders |-> <<[number |-> 1, amount |-> e.amount, refund |-> FALSE]>>]

\* Clover's stub answers ErrNotImplemented.
Parse(e) ==
    CASE e.of.source = "square" -> SquareParse(e)
      [] e.of.source = "counterpoint" -> CounterpointParse(e)
      [] OTHER -> Invalid

Registered == {"square", "counterpoint", "clover"}
-----------------------------------------------------------------------------
(* The sources *)
Send ==
    /\ Cardinality(sent) < MaxSent
    /\ \E e \in Sendable \ sent :
          sent' = sent \union {e} /\ waiting' = waiting \union {e}
    /\ UNCHANGED <<stores, rows, acked, deadletters, left>>

\* The source, the poller or an operator sends it once more.
SendAgain(e) ==
    /\ e \in sent \ waiting
    /\ waiting' = waiting \union {e}
    /\ UNCHANGED <<sent, stores, rows, acked, deadletters, left>>

Provision(store) ==
    /\ store \notin stores
    /\ stores' = stores \union {store}
    /\ UNCHANGED <<sent, waiting, rows, acked, deadletters, left>>
-----------------------------------------------------------------------------
(* Sub 2's dispatcher and store *)

\* UNIQUE (tenant_id, location_id, business_date, transaction_number).
SameKey(r, c) == <<r.store, r.day, r.number>> = <<c.store, c.day, c.number>>

\* UNIQUE (tenant_id, transaction_id, line_number).
NumbersDiffer(lines) == \A i, j \in DOMAIN lines : i # j => lines[i].number # lines[j].number

Known(c) == \E r \in rows : SameKey(r, c)

Handled(e) == waiting' = waiting \ {e} /\ UNCHANGED <<sent, stores>>

\* No adapter, or nothing to record.
Drop(e) ==
    /\ e \in waiting
    /\ e.of.source \notin Registered \/ Parse(e) = Discarded
    /\ acked' = acked \union {e}
    /\ Handled(e) /\ UNCHANGED <<rows, deadletters, left>>

\* Every error of an adapter is a failed parse.
DeadLetter(e) ==
    /\ e \in waiting /\ e.of.source \in Registered /\ Parse(e) = Invalid
    /\ deadletters' = deadletters \union {e} /\ acked' = acked \union {e}
    /\ Handled(e) /\ UNCHANGED <<rows, left>>

Canonical(e) == e \in waiting /\ e.of.source \in Registered /\ Parse(e).is = "canonical"

\* No adapter names a tender type: without a default one of the source, or if its
\* look-up fails, the tenders are dropped.
Persist(e) ==
    /\ Canonical(e)
    /\ LET c == Parse(e) IN
          /\ c.store \in stores /\ ~Known(c) /\ NumbersDiffer(c.lines)
          /\ \E tenders \in {c.tenders, << >>} :
                rows' = rows \union
                  {[by |-> e.of, number |-> c.number, type |-> c.type, store |-> c.store,
                    day |-> c.day, total |-> c.total, lines |-> c.lines, tenders |-> tenders]}
    /\ acked' = acked \union {e}
    /\ Handled(e) /\ UNCHANGED <<deadletters, left>>

\* A unique violation of the header is taken for done.
PersistDuplicate(e) ==
    /\ Canonical(e) /\ Parse(e).store \in stores /\ Known(Parse(e))
    /\ acked' = acked \union {e}
    /\ Handled(e) /\ UNCHANGED <<rows, deadletters, left>>

\* The location is unknown, or a line's number comes twice.  (Failures of the
\* database are in ParseRoute.)
PersistFails(e) ==
    /\ Canonical(e)
    /\ \/ Parse(e).store \notin stores
       \/ ~Known(Parse(e)) /\ ~NumbersDiffer(Parse(e).lines)
    /\ left' = left \union {e}
    /\ Handled(e) /\ UNCHANGED <<rows, acked, deadletters>>

Next ==
    \/ Send
    \/ \E e \in sent : \/ SendAgain(e) \/ Drop(e) \/ DeadLetter(e)
                       \/ Persist(e) \/ PersistDuplicate(e) \/ PersistFails(e)
    \/ \E o \in Objects : Provision(o.store)

Spec == Init /\ [][Next]_vars
-----------------------------------------------------------------------------
(* Properties *)

\* Whatever an object's events are, how often they come and in which order: if
\* each says when the object was made, there is one row of it at most.
OneRowPerObject ==
    \A r, s \in rows :
        (r.by = s.by /\ \A e \in sent : e.of = r.by => e.dated) => r = s

\* An event that was acked and not dead-lettered, and is about money, is in the
\* books: by a row of its object, or its key was taken by another object that has
\* its number, at its store.  (A ticket and a return may share a number.)
AckedIsInTheBooks ==
    \A e \in acked \ deadletters :
        e.of.type \in {"payment", "refund", "TKT", "RET"} /\ e.of.source \in Registered =>
            \E r \in rows : \/ r.by = e.of
                            \/ r.by.number = e.of.number /\ r.by.store = e.of.store

\* A row holds an amount that its object's source stated, in full in its tender if
\* that was not dropped, and is a refund only if its object is one.
MoneyKept ==
    \A r \in rows :
        /\ \E e \in sent :
              /\ e.of = r.by
              /\ r.total = IF e.of.source = "square" THEN 100 * e.amount ELSE e.amount
        /\ \A i \in DOMAIN r.tenders : r.tenders[i].amount = r.total
        /\ r.type = "refund" <=> r.by.type \in {"refund", "RET"}

RecordsSound == TypeOK /\ OneRowPerObject /\ AckedIsInTheBooks /\ MoneyKept
=============================================================================
