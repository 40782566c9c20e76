-------------------------------- MODULE Stock --------------------------------
(***************************************************************************)
(* Transactions and what they do to the stock: internal/transaction (the   *)
(* API that records, voids and returns sales), internal/inventory (the     *)
(* movement log, the position that caches its balance, and the background  *)
(* SaleConsumer that turns line items into movements), for one tenant, one *)
(* location and one item.                                                  *)
(*                                                                         *)
(* Sales and returns have one line, of one unit, whose item is known:      *)
(* lines without an item are never fetched.  Two or more inventory pods    *)
(* may run.  A movement is named by its place in the log.                  *)
(*                                                                         *)
(* <<n, "void">> and <<n, "return">> stand for the numbers "n-VOID" and    *)
(* "n-RTN", under which a caller may also post what it likes.  Voids and   *)
(* returns of such rows are left out: they do the same, one suffix on.     *)
(***************************************************************************)
EXTENDS Integers, Sequences, FiniteSets, Functions

CONSTANTS
    Receipts,      \* transaction numbers (with location and business date)
    Statuses,      \* what a caller may give as status: "suspended", or any text
    Pods,          \* the processes that run a SaleConsumer
    Clerks,        \* concurrent callers of the void and return endpoints
    ConsumerBatch, \* consumerBatch, 100 in the code
    MaxManual,     \* bound: movements posted by hand
    MaxFaults      \* bound: failed calls and crashes

ASSUME StockAssumption ==
    /\ Receipts # {}
    /\ {"completed", "voided"} \subseteq Statuses /\ "absent" \notin Statuses
    /\ ConsumerBatch \in Nat \ {0}
    /\ MaxManual \in Nat /\ MaxFaults \in Nat

VARIABLES
    txns,        \* <<number, suffix>> -> status, or "absent"
    voidReasons, \* the transactions whose void_reason is set
    lines,       \* transaction_line_items, in the order of created_at
    movements,   \* inventory_movements, append-only
    position,    \* inventory_positions.on_hand_quantity; 0 while there is no row
    signals,     \* the on-hand quantities that were emitted to inventory:replenish
    pods,        \* pod -> where its tick is
    clerks,      \* clerk -> the request it has in flight
    faults,      \* calls that failed and pods that crashed
    doubtful     \* lines that a fault or two pods at once may count twice

vars == <<txns, voidReasons, lines, movements, position, signals, pods, clerks, faults, doubtful>>
ledger == <<txns, voidReasons, lines>>
stock  == <<movements, position>>

NULL  == 0
Types == {"sale", "void", "return"}
Numbers == Receipts \X Types

Line == [txn : Receipts \X {"sale", "return"}, quantity : {1, -1},
         is_return : BOOLEAN, inventory_movement_id : Nat]
MovementTypes == {"sale", "return", "manual"}
Movement == [source : Nat, movement_type : MovementTypes,
             quantity_delta : {1, -1}]
Pod   == [pc : {"fetch", "append", "link", "emit"}, batch : Seq(1..Len(lines)),
          mov : 0..Len(movements), soh : Int]
Clerk == [op : {"none", "void", "return"}, number : Receipts]

\* No request in flight.
Idle    == [op |-> "none", number |-> CHOOSE r \in Receipts : TRUE]
Resting == [pc |-> "fetch", batch |-> << >>, mov |-> NULL, soh |-> 0]

TypeOK ==
    /\ txns \in [Numbers -> {"absent"} \union Statuses]
    /\ voidReasons \subseteq Numbers
    /\ lines \in Seq(Line)
    /\ movements \in Seq(Movement)
    /\ position \in Int
    /\ signals \subseteq Int
    /\ pods \in [Pods -> Pod]
    /\ clerks \in [Clerks -> Clerk]
    /\ faults \in 0..MaxFaults
    /\ doubtful \subseteq 1..Len(lines)

Init ==
    /\ txns = [t \in Numbers |-> "absent"]
    /\ voidReasons = {}
    /\ lines = << >>
    /\ movements = << >>
    /\ position = 0
    /\ signals = {}
    /\ pods = [p \in Pods |-> Resting]
    /\ clerks = [c \in Clerks |-> Idle]
    /\ faults = 0
    /\ doubtful = {}

Fault == faults < MaxFaults /\ faults' = faults + 1

-----------------------------------------------------------------------------
(* internal/transaction and Sub 2: the rows that the consumer will find.   *)

\* insertChildren writes neither is_return nor is_void: both keep their
\* default, in a return's lines too.
insertChildren(n, type, qty) ==
    lines' = Append(lines, [txn |-> <<n, type>>, quantity |-> qty,
                            is_return |-> FALSE, inventory_movement_id |-> NULL])

\* Store.Create behind POST /v1/transactions, with the caller's status and
\* quantity.  The number is UNIQUE.
Create(n, status, qty) ==
    /\ txns[<<n, "sale">>] = "absent"
    /\ txns' = [txns EXCEPT ![<<n, "sale">>] = status]
    /\ insertChildren(n, "sale", qty)
    /\ UNCHANGED <<voidReasons, stock, signals, pods, clerks, faults, doubtful>>

\* The same, under the number that the void of sale n would have.  Its status is
\* never read, and its lines are left out: they would be like the others.  (Under
\* the return's number it makes ReturnWrite fail, as other errors do.)
CreateVoidNumber(n) ==
    /\ txns[<<n, "void">>] = "absent"
    /\ txns' = [txns EXCEPT ![<<n, "void">>] = "completed"]
    /\ UNCHANGED <<voidReasons, lines, stock, signals, pods, clerks, faults, doubtful>>

\* Sub 2 persists a sale or, from a source that has them, a refund; a number
\* that exists is taken for the same transaction.
Persist(n, isReturn) ==
    /\ txns[<<n, "sale">>] = "absent"
    /\ txns' = [txns EXCEPT ![<<n, "sale">>] = "completed"]
    /\ lines' = Append(lines, [txn |-> <<n, "sale">>, quantity |-> 1,
                               is_return |-> isReturn, inventory_movement_id |-> NULL])
    /\ UNCHANGED <<voidReasons, stock, signals, pods, clerks, faults, doubtful>>

\* GetByID finds the parent.
Found(n) == txns[<<n, "sale">>] # "absent"

\* The first half of Void: the parent is read, and must not be voided yet.
VoidRead(c, n) ==
    /\ clerks[c].op = "none"
    /\ Found(n) /\ txns[<<n, "sale">>] # "voided"
    /\ clerks' = [clerks EXCEPT ![c] = [op |-> "void", number |-> n]]
    /\ UNCHANGED <<ledger, stock, signals, pods, faults, doubtful>>

\* Mutant of VoidWrite: no transaction, so the parent's UPDATE stays although the
\* child's INSERT fails.
VoidWriteInTwo(c) ==
    LET n == clerks[c].number IN
    /\ clerks[c].op = "void"
    /\ clerks' = [clerks EXCEPT ![c] = Idle]
    /\ IF txns[<<n, "void">>] = "absent"
       THEN /\ txns' = [txns EXCEPT ![<<n, "sale">>] = "voided", ![<<n, "void">>] = "completed"]
            /\ voidReasons' = voidReasons \union {<<n, "sale">>, <<n, "void">>}
       ELSE /\ txns' = [txns EXCEPT ![<<n, "sale">>] = "voided"]
            /\ voidReasons' = voidReasons \union {<<n, "sale">>}
    /\ UNCHANGED <<lines, stock, signals, pods, faults, doubtful>>

\* The second half, one transaction: the parent is marked and the child
\* "<number>-VOID" inserted.  A number that is taken, or any call that fails,
\* rolls both back.
VoidWrite(c) ==
    LET n == clerks[c].number IN
    /\ clerks[c].op = "void"
    /\ clerks' = [clerks EXCEPT ![c] = Idle]
    /\ \/ UNCHANGED <<txns, voidReasons>>
       \/ /\ txns[<<n, "void">>] = "absent"
          /\ txns' = [txns EXCEPT ![<<n, "sale">>] = "voided", ![<<n, "void">>] = "completed"]
          /\ voidReasons' = voidReasons \union {<<n, "sale">>, <<n, "void">>}
    /\ UNCHANGED <<lines, stock, signals, pods, faults, doubtful>>

\* Return reads the parent, whatever its status.
ReturnRead(c, n) ==
    /\ clerks[c].op = "none"
    /\ Found(n)
    /\ clerks' = [clerks EXCEPT ![c] = [op |-> "return", number |-> n]]
    /\ UNCHANGED <<ledger, stock, signals, pods, faults, doubtful>>

\* It then inserts "<number>-RTN" and its lines, with the caller's quantities
\* (a caller may give a returned unit as 1 or as -1), in one transaction that
\* fails when the number is taken, or when one of its calls does.
ReturnWrite(c, qty) ==
    LET n == clerks[c].number IN
    /\ clerks[c].op = "return"
    /\ clerks' = [clerks EXCEPT ![c] = Idle]
    /\ \/ UNCHANGED <<txns, lines>>
       \/ /\ txns[<<n, "return">>] = "absent"
          /\ txns' = [txns EXCEPT ![<<n, "return">>] = "completed"]
          /\ insertChildren(n, "return", qty)
    /\ UNCHANGED <<voidReasons, stock, signals, pods, faults, doubtful>>

-----------------------------------------------------------------------------
(* The movement log and its balance.                                       *)

\* Mutant of AppendMovement: the position's row is replaced, not added to.
AppendMovementReplaces(source, type, delta) ==
    /\ movements' = Append(movements, [source |-> source, movement_type |-> type,
                                      quantity_delta |-> delta])
    /\ position' = delta

\* Store.AppendMovement: the movement and the position's upsert commit
\* together.  source is the line that the movement is for, 0 for none.
AppendMovement(source, type, delta) ==
    /\ movements' = Append(movements, [source |-> source, movement_type |-> type,
                                      quantity_delta |-> delta])
    /\ position' = position + delta

Manual == Len(SelectSeq(movements, LAMBDA m : m.source = NULL))

\* A zero delta is refused with 400.
ValidateAppendRequest(delta) == delta # 0

Post(delta) ==
    /\ Manual < MaxManual
    /\ ValidateAppendRequest(delta)
    /\ AppendMovement(NULL, "manual", delta)
    /\ UNCHANGED <<ledger, signals, pods, clerks, faults, doubtful>>

\* POST /v1/inventory/movements, with the caller's movement type, and POST
\* /v1/inventory/adjustments, which forces it: nothing below tells the types of
\* such movements apart.
appendMovement(delta) == Post(delta)
appendAdjustment(delta) == Post(delta)

-----------------------------------------------------------------------------
(* SaleConsumer.                                                           *)

CountOf(i) == Cardinality({m \in 1..Len(movements) : movements[m].source = i})

\* Mutant of Unlinked: a line that some movement names already is passed over.
UnlinkedUncounted ==
    {i \in 1..Len(lines) : lines[i].inventory_movement_id = NULL /\ CountOf(i) = 0}

Unlinked == {i \in 1..Len(lines) : lines[i].inventory_movement_id = NULL}

InHand(i) == \E p \in Pods : i \in Range(pods[p].batch)

\* ORDER BY created_at LIMIT consumerBatch: the oldest lines, in order.
Oldest ==
    LET n == Cardinality(Unlinked)
    IN  {b \in [1..(IF n < ConsumerBatch THEN n ELSE ConsumerBatch) -> Unlinked] :
            /\ \A j, k \in DOMAIN b : j < k => b[j] < b[k]
            /\ \A i \in Unlinked \ Range(b), k \in DOMAIN b : b[k] < i}

\* fetchUnlinked.  Its row locks end with the statement, so a line that
\* another pod is working on is fetched as well.
fetchUnlinked(p) ==
    /\ pods[p].pc = "fetch"
    /\ Unlinked # {}
    /\ \E batch \in Oldest :
          /\ pods' = [pods EXCEPT ![p] = [Resting EXCEPT !.pc = "append", !.batch = batch]]
          /\ doubtful' = doubtful \union {i \in Range(batch) : InHand(i)}
    /\ UNCHANGED <<ledger, stock, signals, clerks, faults>>

\* processLine has returned: the next line of the batch, or the next tick.
NextLine(p) ==
    LET rest == Tail(pods[p].batch) IN
    pods' = [pods EXCEPT ![p] =
                IF rest = << >> THEN Resting
                ELSE [Resting EXCEPT !.pc = "append", !.batch = rest]]

Current(p) == Head(pods[p].batch)

\* "-" is put in front of the quantity's text, which for a negative one is
\* not a number: the insert fails every time.
Numeric(line) == line.is_return \/ line.quantity > 0

Delta(line) == IF line.is_return THEN line.quantity ELSE -line.quantity

TypeOf(line) == IF line.is_return THEN "return" ELSE "sale"

Append1(p) ==
    LET line == lines[Current(p)] IN
    /\ pods[p].pc = "append"
    /\ Numeric(line)
    /\ AppendMovement(Current(p), TypeOf(line), Delta(line))
    /\ pods' = [pods EXCEPT ![p].pc = "link", ![p].mov = Len(movements'),
                            ![p].soh = position']
    /\ UNCHANGED <<ledger, signals, clerks, faults, doubtful>>

AppendRefused(p) ==
    /\ pods[p].pc = "append"
    /\ ~Numeric(lines[Current(p)])
    /\ NextLine(p)
    /\ UNCHANGED <<ledger, stock, signals, clerks, faults, doubtful>>

\* The transaction fails, or commits although its reply is lost; the line
\* stays unlinked either way.
AppendFails(p) ==
    /\ pods[p].pc = "append"
    /\ Fault
    /\ NextLine(p)
    /\ \/ UNCHANGED <<stock, doubtful>>
       \/ /\ Numeric(lines[Current(p)])
          /\ AppendMovement(Current(p), TypeOf(lines[Current(p)]), Delta(lines[Current(p)]))
          /\ doubtful' = doubtful \union {Current(p)}
    /\ UNCHANGED <<ledger, signals, clerks>>

\* isZeroOrNegative, and the line is not a return.
Low(p) == pods[p].soh <= 0 /\ ~lines[Current(p)].is_return

\* Mutant of linkMovement: the line is not marked.
linkMovementForgets(p) ==
    /\ pods[p].pc = "link"
    /\ IF Low(p) THEN pods' = [pods EXCEPT ![p].pc = "emit"] ELSE NextLine(p)
    /\ UNCHANGED <<ledger, stock, signals, clerks, faults, doubtful>>

\* The UPDATE by id does not look at the link that is there.
linkMovement(p) ==
    /\ pods[p].pc = "link"
    /\ lines' = [lines EXCEPT ![Current(p)].inventory_movement_id = pods[p].mov]
    /\ IF Low(p) THEN pods' = [pods EXCEPT ![p].pc = "emit"] ELSE NextLine(p)
    /\ UNCHANGED <<txns, voidReasons, stock, signals, clerks, faults, doubtful>>

LinkFails(p) ==
    /\ pods[p].pc = "link"
    /\ Fault
    /\ NextLine(p)
    /\ doubtful' = doubtful \union {Current(p)}
    /\ UNCHANGED <<ledger, stock, signals, clerks>>

\* emitReplenish is best effort: its failure is logged.
emitReplenish(p) ==
    /\ pods[p].pc = "emit"
    /\ \/ signals' = signals \union {pods[p].soh} /\ UNCHANGED faults
       \/ Fault /\ UNCHANGED signals
    /\ NextLine(p)
    /\ UNCHANGED <<ledger, stock, clerks, doubtful>>

\* The process ends in the middle of a tick and starts again.
Crash(p) ==
    /\ pods[p].pc # "fetch"
    /\ Fault
    /\ pods' = [pods EXCEPT ![p] = Resting]
    /\ doubtful' = IF pods[p].pc = "link" THEN doubtful \union {Current(p)} ELSE doubtful
    /\ UNCHANGED <<ledger, stock, signals, clerks>>

Tick(p) == Append1(p) \/ AppendRefused(p) \/ linkMovement(p) \/ emitReplenish(p)

Next ==
    \/ \E n \in Receipts : \/ \E status \in Statuses, q \in {1, -1} : Create(n, status, q)
                           \/ CreateVoidNumber(n)
                           \/ \E r \in BOOLEAN : Persist(n, r)
    \/ \E c \in Clerks, n \in Receipts : VoidRead(c, n) \/ ReturnRead(c, n)
    \/ \E c \in Clerks : VoidWrite(c) \/ \E q \in {1, -1} : ReturnWrite(c, q)
    \/ \E d \in {0, 1} : appendMovement(d) \/ appendAdjustment(d)
    \/ \E p \in Pods : \/ fetchUnlinked(p) \/ Tick(p)
                       \/ AppendFails(p) \/ LinkFails(p) \/ Crash(p)

Spec == Init /\ [][Next]_vars

\* Run ticks for ever, and a tick that has started makes its next call.
FairSpec == Spec /\ \A p \in Pods : WF_vars(fetchUnlinked(p)) /\ WF_vars(Tick(p))

-----------------------------------------------------------------------------
\* The sum of a log of movements, each of which is of one unit.
Balance(log) ==
    LET Of(delta) == {m \in DOMAIN log : log[m].quantity_delta = delta}
    IN  Cardinality(Of(1)) - Cardinality(Of(-1))

\* The position is the balance of the movement log whatever fails and
\* whoever writes at once (inventory/store.go: "a cached running balance, not a
\* stale snapshot").
BalanceMatchesLog ==
    position = Balance(movements)

\* A line counts twice only if a call or a pod failed while it was processed,
\* or two pods had it in hand at once: one pod and no failure never do it.  A
\* linked line is counted, and by the movement that it is linked to.
CountedOnceUnlessFaulty ==
    \A i \in 1..Len(lines) :
        LET link == lines[i].inventory_movement_id IN
        /\ CountOf(i) > 1 => i \in doubtful
        /\ link # NULL => /\ movements[link].source = i
                          /\ movements[link].quantity_delta = Delta(lines[i])

\* A sale that Void has marked is voided and has the one void row that Void wrote
\* with it, and no void row of Void is without its sale, although clerks decide
\* on a status read earlier and the row's number may be taken (void_reason is set
\* by Void alone).  A sale may also be posted as voided, and then has none.
VoidsPaired ==
    \A n \in Receipts :
        /\ <<n, "sale">> \in voidReasons <=> <<n, "void">> \in voidReasons
        /\ <<n, "sale">> \in voidReasons => txns[<<n, "sale">>] = "voided"
        /\ <<n, "void">> \in voidReasons => txns[<<n, "void">>] = "completed"

\* Types, the position and its movements, and the sales and their voids.
StockInv == TypeOK /\ BalanceMatchesLog /\ VoidsPaired

\* Every line that makes a valid quantity is linked to a movement in the end, as
\* long as the lines that can never be counted are fewer than a batch: no
\* failure loses one.  (A whole batch of them stops the consumer.)
EveryLineCounted ==
    \A i \in 1..(2 * Cardinality(Receipts)) :
        LET waits == /\ i <= Len(lines)
                     /\ lines[i].inventory_movement_id = NULL
                     /\ Numeric(lines[i])
                     /\ Cardinality({k \in Unlinked : ~Numeric(lines[k])}) < ConsumerBatch
        IN waits ~> ~waits

=============================================================================
