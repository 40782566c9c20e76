------------------------------ MODULE Budgets -------------------------------
(***************************************************************************)
(* Open-to-buy budgets of internal/billing (cmd/bull): callers consume     *)
(* satoshis of one budget at once, an operator locks and unlocks its       *)
(* period.  The amounts are 64-bit integers in Go and in PostgreSQL; here  *)
(* they end at MaxInt, where Go's sum wraps and PostgreSQL's is an error.  *)
(***************************************************************************)
EXTENDS Integers, FiniteSets

CONSTANTS
    Payers,     \* requests in flight
    MaxInt,     \* the largest integer, 2^63 - 1 in the code
    MaxPays     \* bound: requests that are made

VARIABLES
    budget,    \* the row of ledger.l402_otb_budgets
    payment,   \* payer -> its request and what it read
    rowLock,   \* the payer whose transaction holds the row, or nobody
    pays,
    charged    \* history: the satoshis charged, those of a request numbered from 1

vars == <<budget, payment, rowLock, pays, charged>>

Nobody == "nobody"
Amounts == 1..MaxInt
Wrapped(n) == ((n + MaxInt + 1) % (2 * MaxInt + 2)) - MaxInt - 1

NoPayment == [at |-> "idle", satoshis |-> 0, consumed |-> 0, try |-> 0]

TypeOK ==
    /\ budget \in [limit : 0..MaxInt, hard : BOOLEAN, consumed : 0..MaxInt,
                   status : {"active", "locked"}]
    /\ payment \in [Payers -> [at : {"idle", "select", "check"}, satoshis : 0..MaxInt,
                               consumed : 0..MaxInt, try : 0..MaxPays]]
    /\ rowLock \in Payers \union {Nobody}
    /\ pays \in 0..MaxPays
    /\ charged \subseteq (1..MaxPays) \X Amounts

Init ==
    /\ budget = [limit |-> 0, hard |-> FALSE, consumed |-> 0, status |-> "active"]
    /\ payment = [p \in Payers |-> NoPayment]
    /\ rowLock = Nobody
    /\ pays = 0
    /\ charged = {}

\* Only a positive budget is created.
CreateBudget ==
    /\ budget.limit = 0
    /\ \E limit \in Amounts, hard \in BOOLEAN :
          budget' = [budget EXCEPT !.limit = limit, !.hard = hard]
    /\ UNCHANGED <<payment, rowLock, pays, charged>>

\* POST consume: a positive amount; a caller whose answer was lost asks again
\* with a request of its own, nothing names the charge.
consume(p) ==
    /\ payment[p].at = "idle" /\ pays < MaxPays /\ budget.limit > 0
    /\ pays' = pays + 1
    /\ \E satoshis \in Amounts :
          payment' = [payment EXCEPT ![p] = [at |-> "select", satoshis |-> satoshis,
                                             consumed |-> 0, try |-> pays']]
    /\ UNCHANGED <<budget, rowLock, charged>>

\* Mutant of RowFree: SELECT without FOR UPDATE.
RowFreeAlways == TRUE

\* What FOR UPDATE and an UPDATE of the row wait for.
RowFree == rowLock = Nobody

\* Store.Consume reads the row FOR UPDATE; neither its status nor its period
\* counts.
SelectForUpdate(p) ==
    /\ payment[p].at = "select" /\ RowFree
    /\ rowLock' = p
    /\ payment' = [payment EXCEPT ![p].at = "check", ![p].consumed = budget.consumed]
    /\ UNCHANGED <<budget, pays, charged>>

HardLimitHit(p) ==
    budget.hard /\ Wrapped(payment[p].consumed + payment[p].satoshis) > budget.limit

\* The check on what was read, the UPDATE that adds to the row, and the end of
\* the transaction; an addition that leaves the range fails and rolls back.
Consume(p) ==
    /\ payment[p].at = "check"
    /\ LET sum == budget.consumed + payment[p].satoshis
       IN  IF HardLimitHit(p) \/ sum > MaxInt
             THEN UNCHANGED <<budget, charged>>
             ELSE /\ budget' = [budget EXCEPT !.consumed = sum]
                  /\ charged' = charged \union ({payment[p].try} \X (1..payment[p].satoshis))
    /\ payment' = [payment EXCEPT ![p] = NoPayment]
    /\ rowLock' = Nobody
    /\ UNCHANGED pays

\* The connection or the process goes, and the transaction with it.
Rollback(p) ==
    /\ payment[p].at # "idle"
    /\ payment' = [payment EXCEPT ![p] = NoPayment]
    /\ rowLock' = IF rowLock = p THEN Nobody ELSE rowLock
    /\ UNCHANGED <<budget, pays, charged>>

\* otbLockAction sets the status without looking at the one it has.
UpdateBudgetStatus ==
    /\ budget.limit > 0 /\ RowFree
    /\ \E status \in {"active", "locked"} : budget' = [budget EXCEPT !.status = status]
    /\ UNCHANGED <<payment, rowLock, pays, charged>>

Next ==
    \/ CreateBudget \/ UpdateBudgetStatus
    \/ \E p \in Payers : consume(p) \/ SelectForUpdate(p) \/ Consume(p) \/ Rollback(p)

Spec == Init /\ [][Next]_vars

\* A hard limit holds under concurrent charged and for amounts whose sum wraps
\* around, and what the row says was consumed is what was charged (Consume of
\* billing/store.go: "SELECT … FOR UPDATE to serialize concurrent consumes").
HardLimitHolds ==
    /\ budget.hard => budget.consumed <= budget.limit
    /\ budget.consumed = Cardinality(charged)

\* What makes it so.  Who is in Consume's transaction holds the row and has read it
\* as it is; a request that was not charged yet has a number of its own.
RowIsHeld ==
    /\ \A p \in Payers : payment[p].at = "check" => rowLock = p
    /\ rowLock # Nobody =>
          payment[rowLock].at = "check" /\ payment[rowLock].consumed = budget.consumed

RequestsNumbered ==
    /\ \A p \in Payers :
          /\ payment[p].try \in 0..pays
          /\ payment[p].at # "idle" => payment[p].try # 0 /\ payment[p].satoshis \in Amounts
    /\ \A p, q \in Payers : payment[p].at # "idle" /\ payment[p].try = payment[q].try => p = q
    /\ \A c \in charged : c[1] \in 1..pays /\ \A p \in Payers : payment[p].try # c[1]

NoBudgetNoCharge ==
    budget.limit = 0 => budget.consumed = 0 /\ \A p \in Payers : payment[p].at = "idle"

PaidInv == TypeOK /\ HardLimitHolds /\ RowIsHeld /\ RequestsNumbered /\ NoBudgetNoCharge

=============================================================================
