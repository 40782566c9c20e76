---------------------------- MODULE Purchasing ----------------------------
(***************************************************************************)
(* Purchase orders and their suppliers (internal/po, internal/supplier,    *)
(* and the forms of internal/web/handler_w11.go).  An order goes through   *)
(* draft, submitted, received and closed, or is cancelled; UpdateStatus    *)
(* reads the row, checks the transition and updates the row in another     *)
(* statement, which does not look at the status again.                     *)
(***************************************************************************)
EXTENDS Naturals, FiniteSets

CONSTANTS
    Suppliers,    \* suppliers of one merchant
    PONumbers,    \* po_number: unique in the merchant
    Buyers,       \* requests in flight
    MaxUpdates    \* bound: status updates of an order

VARIABLES
    suppliers,    \* rows of app.suppliers
    orders,       \* po_number -> its row of app.purchase_orders, or NoOrder
    update,       \* request -> the status change it has checked, or NoUpdate
    overtaken     \* history: orders whose row changed between a check and its update

vars == <<suppliers, orders, update, overtaken>>

Statuses == {"draft", "submitted", "received", "closed", "cancelled"}
NoOrder  == [status |-> "none", submitted_at |-> FALSE, closed_at |-> FALSE, updates |-> 0]
NoUpdate == [order |-> "none", to |-> "none", seen |-> 0]

TypeOK ==
    /\ suppliers \subseteq Suppliers
    /\ orders \in [PONumbers -> {NoOrder} \union
                     [status : Statuses, submitted_at : BOOLEAN, closed_at : BOOLEAN,
                      updates : 0..MaxUpdates]]
    /\ update \in [Buyers -> {NoUpdate} \union
                     [order : PONumbers, to : Statuses, seen : 0..MaxUpdates]]
    /\ overtaken \subseteq PONumbers

Init ==
    /\ suppliers = {}
    /\ orders = [n \in PONumbers |-> NoOrder]
    /\ update = [b \in Buyers |-> NoUpdate]
    /\ overtaken = {}

\* Whatever its compliance status: no order looks at it.
suppliersCreate(s) ==
    /\ suppliers' = suppliers \union {s}
    /\ UNCHANGED <<orders, update, overtaken>>

\* A number that is taken and a supplier without a row are refused by the table.
poCreate(n) ==
    /\ suppliers # {} /\ orders[n] = NoOrder
    /\ orders' = [orders EXCEPT ![n].status = "draft"]
    /\ UNCHANGED <<suppliers, update, overtaken>>

validTransition(from, to) ==
    \/ from = "draft" /\ to \in {"submitted", "cancelled"}
    \/ from = "submitted" /\ to \in {"received", "cancelled"}
    \/ from = "received" /\ to = "closed"

\* poStatusAction: the status that is checked is the one of this read.
Get(b) ==
    /\ update[b] = NoUpdate
    /\ \E n \in PONumbers, to \in Statuses :
          /\ validTransition(orders[n].status, to) /\ orders[n].updates < MaxUpdates
          /\ update' = [update EXCEPT ![b] = [order |-> n, to |-> to,
                                              seen |-> orders[n].updates]]
    /\ UNCHANGED <<suppliers, orders, overtaken>>

\* The first time an order is submitted and the first time it ends are kept.
UpdateStatus(b) ==
    /\ update[b] # NoUpdate
    /\ LET n == update[b].order  to == update[b].to
       IN  /\ orders[n].updates < MaxUpdates
           /\ orders' = [orders EXCEPT
                 ![n].status = to,
                 ![n].submitted_at = @ \/ to = "submitted",
                 ![n].closed_at = @ \/ to \in {"closed", "cancelled"},
                 ![n].updates = @ + 1]
           /\ overtaken' = IF orders[n].updates = update[b].seen
                             THEN overtaken ELSE overtaken \union {n}
    /\ update' = [update EXCEPT ![b] = NoUpdate]
    /\ UNCHANGED suppliers

\* The request is dropped, or its UPDATE fails.
UpdateFails(b) ==
    /\ update[b] # NoUpdate /\ update' = [update EXCEPT ![b] = NoUpdate]
    /\ UNCHANGED <<suppliers, orders, overtaken>>

Next ==
    \/ \E s \in Suppliers : suppliersCreate(s)
    \/ \E n \in PONumbers : poCreate(n)
    \/ \E b \in Buyers : Get(b) \/ UpdateStatus(b) \/ UpdateFails(b)

Spec == Init /\ [][Next]_vars
-----------------------------------------------------------------------------
\* What overlapping requests can and cannot do to an order: no order is received
\* or closed that was never submitted, none has ended without its closed_at, and
\* an order that has ended stays ended unless a request that had checked an
\* earlier status wrote after it (UpdateStatus and validTransition of po/store.go).
StampsMatchStatus ==
    \A n \in PONumbers :
       LET o == orders[n]
       IN  /\ o.status \in {"submitted", "received", "closed"} => o.submitted_at
           /\ o.status \in {"closed", "cancelled"} => o.closed_at
           /\ n \notin overtaken =>
                 /\ o.closed_at => o.status \in {"closed", "cancelled"}
                 /\ o.status = "received" <=> o.updates = 2 /\ ~o.closed_at

\* What keeps it.  A status that was checked may still be set on the row that was
\* read, and if it is one of a submitted order, the order was submitted; and an
\* order that no request overtook has gone the way its number of updates says.
ChecksHold ==
    \A b \in Buyers : update[b] # NoUpdate =>
       LET o == orders[update[b].order]
       IN  /\ o.status \in Statuses /\ update[b].seen <= o.updates
           /\ update[b].seen = o.updates => validTransition(o.status, update[b].to)
           /\ update[b].to \in {"received", "closed"} => o.submitted_at

OnCourse(o) ==
    \/ o = NoOrder
    \/ o.status = "draft" /\ o.updates = 0 /\ ~o.closed_at
    \/ o.status = "submitted" /\ o.updates = 1 /\ ~o.closed_at
    \/ o.status = "received" /\ o.updates = 2 /\ ~o.closed_at
    \/ o.status = "closed" /\ o.updates = 3 /\ o.closed_at
    \/ o.status = "cancelled" /\ o.updates \in {1, 2} /\ o.closed_at

OrdersOnCourse == \A n \in PONumbers : n \notin overtaken => OnCourse(orders[n])

OrderInv == TypeOK /\ StampsMatchStatus /\ ChecksHold /\ OrdersOnCourse

=============================================================================
