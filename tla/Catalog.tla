------------------------------ MODULE Catalog -------------------------------
(***************************************************************************)
(* Item set-up: the scan flow and the forms of internal/web (lookup,       *)
(* operational page, confirmation, manual form, edit) and the item service *)
(* over one transactional store (internal/item).                           *)
(*                                                                         *)
(* The scan flow keeps its state in a signed token that the browser holds; *)
(* the server remembers no token, so one can be confirmed again until it   *)
(* expires.  A flow is a token's content; an expired one is just gone.     *)
(* The transaction that creates an item inserts its row, its barcode and   *)
(* its vendor link; a unique key that another transaction has inserted and *)
(* not yet committed makes the insert wait.                                *)
(***************************************************************************)
EXTENDS Naturals, FiniteSets

CONSTANTS
    Operators,   \* requests in flight
    Codes,       \* SKUs and barcodes: a scanned item's SKU starts as its barcode
    Vendors,
    MaxFlows,    \* bound: tokens that are good at once
    MaxInserts   \* bound: transactions that create an item

VARIABLES
    rows,       \* committed rows: <<"item", s>>, <<"barcode", b, s>>, <<"vendor", v, s>>
    status,     \* SKU -> items.status
    flows,      \* the tokens that browsers hold
    request,    \* operator -> its request
    active,     \* the vendors that are active
    inserts,
    confirmed,  \* history: the rows of every creation that was reported as done
    unreported  \* history: those of every one whose commit lost its reply

vars == <<rows, status, flows, request, active, inserts, confirmed, unreported>>

None == "none"
\* "active" is any status but 'inactive', which a delete writes.
Statuses == {None, "active", "inactive"}
Flow == [barcode : Codes, sku : Codes, vendor : Vendors \union {None}, complete : BOOLEAN]
Row == ({"item"} \X Codes) \union ({"barcode"} \X Codes \X Codes)
         \union ({"vendor"} \X Vendors \X Codes)
Idle == [at |-> "idle", flow |-> None, status |-> None, inserted |-> {}]

TypeOK ==
    /\ rows \subseteq Row
    /\ status \in [Codes -> Statuses]
    /\ flows \subseteq Flow
    /\ \A o \in Operators :
          /\ request[o].at \in {"idle", "lookup", "item", "barcode", "vendor", "commit", "edit"}
          /\ request[o].status \in Statuses /\ request[o].inserted \subseteq Row
    /\ active \subseteq Vendors
    /\ inserts \in 0..MaxInserts
    /\ confirmed \subseteq Row /\ unreported \subseteq Row

Init ==
    /\ rows = {}
    /\ status = [s \in Codes |-> None]
    /\ flows = {}
    /\ request = [o \in Operators |-> Idle]
    /\ active = Vendors
    /\ inserts = 0
    /\ confirmed = {}
    /\ unreported = {}

Reply(o) == request' = [request EXCEPT ![o] = Idle]
GetByBarcode(b) == {row \in rows : row[1] = "barcode" /\ row[2] = b}
NewFlow(f) == Cardinality(flows \union {f}) <= MaxFlows /\ flows' = flows \union {f}

\* A scan of a barcode no item has; the lookup service found the product.  The
\* other outcomes change nothing.
itemScanLookupAction(o) ==
    /\ request[o] = Idle
    /\ \E b \in Codes :
          /\ GetByBarcode(b) = {}
          /\ NewFlow([barcode |-> b, sku |-> b, vendor |-> None, complete |-> FALSE])
    /\ UNCHANGED <<rows, status, request, active, inserts, confirmed, unreported>>

\* The form's fields replace the token's; a token is issued whether or not the
\* required ones are there.
itemScanOperationalAction(o) ==
    /\ request[o] = Idle
    /\ \E f \in flows, sku \in Codes, v \in Vendors \union {None}, complete \in BOOLEAN :
          NewFlow([f EXCEPT !.sku = sku, !.vendor = v, !.complete = complete])
    /\ UNCHANGED <<rows, status, request, active, inserts, confirmed, unreported>>

\* Fifteen minutes after it was issued.
Expires(f) ==
    /\ flows' = flows \ {f}
    /\ UNCHANGED <<rows, status, request, active, inserts, confirmed, unreported>>

Start(o, at, f, s) ==
    request' = [request EXCEPT ![o] = [at |-> at, flow |-> f, status |-> s, inserted |-> {}]]

\* The confirmation decodes the token, and looks the barcode up once more.
itemScanConfirmAction(o) ==
    /\ request[o] = Idle /\ inserts < MaxInserts
    /\ inserts' = inserts + 1
    /\ \E f \in flows : Start(o, "lookup", f, "active")
    /\ UNCHANGED <<rows, status, flows, active, confirmed, unreported>>

createRequestFromScanState(o) ==
    /\ request[o].at = "lookup"
    /\ IF GetByBarcode(request[o].flow.barcode) = {} /\ request[o].flow.complete
         THEN request' = [request EXCEPT ![o].at = "item"]
         ELSE Reply(o)
    /\ UNCHANGED <<rows, status, flows, active, inserts, confirmed, unreported>>

\* The manual form, without a vendor, and the service's own route.
itemCreateAction(o) ==
    /\ request[o] = Idle /\ inserts < MaxInserts
    /\ inserts' = inserts + 1
    /\ \E b \in Codes \union {None}, s \in Codes :
          Start(o, "item", [barcode |-> b, sku |-> s, vendor |-> None, complete |-> TRUE],
                "active")
    /\ UNCHANGED <<rows, status, flows, active, confirmed, unreported>>

\* Rows with the unique key of row: (tenant, sku), (tenant, barcode).
SameKey(row, R) == {r \in R : r[1] = row[1] /\ r[2] = row[2]}

InFlight(o) == UNION {request[p].inserted : p \in Operators \ {o}}

\* Mutant of Rollback: an insert that fails leaves the earlier ones.
RollbackNot(o) ==
    /\ Reply(o)
    /\ rows' = rows \union request[o].inserted

\* ErrConflict, ErrValidation or a lost connection: nothing stays.
Rollback(o) ==
    /\ Reply(o)
    /\ UNCHANGED rows

\* One INSERT of the transaction: it waits for a transaction that holds the
\* key, and fails on a committed row.
Insert(o, row, next) ==
    /\ SameKey(row, InFlight(o)) = {}
    /\ IF SameKey(row, rows) = {}
         THEN /\ request' = [request EXCEPT ![o].inserted = @ \union {row}, ![o].at = next]
              /\ UNCHANGED rows
         ELSE Rollback(o)

InsertItem(o) ==
    /\ request[o].at = "item"
    /\ LET f == request[o].flow
       IN  Insert(o, <<"item", f.sku>>, IF f.barcode = None THEN "commit" ELSE "barcode")
    /\ UNCHANGED <<status, flows, active, inserts, confirmed, unreported>>

InsertBarcode(o) ==
    /\ request[o].at = "barcode"
    /\ LET f == request[o].flow
       IN  Insert(o, <<"barcode", f.barcode, f.sku>>,
                  IF f.vendor = None THEN "commit" ELSE "vendor")
    /\ UNCHANGED <<status, flows, active, inserts, confirmed, unreported>>

\* INSERT ... SELECT of an active vendor: no row, no item.
InsertVendorLink(o) ==
    /\ request[o].at = "vendor"
    /\ LET f == request[o].flow
       IN  IF f.vendor \in active
             THEN /\ request' = [request EXCEPT ![o].at = "commit",
                                    ![o].inserted = @ \union {<<"vendor", f.vendor, f.sku>>}]
                  /\ UNCHANGED rows
             ELSE Rollback(o)
    /\ UNCHANGED <<status, flows, active, inserts, confirmed, unreported>>

\* What the request asks for: the item, and the code and the vendor it names.
Parts(f) ==
    {<<"item", f.sku>>} \union {<<"barcode", b, f.sku>> : b \in {f.barcode} \ {None}}
        \union {<<"vendor", v, f.sku>> : v \in {f.vendor} \ {None}}

\* The transaction takes effect.
Committed(o) ==
    /\ request[o].at = "commit"
    /\ rows' = rows \union request[o].inserted
    /\ status' = [status EXCEPT ![request[o].flow.sku] = request[o].status]
    /\ Reply(o)
    /\ UNCHANGED <<flows, active, inserts>>

Commit(o) ==
    /\ Committed(o)
    /\ confirmed' = confirmed \union Parts(request[o].flow)
    /\ UNCHANGED unreported

\* The commit takes effect and returns an error: the caller is told that the
\* creation failed.
CommitLost(o) ==
    /\ Committed(o)
    /\ unreported' = unreported \union Parts(request[o].flow)
    /\ UNCHANGED confirmed

\* Any call of the transaction fails, its commit without having taken effect.
CreateFails(o) ==
    /\ request[o].at \in {"item", "barcode", "vendor", "commit"}
    /\ Rollback(o)
    /\ UNCHANGED <<status, flows, active, inserts, confirmed, unreported>>

\* The edit page shows the row as it is; the form posts every field back.
itemEditPage(o) ==
    /\ request[o] = Idle
    /\ \E s \in Codes :
          /\ <<"item", s>> \in rows
          /\ Start(o, "edit", [barcode |-> None, sku |-> s, vendor |-> None,
                               complete |-> TRUE], status[s])
    /\ UNCHANGED <<rows, status, flows, active, inserts, confirmed, unreported>>

\* Every field but the SKU is written, the status seen or another one.
itemUpdateAction(o) ==
    /\ request[o].at = "edit"
    /\ \E s \in {request[o].status, "active"} :
          status' = [status EXCEPT ![request[o].flow.sku] = s]
    /\ Reply(o)
    /\ UNCHANGED <<rows, flows, active, inserts, confirmed, unreported>>

\* A soft delete: the rows stay, and their keys stay taken.
delete(s) ==
    /\ <<"item", s>> \in rows
    /\ status' = [status EXCEPT ![s] = "inactive"]
    /\ UNCHANGED <<rows, flows, request, active, inserts, confirmed, unreported>>

\* Vendors are kept by another system.
VendorHeld(v) ==
    /\ v \in active /\ active' = active \ {v}
    /\ UNCHANGED <<rows, status, flows, request, inserts, confirmed, unreported>>

Next ==
    \/ \E o \in Operators :
          \/ itemScanLookupAction(o) \/ itemScanOperationalAction(o)
          \/ itemScanConfirmAction(o) \/ createRequestFromScanState(o)
          \/ itemCreateAction(o) \/ InsertItem(o) \/ InsertBarcode(o)
          \/ InsertVendorLink(o) \/ Commit(o) \/ CommitLost(o) \/ CreateFails(o)
          \/ itemEditPage(o) \/ itemUpdateAction(o)
    \/ \E f \in flows : Expires(f)
    \/ \E s \in Codes : delete(s)
    \/ \E v \in Vendors : VendorHeld(v)

Spec == Init /\ [][Next]_vars

\* However often a scan is confirmed and whatever fails in between, a code names
\* one item for good, no barcode or vendor link is without its item, what was
\* reported as created is there with all its parts, and what is there beyond that
\* are all the parts of creations whose commit lost its reply (Create of
\* item/store.go and itemScanConfirmAction, whose own lookup of the barcode is
\* stale by the time of the insert).
CatalogWhole ==
    /\ \A r, s \in rows : r[1] = s[1] /\ r[2] = s[2] => r = s \/ r[1] = "vendor"
    /\ \A r \in rows : r[1] # "item" => <<"item", r[3]>> \in rows
    /\ rows = confirmed \union unreported

=============================================================================
