------------------------------ MODULE Handlers ------------------------------
(***************************************************************************)
(* The handlers of the JSON services, statement by statement.  Every HTTP  *)
(* handler of the services and of the web front end is a line of           *)
(* statements: checks of the request, reads of Postgres, at most a few     *)
(* writes, and the answer.  A handler is therefore a sequence of           *)
(* statements, and Endpoints runs it.                                      *)
(*                                                                         *)
(* Answers are told apart by their class: "ok" (2xx, or a redirect to a    *)
(* page that says so), "bad" (400, 401, 402, 403, 501 and the redirects of *)
(* a malformed form), "missing" (404), "conflict" (409, 422) and "failed"  *)
(* (5xx, or a redirect to a page that says the action failed).             *)
(*                                                                         *)
(* Where the store does more than one statement, its operation has a       *)
(* definition of its own.  Operations that a module of their own models    *)
(* (charges of a budget, transitions of a task, escalation of a detection  *)
(* ...) are not repeated here.                                             *)
(***************************************************************************)
EXTENDS Naturals, Sequences, TLC

None == "none"       \* the status of a row that is not there
Onward == "onward"   \* not an answer: the handler carries on

(* The statuses of the rows the handlers work on. *)
Statuses == {"new", "acknowledged", "dismissed", "open", "closed", "completed", "voided",
             "active", "inactive", "locked", "queued", "assigned", "in_progress", "verified",
             "pending", "draft", "submitted"}

Statement(op, only, to, none, error) ==
    [op |-> op, only |-> only, to |-> to, none |-> none, error |-> error]

(* A check of the request: a flaw in one of the fields is refused. *)
Refuse(fields) == Statement("refuse", fields, None, "bad", Onward)

(* SELECT ... WHERE tenant_id = $1 AND id = $2 [AND status IN only] *)
LoadIf(only) == Statement("load", only, None, "missing", "failed")
Load == LoadIf(Statuses)

(* SELECT ... WHERE id = $1, whatever the tenant *)
Find == Statement("find", Statuses, None, "missing", "failed")

(* The status loaded must be one of only. *)
Require(only) == Statement("require", only, None, "conflict", Onward)
Unsupported == Statement("require", {}, None, "bad", Onward)

(* A query for the answer, over rows of the caller's tenant; and one over  *)
(* the rows under the id of the path, whatever the tenant.                 *)
Read == Statement("read", {}, None, Onward, "failed")
Browse == Statement("browse", {}, None, Onward, "failed")

(* UPDATE ... WHERE tenant_id = $1 AND id = $2 AND status IN only, in one     *)
(* transaction with the rows written beside it; none answers for 0 rows.   *)
Change(only, to, none) == Statement("change", only, to, none, "failed")

(* INSERT of a row of the caller's tenant. *)
Insert == Statement("insert", {}, None, Onward, "failed")

(* INSERT of a row with a unique key: the key taken is a conflict. *)
InsertKeyed(to) == Statement("keyed", {}, to, "conflict", "failed")

(* INSERT of a row under the id of the path, which is not looked up: only  *)
(* the foreign key tells whether there is such a row, of whatever tenant.  *)
InsertUnder == Statement("under", {}, None, "failed", "failed")

(* INSERT of a row whose unique key is derived from the row that was       *)
(* loaded, with a change of that row's status to `to` in the transaction.  *)
InsertDerived(key, to) == Statement("derived", {key}, to, "failed", "failed")

(* After a Change of 0 rows: read the row to say why.  A row with a status *)
(* in only is a conflict.                                                  *)
Diagnose(only, error) == Statement("diagnose", only, None, "missing", error)

(* A statement whose failure is logged, or not even that. *)
Try(s) == [s EXCEPT !.none = Onward, !.error = Onward]
Peek == Try(Load)
Glance == Try(Read)

(* s with another answer for what is not there, or for any error. *)
Unless(s, none) == [s EXCEPT !.none = none]
Else(s, error) == [s EXCEPT !.error = error]

(* A route behind a check of its own, before the handler. *)
Behind(field, handler) == <<Refuse({field})>> \o handler
Scoped(handlers) == [h \in DOMAIN handlers |-> Behind("scope", handlers[h])]

Writes == {"change", "insert", "keyed", "under", "derived"}
-----------------------------------------------------------------------------
(* alert: triage of the detections. *)

AlertGetByID == <<Load>>
AcknowledgeAnyStatus ==
    <<Change(Statuses, "acknowledged", Onward), Diagnose(Statuses, "missing")>>
      \o AlertGetByID
AlertAcknowledge ==
    <<Change({"new"}, "acknowledged", Onward), Diagnose(Statuses \ {"new"}, "missing")>>
      \o AlertGetByID
AlertResolve ==
    <<Change(Statuses \ {"dismissed"}, "dismissed", Onward), Diagnose(Statuses, "conflict")>>
      \o AlertGetByID
AlertSuppress ==
    <<Change(Statuses \ {"dismissed"}, "dismissed", Onward), Diagnose(Statuses, "conflict")>>
      \o AlertGetByID

alert_list == <<Refuse({"tenant", "location_id"}), Read>>
alert_get == <<Refuse({"tenant", "id"})>> \o AlertGetByID
alert_acknowledge == <<Refuse({"tenant", "id", "acknowledged_by"})>> \o AlertAcknowledge
alert_resolve == <<Refuse({"tenant", "id", "body"})>> \o AlertResolve
alert_suppress == <<Refuse({"tenant", "id", "body"})>> \o AlertSuppress
alert_stats == <<Refuse({"tenant"}), Read>>

AlertMount ==
    Scoped([list |-> alert_list, stats |-> alert_stats, get |-> alert_get,
            acknowledge |-> alert_acknowledge, resolve |-> alert_resolve,
            suppress |-> alert_suppress])
-----------------------------------------------------------------------------
(* casemgmt: the plain case store.  Actions and evidence are written and   *)
(* listed by the id of the case alone.                                     *)

CasemgmtGetCase == <<Load>>
CasemgmtAppendAction == <<Refuse({"action_type"}), InsertUnder>>
CasemgmtAppendEvidence == <<Refuse({"evidence_type"}), Browse, InsertUnder>>
CasemgmtCloseCase == <<Refuse({"resolution_type"}), Change(Statuses, "closed", "missing")>>

casemgmt_create ==
    <<Refuse({"body", "tenant", "body_tenant"}), Refuse({"title"}), Insert>>
casemgmt_list == <<Refuse({"tenant", "assigned_to"}), Read>>
casemgmt_get == <<Refuse({"id", "tenant"})>> \o CasemgmtGetCase
casemgmt_appendAction == <<Refuse({"id", "tenant", "body"})>> \o CasemgmtAppendAction
casemgmt_listActions == <<Refuse({"id"}), Browse>>
casemgmt_appendEvidence == <<Refuse({"id", "tenant", "body"})>> \o CasemgmtAppendEvidence
casemgmt_listEvidence == <<Refuse({"id"}), Browse>>
casemgmt_closeCase == <<Refuse({"id", "tenant", "body"})>> \o CasemgmtCloseCase

CasemgmtMount ==
    [create |-> casemgmt_create, list |-> casemgmt_list, get |-> casemgmt_get,
     appendAction |-> casemgmt_appendAction, listActions |-> casemgmt_listActions,
     appendEvidence |-> casemgmt_appendEvidence, listEvidence |-> casemgmt_listEvidence,
     closeCase |-> casemgmt_closeCase]

(* hawk: the same cases, to read. *)
hawk_listCases == <<Refuse({"scope", "tenant", "assigned_to"}), Read>>
hawk_getCase == <<Refuse({"scope", "tenant", "id"}), Else(Load, "missing")>>
hawk_listActions == <<Refuse({"scope", "id"}), Browse>>
hawk_listEvidence == <<Refuse({"scope", "id"}), Browse>>

HawkMount ==
    [listCases |-> hawk_listCases, getCase |-> hawk_getCase,
     listActions |-> hawk_listActions, listEvidence |-> hawk_listEvidence]
-----------------------------------------------------------------------------
(* fox: the investigators' side of the cases. *)

FoxLoadCaseScoped == <<Load>>
FoxCloseCase == <<Change(Statuses, "closed", "missing")>>

fox_getCase == <<Refuse({"tenant", "id"})>> \o FoxLoadCaseScoped \o <<Read, Read>>
fox_listCases == <<Refuse({"tenant", "from", "to"}), Read>>
fox_appendAction ==
    <<Refuse({"tenant", "id", "body", "action_type"})>> \o FoxLoadCaseScoped
      \o <<Refuse({"taken_by"}), Insert>>
fox_closeCase ==
    <<Refuse({"tenant", "id", "body", "resolution"})>> \o FoxLoadCaseScoped
      \o <<Refuse({"closed_by"})>> \o FoxCloseCase

FoxMount ==
    [getCase |-> fox_getCase, listCases |-> fox_listCases,
     appendAction |-> fox_appendAction, closeCase |-> fox_closeCase]
-----------------------------------------------------------------------------
(* asset, employee, customer, returns *)

AssetGetItem == <<Load, Read, Read>>
asset_list == <<Refuse({"tenant", "location_id"}), Read>>
asset_get == <<Refuse({"tenant", "item_id"})>> \o AssetGetItem
asset_shrink == <<Refuse({"tenant"}), Read>>
asset_flag == <<Refuse({"tenant", "item_id", "body", "location_id", "reason_code"}), InsertUnder>>
AssetMount ==
    Scoped([list |-> asset_list, shrink |-> asset_shrink, get |-> asset_get,
            flag |-> asset_flag])

EmployeeGetByID == <<Load>>
employee_list == <<Refuse({"tenant"}), Read>>
employee_get == <<Refuse({"tenant", "id"})>> \o EmployeeGetByID
employee_alertSummary == <<Refuse({"tenant"}), Read>>
(* Without a summary the employee is read again, the error thrown away and *)
(* what was not read used: the panic answers 500.                          *)
employee_employeeAlerts ==
    <<Refuse({"tenant", "id"})>> \o EmployeeGetByID
      \o <<Read, Unless(Load, "failed")>>
EmployeeMount ==
    Scoped([list |-> employee_list, alertSummary |-> employee_alertSummary,
            get |-> employee_get, employeeAlerts |-> employee_employeeAlerts])

CustomerGetByID == <<Load>>
customer_list == <<Refuse({"tenant"}), Read>>
customer_get == <<Refuse({"tenant", "id"})>> \o CustomerGetByID
customer_memberships == <<Refuse({"tenant", "id"})>> \o CustomerGetByID \o <<Read>>
customer_transactions == <<Refuse({"tenant", "id"})>> \o CustomerGetByID \o <<Unsupported>>
CustomerMount ==
    Scoped([list |-> customer_list, get |-> customer_get,
            memberships |-> customer_memberships, transactions |-> customer_transactions])

ReturnsGetByID == <<Load, Read>>
ReturnsFraudFlag == <<Load, Insert>>
returns_list == <<Refuse({"tenant", "location_id"}), Read>>
returns_summary == <<Refuse({"tenant", "location_id"}), Read>>
returns_get == <<Refuse({"tenant", "id"})>> \o ReturnsGetByID
returns_lines == <<Refuse({"tenant", "id"})>> \o ReturnsGetByID
returns_flag == <<Refuse({"tenant", "id", "body", "detection_rule_id"})>> \o ReturnsFraudFlag
ReturnsMount ==
    Scoped([list |-> returns_list, summary |-> returns_summary, get |-> returns_get,
            lines |-> returns_lines, flag |-> returns_flag])
-----------------------------------------------------------------------------
(* transaction: sales, voids and returns.  A void and a return are child   *)
(* rows whose number is the sale's with -VOID or -RTN behind it.           *)

hydrateChildren == <<Read, Read, Read>>
TransactionGetByID == <<Load>> \o hydrateChildren
GetByReceiptNumber == <<Load>>
(* The status is the caller's; of those it may give only "voided" is told  *)
(* apart from the rest.                                                    *)
TransactionCreate(status) == <<Refuse({"fields"}), InsertKeyed(status)>>
TransactionVoid ==
    TransactionGetByID \o <<Require(Statuses \ {"voided"}), InsertDerived("VOID", "voided")>>
TransactionReturn == TransactionGetByID \o <<InsertDerived("RTN", None)>>

transaction_create(status) ==
    <<Refuse({"body", "tenant", "body_tenant"})>> \o TransactionCreate(status)
transaction_getByID == <<Refuse({"id", "tenant"})>> \o TransactionGetByID
transaction_byReceipt == <<Refuse({"tenant", "params"})>> \o GetByReceiptNumber
transaction_list == <<Refuse({"tenant", "location_id", "cashier_id", "customer_id"}), Read>>
transaction_void == <<Refuse({"id", "tenant", "body", "reason"})>> \o TransactionVoid
transaction_makeReturn == <<Refuse({"id", "tenant", "body", "reason"})>> \o TransactionReturn

TransactionMount ==
    Scoped([byReceipt |-> transaction_byReceipt, getByID |-> transaction_getByID,
            list |-> transaction_list, create |-> transaction_create("completed"),
            createVoided |-> transaction_create("voided"),
            void |-> transaction_void, makeReturn |-> transaction_makeReturn])
-----------------------------------------------------------------------------
(* item: the catalog. *)

fetchBarcodes == <<Read>>
ItemGetByID == <<Load>> \o fetchBarcodes
ItemGetBySKU == <<Load>> \o fetchBarcodes
ItemGetByBarcode == <<Load>> \o fetchBarcodes
ItemUpdate == <<Change(Statuses, None, "missing")>> \o fetchBarcodes
ItemDelete == <<Change(Statuses, "inactive", "missing")>>

item_getByID == <<Refuse({"id", "tenant"})>> \o ItemGetByID
item_getBySKU == <<Refuse({"tenant"})>> \o ItemGetBySKU
item_getByBarcode == <<Refuse({"barcode", "tenant"})>> \o ItemGetByBarcode
item_list == <<Refuse({"tenant", "category_id", "vendor_id"}), Read>>
item_create == <<Refuse({"tenant", "body", "body_tenant", "fields"}), InsertKeyed("active")>>
item_update == <<Refuse({"id", "tenant", "body", "fields"})>> \o ItemUpdate
item_delete == <<Refuse({"id", "tenant"})>> \o ItemDelete
item_listCategories == <<Refuse({"tenant"}), Read>>
item_listVendors == <<Refuse({"tenant"}), Read>>

(* GET /v1/items is three operations, told apart by what the request names. *)
item_getOrList == [getByID |-> item_getByID, getBySKU |-> item_getBySKU, list |-> item_list]
ItemMount ==
    item_getOrList
      @@ [getByBarcode |-> item_getByBarcode, create |-> item_create,
          update |-> item_update, delete |-> item_delete,
          listCategories |-> item_listCategories, listVendors |-> item_listVendors]
-----------------------------------------------------------------------------
(* inventory, pricing, billing, task, report *)

GetPosition == <<Load>>
inventory_getPosition == <<Refuse({"tenant", "item_id", "location_id"})>> \o GetPosition
inventory_listPositions == <<Refuse({"tenant", "location_id", "item_id"}), Read>>
inventory_listMovements ==
    <<Refuse({"tenant", "item_id", "location_id", "from", "to"}), Read>>
ValidateAppendRequest == <<Refuse({"movement_type", "quantity", "fields"})>>
(* The movement and the position of its item are written together. *)
inventory_appendAdjustment ==
    <<Refuse({"body", "tenant", "body_tenant"})>> \o ValidateAppendRequest \o <<InsertUnder>>
InventoryMount ==
    [getPosition |-> inventory_getPosition, listPositions |-> inventory_listPositions,
     listMovements |-> inventory_listMovements, appendAdjustment |-> inventory_appendAdjustment]

pricing_requireTenant == <<Refuse({"tenant", "tenant_id"})>>
(* What the resolver says of a line without a price is a 400, by its words. *)
isInputError == Unless(Load, "bad")
handleResolve == pricing_requireTenant \o <<Refuse({"body", "body_tenant"}), isInputError, Read>>
handleBasePrice == <<Refuse({"item_id"})>> \o pricing_requireTenant
                     \o <<Refuse({"location_id", "as_of"}), Load>>
handleListPromotions == pricing_requireTenant \o <<Refuse({"location_id", "active_at"}), Read>>
handleListTaxRates == pricing_requireTenant \o <<Refuse({"location_id"}), Read>>
PricingMount ==
    [resolve |-> handleResolve, base |-> handleBasePrice,
     promotions |-> handleListPromotions, taxRates |-> handleListTaxRates]

BillingGetBudget == <<Load>>
BillingCreateBudget == <<Refuse({"scope_type", "budget_satoshis"}), Insert>>
billing_createBudget == <<Refuse({"body", "tenant", "body_tenant"})>> \o BillingCreateBudget
billing_listBudgets == <<Refuse({"tenant"}), Read>>
billing_getBudget == <<Refuse({"id", "tenant"})>> \o BillingGetBudget
billing_costRollup == <<Refuse({"tenant", "period"}), Read>>
BillingMount ==
    Scoped([createBudget |-> billing_createBudget, listBudgets |-> billing_listBudgets,
            getBudget |-> billing_getBudget, costRollup |-> billing_costRollup])

TaskGetByID == <<Load>>
task_getByID == <<Refuse({"tenant", "id"})>> \o TaskGetByID
(* The exception is written under the task's id, which nothing looks up. *)
task_logException == <<Refuse({"tenant", "id", "body", "reason_code"}), InsertUnder>>
TaskMount == [getByID |-> task_getByID, logException |-> task_logException]

(* A report is a row that stays pending: nothing works on it. *)
ReportCreate == <<Insert>>
ReportGetByID == <<Load>>
report_create == <<Refuse({"tenant", "body", "report_type"})>> \o ReportCreate
report_list == <<Refuse({"tenant"}), Read>>
report_get == <<Refuse({"tenant", "job_id"})>> \o ReportGetByID
ReportMount == Scoped([list |-> report_list, get |-> report_get, create |-> report_create])
-----------------------------------------------------------------------------
(* owl, analytics, chirp: numbers.  The first dashboards name the merchant *)
(* in the query; the others use the caller's.                              *)

ResolveMerchant == <<Find>>
parseMerchantAndPeriod == <<Refuse({"merchant_id"})>> \o ResolveMerchant \o <<Refuse({"period"})>>
(* Sales, items by units and by revenue, unknown items, locations, cases,  *)
(* detections and exposure, one after the other.                           *)
aggregateForTenant == [i \in 1..8 |-> Browse]
Aggregate == ResolveMerchant \o aggregateForTenant
owl_Dashboard == parseMerchantAndPeriod \o Aggregate
owl_Sales == parseMerchantAndPeriod \o ResolveMerchant \o <<Browse>>
owl_TopItems == parseMerchantAndPeriod \o ResolveMerchant \o <<Browse>>
owl_Cases == parseMerchantAndPeriod \o ResolveMerchant \o <<Browse>>
owl_Exposure == parseMerchantAndPeriod \o ResolveMerchant \o <<Browse>>
OwlMount ==
    Scoped([dashboard |-> owl_Dashboard, sales |-> owl_Sales, topItems |-> owl_TopItems,
            cases |-> owl_Cases, exposure |-> owl_Exposure])

GetPartyRFM == <<Load>>
owl_getPartyRFM == <<Refuse({"tenant", "id"})>> \o GetPartyRFM
owl_listParties == <<Refuse({"tenant"}), Read>>
(* The views are computed anew from the tables, of all tenants. *)
owl_refreshDecisioningFacts == <<Read>>
owl_lpRate == <<Refuse({"tenant", "from", "to"}), Read>>
DashboardMount ==
    Scoped([listParties |-> owl_listParties, getPartyRFM |-> owl_getPartyRFM,
            lpRate |-> owl_lpRate, refresh |-> owl_refreshDecisioningFacts])

analytics_sales == <<Refuse({"tenant"}), Read>>
analytics_basket == <<Refuse({"tenant"}), Read, Read>>
analytics_cohort == <<Refuse({"tenant"}), Read>>
analytics_velocity == <<Refuse({"tenant"}), Read>>
analytics_shrink == <<Refuse({"tenant"}), Read>>
AnalyticsMount ==
    Scoped([sales |-> analytics_sales, basket |-> analytics_basket,
            cohort |-> analytics_cohort, velocity |-> analytics_velocity,
            shrink |-> analytics_shrink])

chirp_ListRules == <<Refuse({"tenant"}), Read>>
chirp_ListDetections == <<Refuse({"tenant", "from", "to"}), Read>>
ChirpMount == [ListRules |-> chirp_ListRules, ListDetections |-> chirp_ListDetections]

(* Evidence and its anchor are public: found by the hash of the event.     *)
evidence_ServeHTTP == <<Refuse({"event_hash"}), Find>>
anchor_ServeHTTP == <<Refuse({"event_hash"}), Find>>
(* The bearer's own record. *)
me_serve == <<Refuse({"token", "audience"}), Unless(Load, "bad")>>
PublicMount ==
    [evidence |-> evidence_ServeHTTP, anchor |-> anchor_ServeHTTP, me |-> me_serve]
-----------------------------------------------------------------------------
(* A service: the statuses its rows may start with, and its routes. *)
Service(start, handlers) == [start |-> start, handlers |-> handlers]

JSONServices ==
    [alert |-> Service({"new", "dismissed"}, AlertMount),
     casemgmt |-> Service({"open"}, CasemgmtMount),
     hawk |-> Service({"open"}, HawkMount),
     fox |-> Service({"open"}, FoxMount),
     asset |-> Service({"active"}, AssetMount),
     employee |-> Service({"active"}, EmployeeMount),
     customer |-> Service({"active"}, CustomerMount),
     returns |-> Service({"completed"}, ReturnsMount),
     transaction |-> Service({"completed"}, TransactionMount),
     item |-> Service({"active"}, ItemMount),
     inventory |-> Service({"active"}, InventoryMount),
     pricing |-> Service({"active"}, PricingMount),
     billing |-> Service({"active"}, BillingMount),
     task |-> Service({"queued"}, TaskMount),
     report |-> Service({"pending"}, ReportMount),
     owl |-> Service({"active"}, OwlMount),
     dashboards |-> Service({"active"}, DashboardMount),
     analytics |-> Service({"active"}, AnalyticsMount),
     chirp |-> Service({"active"}, ChirpMount),
     public |-> Service({"active"}, PublicMount)]
=============================================================================
