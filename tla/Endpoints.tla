------------------------------ MODULE Endpoints ------------------------------
(***************************************************************************)
(* The pages and form actions of the web front end, statement by           *)
(* statement, like the handlers of the JSON services; and requests of a    *)
(* tenant to one service: each runs its handler, statement by statement,   *)
(* against the rows of Postgres, interleaved with a second request that    *)
(* writes.  A statement may fail, before or after it took effect (the      *)
(* reply of a commit is lost); nothing else does.                          *)
(*                                                                         *)
(* The pages of the item catalog, of receipts being closed, of tasks being *)
(* worked on and of orders being updated are in Catalog, Receiving,        *)
(* DirectedTasks and Purchasing.  Pages that read nothing are left out.    *)
(*                                                                         *)
(* The rows are what the handlers of a service work on (its alerts, cases, *)
(* items ...): the caller's own, one of another tenant, and one that is    *)
(* not there yet.                                                          *)
(***************************************************************************)
EXTENDS Handlers, FiniteSets

(* The web front end, over the operations of the stores it shares with the JSON services. *)

(* GET with an id that is not one: the 404 page. *)
NotAnId == <<Unless(Refuse({"id"}), "missing")>>

(* A list page that shows a 500 page when its query fails, and one that    *)
(* shows an empty list instead.                                            *)
Listing == <<Read>>
TolerantListing == <<Glance>>

(* A detail page: the row, and further queries that its page needs. *)
Detail(operation) == NotAnId \o operation

(* A button that says it worked and writes nothing. *)
Placeholder == <<>>
-----------------------------------------------------------------------------
(* Detections, alerts and rules *)

rulesListPage == Listing
ruleDetailPage == Detail(<<Load>>)
chirpListPage == Listing
chirpDetailPage == Detail(<<Load>>)
alertListPage == Listing
alertDetailPage == Detail(AlertGetByID)
mobileAlertDetailPage == Detail(<<Peek>>)
(* A malformed id is shown as an exception of which nothing is known. *)
exceptionDetailPage == <<Peek>>

DetectionRoutes ==
    [rulesList |-> rulesListPage, ruleDetail |-> ruleDetailPage, chirpList |-> chirpListPage,
     chirpDetail |-> chirpDetailPage, alertList |-> alertListPage,
     alertDetail |-> alertDetailPage, mobileAlertDetail |-> mobileAlertDetailPage,
     exceptionDetail |-> exceptionDetailPage]
-----------------------------------------------------------------------------
(* Cases *)

hawkListPage == Listing
(* Actions and evidence are read by the id of the case that was found. *)
hawkDetailPage == Detail(CasemgmtGetCase \o <<Try(Browse), Try(Browse)>>)
hawkEvidencePage == Detail(CasemgmtGetCase \o <<Try(Browse)>>)
hawkCreateCase == Placeholder
reportCasesPage == Listing
(* The evidence is read whether or not the case was found. *)
casesEvidencePage == <<Peek, Try(Browse)>>
casesCorrelationPage == <<Peek, Glance>>
casesRemediatePage == <<Peek>>

CaseRoutes ==
    [hawkList |-> hawkListPage, hawkDetail |-> hawkDetailPage,
     hawkEvidence |-> hawkEvidencePage, hawkCreateCase |-> hawkCreateCase,
     reportCases |-> reportCasesPage, casesEvidencePage |-> casesEvidencePage,
     casesCorrelation |-> casesCorrelationPage, casesRemediate |-> casesRemediatePage]
-----------------------------------------------------------------------------
(* Sales, customers, employees, returns *)

transactionDetailPage == Detail(TransactionGetByID)
(* Only a sale that is not there stops the page; the proof is looked up    *)
(* under a hash made of the id, of no tenant, and is pending otherwise.    *)
transactionProofPage == Detail(<<Else(Load, Onward), Glance, Glance>>)
reportFinancePage == Listing

customersListPage == TolerantListing
customerDetailPage == Detail(CustomerGetByID)
customerRiskPage == Detail(CustomerGetByID)
customerContextPage == Detail(CustomerGetByID)

(* Any error is a 404. *)
employeeDetailPage == Detail(<<Else(Load, "missing")>>)
reportLaborPage == <<Read, Read>>

returnsListPage == Listing
returnsDetailPage == Detail(ReturnsGetByID)

SalesRoutes ==
    [transactionDetail |-> transactionDetailPage, transactionProof |-> transactionProofPage,
     reportFinance |-> reportFinancePage, customersList |-> customersListPage,
     customerDetail |-> customerDetailPage, customerRisk |-> customerRiskPage,
     customerContext |-> customerContextPage, employeeDetail |-> employeeDetailPage,
     reportLabor |-> reportLaborPage, returnsList |-> returnsListPage,
     returnsDetail |-> returnsDetailPage]
-----------------------------------------------------------------------------
(* Items and stock *)

categoryNameMap == <<Glance>>
itemListPage == Listing \o categoryNameMap
itemDetailPage == Detail(ItemGetByID) \o categoryNameMap
reportCategoryPage == Listing
promotionsCalendarPage == Listing
reportInventoryPage == Listing
reportDistributionPage == <<Read, Read>>

receivingListPage == Listing
receivingDetailPage == Detail(<<Load, Read>>)
receivingClosePage == Detail(<<Load, Read>>)
transferListPage == Listing
transferDetailPage == Detail(<<Load, Read>>)
transferVariancePage == Detail(<<Load, Read>>)
mobileReceivingPage == TolerantListing
(* The line is looked up by its own id; that of the receipt is not used. *)
receivingLineDiscrepancyAction ==
    <<Refuse({"lineID", "form"}), Change(Statuses, None, "missing")>>

StockRoutes ==
    [itemList |-> itemListPage, itemDetail |-> itemDetailPage,
     reportCategory |-> reportCategoryPage, promotionsCalendar |-> promotionsCalendarPage,
     reportInventory |-> reportInventoryPage, reportDistribution |-> reportDistributionPage,
     receivingList |-> receivingListPage, receivingDetail |-> receivingDetailPage,
     receivingClose |-> receivingClosePage, transferList |-> transferListPage,
     transferDetail |-> transferDetailPage, transferVariance |-> transferVariancePage,
     mobileReceiving |-> mobileReceivingPage,
     lineDiscrepancy |-> receivingLineDiscrepancyAction]
-----------------------------------------------------------------------------
(* Tasks, budgets, assets, reports of Owl *)

tasksListPage == TolerantListing
mobileTasksPage == TolerantListing
mobileCycleCountPage == TolerantListing
workflowsListPage == <<Read, Read>>
suggestedOrderRedirect == Placeholder
onboardingRulesEnableAction == Placeholder

reportOTBPage == TolerantListing
(* The form says whether to lock or to unlock the budget. *)
otbLock(to) == <<Refuse({"budgetID", "form"}), Change(Statuses, to, "failed")>>
otbLockAction == [lock |-> otbLock("locked"), unlock |-> otbLock("active")]
billingOverviewPage == <<Glance, Glance>>
billingInvoicesPage == TolerantListing
assetsListPage == TolerantListing
assetDetailPage == Detail(AssetGetItem)
adminAuditPage == TolerantListing
owlDashboardsPage == <<Glance, Glance>>
owlPartiesPage == TolerantListing
owlLPPerformancePage == TolerantListing

OperationRoutes ==
    otbLockAction
      @@ [tasksList |-> tasksListPage, mobileTasks |-> mobileTasksPage,
          mobileCycleCount |-> mobileCycleCountPage, workflowsList |-> workflowsListPage,
          suggestedOrder |-> suggestedOrderRedirect,
          onboardingRulesEnable |-> onboardingRulesEnableAction, reportOTB |-> reportOTBPage,
          billingOverview |-> billingOverviewPage, billingInvoices |-> billingInvoicesPage,
          assetsList |-> assetsListPage, assetDetail |-> assetDetailPage,
          adminAudit |-> adminAuditPage, owlDashboards |-> owlDashboardsPage,
          owlParties |-> owlPartiesPage, owlLPPerformance |-> owlLPPerformancePage]
-----------------------------------------------------------------------------
(* Pages that take the merchant from the query, not from the session: the  *)
(* row asked for is one of that merchant, whichever it is.                 *)

merchantIDFromCtx(statement) == <<statement>>
adminHierarchyPage == merchantIDFromCtx(Try(Browse))
adminHierarchyCreate == <<Refuse({"form", "name"})>> \o merchantIDFromCtx(InsertUnder)
adminNetworkIntegrityPage == merchantIDFromCtx(Try(Browse))
dashboardsCrossStorePage == merchantIDFromCtx(Try(Browse))
suppliersListPage == merchantIDFromCtx(Try(Browse))
supplierDetailPage == Detail(merchantIDFromCtx(Find))
supplierScorecardPage == Detail(merchantIDFromCtx(Try(Find)))
poListPage == merchantIDFromCtx(Try(Browse))
poDetailPage == Detail(merchantIDFromCtx(Find) \o merchantIDFromCtx(Try(Browse)))
poMatchPage == Detail(merchantIDFromCtx(Try(Find)) \o merchantIDFromCtx(Try(Browse)))

MerchantRoutes ==
    [adminHierarchy |-> adminHierarchyPage, hierarchyCreate |-> adminHierarchyCreate,
     networkIntegrity |-> adminNetworkIntegrityPage, crossStore |-> dashboardsCrossStorePage,
     suppliersList |-> suppliersListPage, supplierDetail |-> supplierDetailPage,
     supplierScorecard |-> supplierScorecardPage, poList |-> poListPage,
     poDetail |-> poDetailPage, poMatch |-> poMatchPage]

(* Anchors, verification tokens and names, the latest of all merchants. *)
protocolOverviewPage == <<Glance, Glance, Glance>>
-----------------------------------------------------------------------------
(* Every page is behind the tenant of the session; without one the answer  *)
(* is a redirect to the log-in page.                                       *)
requireTenantMiddleware(pages) == [p \in DOMAIN pages |-> Behind("tenant", pages[p])]

WebServices ==
    LET Web(start, pages) == Service(start, requireTenantMiddleware(pages)) IN
    [webDetections |-> Web({"new"}, DetectionRoutes),
     webCases |-> Web({"open"}, CaseRoutes),
     webSales |-> Web({"completed"}, SalesRoutes),
     webStock |-> Web({"active"}, StockRoutes),
     webOperations |-> Web({"active"}, OperationRoutes),
     webMerchant |-> Web({"active"}, MerchantRoutes),
     webProtocol |-> Web({"active"}, [overview |-> protocolOverviewPage])]
-----------------------------------------------------------------------------
(* Requests to a service and how they run *)

CONSTANTS
    MaxStumbles     \* statements that fail

Askers == {"first", "second"}
Ids == {"mine", "theirs", "spare"}
Services == JSONServices @@ WebServices

VARIABLES
    service,        \* the service of the requests
    rows,           \* rows[id]: the status of the row, or None
    derived,        \* derived[id]: the keys derived from the row that are taken
    call,           \* call[c]: a request and how far its handler is
    stumbles        \* statements that failed

vars == <<service, rows, derived, call, stumbles>>

Program(s, h) == Services[s].handlers[h]
Ops(p) == {p[i].op : i \in 1..Len(p)}
WritesIn(p) == {i \in 1..Len(p) : p[i].op \in Writes}

(* Requests: an id of each kind where the handler looks at it, and one flaw *)
(* at most.  A unique key is unique within the tenant.                     *)
Flaws(p) == UNION {p[i].only : i \in {j \in 1..Len(p) : p[j].op = "refuse"}}
ByRow == {"load", "find", "browse", "change", "keyed", "under", "derived"}
Targets(p) ==
    IF Ops(p) \cap ByRow = {} THEN {"mine"}
    ELSE IF "keyed" \in Ops(p) THEN {"mine", "spare"} ELSE Ids

(* at: the next statement; seen: the status loaded; short: the last UPDATE *)
(* found no row; wrote: the writes done; strayed: a row of another tenant  *)
(* was used; snag: a statement failed.                                     *)
Request(h, id, flaw) ==
    [h |-> h, id |-> id, flaw |-> flaw, at |-> 1, seen |-> None, short |-> FALSE,
     wrote |-> 0, strayed |-> FALSE, snag |-> FALSE, answer |-> None]
NoRequest == [Request("none", "mine", "none") EXCEPT !.answer = "idle"]

Asked(s) ==
    UNION {LET p == Program(s, h) IN
           {Request(h, id, "none") : id \in Targets(p)}
             \cup {Request(h, "mine", f) : f \in Flaws(p)} :
           h \in DOMAIN Services[s].handlers}

(* The second request is well formed and writes, to the row that the first *)
(* one is about.                                                           *)
Rivals(s, r) ==
    IF r.flaw # "none" \/ r.id = "theirs" \/ Ops(Program(s, r.h)) \cap ByRow = {} THEN {}
    ELSE {q \in Asked(s) : q.flaw = "none" /\ q.id = r.id /\ WritesIn(Program(s, q.h)) # {}}

Init ==
    /\ service \in DOMAIN Services
    /\ \E start \in Services[service].start :
           rows = [mine |-> start, theirs |-> start, spare |-> None]
    /\ derived = [id \in Ids |-> {}]
    /\ \E r \in Asked(service) :
       \E q \in IF Rivals(service, r) = {} THEN {NoRequest} ELSE Rivals(service, r) :
           call = [first |-> r, second |-> q]
    /\ stumbles = 0
-----------------------------------------------------------------------------
Here(c) == Program(service, call[c].h)[call[c].at]
Running(c, ops) == call[c].answer = None /\ Here(c).op \in ops

(* The statement after this one; what follows a Change of no row is only   *)
(* for that case.                                                          *)
Following(p, i, short) ==
    CHOOSE j \in (i + 1)..(Len(p) + 1) :
        /\ j = Len(p) + 1 \/ short \/ p[j].op # "diagnose"
        /\ \A k \in (i + 1)..(j - 1) : ~short /\ p[k].op = "diagnose"

(* The request with what the statement says: an answer, or on it goes. *)
Say(r, answer) ==
    LET p == Program(service, r.h) n == Following(p, r.at, r.short) IN
    IF answer # Onward THEN [r EXCEPT !.answer = answer]
    ELSE IF n > Len(p) THEN [r EXCEPT !.answer = "ok"]
    ELSE [r EXCEPT !.at = n]

Answer(c, answer) == call' = [call EXCEPT ![c] = Say(@, answer)]
Owned(id) == id # "theirs"
Holds(id, only) == Owned(id) /\ rows[id] \in only

Check(c) ==
    /\ Running(c, {"refuse"})
    /\ Answer(c, IF call[c].flaw \in Here(c).only THEN Here(c).none ELSE Onward)
    /\ UNCHANGED <<service, rows, derived, stumbles>>

Look(c) ==
    /\ Running(c, {"load"})
    /\ LET r == call[c] found == Holds(r.id, Here(c).only) IN
       call' = [call EXCEPT ![c] =
                  Say([r EXCEPT !.seen = IF found THEN rows[r.id] ELSE None],
                      IF found THEN Onward ELSE Here(c).none)]
    /\ UNCHANGED <<service, rows, derived, stumbles>>

Decide(c) ==
    /\ Running(c, {"require"})
    /\ Answer(c, IF call[c].seen \in Here(c).only THEN Onward ELSE Here(c).none)
    /\ UNCHANGED <<service, rows, derived, stumbles>>

(* By the id alone. *)
FindAny(c) ==
    /\ Running(c, {"find"})
    /\ LET r == call[c] IN
       call' = [call EXCEPT ![c] =
                  Say([r EXCEPT !.strayed = @ \/ ~Owned(r.id)],
                      IF rows[r.id] # None THEN Onward ELSE Here(c).none)]
    /\ UNCHANGED <<service, rows, derived, stumbles>>

Query(c) ==
    /\ Running(c, {"read"})
    /\ Answer(c, Onward)
    /\ UNCHANGED <<service, rows, derived, stumbles>>

QueryUnder(c) ==
    /\ Running(c, {"browse"})
    /\ LET r == call[c] IN
       call' = [call EXCEPT ![c] = Say([r EXCEPT !.strayed = @ \/ ~Owned(r.id)], Onward)]
    /\ UNCHANGED <<service, rows, derived, stumbles>>

(* Why a Change found no row. *)
Explain(c) ==
    /\ Running(c, {"diagnose"})
    /\ LET s == Here(c) id == call[c].id IN
       Answer(c, IF Holds(id, s.only) THEN "conflict" ELSE s.none)
    /\ UNCHANGED <<service, rows, derived, stumbles>>

(* Whether the write finds what it needs. *)
Fits(s, id) ==
    CASE s.op = "change" -> Holds(id, s.only)
      [] s.op = "insert" -> TRUE
      [] s.op = "keyed" -> rows[id] = None
      [] s.op = "under" -> rows[id] # None
      [] s.op = "derived" -> s.only \cap derived[id] = {}

(* The request once it wrote. *)
Wrote(s, r) ==
    [r EXCEPT !.wrote = @ + 1, !.strayed = @ \/ (s.op = "under" /\ ~Owned(r.id))]

Effect(s, id) ==
    /\ rows' = IF s.to = None THEN rows ELSE [rows EXCEPT ![id] = s.to]
    /\ derived' = IF s.op = "derived" THEN [derived EXCEPT ![id] = @ \cup s.only] ELSE derived

Write(c) ==
    /\ Running(c, Writes)
    /\ LET s == Here(c) r == call[c] IN
       /\ Fits(s, r.id)
       /\ Effect(s, r.id)
       /\ call' = [call EXCEPT ![c] = Say(Wrote(s, r), Onward)]
    /\ UNCHANGED <<service, stumbles>>

(* No row to change, or a key in the way. *)
Miss(c) ==
    /\ Running(c, Writes)
    /\ LET s == Here(c) r == call[c] IN
       /\ ~Fits(s, r.id)
       /\ call' = [call EXCEPT ![c] =
                     Say([r EXCEPT !.short = s.op = "change" /\ s.none = Onward], s.none)]
    /\ UNCHANGED <<service, rows, derived, stumbles>>

(* A statement fails and did nothing. *)
Stumble(c) ==
    /\ Running(c, Writes \cup {"load", "find", "read", "browse", "diagnose"})
    /\ stumbles < MaxStumbles
    /\ call' = [call EXCEPT ![c] = Say([@ EXCEPT !.snag = TRUE], Here(c).error)]
    /\ stumbles' = stumbles + 1
    /\ UNCHANGED <<service, rows, derived>>

(* A write takes effect and is reported as failed. *)
LoseReply(c) ==
    /\ Running(c, Writes)
    /\ stumbles < MaxStumbles
    /\ LET s == Here(c) r == call[c] IN
       /\ Fits(s, r.id)
       /\ Effect(s, r.id)
       /\ call' = [call EXCEPT ![c] =
                     Say([Wrote(s, r) EXCEPT !.snag = TRUE], s.error)]
    /\ stumbles' = stumbles + 1
    /\ UNCHANGED service

Step(c) ==
    \/ Check(c) \/ Look(c) \/ FindAny(c) \/ Decide(c) \/ Query(c) \/ QueryUnder(c)
    \/ Explain(c) \/ Write(c) \/ Miss(c) \/ Stumble(c) \/ LoseReply(c)

Next == \E c \in Askers : Step(c)

Spec == Init /\ [][Next]_vars
-----------------------------------------------------------------------------
TypeOK ==
    /\ service \in DOMAIN Services
    /\ rows \in [Ids -> Statuses \cup {None}]
    /\ stumbles \in 0..MaxStumbles
    /\ \A c \in Askers :
         /\ call[c].answer \in {None, "idle", "ok", "bad", "missing", "conflict", "failed"}
         /\ call[c].wrote \in 0..3

Answered(c) == call[c].answer \notin {None, "idle"}
Handling(c) == Program(service, call[c].h)

(* The writes a handler cannot answer "ok" without. *)
Firm(p) == {i \in WritesIn(p) : p[i].error # Onward}

(* Transitions that a row makes once, by the routes that make them. *)
MadeOnce ==
    [acknowledge |-> "acknowledged", resolve |-> "dismissed", suppress |-> "dismissed",
     void |-> "voided", makeReturn |-> "returned"]

(* The routes that address rows by an id alone, or by a merchant that the   *)
(* request names.                                                          *)
ByIdAlone ==
    {<<"casemgmt", h>> : h \in {"appendAction", "listActions", "appendEvidence", "listEvidence"}}
      \cup {<<"hawk", h>> : h \in {"listActions", "listEvidence"}}
      \cup {<<"owl", h>> : h \in DOMAIN OwlMount}
      \cup {<<"webMerchant", h>> : h \in DOMAIN MerchantRoutes}
      \cup {<<"public", "evidence">>, <<"public", "anchor">>, <<"asset", "flag">>,
            <<"inventory", "appendAdjustment">>, <<"task", "logException">>,
            <<"webCases", "casesEvidencePage">>}

(* An answer tells what was done, as long as every statement worked:       *)
(* refused is untouched, ok is done in full, and only the failure of a     *)
(* statement leaves something behind a 5xx.                                *)
AnswersHonest ==
    \A c \in Askers : Answered(c) =>
        LET r == call[c] p == Handling(c) IN
        /\ r.answer \in {"bad", "missing", "conflict"} /\ ~r.snag => r.wrote = 0
        /\ r.answer = "failed" /\ r.wrote > 0 => r.snag
        /\ r.answer = "ok" =>
             /\ r.wrote >= Cardinality(Firm(p))
             /\ r.wrote <= Cardinality(WritesIn(p))

(* A row of the tenant that is there is found, whatever else goes on. *)
RowsFound ==
    \A c \in Askers :
        call[c].answer = "missing" /\ call[c].flaw = "none" /\ ~call[c].snag
          => call[c].id # "mine"

(* No two requests are both told that they made a transition that a row    *)
(* makes once.                                                             *)
OnceToldOnce ==
    LET told(c) == call[c].answer = "ok" /\ call[c].h \in DOMAIN MadeOnce IN
    told("first") /\ told("second") => MadeOnce[call["first"].h] # MadeOnce[call["second"].h]

(* Elsewhere an answer rests on the caller's rows only. *)
TenantsApart == \A c \in Askers : call[c].strayed => <<service, call[c].h>> \in ByIdAlone

AnswersSound == TypeOK /\ AnswersHonest /\ RowsFound /\ OnceToldOnce /\ TenantsApart
=============================================================================
