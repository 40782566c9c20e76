----------------------------- MODULE Screening -----------------------------
(***************************************************************************)
(* chirp's rules and the settings screens that write detection.allow_list. *)
(* An evaluation loads one sale and the recent activity around it, runs    *)
(* the nine registered rules, looks each match up in the allow list and    *)
(* inserts it.  Amounts are cents, times are in units of a day of DayLen.  *)
(* A rule's evidence and signal strength are left out: no code reads them. *)
(***************************************************************************)
EXTENDS Integers, Sequences, FiniteSets, FiniteSetsExt, TLC

CONSTANTS
    Cashiers, Managers, NoOne,  \* employees; SQL NULL
    Sales, Events, \* what the points of sale may have recorded (external)
    Parameter,     \* rule -> its tunable parameter, for those whose rule_definition has one
    DayLen, Hours, \* Hours[d]: the intervals <<open, close>> of day d, from 1
    Tolerance,     \* tolerance_minutes of after_hours_transaction
    Window,        \* defaultCashierWindow
    ScreenKinds, RowRules,  \* the screens in use; the rules rows are made for by hand
    MaxLog, MaxSales, MaxEvaluations, MaxEntries, MaxFaults  \* bounds

VARIABLES
    log,         \* cashier_actions and cash_drawer_events, as recorded
    sales,       \* transactions with their lines and discounts
    allowList,   \* detection.allow_list in the order of creation, deleted rows marked
    job,         \* the evaluation being served
    detections,  \* detection.detections, as inserted
    screened,    \* sales that an evaluation went through without a failed statement
    evaluations, \* how many have been started (a bound)
    faults       \* failed statements (a bound)

world == <<log, sales>>
vars == <<world, allowList, job, detections, screened, evaluations, faults>>

Unreadable == -1000000   \* a NUMERIC column that ParseFloat refuses

RuleTypes == {"void_threshold", "large_discount_pct", "after_hours_transaction",
              "markdown_abuse", "sweetheart_deal", "refund_no_receipt",
              "cash_drawer_variance", "no_sale_frequency", "manager_override_frequency"}

\* A parameter that is missing or not positive takes the rule's default.
OrDefault(rule, default) ==
    IF rule \in DOMAIN Parameter /\ Parameter[rule] > 0 THEN Parameter[rule] ELSE default

\* What an evaluator returns: the cashier it sets itself, if any, and the line, event
\* or employee the match is about.
Match(rule, cashier, of) == [rule |-> rule, cashier |-> cashier, of |-> of]
-----------------------------------------------------------------------------
(* The rules, each over a sale s and the context loaded with it. *)

Magnitude(n) == IF n < 0 THEN -n ELSE n

\* One unreadable total of a voided line makes the rule fail.
VoidThreshold(s) ==
    LET voided == {i \in DOMAIN s.lines : s.lines[i].void}
    IN  IF \/ \E i \in voided : s.lines[i].total = Unreadable
           \/ MapThenSumSet(LAMBDA i : Magnitude(s.lines[i].total), voided)
                  < OrDefault("void_threshold", 5000)
        THEN {} ELSE {Match("void_threshold", NoOne, 0)}

\* One match per line; what cannot be read is skipped.
LargeDiscountPct(s) ==
    {Match("large_discount_pct", NoOne, i) : i \in
        {i \in DOMAIN s.lines :
            LET l == s.lines[i]
            IN  /\ ~l.void /\ l.price > 0 /\ l.off > 0
                /\ 100 * l.off >= OrDefault("large_discount_pct", 50) * l.price}}

\* The pad widened once more than the code does.
AfterHoursPaddedTwice(s) ==
    LET today == s.at \div DayLen + 1
        time  == s.at % DayLen
    IN  IF \E iv \in Hours[today] : time \in iv[1] - 2 * Tolerance .. iv[2] + 2 * Tolerance
        THEN {} ELSE {Match("after_hours_transaction", NoOne, 0)}

\* The hours are those of the sale's calendar day, in the store's time zone.
AfterHoursTransaction(s) ==
    LET today == s.at \div DayLen + 1
        time  == s.at % DayLen
    IN  IF \E iv \in Hours[today] : time \in iv[1] - Tolerance .. iv[2] + Tolerance
        THEN {} ELSE {Match("after_hours_transaction", NoOne, 0)}

\* Only a "return", not a "refund".
MarkdownAbuse(s) ==
    IF /\ s.type = "return"
       /\ \E i \in DOMAIN s.lines :
            LET l == s.lines[i]
            IN  /\ l.list > 0 /\ l.price > 0 /\ l.price < l.list
                /\ 100 * (l.list - l.price) >= OrDefault("markdown_abuse", 30) * l.list
    THEN {Match("markdown_abuse", s.cashier, 0)} ELSE {}

SweetheartDeal(s) ==
    IF /\ s.cashier # NoOne /\ s.subtotal > 0
       /\ \E i \in DOMAIN s.discounts :
            LET d == s.discounts[i]
            IN  /\ d.by = s.cashier /\ d.amount # Unreadable
                /\ 100 * d.amount >= OrDefault("sweetheart_deal", 20) * s.subtotal
    THEN {Match("sweetheart_deal", s.cashier, 0)} ELSE {}

RefundNoReceipt(s) ==
    IF /\ s.type \in {"refund", "return"} \/ \E i \in DOMAIN s.lines : s.lines[i].return
       /\ ~s.linked
    THEN {Match("refund_no_receipt", NoOne, 0)} ELSE {}

\* The rows of the log that LoadCashierWindow and loadDrawerEvents return: the hour
\* up to the end of the sale.
CashierWindow(s) ==
    {i \in DOMAIN log : /\ log[i].type # "drawer" /\ s.cashier # NoOne
                        /\ log[i].cashier = s.cashier
                        /\ log[i].at \in s.at - Window .. s.at}

DrawerWindow(s) ==
    {i \in DOMAIN log : log[i].type = "drawer" /\ log[i].at \in s.at - Window .. s.at}

\* LoadEvalContext: the sale with its lines and discounts, and both windows.
LoadEvalContext(s) ==
    [sale |-> s, actions |-> CashierWindow(s), drawer |-> DrawerWindow(s)]

CashDrawerVariance(ec) ==
    {Match("cash_drawer_variance", log[i].cashier, i) : i \in
        {i \in ec.drawer :
            Magnitude(log[i].variance) >= OrDefault("cash_drawer_variance", 500)}}

NoSaleFrequency(ec) ==
    IF Cardinality({i \in ec.actions : log[i].type = "no_sale"})
           >= OrDefault("no_sale_frequency", 5)
    THEN {Match("no_sale_frequency", ec.sale.cashier, 0)} ELSE {}

\* Counted over the sale's own cashier; the match names the manager as the cashier.
ManagerOverrideFrequency(ec) ==
    {Match("manager_override_frequency", m, 0) : m \in
        {m \in Managers :
            Cardinality({i \in ec.actions : log[i].type = "override" /\ log[i].by = m})
                >= OrDefault("manager_override_frequency", 3)}}

\* evaluateOne for every active rule; a rule that fails is skipped.
Matches(ec) ==
    UNION {VoidThreshold(ec.sale), LargeDiscountPct(ec.sale), AfterHoursTransaction(ec.sale),
           MarkdownAbuse(ec.sale), SweetheartDeal(ec.sale), RefundNoReceipt(ec.sale),
           CashDrawerVariance(ec), NoSaleFrequency(ec), ManagerOverrideFrequency(ec)}
-----------------------------------------------------------------------------
(* The settings screens: all ten keep their rows in one table, told apart by *)
(* the kind in the pattern.  needs are the form fields that must be filled.  *)

Screen(kind, type, needs) == [kind |-> kind, type |-> type, needs |-> needs]

AllowListScreens ==
    {Screen("dead_count", "allowlist", {"cashier_id"})} \union
    {Screen(k, "allowlist", {"reason_code"}) : k \in {"discounts", "voids", "comps"}}
TrainingScreen == Screen("training_mode", "setting", {})
RoutingScreen  == Screen("alert_routing", "routing", {"destination"})
ThresholdScreens ==
    {Screen("drawer", "threshold", {"store", "threshold"}),
     Screen("discount_cap", "threshold", {"reason_code", "cap_pct"})}
VocabScreens == {Screen(k, "vocab", {"reason_code"}) : k \in {"void_reason", "comp_reason"}}

lpScreens ==
    AllowListScreens \union {TrainingScreen, RoutingScreen} \union ThresholdScreens
        \union VocabScreens

\* ListByRuleID and the match of the pattern's kind.  An entry of a reason code needs a
\* reason_code in the evidence, and none of the nine rules writes one.
matchesPattern(entry, m) ==
    entry.kind = "dead_count" /\ m.cashier # NoOne /\ entry.value = m.cashier

CheckSuppression(m) ==
    {i \in DOMAIN allowList : /\ ~allowList[i].deleted /\ allowList[i].rule = m.rule
                              /\ matchesPattern(allowList[i], m)}
-----------------------------------------------------------------------------
\* sale, rest: the sale at hand and those still to come; entries: how long the allow
\* list was at the lookup; clean: no statement failed for this sale.
Idle == [at |-> "idle", sale |-> 0, rest |-> <<>>, todo |-> {}, match |-> 0, entries |-> 0,
         dismissed |-> FALSE, lookedUp |-> FALSE, clean |-> TRUE, count |-> 0]

Init ==
    /\ log \in UNION {[1 .. n -> Events] : n \in 0 .. MaxLog}
    /\ sales \in [1 .. MaxSales -> Sales]
    /\ allowList = <<>>
    /\ job = Idle /\ detections = <<>> /\ screened = {} /\ evaluations = 0 /\ faults = 0

\* A row of the allow list.  The screens leave rule_id NULL.
Entry(scr, rule, value) ==
    [kind |-> scr.kind, type |-> scr.type, rule |-> rule, value |-> value, deleted |-> FALSE]

AddEntry(entry) ==
    /\ Len(allowList) < MaxEntries
    /\ allowList' = Append(allowList, entry)
    /\ UNCHANGED <<world, job, detections, screened, evaluations, faults>>

\* A form without the fields its screen needs is sent back and changes nothing.
lpScreenPost(scr, filled, value) ==
    /\ scr.needs \subseteq filled
    /\ AddEntry(Entry(scr, NoOne, value))

\* External: a row with a rule_id, which only a direct INSERT makes.
InsertForRule(rule, c) ==
    AddEntry(Entry([kind |-> "dead_count", type |-> "allowlist"], rule, c))

lpScreenDelete(i) ==
    /\ ~allowList[i].deleted
    /\ allowList' = [allowList EXCEPT ![i].deleted = TRUE]
    /\ UNCHANGED <<world, job, detections, screened, evaluations, faults>>
-----------------------------------------------------------------------------
(* The evaluation *)

Fail == faults < MaxFaults /\ faults' = faults + 1

\* The evaluate endpoint names one sale, evaluate-batch all from a moment on: with
\* sales numbered as they were created, all from the k-th.
Start(rest) ==
    /\ job.at = "idle" /\ evaluations < MaxEvaluations
    /\ evaluations' = evaluations + 1
    /\ job' = [Idle EXCEPT !.at = "next", !.rest = rest]
    /\ UNCHANGED <<world, allowList, detections, screened, faults>>

Evaluate(k) == Start(<<k>>)
EvaluateBatch(k) == Start([i \in 1 .. Len(sales) + 1 - k |-> k + i - 1])

\* LoadTransaction, LoadRules, LoadEvalContext and the evaluators.  A failed load skips
\* the sale.
EvaluateTransaction ==
    /\ job.at = "next" /\ job.rest # <<>>
    /\ \/ /\ job' = [job EXCEPT !.at = "matched", !.sale = Head(job.rest), !.clean = TRUE,
                                !.rest = Tail(@),
                                !.todo = Matches(LoadEvalContext(sales[Head(job.rest)]))]
          /\ UNCHANGED faults
       \/ Fail /\ job' = [job EXCEPT !.rest = Tail(@)]
    /\ UNCHANGED <<world, allowList, detections, screened, evaluations>>

\* Rules run in the order of their codes, for which any fixed order stands.  A failed
\* lookup counts as no entry.
LookUp ==
    /\ job.at = "matched" /\ job.todo # {}
    /\ \E found \in BOOLEAN : LET m == CHOOSE x \in job.todo : TRUE IN
        /\ IF found THEN UNCHANGED faults ELSE Fail
        /\ job' = [job EXCEPT !.at = "checked", !.todo = @ \ {m}, !.match = m,
                              !.entries = Len(allowList), !.lookedUp = found,
                              !.dismissed = found /\ CheckSuppression(m) # {}]
    /\ UNCHANGED <<world, allowList, detections, screened, evaluations>>

\* A match without a cashier takes the sale's.
buildDetection(m) ==
    [sale |-> job.sale, match |-> m, evaluation |-> evaluations,
     cashier |-> IF m.cashier # NoOne THEN m.cashier ELSE sales[job.sale].cashier,
     status |-> IF job.dismissed THEN "dismissed" ELSE "new",
     lookedUp |-> job.lookedUp, entries |-> job.entries]

\* A statement that fails is skipped and not counted, although the row may be there
\* when only its reply was lost.
InsertDetection ==
    /\ job.at = "checked"
    /\ \/ /\ detections' = Append(detections, buildDetection(job.match))
          /\ job' = [job EXCEPT !.at = "matched", !.count = @ + 1]
          /\ UNCHANGED faults
       \/ /\ Fail
          /\ job' = [job EXCEPT !.at = "matched", !.clean = FALSE]
          /\ \/ UNCHANGED detections
             \/ detections' = Append(detections, buildDetection(job.match))
    /\ UNCHANGED <<world, allowList, screened, evaluations>>

NextSale ==
    /\ job.at = "matched" /\ job.todo = {}
    /\ job' = [job EXCEPT !.at = "next", !.sale = 0]
    /\ screened' = IF job.clean THEN screened \union {job.sale} ELSE screened
    /\ UNCHANGED <<world, allowList, detections, evaluations, faults>>

Answer ==
    /\ job.at = "next" /\ job.rest = <<>>
    /\ job' = Idle
    /\ UNCHANGED <<world, allowList, detections, screened, evaluations, faults>>

Next ==
    \/ \E scr \in {scr \in lpScreens : scr.kind \in ScreenKinds} : \E filled \in {{}, scr.needs} :
        \E v \in Cashiers : lpScreenPost(scr, filled, v)
    \/ \E r \in RowRules, c \in Cashiers \union Managers : InsertForRule(r, c)
    \/ \E i \in DOMAIN allowList : lpScreenDelete(i)
    \/ \E k \in DOMAIN sales : Evaluate(k) \/ EvaluateBatch(k)
    \/ EvaluateTransaction \/ LookUp \/ InsertDetection \/ NextSale \/ Answer

Spec == Init /\ [][Next]_vars
-----------------------------------------------------------------------------
\* The type invariant.
TypeOK ==
    /\ Len(log) <= MaxLog /\ Len(sales) <= MaxSales
    /\ \A i \in DOMAIN allowList :
        /\ allowList[i].kind \in {scr.kind : scr \in lpScreens}
        /\ allowList[i].rule \in RuleTypes \union {NoOne}
    /\ job.at \in {"idle", "next", "matched", "checked"}
    /\ \A d \in DOMAIN detections :
        /\ detections[d].sale \in DOMAIN sales /\ detections[d].match.rule \in RuleTypes
        /\ detections[d].status \in {"new", "dismissed"}
    /\ screened \subseteq DOMAIN sales

\* Open around the moment t, on any day: what the operator of the store means by it.
OpenAround(t) ==
    \E d \in DOMAIN Hours : \E iv \in Hours[d] :
        t - (d - 1) * DayLen \in iv[1] - Tolerance .. iv[2] + Tolerance

\* A sale outside the padded hours of every day that was screened without a failed
\* statement has its detection (rules/hours.go), as has a refund with no sale behind
\* it (rules/refunds.go): a fault elsewhere in the batch or a malformed line hides none.
NothingOverlooked ==
    \A s \in screened :
        LET caught(rule) == \E d \in DOMAIN detections :
                detections[d].sale = s /\ detections[d].match.rule = rule
        IN  /\ ~OpenAround(sales[s].at) => caught("after_hours_transaction")
            /\ sales[s].type = "refund" /\ ~sales[s].linked => caught("refund_no_receipt")

\* A detection is dismissed at its insertion only on account of an entry made for its
\* own rule, whose employee is the one the rule named; such an entry is overlooked only
\* when its lookup failed.  What the settings screens post silences nothing, whatever
\* suppression.go:12 says, for their rows have no rule.
SilencedByRule ==
    \A d \in DOMAIN detections :
        LET found == {i \in 1 .. detections[d].entries :
                        /\ allowList[i].rule = detections[d].match.rule
                        /\ allowList[i].value = detections[d].match.cashier}
        IN  /\ detections[d].status = "dismissed" => found # {}
            /\ detections[d].status = "new" /\ detections[d].lookedUp =>
                   \A i \in found : allowList[i].deleted

\* One evaluation inserts one detection per match, and what a batch counts is there:
\* its count is short of what it inserted by at most one for each statement that
\* failed, whose row may be there although its reply was lost.
CountedOnce ==
    /\ \A c, d \in DOMAIN detections :
        c # d => \/ detections[c].evaluation # detections[d].evaluation
                 \/ detections[c].sale # detections[d].sale
                 \/ detections[c].match # detections[d].match
    /\ LET mine == {d \in DOMAIN detections : detections[d].evaluation = evaluations}
       IN  job.at # "idle" => Cardinality(mine) - job.count \in 0 .. faults

ScreeningSound == NothingOverlooked /\ SilencedByRule /\ CountedOnce
=============================================================================
