------------------------------- MODULE MCEdge -------------------------------
(***************************************************************************)
(* Edge, and the other components around the pipeline in the same way: a   *)
(* behaviour is one of the component that focus names.                     *)
(***************************************************************************)
EXTENDS Edge, Sequences, TLC

CONSTANTS
    Events, Clients, MaxAnchors, MaxTokens,                             \* L402
    Names, Owners, MaxRegs,                                             \* Namespaces
    ChainHashes, MaxLeaves,                                             \* MerkleTree
    Operators, Codes, Vendors, MaxFlows, MaxInserts,                    \* Catalog
    OpenFoodFacts, UPCItemDB, Others,                                   \* BarcodeLookup
    Items, Category, Promotions, PriceRows, Quantities, Rates, Scale, Fine,
    MaxPromos, MaxLines,                                                \* Pricing
    Cashiers, Managers, NoOne, ScreenedSales, ScreenedEvents, Parameter, DayLen, Hours,
    Tolerance, Window, ScreenKinds, RowRules, MaxLog, MaxSales, MaxEvaluations, MaxEntries, \* Screening
    MaxStumbles,                                                        \* Endpoints
    ListedRows, DefaultPage, MaxPage, Asks, MaxAdded, MaxLeft,          \* Listings
    Objects, Sendable, LastDay, MaxSent,                                \* Adapters
    SourceIds, Limits, SequenceIds, IdempotencyTTL, reloadEvery, LastMinute,
    MaxGuarded,                                                         \* Guards
    Readers, Whats, TTL, LastTime, MaxChanges, MaxReads                 \* Caches

LV == INSTANCE L402 WITH
    anchorsOf <- x1, tokens <- x2, visits <- x3, answers <- x4, unanswered <- x5

NS == INSTANCE Namespaces WITH
    row <- x1, inscribed <- x2, request <- x3, regs <- x4, made <- x5, created <- x6,
    seen <- x7

MT == INSTANCE MerkleTree WITH
    leaves <- x1, currentLevel <- x2, proofs <- x3

CA == INSTANCE Catalog WITH
    rows <- x1, status <- x2, flows <- x3, request <- x4, active <- x5,
    inserts <- x6, confirmed <- x7, unreported <- x8

BL == INSTANCE BarcodeLookup WITH
    answer <- x1, results <- x2, received <- x3, deadline <- x4, best <- x5,
    verdict <- x6

PR == INSTANCE Pricing WITH
    promos <- x1, prices <- x2, taxRate <- x3, channel <- x4, lines <- x5,
    cartTotal <- x6

SC == INSTANCE Screening WITH
    Sales <- ScreenedSales, Events <- ScreenedEvents,
    log <- x1, sales <- x2, allowList <- x3, job <- x4, detections <- x5,
    screened <- x6, evaluations <- x7, faults <- x8

EN == INSTANCE Endpoints WITH
    service <- x1, rows <- x2, derived <- x3, call <- x4, stumbles <- x5

LI == INSTANCE Listings WITH
    Rows <- ListedRows,
    listing <- x1, listed <- x2, walk <- x3, added <- x4, left <- x5

AD == INSTANCE Adapters WITH
    sent <- x1, waiting <- x2, stores <- x3, rows <- x4, acked <- x5,
    deadletters <- x6, left <- x7

GU == INSTANCE Guards WITH
    MaxCalls <- MaxGuarded,
    part <- x1, clock <- x2, call <- x3, made <- x4, keys <- x5, config <- x6,
    counter <- x7, log <- x8, told <- x9

CC == INSTANCE Caches WITH
    Whos <- Tenants,
    kind <- x1, clock <- x2, source <- x3, replaced <- x4, cache <- x5, reader <- x6,
    reads <- x7, answer <- x8

MCInit ==
    \/ EdgeInit
    \/ focus = "l402" /\ LV!Init /\ x6 = 0 /\ x7 = 0 /\ x8 = 0 /\ x9 = 0
    \/ focus = "namespaces" /\ NS!Init /\ x8 = 0 /\ x9 = 0
    \/ focus = "tree" /\ MT!Init /\ x4 = 0 /\ x5 = 0 /\ x6 = 0 /\ x7 = 0 /\ x8 = 0 /\ x9 = 0
    \/ focus = "catalog" /\ CA!Init /\ x9 = 0
    \/ focus = "barcode" /\ BL!Init /\ x7 = 0 /\ x8 = 0 /\ x9 = 0
    \/ focus = "pricing" /\ PR!Init /\ x7 = 0 /\ x8 = 0 /\ x9 = 0
    \/ focus = "screening" /\ SC!Init /\ x9 = 0
    \/ focus = "endpoints" /\ EN!Init /\ x6 = 0 /\ x7 = 0 /\ x8 = 0 /\ x9 = 0
    \/ focus = "listings" /\ LI!Init /\ x6 = 0 /\ x7 = 0 /\ x8 = 0 /\ x9 = 0
    \/ focus = "adapters" /\ AD!Init /\ x8 = 0 /\ x9 = 0
    \/ focus = "guards" /\ GU!Init
    \/ focus = "caches" /\ CC!Init /\ x9 = 0

StepL402 == focus = "l402" /\ LV!Next /\ UNCHANGED <<focus, x6, x7, x8, x9>>
StepNamespaces == focus = "namespaces" /\ NS!Next /\ UNCHANGED <<focus, x8, x9>>
StepMerkleTree == focus = "tree" /\ MT!Next /\ UNCHANGED <<focus, x4, x5, x6, x7, x8, x9>>
StepCatalog == focus = "catalog" /\ CA!Next /\ UNCHANGED <<focus, x9>>
StepBarcodeLookup == focus = "barcode" /\ BL!Next /\ UNCHANGED <<focus, x7, x8, x9>>
StepPricing == focus = "pricing" /\ PR!Next /\ UNCHANGED <<focus, x7, x8, x9>>
StepScreening == focus = "screening" /\ SC!Next /\ UNCHANGED <<focus, x9>>
StepEndpoints == focus = "endpoints" /\ EN!Next /\ UNCHANGED <<focus, x6, x7, x8, x9>>
StepListings == focus = "listings" /\ LI!Next /\ UNCHANGED <<focus, x6, x7, x8, x9>>
StepAdapters == focus = "adapters" /\ AD!Next /\ UNCHANGED <<focus, x8, x9>>
StepGuards == focus = "guards" /\ GU!Next /\ UNCHANGED focus
StepCaches == focus = "caches" /\ CC!Next /\ UNCHANGED <<focus, x9>>

MCNext ==
    \/ EdgeNext
    \/ StepL402 \/ StepNamespaces \/ StepMerkleTree \/ StepCatalog \/ StepBarcodeLookup
    \/ StepPricing \/ StepScreening \/ StepEndpoints \/ StepListings \/ StepAdapters
    \/ StepGuards \/ StepCaches

MCSpec == MCInit /\ [][MCNext]_edgeVars
-----------------------------------------------------------------------------
\* A verification token buys one proof of the event it was sold for (L402); a
\* name of the registry has one owner for good (Namespaces); the tree that
\* BuildMerkleTree builds level by level is the reference tree, its root is of one
\* list of leaves only, and a proof verifies for its own leaf alone (MerkleTree);
\* however often and in which order a source's events arrive, what it sold is in
\* the books once and at its amount (Adapters); an id is taken as fresh once while
\* its key lives, a limit is kept, and a hole in a sequence is flagged (Guards).
ProtocolSound ==
    /\ focus = "l402" => LV!TypeOK /\ LV!OneProofPerToken
    /\ focus = "namespaces" => NS!TypeOK /\ NS!NameHasOneOwner
    /\ focus = "tree" =>
        MT!LevelInvariant /\ MT!ProofsBind /\ MT!MeetsReference /\ MT!RootBindsLeaves
    /\ focus = "adapters" => AD!RecordsSound
    /\ focus = "guards" => GU!GuardsSound

\* A code names one item for good, and what is there are the whole items that were
\* reported as created and those whose commit lost its reply (Catalog); a barcode
\* lookup gives the most confident answer it read (BarcodeLookup); a line is
\* charged the lowest price that the promotions allow together, and a cart the
\* sum of its lines (Pricing).
CatalogSound ==
    /\ focus = "catalog" => CA!TypeOK /\ CA!CatalogWhole
    /\ focus = "barcode" => BL!TypeOK /\ BL!BestAnswerWins
    /\ focus = "pricing" => PR!TypeOK /\ PR!CartPriced

\* No fault elsewhere in an evaluation and no malformed line hides a match, an
\* allow-list entry silences only matches of its own rule, and a batch counts what
\* it inserted, short only of inserts whose reply was lost (Screening).
ScreeningSound == focus = "screening" => SC!TypeOK /\ SC!ScreeningSound

\* The answer of a handler tells what it did: a refusal left nothing behind, an
\* "ok" did it all, a row that is there is found, of two requests for a
\* transition one is told that it made it, and outside the routes that go by an
\* id alone an answer rests on the caller's rows (Endpoints); a walk through the
\* pages of a listing with a total order misses no row that was there (Listings);
\* a cache answers from the caller's own key and is stale for its TTL only (Caches).
AnswersSound ==
    /\ focus = "endpoints" => EN!AnswersSound
    /\ focus = "listings" => LI!TypeOK /\ LI!WalkComplete /\ LI!ShortAnswerWhole
    /\ focus = "caches" => CC!TypeOK /\ CC!StaleForTTLOnly
-----------------------------------------------------------------------------
\* The values of the constants that a configuration cannot write down.
\* Requests are alike wherever they occur (SquareAuth, ApiKeys, Catalog), and so are
\* tenants (ApiKeys, Namespaces, Caches).
MCSymmetry == Permutations(KeyRequests) \union Permutations(Tenants)

MCGrants == {{"create", "data"}, {"create", "revoke"}, {"admin"}}

Name(s, l, h, p) == [suffix |-> s, length |-> l, hyphen |-> h, plain |-> p]
MCNames == {Name(TRUE, 3, FALSE, TRUE), Name(TRUE, 63, FALSE, TRUE), Name(TRUE, 64, FALSE, TRUE),
            Name(TRUE, 2, FALSE, TRUE), Name(FALSE, 5, FALSE, TRUE), Name(TRUE, 5, TRUE, TRUE),
            Name(TRUE, 5, FALSE, FALSE)}

MCItems == {"tea", "mug"}
MCCategory == [i \in MCItems |-> IF i = "tea" THEN "food" ELSE "goods"]

Rule(trigger, quantity, items, benefit, value) ==
    [trigger |-> trigger, minQuantity |-> quantity, items |-> items, benefit |-> <<benefit, value>>]
Promo(id, stack, scope, channels, rules) ==
    [id |-> id, stackable |-> stack, scope |-> scope, channels |-> channels, rules |-> rules]
MCPromotions ==
    {Promo(1, FALSE, "item", {}, <<Rule("", 0, {}, "percent_off", 1)>>),
     Promo(2, FALSE, "item", {}, <<Rule("buy_quantity", 8, {"tea"}, "amount_off", 4)>>),
     Promo(3, FALSE, "category", {"web"}, <<Rule("", 0, {"food"}, "fixed_price", 3)>>),
     Promo(4, TRUE, "item", {}, <<Rule("spend_amount", 0, {"tea"}, "amount_off", 2),
                                  Rule("", 0, {}, "bogo", 0)>>),
     Promo(5, TRUE, "category", {}, <<Rule("buy_quantity", 6, {"goods"}, "percent_off", 3)>>),
     Promo(6, TRUE, "item", {"brick"}, <<Rule("", 0, {"mug"}, "bogo", 0)>>),
     Promo(7, FALSE, "brand", {}, <<>>)}

Price(item, place, type, start, amount) ==
    [item |-> item, place |-> place, type |-> type, start |-> start, amount |-> amount]
MCPriceRows ==
    {Price("tea", "location", "regular", 1, 55), Price("tea", "tenant", "regular", 1, 62),
     Price("mug", "tenant", "sale", 1, 70), Price("mug", "catalog", "regular", 0, 91)}

Line(void, total, price, off, list, return) ==
    [void |-> void, total |-> total, price |-> price, off |-> off, list |-> list,
     return |-> return]
Sale(type, linked, cashier, at, subtotal, lines, discounts) ==
    [type |-> type, linked |-> linked, cashier |-> cashier, at |-> at, subtotal |-> subtotal,
     lines |-> lines, discounts |-> discounts]
\* Screening's Unreadable (an instance's own definitions cannot be used for the values
\* of its constants).
Unreadable == -1000000
Cashier == CHOOSE c \in Cashiers : TRUE
MCSales ==
    {Sale("sale", FALSE, Cashier, 0, 1000,
          <<Line(TRUE, -6000, 1000, 0, 0, FALSE), Line(FALSE, 400, 1000, 600, 0, FALSE)>>,
          <<[by |-> Cashier, amount |-> 200]>>),
     Sale("return", TRUE, Cashier, 5, 500, <<Line(FALSE, 500, 500, 0, 1000, TRUE)>>, <<>>),
     Sale("refund", FALSE, NoOne, 10, 500,
          <<Line(TRUE, Unreadable, 500, 0, 0, TRUE)>>, <<>>)}
Event(type, by, variance, at) ==
    [type |-> type, cashier |-> Cashier, by |-> by, variance |-> variance, at |-> at]
MCEvents ==
    {Event("override", CHOOSE m \in Managers : TRUE, 0, 4), Event("drawer", NoOne, -600, 5)}
MCParameter ==
    [r \in {"void_threshold", "manager_override_frequency"} |->
        IF r = "manager_override_frequency" THEN 1 ELSE 0]
MCHours == <<{<<1, 2>>}, {<<2, 3>>, <<4, 4>>}, {<<3, 3>>}>>
Thing(source, type, number) ==
    [source |-> source, type |-> type, number |-> number, store |-> "main", day |-> 1]
MCObjects ==
    {Thing("square", "payment", "p"), Thing("square", "refund", "q"), Thing("square", "other", "p"),
     Thing("counterpoint", "TKT", "d"), Thing("counterpoint", "RET", "d"),
     Thing("clover", "payment", "c")}
Numbered(n) == [number |-> n, quantity |-> 1]
MCLineLists == {<<>>, <<Numbered(1), Numbered(2)>>, <<Numbered(0), Numbered(0)>>}
\* Only a document has lines, only a Square event an envelope with a day; an event is
\* ingested after its object was made; of one that no adapter makes a row of there is
\* one kind.
MCSendable ==
    {e \in [of : MCObjects, amount : {7, 120}, dated : BOOLEAN, on : 0..LastDay,
            ingested : 1..LastDay, whole : BOOLEAN, lines : MCLineLists] :
        /\ e.of.source # "counterpoint" => e.lines = << >>
        /\ e.of.source = "counterpoint" \/ e.dated => e.on = 0
        /\ ~e.whole \/ e.of.type = "other" \/ e.of.source = "clover" =>
              e.lines = << >> /\ e.dated /\ e.amount = 7 /\ e.ingested = 1
        /\ e.ingested >= e.of.day /\ (e.on # 0 => e.on \in e.of.day..e.ingested)}

=============================================================================
