------------------------------ MODULE Listings ------------------------------
(***************************************************************************)
(* The list queries of the stores: what they sort by, what hides a row     *)
(* from them and how they page, and a client that walks through one of     *)
(* them, page after page, while rows are added and rows leave.             *)
(***************************************************************************)
EXTENDS Naturals, Sequences, FiniteSets

CONSTANTS
    Rows,           \* rows, numbered in the order of the keys they sort by
    DefaultPage, MaxPage,   \* the page that is given by default (50 or 100), and at most (200 or 500)
    Asks,           \* page sizes a client asks for; 0 stands for none
    MaxAdded, MaxLeft

(* by: the ORDER BY; leaving: how a row stops being listed between two     *)
(* pages, by a status that is hidden or by no longer having the status     *)
(* that was asked for; pages: with OFFSET, LIMIT alone, or all in one;     *)
(* told: the answer repeats the limit that was applied.                    *)
Listing(by, leaving, pages, told) == [by |-> by, leaving |-> leaving, pages |-> pages, told |-> told]
Paged(by, leaving) == Listing(by, leaving, "offset", FALSE)
PagedAndTold(by, leaving) == Listing(by, leaving, "offset", TRUE)
Latest(by) == Listing(by, {}, "limit", FALSE)
Whole(by) == Listing(by, {}, "all", FALSE)

Never == {}
ByStatus == {"another status"}
-----------------------------------------------------------------------------
(* With OFFSET *)
CustomerList == Paged(<<"created_at">>, {"merged"})
EmployeeList == Paged(<<"last_name", "first_name">>, ByStatus)
AssetList == Paged(<<"description">>, ByStatus)
ReturnsList == Paged(<<"ended_at">>, Never)
TransactionList == PagedAndTold(<<"started_at">>, ByStatus)
CasemgmtListCases == PagedAndTold(<<"opened_at">>, ByStatus)
FoxListCases == PagedAndTold(<<"opened_at">>, ByStatus)
AlertList == Paged(<<"detected_at">>, {"dismissed", "duplicate"})
ListDetections == Paged(<<"detected_at">>, Never)
DLQList == Paged(<<"created_at">>, ByStatus)
ItemList == PagedAndTold(<<"created_at", "id">>, ByStatus)
ListPositions == PagedAndTold(<<"location_id", "item_id">>, Never)
ListMovements == PagedAndTold(<<"movement_at">>, Never)

(* With LIMIT alone *)
POList == Latest(<<"created_at">>)
SupplierList == Latest(<<"supplier_name">>)
ListDocuments == Latest(<<"created_at">>)
ListDistributionLanes == Latest(<<"total_variance">>)
ListExecutions == Latest(<<"started_at">>)
ListByTenant == Latest(<<"priority", "created_at">>)
SubstrateListByLocation == Latest(<<"received_at">>)
AllowListList == Latest(<<"created_at">>)
AllowListListByRuleID == Latest(<<"created_at">>)
AllowListListByPattern == Latest(<<"created_at">>)
GetGaps == Latest(<<"received_at">>)
ListByMerchant == Latest(<<"created_at">>)
ListRecent == Latest(<<"registered_at">>)
ListAnchors == Latest(<<"anchored_at">>)
ListTokens == Latest(<<"created_at">>)
ListPartyRFM == Latest(<<"party_value">>)
VelocityItems == Latest(<<"total_qty">>)

(* Without LIMIT *)
CasemgmtListActions == Whole(<<"performed_at", "id">>)
CasemgmtListEvidence == Whole(<<"collected_at", "id">>)
FoxListActions == Whole(<<"performed_at">>)
FoxListEvidence == Whole(<<"collected_at">>)
ReportList == Whole(<<"created_at">>)
ListBudgets == Whole(<<"budget_period">>)
ListNodes == Whole(<<"level", "name">>)
ListLocations == Whole(<<"location_name">>)
ListCategories == Whole(<<"level", "code">>)
ListVendors == Whole(<<"name">>)
ListRules == Whole(<<"rule_code">>)
ListLines == Whole(<<"line_number">>)
ListDocumentLines == Whole(<<"line_number">>)
ListDefinitions == Whole(<<"workflow_code", "version">>)
ListPromotionRules == Whole(<<"rule_order">>)
ListTaxRates == Whole(<<"location_id", "code">>)
GetMemberships == Whole(<<"program_code", "created_at">>)

AllListings ==
    {CustomerList, EmployeeList, AssetList, ReturnsList, TransactionList, CasemgmtListCases,
     FoxListCases, AlertList, ListDetections, DLQList, ItemList, ListPositions, ListMovements,
     POList, SupplierList, ListDocuments, ListDistributionLanes, ListExecutions, ListByTenant,
     SubstrateListByLocation, AllowListList, AllowListListByRuleID, AllowListListByPattern,
     GetGaps, ListByMerchant, ListRecent, ListAnchors, ListTokens, ListPartyRFM, VelocityItems,
     CasemgmtListActions, CasemgmtListEvidence, FoxListActions, FoxListEvidence, ReportList,
     ListBudgets, ListNodes, ListLocations, ListCategories, ListVendors, ListRules, ListLines,
     ListDocumentLines, ListDefinitions, ListPromotionRules, ListTaxRates, GetMemberships}
-----------------------------------------------------------------------------
VARIABLES
    listing,        \* the query
    listed,         \* rows that it finds
    walk,           \* the client: the size it asks for, how far it is, what it got
    added, left     \* rows added, and rows that left

vars == <<listing, listed, walk, added, left>>

(* What no two rows of a tenant have alike. *)
UniqueKeys == {{"id"}, {"location_id", "item_id"}}
Total(l) == \E u \in UniqueKeys : u \subseteq {l.by[i] : i \in DOMAIN l.by}

(* Where keys tie, neighbours have the same, and Postgres may return them  *)
(* in either order, another one in every query.                            *)
Key(r) == IF walk.tied THEN (r + 1) \div 2 ELSE r
Sorted(front, rest) == \A r \in front, s \in rest : Key(r) <= Key(s)

Limit(asked) == IF asked = 0 \/ asked > MaxPage THEN DefaultPage ELSE asked

Smaller(m, n) == IF m < n THEN m ELSE n

(* The pages that LIMIT and OFFSET may cut out of the rows. *)
Page(l, rows, offset, limit) ==
    LET skipped == Smaller(offset, Cardinality(rows))
        size == Smaller(limit, Cardinality(rows) - skipped) IN
    IF l.pages = "all" THEN {rows}
    ELSE {p \in SUBSET rows :
            /\ Cardinality(p) = size
            /\ \E before \in SUBSET (rows \ p) :
                 /\ Cardinality(before) = skipped
                 /\ Sorted(before, rows \ before)
                 /\ Sorted(before \cup p, rows \ (before \cup p))}

Init ==
    /\ listing \in AllListings
    /\ listed \in SUBSET Rows
    /\ \E asked \in Asks, tied \in IF Total(listing) THEN {FALSE} ELSE BOOLEAN :
           walk = [asked |-> asked, tied |-> tied, offset |-> 0, got |-> {},
                   done |-> FALSE, due |-> listed]
    /\ added = {} /\ left = {}

(* The next page.  The client goes on behind what it got, until a page is  *)
(* shorter than the one it asked for, or than the limit it is told.        *)
Fetch ==
    /\ ~walk.done
    /\ \E page \in Page(listing, listed, walk.offset, Limit(walk.asked)) :
         LET n == Cardinality(page)
             full == IF listing.told \/ walk.asked = 0 THEN Limit(walk.asked) ELSE walk.asked IN
         walk' = [walk EXCEPT !.offset = @ + n, !.got = @ \cup page,
                              !.done = listing.pages # "offset" \/ n < full]
    /\ UNCHANGED <<listing, listed, added, left>>

Add(r) ==
    /\ ~walk.done
    /\ r \notin listed \cup left /\ Cardinality(added) < MaxAdded
    /\ listed' = listed \cup {r} /\ added' = added \cup {r}
    /\ UNCHANGED <<listing, walk, left>>

Leave(r) ==
    /\ ~walk.done
    /\ listing.leaving # Never
    /\ r \in listed /\ Cardinality(left) < MaxLeft
    /\ listed' = listed \ {r} /\ left' = left \cup {r}
    /\ UNCHANGED <<listing, walk, added>>

Next == Fetch \/ \E r \in Rows : Add(r) \/ Leave(r)

Spec == Init /\ [][Next]_vars
-----------------------------------------------------------------------------
TypeOK ==
    /\ listing \in AllListings
    /\ listed \subseteq Rows /\ walk.got \subseteq Rows
    /\ walk.offset <= Cardinality(Rows)

(* A finished walk got every row that was there from its start, unless     *)
(* keys tie, a row left, or the client asked for more than it is given and *)
(* is not told; rows that are added make it see a row twice, never miss    *)
(* one.                                                                    *)
WalkComplete ==
    /\ listing.pages = "offset"
    /\ walk.done
    /\ ~walk.tied /\ left = {}
    /\ listing.told \/ walk.asked <= MaxPage
    => walk.due \subseteq walk.got

(* One answer that is not full is everything. *)
ShortAnswerWhole ==
    listing.pages # "offset" /\ walk.done /\ Cardinality(walk.got) < Limit(walk.asked)
      => walk.due \subseteq walk.got
=============================================================================
