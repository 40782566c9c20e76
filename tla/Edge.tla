-------------------------------- MODULE Edge --------------------------------
(***************************************************************************)
(* Components at the edge of the pipeline, one at a time.  They share no   *)
(* state in the code (each has tables, Valkey keys or memory of its own),  *)
(* so a behaviour of this module is a behaviour of one of them, chosen by  *)
(* focus, and the variables x1, x2, ... stand for the state of that        *)
(* component; a component of fewer variables leaves the rest at 0.         *)
(***************************************************************************)
EXTENDS Integers, FiniteSets

CONSTANTS
    Callers, Threshold, IPThreshold, RateLimitRPM, MaxCalls, MaxErrors, \* Access
    Tenants, KeyRequests, Grants, MaxKeys,                              \* ApiKeys
    Hosts, TouchedKeys, MaxTouches,                                     \* LastUsed
    Requests, States, MaxPairs, MaxFaults,                              \* SquareAuth
    Challenges, Wallets, Replicas, MaxPolls,                            \* Lnurl
    Shops, MaxDocs, MaxDate, fetchLimit, MaxSnags,                      \* Poller
    Payers, MaxInt, MaxPays,                                            \* Budgets
    Suppliers, PONumbers, Buyers, MaxUpdates,                           \* Purchasing
    Receipts, Clerks, Engines, MaxExecutions, MaxAdvances               \* Receiving

\* What the components need of their constants: bounds are numbers, the sets of actors
\* whose steps are counted are finite, thresholds are at least one, and the words that
\* stand for the absence of a wallet or of a payer are none themselves.
ASSUME EdgeAssumption ==
    /\ Threshold \in Nat \ {0} /\ IPThreshold \in Nat \ {0} /\ RateLimitRPM \in Nat
    /\ MaxCalls \in Nat /\ MaxErrors \in Nat /\ IsFiniteSet(Callers)
    /\ MaxKeys \in Nat /\ IsFiniteSet(KeyRequests)
    /\ Grants \subseteq SUBSET {"create", "revoke", "admin", "data"}
    /\ MaxTouches \in Nat
    /\ MaxPairs \in Nat /\ MaxFaults \in Nat
    /\ {"waiting", "missed", "gone", "none"} \intersect Wallets = {} /\ MaxPolls \in Nat
    /\ MaxDocs \in Nat /\ MaxDate \in Nat /\ fetchLimit \in Nat /\ MaxSnags \in Nat
    /\ IsFiniteSet(Shops)
    /\ "nobody" \notin Payers /\ MaxInt \in Nat /\ MaxPays \in Nat
    /\ MaxUpdates \in Nat
    /\ MaxExecutions \in Nat /\ MaxAdvances \in Nat /\ IsFiniteSet(Clerks)

VARIABLES focus, x1, x2, x3, x4, x5, x6, x7, x8, x9

AC == INSTANCE Access WITH
    failed <- x1, lockout <- x2, minute <- x3, apiKey <- x4, call <- x5,
    guesses <- x6, served <- x7, calls <- x8, errors <- x9

AK == INSTANCE ApiKeys WITH
    Requests <- KeyRequests, apiKeys <- x1, claims <- x2, minters <- x3,
    revoker <- x4, late <- x5

LU == INSTANCE LastUsed WITH
    ApiKeys <- TouchedKeys, pending <- x1, snapshot <- x2, flusher <- x3,
    context <- x4, row <- x5, clock <- x6, before <- x7, written <- x8, failed <- x9

SQ == INSTANCE SquareAuth WITH
    MaxTokens <- MaxPairs,
    cookie <- x1, session <- x2, codes <- x3, live <- x4, successor <- x5, row <- x6,
    request <- x7, issued <- x8, faults <- x9

LN == INSTANCE Lnurl WITH
    challenges <- x1, linkedKeys <- x2, pendingTokens <- x3, callbacks <- x4,
    browser <- x5, polls <- x6, issued <- x7

PO == INSTANCE Poller WITH
    source <- x1, garbled <- x2, cursor <- x3, todo <- x4, batch <- x5,
    latestDate <- x6, stage <- x7, sent <- x8, snags <- x9

BU == INSTANCE Budgets WITH
    budget <- x1, payment <- x2, rowLock <- x3, pays <- x4, charged <- x5

PU == INSTANCE Purchasing WITH
    suppliers <- x1, orders <- x2, update <- x3, overtaken <- x4

RE == INSTANCE Receiving WITH
    documents <- x1, definition <- x2, executions <- x3, clerk <- x4, engine <- x5,
    clock <- x6, stamps <- x7, endings <- x8

EdgeInit ==
    \/ focus = "access" /\ AC!Init
    \/ focus = "keys" /\ AK!Init /\ x6 = 0 /\ x7 = 0 /\ x8 = 0 /\ x9 = 0
    \/ focus = "last_used" /\ LU!Init
    \/ focus = "square" /\ SQ!Init
    \/ focus = "lnurl" /\ LN!Init /\ x8 = 0 /\ x9 = 0
    \/ focus = "poller" /\ PO!Init
    \/ focus = "budgets" /\ BU!Init /\ x6 = 0 /\ x7 = 0 /\ x8 = 0 /\ x9 = 0
    \/ focus = "purchasing" /\ PU!Init /\ x5 = 0 /\ x6 = 0 /\ x7 = 0 /\ x8 = 0 /\ x9 = 0
    \/ focus = "receiving" /\ RE!Init /\ x9 = 0

StepAccess == focus = "access" /\ AC!Next /\ UNCHANGED focus
StepApiKeys == focus = "keys" /\ AK!Next /\ UNCHANGED <<focus, x6, x7, x8, x9>>
StepLastUsed == focus = "last_used" /\ LU!Next /\ UNCHANGED focus
StepSquareAuth == focus = "square" /\ SQ!Next /\ UNCHANGED focus
StepLnurl == focus = "lnurl" /\ LN!Next /\ UNCHANGED <<focus, x8, x9>>
StepPoller == focus = "poller" /\ PO!Next /\ UNCHANGED focus
StepBudgets == focus = "budgets" /\ BU!Next /\ UNCHANGED <<focus, x6, x7, x8, x9>>
StepPurchasing ==
    focus = "purchasing" /\ PU!Next /\ UNCHANGED <<focus, x5, x6, x7, x8, x9>>
StepReceiving == focus = "receiving" /\ RE!Next /\ UNCHANGED <<focus, x9>>

EdgeNext ==
    \/ StepAccess \/ StepApiKeys \/ StepLastUsed \/ StepSquareAuth \/ StepLnurl
    \/ StepPoller \/ StepBudgets \/ StepPurchasing \/ StepReceiving

edgeVars == <<focus, x1, x2, x3, x4, x5, x6, x7, x8, x9>>
EdgeSpec == EdgeInit /\ [][EdgeNext]_edgeVars
-----------------------------------------------------------------------------
\* Each component's invariant is its property and type, with the relations between its
\* steps in progress and its tables that make the two inductive.

\* The lockouts hold however the Valkey commands of concurrent requests
\* interleave (Access); along a chain of mintings scopes only shrink and keys
\* stay in their tenant (ApiKeys); a graceful shutdown loses no touch of a key
\* that was made before the signal (LastUsed).
CredentialsSound ==
    /\ focus = "access" => AC!LockoutInv
    /\ focus = "keys" => AK!KeysInv
    /\ focus = "last_used" => LU!RecorderInv

\* A challenge logs in one wallet, once (Lnurl); no interleaving of dashboards,
\* callbacks and disconnects leaves a pair of tokens stored that Square no
\* longer accepts (SquareAuth).
LogInSound ==
    /\ focus = "lnurl" => LN!LoginInv /\ LN!OneLoginPerChallenge
    /\ focus = "square" => SQ!PairInv

\* A hard budget is not exceeded by charges that overlap or whose sum wraps, and
\* its row says what was charged (Budgets); an order is not received before it
\* was submitted, and one that ended stays so unless requests overlapped
\* (Purchasing); a workflow execution ends once and keeps the status it ended
\* with, and a receipt its first completed_at (Receiving).
BooksSound ==
    /\ focus = "budgets" => BU!PaidInv
    /\ focus = "purchasing" => PU!OrderInv
    /\ focus = "receiving" => RE!FinishInv

\* The poller's cursor passes no document that was not published (Poller).
NothingLeftBehind == focus = "poller" => PO!CursorInv
=============================================================================
