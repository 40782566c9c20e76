----------------------------- MODULE CasesProofs -----------------------------
(***************************************************************************)
(* Proofs about detections, cases and evidence for any number of requests  *)
(* in flight, rules and calls, with every overlap of the services and      *)
(* every failed statement and killed request of Cases.                     *)
(***************************************************************************)
EXTENDS Cases, FiniteSetTheorems, SequenceTheorems, WellFoundedInduction, TLAPS

DetectionRow == [status : Statuses, rule : Rules, case : Nat]

CaseRow == [status : {"open", "closed"}, subject : {NoOne, Subject}, det : Hashes, seen : Nat]

EvidenceRow == [case : Nat, payload : Hashes, prev : Hashes \union {NoHash}, stamp : Nat,
                alone : BOOLEAN]

ActionRow == [case : Nat,
              action : {"status_change", "evidence_collected", "note", "resolution"}]

Item == [at : {"idle", "matched", "loaded", "open", "stamped", "chained"},
         todo : SUBSET Rules, det : Hashes, linked : BOOLEAN, case : Nat, stamp : Nat,
         prev : Hashes \union {NoHash}, mirror : BOOLEAN, seen : Nat, alone : BOOLEAN]

-----------------------------------------------------------------------------
(***************************************************************************)
(* The inductive invariant.  First the types, without the lengths of the   *)
(* tables, and then what the columns and the requests point at.            *)
(***************************************************************************)
RowsInv ==
    /\ detections \in Seq(DetectionRow)
    /\ cases \in Seq(CaseRow)
    /\ evidence \in Seq(EvidenceRow)
    /\ actions \in Seq(ActionRow)
    /\ work \in [Workers -> Item]
    /\ evaluations \in 0 .. MaxEvaluations
    /\ requests \in 0 .. MaxRequests

PointersInv ==
    /\ \A d \in 1 .. Len(detections) : detections[d].case <= Len(cases)
    /\ \A c \in 1 .. Len(cases) :
          cases[c].det <= Len(detections) /\ cases[c].seen <= Len(cases)
    /\ \A i \in 1 .. Len(evidence) :
          evidence[i].case \in 1 .. Len(cases) /\ evidence[i].stamp < i
    /\ \A i \in 1 .. Len(actions) : actions[i].case \in 1 .. Len(cases)

\* What request w, doing x, points at.
PointsWell(x) ==
    /\ x.det <= Len(detections) /\ x.case <= Len(cases)
    /\ x.seen <= Len(cases) /\ x.stamp <= Len(evidence)
    /\ x.at \in {"stamped", "chained"} => x.case # 0
    /\ x.at \in {"loaded", "open"} => x.det # 0
    /\ x.at = "open" => ~x.linked
    /\ x.at # "matched" => x.todo = {}

WorkInv == \A w \in Workers : PointsWell(work[w])

(***************************************************************************)
(* Detections are paid for by evaluations, and cases by requests: a match  *)
(* that is not inserted yet and a request that may still open a case hold  *)
(* what they may spend.                                                    *)
(***************************************************************************)
Unwritten == {m \in Workers \X Rules : m[2] \in work[m[1]].todo}

Opening == {w \in Workers : work[w].at \in {"loaded", "open"}}

BudgetInv ==
    /\ Len(detections) + Cardinality(Unwritten) <= evaluations * Cardinality(Rules)
    /\ Len(cases) + Cardinality(Opening) <= requests

(***************************************************************************)
(* A request that goes on to open a case saw none of its detection's.      *)
(***************************************************************************)
RaceInv ==
    /\ SecondCaseOnlyByRace
    /\ \A w \in Opening : ~work[w].linked =>
          \A c \in 1 .. Len(cases) : cases[c].det = work[w].det => work[w].seen < c

(***************************************************************************)
(* Two requests that append to one case are not alone; one that is alone   *)
(* has taken the time after every row of its case was committed; and where *)
(* all were alone, each row follows the one before it.                     *)
(***************************************************************************)
Mine(c) == {i \in 1 .. Len(evidence) : evidence[i].case = c}

\* p is what a row of case c points at if it comes at place n.
Follows(p, c, n) ==
    \/ (\A j \in Mine(c) : n <= j) /\ p = NoHash
    \/ \E j \in Mine(c) : /\ j < n /\ \A k \in Mine(c) : k <= j \/ n <= k
                          /\ p = evidence[j].payload

Serial(c) == \A i \in Mine(c) : evidence[i].alone

Appends(w) == work[w].at \in {"stamped", "chained"}

OverlapInv ==
    /\ \A v, w \in Workers :
          Appends(v) /\ Appends(w) /\ work[v].case = work[w].case /\ v # w => ~work[v].alone
    /\ \A w \in Workers : Appends(w) /\ work[w].alone =>
          \A i \in Mine(work[w].case) : i <= work[w].stamp
    /\ \A j \in 1 .. Len(evidence) : evidence[j].alone =>
          \A i \in Mine(evidence[j].case) : i < j => i <= evidence[j].stamp

ChainInv ==
    /\ \A w \in Workers : work[w].at = "chained" =>
          \/ work[w].prev = NoHash
          \/ \E j \in Mine(work[w].case) : work[w].prev = evidence[j].payload
    /\ \A w \in Workers :
          work[w].at = "chained" /\ work[w].alone /\ Serial(work[w].case) =>
              Follows(work[w].prev, work[w].case, Len(evidence) + 1)
    /\ \A i \in 1 .. Len(evidence) :
          Serial(evidence[i].case) => Follows(evidence[i].prev, evidence[i].case, i)

CaseIInv ==
    /\ RowsInv /\ PointersInv /\ WorkInv /\ BudgetInv
    /\ EscalatedPointsToCase /\ RaceInv /\ OverlapInv /\ ChainInv

-----------------------------------------------------------------------------
(***************************************************************************)
(* The bounds are numbers.                                                 *)
(***************************************************************************)
LEMMA Numbers ==
    /\ MaxEvaluations \in Nat /\ MaxRequests \in Nat /\ MaxFaults \in Nat
    /\ Cardinality(Rules) \in Nat
    /\ \A e \in 0 .. MaxEvaluations : e * Cardinality(Rules) \in Hashes
    /\ \A e \in Nat : (e + 1) * Cardinality(Rules) = e * Cardinality(Rules) + Cardinality(Rules)
    /\ 0 \in Hashes /\ Hashes \subseteq Nat /\ NoHash \notin Hashes
    /\ \A h \in Hashes : 0 .. h \subseteq Hashes
  <1> DEFINE K == Cardinality(Rules)
             M == MaxEvaluations
  <1>1. M \in Nat /\ MaxRequests \in Nat /\ MaxFaults \in Nat /\ K \in Nat
    BY FinitelyMany, FS_CardinalityType
  <1> HIDE DEF K, M
  <1>2. \A e \in 0 .. M : e * K \in Nat /\ e * K <= M * K
    <2> SUFFICES ASSUME NEW e \in 0 .. M PROVE e * K \in Nat /\ e * K <= M * K
      OBVIOUS
    <2>1. PICK x \in Nat : M = e + x
      <3>1. M - e \in Nat /\ M = e + (M - e)
        BY <1>1
      <3> QED BY <3>1
    <2>2. M * K = e * K + x * K /\ e * K \in Nat /\ x * K \in Nat
      BY <1>1, <2>1
    <2> QED BY <2>2
  <1>3. \A e \in Nat : (e + 1) * K = e * K + K
    BY <1>1
  <1>4. Hashes = 0 .. (M * K) /\ M * K \in Nat
    BY <1>1 DEF Hashes, Manual, K, M
  <1>5. \A e \in 0 .. M : e * K \in Hashes
    BY <1>2, <1>4
  <1>6. 0 \in Hashes /\ Hashes \subseteq Nat /\ NoHash \notin Hashes
        /\ \A h \in Hashes : 0 .. h \subseteq Hashes
    BY <1>4 DEF NoHash
  <1> QED BY <1>1, <1>3, <1>5, <1>6 DEF K, M

(***************************************************************************)
(* The tables as sequences.                                                *)
(***************************************************************************)
LEMMA Tables ==
    ASSUME RowsInv
    PROVE  /\ detections \in Seq(DetectionRow) /\ cases \in Seq(CaseRow)
           /\ evidence \in Seq(EvidenceRow) /\ actions \in Seq(ActionRow)
           /\ {Len(detections), Len(cases), Len(evidence), Len(actions)} \subseteq Nat
           /\ DOMAIN detections = 1 .. Len(detections) /\ DOMAIN cases = 1 .. Len(cases)
           /\ DOMAIN evidence = 1 .. Len(evidence) /\ DOMAIN actions = 1 .. Len(actions)
           /\ \A d \in 1 .. Len(detections) : detections[d] \in DetectionRow
           /\ \A c \in 1 .. Len(cases) : cases[c] \in CaseRow
           /\ \A i \in 1 .. Len(evidence) : evidence[i] \in EvidenceRow
           /\ \A i \in 1 .. Len(actions) : actions[i] \in ActionRow
           /\ work \in [Workers -> Item] /\ \A w \in Workers : work[w] \in Item
           /\ evaluations \in Nat /\ requests \in Nat
  <1>1. detections \in Seq(DetectionRow) /\ cases \in Seq(CaseRow)
        /\ evidence \in Seq(EvidenceRow) /\ actions \in Seq(ActionRow)
        /\ work \in [Workers -> Item] /\ evaluations \in Nat /\ requests \in Nat
    BY Numbers DEF RowsInv
  <1> QED BY <1>1

LEMMA Added ==
    ASSUME NEW S, NEW s \in Seq(S), NEW x \in S, NEW t, t = Append(s, x)
    PROVE  /\ t \in Seq(S) /\ Len(s) \in Nat /\ Len(t) = Len(s) + 1
           /\ t[Len(t)] = x /\ t[Len(s) + 1] = x
           /\ \A i \in 1 .. Len(s) : t[i] = s[i]
           /\ 1 .. Len(t) = (1 .. Len(s)) \union {Len(t)} /\ Len(t) \notin 1 .. Len(s)
  OBVIOUS

LEMMA Replaced ==
    ASSUME NEW S, NEW s \in Seq(S), NEW n \in 1 .. Len(s), NEW x \in S, NEW t,
           t = [s EXCEPT ![n] = x]
    PROVE  /\ t \in Seq(S) /\ Len(t) = Len(s) /\ t[n] = x
           /\ \A i \in 1 .. Len(s) : i # n => t[i] = s[i]
  OBVIOUS

(***************************************************************************)
(* What a request that does nothing points at.                             *)
(***************************************************************************)
LEMMA IdleItem ==
    /\ Idle \in Item /\ Idle.at = "idle" /\ Idle.todo = {} /\ Idle.det = 0 /\ Idle.case = 0
    /\ Idle.stamp = 0 /\ Idle.seen = 0 /\ ~Idle.linked /\ Idle.prev = NoHash
  <1>1. 0 \in Hashes
    BY Numbers
  <1> QED BY <1>1 DEF Idle, Item

(***************************************************************************)
(* Request v goes on where it was, and at most is not alone any more.      *)
(***************************************************************************)
Stays(v) ==
    /\ work'[v].at = work[v].at /\ work'[v].todo = work[v].todo /\ work'[v].det = work[v].det
    /\ work'[v].linked = work[v].linked /\ work'[v].case = work[v].case
    /\ work'[v].stamp = work[v].stamp /\ work'[v].prev = work[v].prev
    /\ work'[v].seen = work[v].seen
    /\ work'[v].alone => work[v].alone

LEMMA WorkSet ==
    ASSUME RowsInv, NEW w \in Workers, NEW x \in Item, work' = [work EXCEPT ![w] = x]
    PROVE  /\ work' \in [Workers -> Item] /\ work'[w] = x
           /\ \A v \in Workers : v # w => work'[v] = work[v]
           /\ \A v \in Workers : v # w => Stays(v)
  BY DEF RowsInv, Stays

LEMMA Stamped ==
    ASSUME RowsInv, NEW w \in Workers, NEW x \in Item, work' = Stamp(w, x)
    PROVE  /\ work' \in [Workers -> Item]
           /\ \A v \in Workers : v # w => Stays(v)
           /\ \A v \in Appending(x.case) : v # w => ~work'[v].alone
           /\ work'[w] \in Item /\ work'[w].at = "stamped" /\ work'[w].stamp = Len(evidence)
           /\ work'[w].alone = (Appending(x.case) = {})
           /\ work'[w].todo = x.todo /\ work'[w].det = x.det /\ work'[w].linked = x.linked
           /\ work'[w].case = x.case /\ work'[w].prev = x.prev /\ work'[w].seen = x.seen
  <1> DEFINE free == Appending(x.case) = {}
             y == [[[x EXCEPT !.at = "stamped"] EXCEPT !.stamp = Len(evidence)] EXCEPT !.alone = free]
  <1>1. Len(evidence) \in Nat /\ work \in [Workers -> Item] /\ \A v \in Workers : work[v] \in Item
    BY Tables
  <1>2. free \in BOOLEAN
    OBVIOUS
  <1>3. /\ y \in Item /\ y.at = "stamped" /\ y.stamp = Len(evidence) /\ y.alone = free
        /\ y.todo = x.todo /\ y.det = x.det /\ y.linked = x.linked
        /\ y.case = x.case /\ y.prev = x.prev /\ y.seen = x.seen
    <2> HIDE DEF free
    <2> QED BY <1>1, <1>2 DEF Item
  <1>4. work' = [v \in Workers |-> IF v = w THEN y
                                   ELSE IF v \in Appending(x.case)
                                        THEN [work[v] EXCEPT !.alone = FALSE] ELSE work[v]]
    BY DEF Stamp
  <1> HIDE DEF y, free
  <1>5. \A v \in Workers : LET z == [work[v] EXCEPT !.alone = FALSE] IN
           /\ z \in Item /\ z.at = work[v].at /\ z.todo = work[v].todo /\ z.det = work[v].det
           /\ z.linked = work[v].linked /\ z.case = work[v].case /\ z.stamp = work[v].stamp
           /\ z.prev = work[v].prev /\ z.seen = work[v].seen /\ ~z.alone
    BY <1>1 DEF Item
  <1>6. work'[w] = y /\ work' \in [Workers -> Item]
    BY <1>1, <1>3, <1>4, <1>5
  <1>7. \A v \in Workers : v # w => Stays(v)
    BY <1>4, <1>5 DEF Stays
  <1>8. \A v \in Appending(x.case) : v # w => ~work'[v].alone
    BY <1>4, <1>5 DEF Appending
  <1> QED BY <1>3, <1>6, <1>7, <1>8 DEF free

-----------------------------------------------------------------------------
(***************************************************************************)
(* How each part of the invariant is kept by a step of request w, in terms *)
(* of the tables and requests that the part reads.                         *)
(***************************************************************************)
LEMMA WorkKept ==
    ASSUME RowsInv, RowsInv', WorkInv, NEW w \in Workers, \A v \in Workers : v # w => Stays(v),
           Len(detections) <= Len(detections'), Len(cases) <= Len(cases'),
           Len(evidence) <= Len(evidence'), PointsWell(work[w])'
    PROVE  WorkInv'
  <1> SUFFICES ASSUME NEW v \in Workers, v # w PROVE PointsWell(work[v])'
    BY DEF WorkInv
  <1>1. PointsWell(work[v]) /\ Stays(v)
    BY DEF WorkInv
  <1>2. {Len(detections), Len(cases), Len(evidence)} \subseteq Nat
        /\ {Len(detections'), Len(cases'), Len(evidence')} \subseteq Nat /\ work[v] \in Item
    BY Tables DEF RowsInv
  <1>3. {work[v].det, work[v].case, work[v].seen, work[v].stamp} \subseteq Nat
    BY <1>2, Numbers DEF Item
  <1> QED BY <1>1, <1>2, <1>3 DEF PointsWell, Stays

LEMMA CountsFinite ==
    /\ IsFiniteSet(Unwritten) /\ Cardinality(Unwritten) \in Nat
    /\ IsFiniteSet(Opening) /\ Cardinality(Opening) \in Nat
  <1>1. IsFiniteSet(Workers \X Rules) /\ IsFiniteSet(Workers)
    BY FinitelyMany, FS_Product
  <1>2. Unwritten \subseteq Workers \X Rules /\ Opening \subseteq Workers
    BY DEF Unwritten, Opening
  <1> QED BY <1>1, <1>2, FS_Subset, FS_CardinalityType

LEMMA MatchesKept ==
    ASSUME BudgetInv, evaluations' = evaluations, Len(detections') = Len(detections),
           RowsInv, Unwritten' \subseteq Unwritten
    PROVE  (Len(detections) + Cardinality(Unwritten) <= evaluations * Cardinality(Rules))'
  <1> DEFINE spend == evaluations * Cardinality(Rules)
  <1>1. Cardinality(Unwritten') <= Cardinality(Unwritten) /\ Cardinality(Unwritten') \in Nat
    BY CountsFinite, FS_Subset, FS_CardinalityType
  <1>2. Len(detections) \in Nat /\ Cardinality(Unwritten) \in Nat /\ spend \in Nat
    BY Tables, CountsFinite, Numbers DEF RowsInv
  <1>3. Len(detections) + Cardinality(Unwritten) <= spend
    BY DEF BudgetInv
  <1>4. (evaluations * Cardinality(Rules))' = spend
    OBVIOUS
  <1> HIDE DEF spend
  <1>5. Len(detections') + Cardinality(Unwritten') <= spend
    BY <1>1, <1>2, <1>3
  <1> QED BY <1>4, <1>5

LEMMA OpeningKept ==
    ASSUME BudgetInv, RowsInv, RowsInv', NEW w,
           \/ Len(cases') = Len(cases) /\ requests' = requests /\ Opening' \subseteq Opening
           \/ Len(cases') = Len(cases) /\ requests' = requests + 1 /\ Opening' \subseteq Opening \union {w}
           \/ Len(cases') = Len(cases) + 1 /\ requests' = requests + 1 /\ Opening' \subseteq Opening
           \/ /\ Len(cases') = Len(cases) + 1 /\ requests' = requests
              /\ w \in Opening /\ Opening' \subseteq Opening \ {w}
    PROVE  (Len(cases) + Cardinality(Opening) <= requests)'
  <1>1. /\ IsFiniteSet(Opening) /\ Cardinality(Opening) \in Nat /\ Len(cases) \in Nat
        /\ requests \in Nat /\ Len(cases) + Cardinality(Opening) <= requests
    BY CountsFinite, Tables DEF BudgetInv
  <1>2. /\ IsFiniteSet(Opening \union {w}) /\ IsFiniteSet(Opening \ {w})
        /\ Cardinality(Opening \union {w}) \in Nat /\ Cardinality(Opening \ {w}) \in Nat
        /\ Cardinality(Opening \union {w}) <= Cardinality(Opening) + 1
        /\ w \in Opening => Cardinality(Opening \ {w}) = Cardinality(Opening) - 1
    <2>1. /\ IsFiniteSet(Opening \union {w}) /\ IsFiniteSet(Opening \ {w})
          /\ Cardinality(Opening \union {w}) \in {Cardinality(Opening), Cardinality(Opening) + 1}
          /\ Cardinality(Opening \ {w}) \in {Cardinality(Opening), Cardinality(Opening) - 1}
          /\ w \in Opening => Cardinality(Opening \ {w}) = Cardinality(Opening) - 1
      BY <1>1, FS_AddElement, FS_RemoveElement
    <2> QED BY <1>1, <2>1, FS_CardinalityType
  <1>3. \A S \in {Opening, Opening \union {w}, Opening \ {w}} : Opening' \subseteq S =>
            Cardinality(Opening') \in Nat /\ Cardinality(Opening') <= Cardinality(S)
    BY <1>1, <1>2, FS_Subset, FS_CardinalityType
  <1> HIDE DEF Opening
  <1>4. CASE Len(cases') = Len(cases) /\ requests' = requests /\ Opening' \subseteq Opening
    BY <1>1, <1>3, <1>4
  <1>5. CASE Len(cases') = Len(cases) /\ requests' = requests + 1 /\ Opening' \subseteq Opening \union {w}
    BY <1>1, <1>2, <1>3, <1>5
  <1>6. CASE Len(cases') = Len(cases) + 1 /\ requests' = requests + 1 /\ Opening' \subseteq Opening
    BY <1>1, <1>3, <1>6
  <1>7. CASE /\ Len(cases') = Len(cases) + 1 /\ requests' = requests
             /\ w \in Opening /\ Opening' \subseteq Opening \ {w}
    BY <1>1, <1>2, <1>3, <1>7
  <1> QED BY <1>4, <1>5, <1>6, <1>7

(***************************************************************************)
(* Columns det and seen of the cases that are there, and no new case is    *)
(* opened from a detection.                                                *)
(***************************************************************************)
CasesStay ==
    /\ Len(cases) <= Len(cases')
    /\ \A c \in 1 .. Len(cases) : cases'[c].det = cases[c].det /\ cases'[c].seen = cases[c].seen
    /\ \A c \in 1 .. Len(cases') : c > Len(cases) => cases'[c].det = 0

\* The detections that are there keep their case, and none is escalated.
DetectionsStay ==
    /\ Len(detections) <= Len(detections')
    /\ \A d \in 1 .. Len(detections) :
          /\ detections'[d].case = detections[d].case
          /\ detections'[d].status = "escalated_to_case" => detections[d].status = "escalated_to_case"
    /\ \A d \in 1 .. Len(detections') : d > Len(detections) =>
          detections'[d].case = 0 /\ detections'[d].status = "new"

LEMMA EscalatedKept ==
    ASSUME RowsInv, RowsInv', PointersInv, EscalatedPointsToCase, CasesStay, DetectionsStay
    PROVE  EscalatedPointsToCase'
  <1>1. /\ Len(detections) \in Nat /\ Len(cases) \in Nat
        /\ DOMAIN detections = 1 .. Len(detections) /\ DOMAIN cases = 1 .. Len(cases)
        /\ \A c \in 1 .. Len(cases) : cases[c].det \in Nat
    BY Tables, Numbers DEF CaseRow
  <1>2. /\ Len(detections') \in Nat /\ Len(cases') \in Nat
        /\ DOMAIN detections' = 1 .. Len(detections') /\ DOMAIN cases' = 1 .. Len(cases')
    BY DEF RowsInv
  <1>3. ASSUME NEW d \in 1 .. Len(detections')
        PROVE  {c \in 1 .. Len(cases') : cases'[c].det = d} = {c \in 1 .. Len(cases) : cases[c].det = d}
    BY <1>1, <1>2 DEF CasesStay
  <1>4. ASSUME NEW d \in 1 .. Len(detections'), d > Len(detections)
        PROVE  {c \in 1 .. Len(cases) : cases[c].det = d} = {}
    BY <1>1, <1>2, <1>4 DEF PointersInv
  <1> SUFFICES ASSUME NEW d \in 1 .. Len(detections')
               PROVE  LET opened == {c \in 1 .. Len(cases') : cases'[c].det = d}
                      IN  /\ detections'[d].status = "escalated_to_case" => detections'[d].case # 0
                          /\ (detections'[d].case # 0) = (opened # {})
                          /\ opened # {} => detections'[d].case \in opened
    BY <1>2 DEF EscalatedPointsToCase
  <1>5. CASE d > Len(detections)
    BY <1>3, <1>4, <1>5 DEF DetectionsStay
  <1>6. CASE d \in 1 .. Len(detections)
    <2> DEFINE opened == {c \in 1 .. Len(cases) : cases[c].det = d}
    <2>1. /\ detections[d].status = "escalated_to_case" => detections[d].case # 0
          /\ (detections[d].case # 0) = (opened # {})
          /\ opened # {} => detections[d].case \in opened
      BY <1>1, <1>6 DEF EscalatedPointsToCase
    <2>2. {c \in 1 .. Len(cases') : cases'[c].det = d} = opened
      BY <1>3
    <2> HIDE DEF opened
    <2> QED BY <1>6, <2>1, <2>2 DEF DetectionsStay
  <1> QED BY <1>1, <1>2, <1>5, <1>6 DEF DetectionsStay

\* A request that may open a case goes on with its detection, or found none.
OpeningStay ==
    \A v \in Opening' : ~work'[v].linked =>
        \/ /\ v \in Opening /\ ~work[v].linked
           /\ work'[v].det = work[v].det /\ work'[v].seen = work[v].seen
        \/ work'[v].det # 0 /\ \A c \in 1 .. Len(cases) : cases[c].det # work'[v].det

LEMMA RaceKept ==
    ASSUME RowsInv, RowsInv', WorkInv, RaceInv, CasesStay, OpeningStay
    PROVE  RaceInv'
  <1>1. Len(cases) \in Nat /\ DOMAIN cases = 1 .. Len(cases)
        /\ Len(cases') \in Nat /\ DOMAIN cases' = 1 .. Len(cases')
    BY Tables DEF RowsInv
  <1>2. SecondCaseOnlyByRace'
    BY <1>1 DEF RaceInv, SecondCaseOnlyByRace, CasesStay
  <1>3. \A v \in Opening : work[v].det # 0
    BY DEF Opening, WorkInv, PointsWell
  <1>4. \A v \in Opening' : ~work'[v].linked =>
          \A c \in 1 .. Len(cases') : cases'[c].det = work'[v].det => work'[v].seen < c
    BY <1>1, <1>3 DEF RaceInv, CasesStay, OpeningStay
  <1> QED BY <1>2, <1>4 DEF RaceInv

(***************************************************************************)
(* The chain, when a step adds no row of evidence.                         *)
(***************************************************************************)
LEMMA SameEvidence ==
    ASSUME evidence' = evidence
    PROVE  /\ \A c : Mine(c)' = Mine(c) /\ Serial(c)' = Serial(c)
           /\ \A p, c, n : Follows(p, c, n)' = Follows(p, c, n)
  BY DEF Mine, Serial, Follows

LEMMA EvidenceKept ==
    ASSUME OverlapInv, ChainInv, evidence' = evidence, NEW w \in Workers,
           \A v \in Workers : v # w => Stays(v), ~Appends(w)'
    PROVE  OverlapInv' /\ ChainInv'
  <1>1. \A v \in Workers : Appends(v)' =>
            v # w /\ Appends(v) /\ Stays(v)
    BY DEF Appends, Stays
  <1>2. \A v \in Workers : (work[v].at = "chained")' =>
            v # w /\ work[v].at = "chained" /\ Stays(v)
    BY DEF Appends, Stays
  <1>3. OverlapInv'
    BY <1>1 DEF OverlapInv, Stays, Mine
  <1>4. ChainInv'
    BY <1>2, SameEvidence DEF ChainInv, Stays
  <1> QED BY <1>3, <1>4

(***************************************************************************)
(* A request that takes the time for an append ends everybody's being      *)
(* alone, or is alone itself.                                              *)
(***************************************************************************)
LEMMA EvidenceStamped ==
    ASSUME RowsInv, OverlapInv, ChainInv, evidence' = evidence, NEW w \in Workers, NEW x \in Item,
           ~Appends(w), work' = Stamp(w, x)
    PROVE  OverlapInv' /\ ChainInv'
  <1>1. /\ \A v \in Workers : v # w => Stays(v)
        /\ \A v \in Appending(x.case) : v # w => ~work'[v].alone
        /\ work'[w].at = "stamped" /\ work'[w].stamp = Len(evidence)
        /\ work'[w].alone = (Appending(x.case) = {}) /\ work'[w].case = x.case
    BY Stamped
  <1>2. \A v \in Workers : v # w /\ Appends(v)' => Appends(v) /\ Stays(v)
    BY <1>1 DEF Appends, Stays
  <1>3. \A v \in Workers : v # w /\ Appends(v)' /\ work'[v].case = x.case =>
            v \in Appending(x.case)
    BY <1>2 DEF Appending, Appends, Stays
  <1>4. ASSUME NEW v \in Workers, NEW u \in Workers, Appends(v)', Appends(u)',
               work'[v].case = work'[u].case, v # u
        PROVE  ~work'[v].alone
    <2>1. CASE v = w
      BY <1>1, <1>3, <1>4, <2>1
    <2>2. CASE u = w
      BY <1>1, <1>3, <1>4, <2>2
    <2>3. CASE v # w /\ u # w
      BY <1>2, <1>4, <2>3 DEF OverlapInv, Stays
    <2> QED BY <2>1, <2>2, <2>3
  <1>5. ASSUME NEW v \in Workers, Appends(v)', work'[v].alone, NEW i \in Mine(work'[v].case)
        PROVE  i <= work'[v].stamp
    <2>1. CASE v = w
      BY <1>1, <2>1, Tables DEF Mine
    <2>2. CASE v # w
      BY <1>2, <1>5, <2>2 DEF OverlapInv, Stays
    <2> QED BY <2>1, <2>2
  <1>6. OverlapInv'
    BY <1>4, <1>5, SameEvidence DEF OverlapInv
  <1>7. \A v \in Workers : (work[v].at = "chained")' =>
            v # w /\ work[v].at = "chained" /\ Stays(v)
    BY <1>1 DEF Stays
  <1>8. ChainInv'
    BY <1>7, SameEvidence DEF ChainInv, Stays
  <1> QED BY <1>6, <1>8

(***************************************************************************)
(* The rows that are last by collected_at: where all rows of a case were   *)
(* alone there is one, the one that was committed last.                    *)
(***************************************************************************)
LEMMA LatestIsLast ==
    ASSUME RowsInv, PointersInv, OverlapInv, NEW c, Serial(c), NEW i \in Latest(c)
    PROVE  i \in Mine(c) /\ \A k \in Mine(c) : k <= i
  <1>1. DOMAIN evidence = 1 .. Len(evidence) /\ Len(evidence) \in Nat
        /\ \A j \in 1 .. Len(evidence) : evidence[j].stamp \in Nat
    BY Tables DEF EvidenceRow
  <1>2. i \in Mine(c) /\ \A j \in Mine(c) : evidence[j].stamp <= evidence[i].stamp
    BY <1>1 DEF Latest, Mine
  <1>3. ASSUME NEW k \in Mine(c), i < k PROVE FALSE
    <2>1. evidence[k].alone /\ evidence[k].case = c /\ k \in 1 .. Len(evidence)
      BY DEF Serial, Mine
    <2>2. i <= evidence[k].stamp
      BY <1>2, <1>3, <2>1 DEF OverlapInv
    <2>3. evidence[i].stamp < i /\ i \in 1 .. Len(evidence)
      BY <1>2 DEF PointersInv, Mine
    <2> QED BY <1>1, <1>2, <2>1, <2>2, <2>3
  <1> QED BY <1>1, <1>2, <1>3 DEF Mine

LEMMA LatestEmpty ==
    ASSUME RowsInv, PointersInv, NEW c, Latest(c) = {}
    PROVE  Mine(c) = {}
  <1> SUFFICES ASSUME Mine(c) # {} PROVE FALSE
    OBVIOUS
  <1>1. DOMAIN evidence = 1 .. Len(evidence) /\ Len(evidence) \in Nat
        /\ \A j \in 1 .. Len(evidence) : evidence[j].stamp \in Nat
    BY Tables DEF EvidenceRow
  <1> DEFINE R == OpToRel(<, Nat)
             ages == {Len(evidence) - evidence[j].stamp : j \in Mine(c)}
  <1>2. ages \subseteq Nat /\ ages # {}
    <2>1. ASSUME NEW j \in Mine(c) PROVE Len(evidence) - evidence[j].stamp \in Nat
      <3>1. j \in 1 .. Len(evidence) /\ evidence[j].stamp < j
        BY DEF Mine, PointersInv
      <3> QED BY <1>1, <3>1
    <2> QED BY <2>1
  <1>3. \A m, n \in Nat : m < n => <<m, n>> \in R
    BY DEF OpToRel
  <1> HIDE DEF R, ages
  <1>4. PICK n \in ages : \A m \in ages : <<m, n>> \notin R
    BY <1>2, WFMin, NatLessThanWellFounded DEF R
  <1>5. PICK i \in Mine(c) : n = Len(evidence) - evidence[i].stamp
    BY DEF ages
  <1>6. ASSUME NEW j \in Mine(c) PROVE evidence[j].stamp <= evidence[i].stamp
    <2>1. Len(evidence) - evidence[j].stamp \in ages
      BY DEF ages
    <2>2. ~(Len(evidence) - evidence[j].stamp < Len(evidence) - evidence[i].stamp)
      BY <1>2, <1>3, <1>4, <1>5, <2>1
    <2> QED BY <1>1, <2>2 DEF Mine
  <1>7. i \in Latest(c)
    BY <1>1, <1>6 DEF Latest, Mine
  <1> QED BY <1>7

(***************************************************************************)
(* The previous hash that a request reads in its transaction.              *)
(***************************************************************************)
LEMMA ReadPrevHashFacts ==
    ASSUME RowsInv, PointersInv, WorkInv, NEW w \in Workers, ReadPrevHash(w)
    PROVE  /\ work' \in [Workers -> Item]
           /\ \A v \in Workers : v # w => work'[v] = work[v]
           /\ work[w].at = "stamped" /\ work'[w].at = "chained"
           /\ work'[w].todo = work[w].todo /\ work'[w].det = work[w].det
           /\ work'[w].linked = work[w].linked /\ work'[w].case = work[w].case
           /\ work'[w].stamp = work[w].stamp /\ work'[w].seen = work[w].seen
           /\ work'[w].alone = work[w].alone
           /\ \/ Latest(work[w].case) = {} /\ work'[w].prev = NoHash
              \/ \E i \in Latest(work[w].case) : work'[w].prev = evidence[i].payload
  <1> DEFINE c == work[w].case
  <1>1. PICK p \in IF Latest(c) = {} THEN {NoHash} ELSE {evidence[i].payload : i \in Latest(c)} :
            work' = [work EXCEPT ![w].at = "chained", ![w].prev = p]
    BY DEF ReadPrevHash
  <1>2. /\ Latest(c) = {} /\ p = NoHash
        \/ \E i \in Latest(c) : p = evidence[i].payload
    BY <1>1
  <1>3. p \in Hashes \union {NoHash}
    <2>1. \A i \in Latest(c) : evidence[i].payload \in Hashes
      BY Tables DEF Latest, EvidenceRow
    <2> QED BY <1>2, <2>1
  <1> DEFINE x == [[work[w] EXCEPT !.at = "chained"] EXCEPT !.prev = p]
  <1>4. work \in [Workers -> Item] /\ work[w] \in Item
    BY Tables
  <1>5. /\ x \in Item /\ x.at = "chained" /\ x.prev = p
        /\ x.todo = work[w].todo /\ x.det = work[w].det /\ x.linked = work[w].linked
        /\ x.case = work[w].case /\ x.stamp = work[w].stamp /\ x.seen = work[w].seen
        /\ x.alone = work[w].alone
    BY <1>3, <1>4 DEF Item
  <1>6. work' = [work EXCEPT ![w] = x]
    BY <1>1, <1>4
  <1> HIDE DEF x
  <1>7. work' \in [Workers -> Item] /\ work'[w] = x /\ \A v \in Workers : v # w => work'[v] = work[v]
    BY <1>5, <1>6, WorkSet
  <1>8. work[w].at = "stamped"
    BY DEF ReadPrevHash
  <1> QED BY <1>2, <1>5, <1>7, <1>8

LEMMA EvidenceRead ==
    ASSUME RowsInv, PointersInv, WorkInv, OverlapInv, ChainInv, NEW w \in Workers, ReadPrevHash(w)
    PROVE  OverlapInv' /\ ChainInv'
  <1> DEFINE c == work[w].case
  <1>1. /\ \A v \in Workers : v # w => work'[v] = work[v]
        /\ work[w].at = "stamped" /\ work'[w].at = "chained" /\ work'[w].case = c
        /\ work'[w].stamp = work[w].stamp /\ work'[w].alone = work[w].alone
        /\ \/ Latest(c) = {} /\ work'[w].prev = NoHash
           \/ \E i \in Latest(c) : work'[w].prev = evidence[i].payload
    BY ReadPrevHashFacts
  <1>2. evidence' = evidence
    BY DEF ReadPrevHash
  <1>3. Len(evidence) \in Nat /\ DOMAIN evidence = 1 .. Len(evidence)
    BY Tables
  <1>4. Latest(c) \subseteq Mine(c)
    BY <1>3 DEF Latest, Mine
  <1>5. \A v \in Workers : /\ Appends(v)' = Appends(v) /\ work'[v].case = work[v].case
                           /\ work'[v].alone = work[v].alone /\ work'[v].stamp = work[v].stamp
    BY <1>1 DEF Appends
  <1>6. OverlapInv'
    BY <1>2, <1>5, SameEvidence DEF OverlapInv
  <1>7. Serial(c) => Follows(work'[w].prev, c, Len(evidence) + 1)
    <2>1. CASE Latest(c) = {} /\ work'[w].prev = NoHash
      BY <2>1, LatestEmpty DEF Follows
    <2>2. ASSUME NEW i \in Latest(c), work'[w].prev = evidence[i].payload, Serial(c)
          PROVE  Follows(work'[w].prev, c, Len(evidence) + 1)
      <3>1. i \in Mine(c) /\ \A k \in Mine(c) : k <= i
        BY <2>2, LatestIsLast
      <3>2. i < Len(evidence) + 1
        BY <1>3, <3>1 DEF Mine
      <3> QED BY <2>2, <3>1, <3>2 DEF Follows
    <2> QED BY <1>1, <2>1, <2>2
  <1> HIDE DEF c
  <1>8. work'[w].prev = NoHash \/ \E j \in Mine(c) : work'[w].prev = evidence[j].payload
    BY <1>1, <1>4
  <1>9. ChainInv'
    <2>1. \A v \in Workers : work'[v].at = "chained" /\ v # w =>
              work'[v] = work[v] /\ work[v].at = "chained"
      BY <1>1
    <2>2. \A v \in Workers : work'[v].at = "chained" =>
             \/ work'[v].prev = NoHash
             \/ \E j \in Mine(work'[v].case) : work'[v].prev = evidence[j].payload
      BY <1>1, <1>8, <2>1 DEF ChainInv
    <2>3. \A v \in Workers :
             work'[v].at = "chained" /\ work'[v].alone /\ Serial(work'[v].case) =>
                Follows(work'[v].prev, work'[v].case, Len(evidence) + 1)
      BY <1>1, <1>7, <2>1 DEF ChainInv
    <2>4. \A i \in 1 .. Len(evidence) :
             Serial(evidence[i].case) => Follows(evidence[i].prev, evidence[i].case, i)
      BY DEF ChainInv
    <2> QED BY <1>2, <2>2, <2>3, <2>4, SameEvidence DEF ChainInv
  <1> QED BY <1>6, <1>9

(***************************************************************************)
(* The row that a request commits, and the rows of each case then.         *)
(***************************************************************************)
LEMMA AppendFacts ==
    ASSUME RowsInv, PointersInv, WorkInv, NEW w \in Workers, AppendEvidence(w),
           NEW c, c = work[w].case, NEW n, n = Len(evidence) + 1
    PROVE  /\ evidence' \in Seq(EvidenceRow) /\ Len(evidence) \in Nat /\ Len(evidence') = n
           /\ \A i \in 1 .. Len(evidence) : evidence'[i] = evidence[i]
           /\ evidence'[n].case = c /\ evidence'[n].payload = work[w].det
           /\ evidence'[n].prev = work[w].prev /\ evidence'[n].stamp = work[w].stamp
           /\ evidence'[n].alone = work[w].alone
           /\ Mine(c)' = Mine(c) \union {n} /\ \A d : d # c => Mine(d)' = Mine(d)
           /\ work' \in [Workers -> Item] /\ work'[w] = Idle
           /\ \A v \in Workers : v # w => work'[v] = work[v]
  <1> DEFINE row == [case |-> work[w].case, payload |-> work[w].det, prev |-> work[w].prev,
                     stamp |-> work[w].stamp, alone |-> work[w].alone]
  <1>1. work[w] \in Item /\ evidence \in Seq(EvidenceRow) /\ Len(evidence) \in Nat
    BY Tables
  <1>2. /\ row \in EvidenceRow /\ row.case = c /\ row.payload = work[w].det
        /\ row.prev = work[w].prev /\ row.stamp = work[w].stamp /\ row.alone = work[w].alone
    BY <1>1 DEF Item, EvidenceRow
  <1>3. evidence' = Append(evidence, row) /\ work' = [work EXCEPT ![w] = Idle]
    BY DEF AppendEvidence
  <1> HIDE DEF row
  <1>4. /\ evidence' \in Seq(EvidenceRow) /\ Len(evidence') = n /\ evidence'[n] = row
        /\ \A i \in 1 .. Len(evidence) : evidence'[i] = evidence[i]
        /\ 1 .. Len(evidence') = (1 .. Len(evidence)) \union {n} /\ n \notin 1 .. Len(evidence)
    BY <1>1, <1>2, <1>3, Added
  <1>5. work' \in [Workers -> Item] /\ work'[w] = Idle /\ \A v \in Workers : v # w => work'[v] = work[v]
    BY <1>3, IdleItem, WorkSet
  <1>6. Mine(c)' = Mine(c) \union {n} /\ \A d : d # c => Mine(d)' = Mine(d)
    BY <1>2, <1>4 DEF Mine
  <1> QED BY <1>1, <1>2, <1>4, <1>5, <1>6

LEMMA EvidenceAppended ==
    ASSUME RowsInv, PointersInv, WorkInv, OverlapInv, ChainInv, NEW w \in Workers, AppendEvidence(w)
    PROVE  OverlapInv' /\ ChainInv'
  <1>0. PICK n, c : n = Len(evidence) + 1 /\ c = work[w].case
    OBVIOUS
  <1>1. /\ Len(evidence) \in Nat /\ Len(evidence') = n
        /\ \A i \in 1 .. Len(evidence) : evidence'[i] = evidence[i]
        /\ evidence'[n].case = c /\ evidence'[n].payload = work[w].det
        /\ evidence'[n].prev = work[w].prev /\ evidence'[n].stamp = work[w].stamp
        /\ evidence'[n].alone = work[w].alone
        /\ Mine(c)' = Mine(c) \union {n} /\ \A d : d # c => Mine(d)' = Mine(d)
        /\ work'[w] = Idle
        /\ \A v \in Workers : v # w => work'[v] = work[v]
    BY <1>0, AppendFacts
  <1>2. \A d : Mine(d) \subseteq 1 .. Len(evidence) /\ n \notin Mine(d)
    BY <1>0, <1>1 DEF Mine
  <1>3. Appends(w) /\ work[w].at = "chained"
    BY DEF AppendEvidence, Appends
  <1>4. \A v \in Workers : Appends(v)' => v # w /\ Appends(v) /\ work'[v] = work[v]
    BY <1>1, IdleItem DEF Appends
  <1>5. \A v \in Workers : Appends(v)' /\ work[v].alone => work[v].case # c
    BY <1>0, <1>3, <1>4 DEF OverlapInv
  <1>6. n \in Nat /\ n = Len(evidence) + 1 /\ 1 .. Len(evidence') = (1 .. Len(evidence)) \union {n}
    BY <1>0, <1>1
  <1>7. \A i \in Mine(c) : work[w].alone => i <= work[w].stamp
    BY <1>0, <1>3 DEF OverlapInv
  <1>8. \A v \in Workers : Appends(v)' /\ work'[v].alone =>
            \A i \in Mine(work[v].case)' : i <= work'[v].stamp
    BY <1>1, <1>4, <1>5 DEF OverlapInv
  <1>9. \A j \in 1 .. Len(evidence') : evidence'[j].alone =>
            \A i \in Mine(evidence[j].case)' : i < j => i <= evidence'[j].stamp
    <2>1. ASSUME NEW j \in 1 .. Len(evidence), evidence'[j].alone,
                 NEW i \in Mine(evidence[j].case)', i < j
          PROVE  i <= evidence'[j].stamp
      <3>1. i \in Mine(evidence[j].case)
        BY <1>1, <1>6, <2>1
      <3> QED BY <1>1, <2>1, <3>1 DEF OverlapInv
    <2>2. ASSUME evidence'[n].alone, NEW i \in Mine(evidence[n].case)', i < n
          PROVE  i <= evidence'[n].stamp
      <3>1. i \in Mine(c)
        BY <1>1, <1>6, <2>2
      <3> QED BY <1>1, <1>7, <2>2, <3>1
    <2> QED BY <1>6, <2>1, <2>2
  <1>10. OverlapInv'
    <2>1. \A v, u \in Workers : Appends(v)' /\ Appends(u)' /\ work'[v].case = work'[u].case /\ v # u
              => ~work'[v].alone
      BY <1>4 DEF OverlapInv
    <2> QED BY <1>8, <1>9, <2>1 DEF OverlapInv
  <1>11. \A d : Serial(d)' => Serial(d)
    BY <1>1, <1>2 DEF Serial
  <1>12. \A d : Mine(d)' \in {Mine(d), Mine(d) \union {n}}
    BY <1>1
  \* What a row follows does not change when a row comes after it.
  <1>13. ASSUME NEW p, NEW d, NEW m \in 1 .. n, Follows(p, d, m)
         PROVE  Follows(p, d, m)'
    <2>1. CASE (\A j \in Mine(d) : m <= j) /\ p = NoHash
      BY <1>6, <1>12, <2>1 DEF Follows
    <2>2. ASSUME NEW j \in Mine(d), j < m, \A k \in Mine(d) : k <= j \/ m <= k, p = evidence[j].payload
          PROVE  Follows(p, d, m)'
      <3>1. j \in Mine(d)' /\ p = evidence'[j].payload
        BY <1>1, <1>2, <1>12, <2>2
      <3>2. \A k \in Mine(d)' : k <= j \/ m <= k
        BY <1>6, <1>12, <2>2
      <3> QED BY <2>2, <3>1, <3>2 DEF Follows
    <2> QED BY <1>13, <2>1, <2>2 DEF Follows
  <1>14. ASSUME NEW p, NEW d, d # c, Follows(p, d, n)
         PROVE  Follows(p, d, n + 1)'
    <2>1. Mine(d)' = Mine(d) /\ \A k \in Mine(d) : k \in Nat /\ k < n
      BY <1>1, <1>2, <1>6, <1>14
    <2>2. CASE (\A j \in Mine(d) : n <= j) /\ p = NoHash
      BY <1>6, <2>1, <2>2 DEF Follows
    <2>3. ASSUME NEW j \in Mine(d), \A k \in Mine(d) : k <= j \/ n <= k, p = evidence[j].payload
          PROVE  Follows(p, d, n + 1)'
      <3>1. p = evidence'[j].payload /\ j < n + 1 /\ j \in Mine(d)'
        BY <1>1, <1>2, <1>6, <2>1, <2>3
      <3>2. \A k \in Mine(d)' : k <= j
        BY <1>6, <2>1, <2>3
      <3> QED BY <3>1, <3>2 DEF Follows
    <2> QED BY <1>14, <2>2, <2>3 DEF Follows
  <1>15. \A v \in Workers : (work[v].at = "chained")' =>
            v # w /\ work[v].at = "chained" /\ work'[v] = work[v] /\ Appends(v)'
    BY <1>1, IdleItem DEF Appends
  <1>16. \A v \in Workers : (work[v].at = "chained")' =>
            \/ work'[v].prev = NoHash
            \/ \E j \in Mine(work[v].case)' : work'[v].prev = evidence'[j].payload
    BY <1>1, <1>2, <1>12, <1>15 DEF ChainInv
  <1>17. ASSUME NEW v \in Workers, work'[v].at = "chained", work'[v].alone, Serial(work[v].case)'
         PROVE  Follows(work[v].prev, work[v].case, Len(evidence) + 1)'
    <2>1. work'[v] = work[v] /\ work[v].at = "chained" /\ work[v].case # c /\ Serial(work[v].case)
      BY <1>5, <1>11, <1>15, <1>17
    <2>2. Follows(work[v].prev, work[v].case, n)
      BY <1>6, <1>17, <2>1 DEF ChainInv
    <2>3. PICK p, d : p = work[v].prev /\ d = work[v].case
      OBVIOUS
    <2>4. Follows(p, d, n + 1)'
      BY <1>14, <2>1, <2>2, <2>3
    <2>5. Follows(p, d, Len(evidence) + 1)'
      BY <1>1, <2>4
    <2> QED BY <2>1, <2>3, <2>5
  <1>18. ASSUME NEW i \in 1 .. Len(evidence'), Serial(evidence[i].case)'
         PROVE  Follows(evidence[i].prev, evidence[i].case, i)'
    <2>1. CASE i \in 1 .. Len(evidence)
      <3>0. PICK p, d : p = evidence[i].prev /\ d = evidence[i].case
        OBVIOUS
      <3>1. Follows(p, d, i) /\ i \in 1 .. n
        BY <1>1, <1>6, <1>11, <1>18, <2>1, <3>0 DEF ChainInv
      <3>2. Follows(p, d, i)'
        BY <1>13, <3>1
      <3> QED BY <1>1, <2>1, <3>0, <3>2
    <2>2. CASE i = n
      <3>0. PICK p : p = work[w].prev
        OBVIOUS
      <3>1. Serial(c) /\ work[w].alone
        BY <1>1, <1>11, <1>18, <2>2 DEF Serial
      <3>2. Follows(p, c, n) /\ n \in 1 .. n
        BY <3>0, <1>0, <1>3, <1>6, <3>1 DEF ChainInv
      <3>3. Follows(p, c, n)'
        BY <1>13, <3>2
      <3> QED BY <1>1, <2>2, <3>0, <3>3
    <2> QED BY <1>6, <2>1, <2>2
  <1>19. ChainInv'
    BY <1>16, <1>17, <1>18 DEF ChainInv
  <1> QED BY <1>10, <1>19

-----------------------------------------------------------------------------
(***************************************************************************)
(* The steps.  All but OpenCase link no detection and keep the cases.      *)
(***************************************************************************)
LEMMA StepKept ==
    ASSUME CaseIInv, RowsInv', PointersInv', WorkInv', BudgetInv', OverlapInv', ChainInv',
           CasesStay, DetectionsStay, OpeningStay
    PROVE  CaseIInv'
  <1>1. RowsInv /\ PointersInv /\ WorkInv /\ EscalatedPointsToCase /\ RaceInv
    BY DEF CaseIInv
  <1> QED BY <1>1, EscalatedKept, RaceKept DEF CaseIInv

\* What the others in Stays(v) mean for the sets that BudgetInv counts.
LEMMA SetsMove ==
    ASSUME NEW w \in Workers, \A v \in Workers : v # w => Stays(v)
    PROVE  /\ work'[w].todo \subseteq work[w].todo => Unwritten' \subseteq Unwritten
           /\ Opening' \subseteq Opening \union {w}
           /\ work'[w].at \notin {"loaded", "open"} => Opening' \subseteq Opening \ {w}
           /\ w \in Opening => Opening' \subseteq Opening
  <1>1. work'[w].todo \subseteq work[w].todo => Unwritten' \subseteq Unwritten
    <2> SUFFICES ASSUME work'[w].todo \subseteq work[w].todo, NEW m \in Unwritten' PROVE m \in Unwritten
      OBVIOUS
    <2>1. m \in Workers \X Rules /\ m[2] \in work'[m[1]].todo
      BY DEF Unwritten
    <2>2. m[1] \in Workers
      BY <2>1
    <2>3. work'[m[1]].todo \subseteq work[m[1]].todo
      BY <2>2 DEF Stays
    <2> QED BY <2>1, <2>3 DEF Unwritten
  <1>2. \A v \in Opening' : v \in Workers /\ (v = w \/ v \in Opening)
    BY DEF Opening, Stays
  <1>3. work'[w].at \notin {"loaded", "open"} => w \notin Opening'
    BY DEF Opening
  <1> HIDE DEF Unwritten, Opening
  <1> QED BY <1>1, <1>2, <1>3

\* A step of one request that changes no table.
LEMMA RequestStep ==
    ASSUME CaseIInv, NEW w \in Workers, \A v \in Workers : v # w => Stays(v),
           work' \in [Workers -> Item], UNCHANGED <<detections, cases, evidence, actions, evaluations>>,
           OverlapInv', ChainInv', PointsWell(work[w])', work'[w].todo \subseteq work[w].todo,
           \/ requests' = requests /\ (work'[w].at \notin {"loaded", "open"} \/ w \in Opening)
           \/ requests' = requests + 1 /\ requests < MaxRequests,
           w \in Opening' /\ ~work'[w].linked =>
              \/ /\ w \in Opening /\ ~work[w].linked
                 /\ work'[w].det = work[w].det /\ work'[w].seen = work[w].seen
              \/ work'[w].det # 0 /\ \A c \in 1 .. Len(cases) : cases[c].det # work'[w].det
    PROVE  CaseIInv'
  <1>1. RowsInv /\ PointersInv /\ WorkInv /\ BudgetInv
    BY DEF CaseIInv
  <1>2. {Len(detections), Len(cases), Len(evidence)} \subseteq Nat /\ requests \in Nat
    BY <1>1, Tables
  <1>3. RowsInv'
    <2>1. requests' = requests \/ (requests' = requests + 1 /\ requests < MaxRequests)
      OBVIOUS
    <2>2. requests \in 0 .. MaxRequests /\ MaxRequests \in Nat
      BY <1>1, Numbers DEF RowsInv
    <2>3. requests' \in 0 .. MaxRequests
      BY <2>1, <2>2
    <2> QED BY <1>1, <2>3 DEF RowsInv
  <1>4. PointersInv'
    BY <1>1 DEF PointersInv
  <1>5. CasesStay /\ DetectionsStay
    BY <1>1, <1>2 DEF CasesStay, DetectionsStay
  <1>6. WorkInv'
    BY <1>1, <1>2, <1>3, WorkKept
  <1>7. /\ Unwritten' \subseteq Unwritten /\ Opening' \subseteq Opening \union {w}
        /\ (work'[w].at \notin {"loaded", "open"} \/ w \in Opening) => Opening' \subseteq Opening
    BY SetsMove
  <1>8. (Len(detections) + Cardinality(Unwritten) <= evaluations * Cardinality(Rules))'
    BY <1>1, <1>7, MatchesKept
  <1>9. (Len(cases) + Cardinality(Opening) <= requests)'
    BY <1>1, <1>3, <1>7, OpeningKept
  <1>10. BudgetInv'
    BY <1>8, <1>9 DEF BudgetInv
  <1>11. OpeningStay
    BY DEF OpeningStay, Opening, Stays
  <1> QED BY <1>3, <1>4, <1>5, <1>6, <1>10, <1>11, StepKept

\* A step that changes no request.
LEMMA TableStep ==
    ASSUME CaseIInv, RowsInv', PointersInv', work' = work, evidence' = evidence,
           evaluations' = evaluations, Len(detections') = Len(detections),
           CasesStay, DetectionsStay,
           \/ Len(cases') = Len(cases) /\ requests' \in {requests, requests + 1}
           \/ Len(cases') = Len(cases) + 1 /\ requests' = requests + 1
    PROVE  CaseIInv'
  <1>1. RowsInv /\ WorkInv /\ BudgetInv /\ OverlapInv /\ ChainInv
    BY DEF CaseIInv
  <1>2. {Len(detections), Len(cases), Len(evidence)} \subseteq Nat
        /\ {Len(detections'), Len(cases'), Len(evidence')} \subseteq Nat
    BY <1>1, Tables DEF RowsInv
  <1>3. WorkInv'
    <2> SUFFICES ASSUME NEW w \in Workers PROVE PointsWell(work[w])'
      BY DEF WorkInv
    <2>1. PointsWell(work[w]) /\ work[w] \in Item
      BY <1>1, Tables DEF WorkInv
    <2>2. {work[w].det, work[w].case, work[w].seen, work[w].stamp} \subseteq Nat
      BY <2>1, Numbers DEF Item
    <2> QED BY <1>2, <2>1, <2>2 DEF PointsWell, CasesStay, DetectionsStay
  <1>4. Unwritten' = Unwritten /\ Opening' = Opening
    BY DEF Unwritten, Opening
  <1>5. (Len(detections) + Cardinality(Unwritten) <= evaluations * Cardinality(Rules))'
    BY <1>1, <1>4, MatchesKept
  <1>6. (Len(cases) + Cardinality(Opening) <= requests)'
    <2>1. PICK w : w = 0
      OBVIOUS
    <2> QED BY <1>1, <1>4, OpeningKept
  <1>7. OpeningStay
    BY <1>4 DEF OpeningStay
  <1>8. OverlapInv' /\ ChainInv'
    BY <1>1 DEF OverlapInv, ChainInv, Appends, Mine, Serial, Follows
  <1> QED BY <1>3, <1>5, <1>6, <1>7, <1>8, StepKept DEF BudgetInv

LEMMA GoneIdle ==
    ASSUME CaseIInv, NEW w \in Workers, work' = [work EXCEPT ![w] = Idle],
           UNCHANGED <<detections, cases, evidence, actions, evaluations, requests>>
    PROVE  CaseIInv'
  <1>1. RowsInv /\ OverlapInv /\ ChainInv
    BY DEF CaseIInv
  <1>2. {Len(detections), Len(cases), Len(evidence)} \subseteq Nat
    BY <1>1, Tables
  <1>3. /\ work' \in [Workers -> Item] /\ work'[w] = Idle
        /\ \A v \in Workers : v # w => Stays(v)
    BY <1>1, IdleItem, WorkSet
  <1>4. ~Appends(w)' /\ work'[w].todo \subseteq work[w].todo /\ work'[w].at \notin {"loaded", "open"}
    BY <1>3, IdleItem DEF Appends
  <1>5. PointsWell(work[w])'
    BY <1>2, <1>3, IdleItem DEF PointsWell
  <1>6. OverlapInv' /\ ChainInv'
    BY <1>1, <1>3, <1>4, EvidenceKept
  <1>7. w \notin Opening'
    BY <1>4 DEF Opening
  <1> QED BY <1>3, <1>4, <1>5, <1>6, <1>7, RequestStep

LEMMA EvaluationEndsKeeps ==
    ASSUME CaseIInv, NEW w \in Workers, EvaluationEnds(w) \/ RequestLost(w) PROVE CaseIInv'
  BY GoneIdle DEF EvaluationEnds, RequestLost, Fail, spent

LEMMA ReadPrevHashKeeps == ASSUME CaseIInv, NEW w \in Workers, ReadPrevHash(w) PROVE CaseIInv'
  <1>1. RowsInv /\ PointersInv /\ WorkInv /\ OverlapInv /\ ChainInv
    BY DEF CaseIInv
  <1>2. /\ work' \in [Workers -> Item]
        /\ \A v \in Workers : v # w => work'[v] = work[v]
        /\ work[w].at = "stamped" /\ work'[w].at = "chained"
        /\ work'[w].todo = work[w].todo /\ work'[w].det = work[w].det
        /\ work'[w].linked = work[w].linked /\ work'[w].case = work[w].case
        /\ work'[w].stamp = work[w].stamp /\ work'[w].seen = work[w].seen
    BY <1>1, ReadPrevHashFacts
  <1>3. UNCHANGED <<detections, cases, evidence, actions, evaluations, requests>>
    BY DEF ReadPrevHash, spent
  <1>4. \A v \in Workers : v # w => Stays(v)
    BY <1>2 DEF Stays
  <1>5. PointsWell(work[w])' /\ w \notin Opening'
    BY <1>1, <1>2, <1>3 DEF WorkInv, PointsWell, Opening
  <1>6. OverlapInv' /\ ChainInv'
    BY <1>1, EvidenceRead
  <1> QED BY <1>2, <1>3, <1>4, <1>5, <1>6, RequestStep

\* A request takes the time for an append to case x.case.
LEMMA StampKeeps ==
    ASSUME CaseIInv, NEW w \in Workers, NEW x \in Item, work' = Stamp(w, x), ~Appends(w),
           x.det <= Len(detections), x.case \in 1 .. Len(cases), x.seen <= Len(cases), x.todo = {},
           UNCHANGED <<detections, cases, evidence, actions, evaluations>>,
           requests' = requests \/ (requests' = requests + 1 /\ requests < MaxRequests)
    PROVE  CaseIInv'
  <1>1. RowsInv /\ OverlapInv /\ ChainInv
    BY DEF CaseIInv
  <1>2. {Len(detections), Len(cases), Len(evidence)} \subseteq Nat
    BY <1>1, Tables
  <1>3. /\ work' \in [Workers -> Item]
        /\ \A v \in Workers : v # w => Stays(v)
        /\ work'[w].at = "stamped" /\ work'[w].stamp = Len(evidence)
        /\ work'[w].todo = x.todo /\ work'[w].det = x.det
        /\ work'[w].case = x.case /\ work'[w].seen = x.seen
    BY <1>1, Stamped
  <1>4. PointsWell(work[w])' /\ w \notin Opening' /\ work'[w].at \notin {"loaded", "open"}
    BY <1>2, <1>3 DEF PointsWell, Opening
  <1>5. OverlapInv' /\ ChainInv'
    BY <1>1, EvidenceStamped
  <1>6. work'[w].todo \subseteq work[w].todo
    BY <1>3
  <1> QED BY <1>3, <1>4, <1>5, <1>6, RequestStep

LEMMA CollectManuallyKeeps ==
    ASSUME CaseIInv, NEW w \in Workers, NEW c \in DOMAIN cases, CollectManually(w, c) PROVE CaseIInv'
  <1> DEFINE x == [[Idle EXCEPT !.case = c] EXCEPT !.det = Manual]
  <1>1. RowsInv
    BY DEF CaseIInv
  <1>2. c \in 1 .. Len(cases) /\ {Len(detections), Len(cases)} \subseteq Nat
    BY <1>1, Tables
  <1>3. x \in Item /\ x.det = 0 /\ x.case = c /\ x.seen = 0 /\ x.todo = {}
    <2>1. 0 \in Hashes /\ c \in Nat
      BY <1>2, Numbers
    <2> QED BY <2>1, IdleItem DEF Item, Manual
  <1>4. /\ work' = Stamp(w, x) /\ UNCHANGED <<detections, cases, evidence, actions, evaluations>>
        /\ requests' = requests + 1 /\ requests < MaxRequests
    BY DEF CollectManually, Request
  <1>5. ~Appends(w)
    BY DEF CollectManually, Appends
  <1>6. x.det <= Len(detections) /\ x.seen <= Len(cases)
    BY <1>2, <1>3
  <1> HIDE DEF x
  <1> QED BY <1>2, <1>3, <1>4, <1>5, <1>6, StampKeeps

LEMMA DetectionsBounded ==
    ASSUME CaseIInv
    PROVE  Len(detections) \in Hashes /\ \A d \in 0 .. Len(detections) : d \in Hashes
  <1> DEFINE K == Cardinality(Rules)
  <1>1. Len(detections) + Cardinality(Unwritten) <= evaluations * K
        /\ RowsInv /\ Len(detections) \in Nat /\ Cardinality(Unwritten) \in Nat
    BY CountsFinite, Tables DEF CaseIInv, BudgetInv
  <1>2. evaluations * K \in Hashes
    BY <1>1, Numbers DEF RowsInv
  <1> DEFINE h == evaluations * K
  <1>3. h \in Nat /\ 0 .. h \subseteq Hashes /\ Len(detections) + Cardinality(Unwritten) <= h
    BY <1>1, <1>2, Numbers
  <1> HIDE DEF h
  <1> QED BY <1>1, <1>3

LEMMA fromDetectionKeeps ==
    ASSUME CaseIInv, NEW w \in Workers, NEW d \in DOMAIN detections, fromDetection(w, d)
    PROVE  CaseIInv'
  <1> DEFINE x == [[[[Idle EXCEPT !.at = "loaded"] EXCEPT !.det = d]
                      EXCEPT !.linked = detections[d].case # 0] EXCEPT !.seen = Len(cases)]
  <1>1. RowsInv /\ OverlapInv /\ ChainInv /\ EscalatedPointsToCase
    BY DEF CaseIInv
  <1>2. d \in 1 .. Len(detections) /\ {Len(detections), Len(cases), Len(evidence)} \subseteq Nat
        /\ DOMAIN cases = 1 .. Len(cases)
    BY <1>1, Tables
  <1>3. d \in Hashes /\ (detections[d].case # 0) \in BOOLEAN
    BY <1>2, DetectionsBounded
  <1>4. /\ x \in Item /\ x.at = "loaded" /\ x.det = d /\ x.seen = Len(cases)
        /\ x.linked = (detections[d].case # 0)
        /\ x.todo = {} /\ x.case = 0 /\ x.stamp = 0
    BY <1>2, <1>3, IdleItem DEF Item
  <1>5. /\ work' = [work EXCEPT ![w] = x]
        /\ UNCHANGED <<detections, cases, evidence, actions, evaluations>>
        /\ requests' = requests + 1 /\ requests < MaxRequests /\ work[w].at = "idle"
    BY DEF fromDetection, Request
  <1>6. ~x.linked => \A c \in 1 .. Len(cases) : cases[c].det # d
    BY <1>1, <1>2, <1>4 DEF EscalatedPointsToCase
  <1> HIDE DEF x
  <1>7. /\ work' \in [Workers -> Item] /\ work'[w] = x
        /\ \A v \in Workers : v # w => Stays(v)
    BY <1>1, <1>4, <1>5, WorkSet
  <1>8. PointsWell(work[w])' /\ ~Appends(w)' /\ work'[w].todo \subseteq work[w].todo
    BY <1>2, <1>4, <1>5, <1>7 DEF PointsWell, Appends
  <1>9. OverlapInv' /\ ChainInv'
    BY <1>1, <1>5, <1>7, <1>8, EvidenceKept
  <1>10. ~work'[w].linked => work'[w].det # 0 /\ \A c \in 1 .. Len(cases) : cases[c].det # work'[w].det
    BY <1>2, <1>4, <1>6, <1>7
  <1> QED BY <1>5, <1>7, <1>8, <1>9, <1>10, RequestStep

LEMMA EscalateKeeps == ASSUME CaseIInv, NEW w \in Workers, Escalate(w) PROVE CaseIInv'
  <1>1. RowsInv /\ WorkInv /\ OverlapInv /\ ChainInv
    BY DEF CaseIInv
  <1>2. /\ work[w].at = "loaded" /\ UNCHANGED <<detections, cases, evidence, actions>>
        /\ UNCHANGED <<evaluations, requests>>
    BY DEF Escalate, spent
  <1>3. FindOpenCaseBySubject(Employee) = {}
    <2>1. \A c \in DOMAIN cases : cases[c].subject # Employee
      BY <1>1, Tables, IdsApart DEF CaseRow
    <2> QED BY <2>1 DEF FindOpenCaseBySubject
  <1>4. \/ work' = [work EXCEPT ![w] = Idle]
        \/ work' = [work EXCEPT ![w].at = "open"] /\ ~work[w].linked
    <2>1. \/ EvaluateForEscalation(w) = [at |-> "idle", case |-> 0]
          \/ EvaluateForEscalation(w) = [at |-> "open", case |-> 0] /\ ~work[w].linked
      BY <1>3 DEF EvaluateForEscalation
    <2> QED BY <2>1 DEF Escalate
  <1>5. CASE work' = [work EXCEPT ![w] = Idle]
    BY <1>2, <1>5, GoneIdle
  <1>6. CASE work' = [work EXCEPT ![w].at = "open"] /\ ~work[w].linked
    <2> DEFINE x == [work[w] EXCEPT !.at = "open"]
    <2>1. work \in [Workers -> Item] /\ work[w] \in Item
      BY <1>1, Tables
    <2>2. /\ x \in Item /\ x.at = "open" /\ x.todo = work[w].todo /\ x.det = work[w].det
          /\ x.linked = work[w].linked /\ x.case = work[w].case /\ x.stamp = work[w].stamp
          /\ x.seen = work[w].seen
      BY <2>1 DEF Item
    <2>3. work' = [work EXCEPT ![w] = x]
      BY <1>6, <2>1
    <2> HIDE DEF x
    <2>4. /\ work' \in [Workers -> Item] /\ work'[w] = x
          /\ \A v \in Workers : v # w => Stays(v)
      BY <1>1, <2>2, <2>3, WorkSet
    <2>5. PointsWell(work[w])' /\ ~Appends(w)' /\ w \in Opening
      BY <1>1, <1>2, <1>6, <2>2, <2>4 DEF WorkInv, PointsWell, Appends, Opening
    <2>6. OverlapInv' /\ ChainInv'
      BY <1>1, <1>2, <2>4, <2>5, EvidenceKept
    <2> QED BY <1>2, <1>6, <2>2, <2>4, <2>5, <2>6, RequestStep
  <1> QED BY <1>4, <1>5, <1>6

-----------------------------------------------------------------------------
(***************************************************************************)
(* The evaluation of a transaction spends its budget match by match.       *)
(***************************************************************************)
LEMMA EvaluateTransactionKeeps ==
    ASSUME CaseIInv, NEW w \in Workers, EvaluateTransaction(w) PROVE CaseIInv'
  <1> DEFINE x == [[Idle EXCEPT !.at = "matched"] EXCEPT !.todo = Rules]
             K == Cardinality(Rules)
  <1>1. RowsInv /\ PointersInv /\ WorkInv /\ BudgetInv /\ OverlapInv /\ ChainInv
    BY DEF CaseIInv
  <1>2. {Len(detections), Len(cases), Len(evidence)} \subseteq Nat /\ evaluations \in Nat
        /\ requests \in Nat
    BY <1>1, Tables
  <1>3. /\ x \in Item /\ x.at = "matched" /\ x.todo = Rules /\ x.det = 0 /\ x.case = 0
        /\ x.seen = 0 /\ x.stamp = 0
    BY IdleItem DEF Item
  <1>4. /\ work' = [work EXCEPT ![w] = x] /\ work[w].at = "idle"
        /\ evaluations' = evaluations + 1 /\ evaluations < MaxEvaluations
        /\ UNCHANGED <<detections, cases, evidence, actions, requests>>
    BY DEF EvaluateTransaction
  <1> HIDE DEF x
  <1>5. /\ work' \in [Workers -> Item] /\ work'[w] = x
        /\ \A v \in Workers : v # w => Stays(v)
    BY <1>1, <1>3, <1>4, WorkSet
  <1>6. RowsInv'
    <2>1. evaluations' \in 0 .. MaxEvaluations
      BY <1>2, <1>4, Numbers
    <2> QED BY <1>1, <1>4, <1>5, <2>1 DEF RowsInv
  <1>7. PointersInv' /\ CasesStay /\ DetectionsStay
    BY <1>1, <1>2, <1>4 DEF PointersInv, CasesStay, DetectionsStay
  <1>8. PointsWell(work[w])' /\ ~Appends(w)' /\ work'[w].at \notin {"loaded", "open"}
    BY <1>2, <1>3, <1>4, <1>5 DEF PointsWell, Appends
  <1>9. WorkInv'
    BY <1>1, <1>2, <1>4, <1>5, <1>6, <1>8, WorkKept
  <1>10. OverlapInv' /\ ChainInv'
    BY <1>1, <1>4, <1>5, <1>8, EvidenceKept
  <1>11. Cardinality(Unwritten') \in Nat /\ Cardinality(Unwritten') <= Cardinality(Unwritten) + K
    <2> DEFINE more == {w} \X Rules
    <2>1. IsFiniteSet(more) /\ Cardinality(more) = K /\ K \in Nat
      <3>1. IsFiniteSet({w}) /\ Cardinality({w}) = 1
        BY FS_Singleton
      <3>2. IsFiniteSet(Rules) /\ Cardinality(more) = 1 * K /\ IsFiniteSet(more)
        BY <3>1, FinitelyMany, FS_Product
      <3>3. K \in Nat
        BY Numbers
      <3> QED BY <3>2, <3>3
    <2>2. Unwritten' \subseteq Unwritten \union more
      <3> SUFFICES ASSUME NEW m \in Unwritten' PROVE m \in Unwritten \union more
        OBVIOUS
      <3>1. m \in Workers \X Rules /\ m[2] \in work'[m[1]].todo
        BY DEF Unwritten
      <3>2. CASE m[1] = w
        BY <3>1, <3>2
      <3>3. CASE m[1] # w
        <4>1. work'[m[1]].todo = work[m[1]].todo
          BY <1>5, <3>1, <3>3 DEF Stays
        <4> QED BY <3>1, <4>1 DEF Unwritten
      <3> QED BY <3>2, <3>3
    <2> HIDE DEF more
    <2>3. /\ IsFiniteSet(Unwritten \union more)
          /\ Cardinality(Unwritten \union more) \in Nat
          /\ Cardinality(Unwritten \union more) <= Cardinality(Unwritten) + K
      <3>1. IsFiniteSet(Unwritten \union more) /\ IsFiniteSet(Unwritten \intersect more)
        BY <2>1, CountsFinite, FS_Union, FS_Subset
      <3>2. Cardinality(Unwritten \union more) =
               Cardinality(Unwritten) + Cardinality(more) - Cardinality(Unwritten \intersect more)
        BY <2>1, CountsFinite, FS_Union
      <3>3. Cardinality(Unwritten \intersect more) \in Nat /\ Cardinality(Unwritten \union more) \in Nat
        BY <3>1, FS_CardinalityType
      <3> QED BY <2>1, <3>1, <3>2, <3>3, CountsFinite
    <2>4. Cardinality(Unwritten') \in Nat /\ Cardinality(Unwritten') <= Cardinality(Unwritten \union more)
      BY <2>2, <2>3, FS_Subset, FS_CardinalityType
    <2> QED BY <2>1, <2>3, <2>4, CountsFinite
  <1>12. (Len(detections) + Cardinality(Unwritten) <= evaluations * Cardinality(Rules))'
    <2> DEFINE before == evaluations * K
               after == (evaluations + 1) * K
    <2>1. before \in Nat /\ after = before + K /\ K \in Nat
      BY <1>1, <1>2, Numbers DEF RowsInv
    <2>2. Len(detections) + Cardinality(Unwritten) <= before
      BY <1>1 DEF BudgetInv
    <2> HIDE DEF before, after
    <2>3. Len(detections) + Cardinality(Unwritten') <= after
      BY <1>2, <1>11, <2>1, <2>2, CountsFinite
    <2> QED BY <1>4, <2>3 DEF after
  <1>13. (Len(cases) + Cardinality(Opening) <= requests)'
    <2>1. Opening' \subseteq Opening
      BY <1>5, <1>8, SetsMove
    <2> QED BY <1>1, <1>4, <1>6, <2>1, OpeningKept
  <1>14. OpeningStay
    BY <1>5, <1>8 DEF OpeningStay, Opening, Stays
  <1> QED BY <1>6, <1>7, <1>9, <1>10, <1>12, <1>13, <1>14, StepKept DEF BudgetInv

LEMMA InsertDetectionKeeps ==
    ASSUME CaseIInv, NEW w \in Workers, InsertDetection(w) PROVE CaseIInv'
  <1>1. RowsInv /\ PointersInv /\ WorkInv /\ BudgetInv /\ OverlapInv /\ ChainInv
    BY DEF CaseIInv
  <1>2. PICK r \in work[w].todo :
           /\ \/ detections' = Append(detections, [status |-> "new", rule |-> r, case |-> 0])
              \/ detections' = detections
           /\ work' = [work EXCEPT ![w].todo = work[w].todo \ {r}]
    BY <1>1 DEF InsertDetection, RowsInv
  <1>3. /\ UNCHANGED <<cases, evidence, actions, evaluations, requests>> /\ work[w].at = "matched"
    BY DEF InsertDetection, Fail, spent
  <1> DEFINE x == [work[w] EXCEPT !.todo = work[w].todo \ {r}]
             row == [status |-> "new", rule |-> r, case |-> 0]
  <1>4. work \in [Workers -> Item] /\ work[w] \in Item /\ r \in Rules
        /\ {Len(detections), Len(cases), Len(evidence)} \subseteq Nat /\ evaluations \in Nat
        /\ detections \in Seq(DetectionRow) /\ requests \in Nat
    BY <1>1, <1>2, Tables DEF Item
  <1>5. /\ x \in Item /\ x.at = "matched" /\ x.todo = work[w].todo \ {r} /\ x.det = work[w].det
        /\ x.linked = work[w].linked /\ x.case = work[w].case /\ x.stamp = work[w].stamp
        /\ x.seen = work[w].seen
    BY <1>3, <1>4 DEF Item
  <1>6. work' = [work EXCEPT ![w] = x]
    BY <1>2, <1>4
  <1>7. row \in DetectionRow /\ row.case = 0 /\ row.status = "new"
    BY <1>4 DEF DetectionRow, Statuses
  <1> HIDE DEF x, row
  <1>8. /\ work' \in [Workers -> Item] /\ work'[w] = x
        /\ \A v \in Workers : v # w => work'[v] = work[v] /\ Stays(v)
    BY <1>1, <1>5, <1>6, WorkSet
  <1>9. /\ detections' \in Seq(DetectionRow) /\ Len(detections') \in Nat
        /\ Len(detections') \in {Len(detections), Len(detections) + 1}
        /\ \A d \in 1 .. Len(detections) : detections'[d] = detections[d]
        /\ \A d \in 1 .. Len(detections') : d > Len(detections) => detections'[d] = row
    <2>1. CASE detections' = detections
      BY <1>4, <2>1
    <2>2. CASE detections' = Append(detections, row)
      BY <1>4, <1>7, <2>2, Added
    <2> QED BY <1>2, <2>1, <2>2 DEF row
  <1>10. RowsInv'
    BY <1>1, <1>3, <1>8, <1>9 DEF RowsInv
  <1>11. Len(detections) <= Len(detections')
    BY <1>4, <1>9
  <1>12. DetectionsStay /\ CasesStay
    BY <1>3, <1>4, <1>7, <1>9, <1>11 DEF DetectionsStay, CasesStay
  <1>13. PointersInv'
    <2>1. \A d \in 1 .. Len(detections') : detections'[d].case <= Len(cases)
      BY <1>1, <1>4, <1>7, <1>9 DEF PointersInv
    <2>2. \A c \in 1 .. Len(cases) : cases[c].det <= Len(detections')
      <3>1. \A c \in 1 .. Len(cases) : cases[c].det \in Nat /\ cases[c].det <= Len(detections)
        BY <1>1, Tables, Numbers DEF CaseRow, PointersInv
      <3> QED BY <1>4, <1>9, <3>1
    <2> QED BY <1>1, <1>3, <2>1, <2>2 DEF PointersInv
  <1>14. PointsWell(work[w])' /\ ~Appends(w)' /\ work'[w].at \notin {"loaded", "open"}
    <2>1. PointsWell(work[w]) /\ work[w].det \in Nat
      BY <1>1, <1>4, Numbers DEF WorkInv, Item
    <2>2. work[w].det <= Len(detections')
      BY <1>4, <1>9, <2>1 DEF PointsWell
    <2> QED BY <1>3, <1>5, <1>8, <2>1, <2>2 DEF PointsWell, Appends
  <1>15. WorkInv'
    BY <1>1, <1>3, <1>4, <1>8, <1>10, <1>11, <1>14, WorkKept
  <1>16. OverlapInv' /\ ChainInv'
    BY <1>1, <1>3, <1>8, <1>14, EvidenceKept
  <1>17. Cardinality(Unwritten') \in Nat /\ Cardinality(Unwritten') + 1 <= Cardinality(Unwritten)
    <2>1. <<w, r>> \in Unwritten
      BY <1>2, <1>4 DEF Unwritten
    <2>2. Unwritten' \subseteq Unwritten \ {<<w, r>>}
      <3> SUFFICES ASSUME NEW m \in Unwritten' PROVE m \in Unwritten /\ m # <<w, r>>
        OBVIOUS
      <3>1. m \in Workers \X Rules /\ m[2] \in work'[m[1]].todo
        BY DEF Unwritten
      <3>2. m[2] \in work[m[1]].todo /\ ~(m[1] = w /\ m[2] = r)
        BY <1>5, <1>8, <3>1
      <3> QED BY <3>1, <3>2 DEF Unwritten
    <2>3. IsFiniteSet(Unwritten \ {<<w, r>>})
          /\ Cardinality(Unwritten \ {<<w, r>>}) = Cardinality(Unwritten) - 1
      BY <2>1, CountsFinite, FS_RemoveElement
    <2>4. Cardinality(Unwritten') \in Nat /\ Cardinality(Unwritten') <= Cardinality(Unwritten \ {<<w, r>>})
      BY <2>2, <2>3, FS_Subset, FS_CardinalityType
    <2> QED BY <2>3, <2>4, CountsFinite
  <1>18. (Len(detections) + Cardinality(Unwritten) <= evaluations * Cardinality(Rules))'
    <2> DEFINE spend == evaluations * Cardinality(Rules)
    <2>1. spend \in Nat /\ Len(detections) + Cardinality(Unwritten) <= spend
      BY <1>1, Numbers DEF BudgetInv, RowsInv
    <2> HIDE DEF spend
    <2>2. Len(detections') + Cardinality(Unwritten') <= spend
      BY <1>4, <1>9, <1>17, <2>1, CountsFinite
    <2> QED BY <1>3, <2>2 DEF spend
  <1>19. (Len(cases) + Cardinality(Opening) <= requests)'
    <2>1. Opening' \subseteq Opening
      BY <1>8, <1>14, SetsMove
    <2> QED BY <1>1, <1>3, <1>10, <2>1, OpeningKept
  <1>20. OpeningStay
    BY <1>8, <1>14 DEF OpeningStay, Opening, Stays
  <1> QED BY <1>10, <1>12, <1>13, <1>15, <1>16, <1>18, <1>19, <1>20, StepKept DEF BudgetInv

-----------------------------------------------------------------------------
(***************************************************************************)
(* Triage, and the steps of an investigator that only write the tables.    *)
(***************************************************************************)
LEMMA TriageKeeps ==
    ASSUME CaseIInv, NEW d \in DOMAIN detections, Acknowledge(d) \/ Dismiss(d) PROVE CaseIInv'
  <1>1. RowsInv /\ PointersInv
    BY DEF CaseIInv
  <1>2. d \in 1 .. Len(detections) /\ {Len(detections), Len(cases)} \subseteq Nat
        /\ detections \in Seq(DetectionRow) /\ detections[d] \in DetectionRow
    BY <1>1, Tables
  <1>3. PICK s \in {"acknowledged", "dismissed"} : detections' = [detections EXCEPT ![d].status = s]
    BY DEF Acknowledge, Dismiss
  <1>4. UNCHANGED <<cases, evidence, actions, work, evaluations, requests>>
    BY DEF Acknowledge, Dismiss, spent
  <1> DEFINE row == [detections[d] EXCEPT !.status = s]
  <1>5. row \in DetectionRow /\ row.status = s /\ row.case = detections[d].case
    BY <1>2 DEF DetectionRow, Statuses
  <1>6. detections' = [detections EXCEPT ![d] = row]
    BY <1>2, <1>3
  <1> HIDE DEF row
  <1>7. /\ detections' \in Seq(DetectionRow) /\ Len(detections') = Len(detections)
        /\ detections'[d] = row
        /\ \A e \in 1 .. Len(detections) : e # d => detections'[e] = detections[e]
    BY <1>2, <1>5, <1>6, Replaced
  <1>8. RowsInv'
    BY <1>1, <1>4, <1>7 DEF RowsInv
  <1>9. DetectionsStay /\ CasesStay
    BY <1>2, <1>4, <1>5, <1>7 DEF DetectionsStay, CasesStay
  <1>10. PointersInv'
    <2>1. \A e \in 1 .. Len(detections) : detections'[e].case <= Len(cases)
      BY <1>1, <1>5, <1>7 DEF PointersInv
    <2> QED BY <1>1, <1>4, <1>7, <2>1 DEF PointersInv
  <1> QED BY <1>4, <1>7, <1>8, <1>9, <1>10, TableStep

\* The log of actions grows by an entry of a case that is there then.
LEMMA ActionAdded ==
    ASSUME RowsInv, PointersInv, NEW c \in 1 .. Len(cases'), Len(cases') \in Nat,
           Len(cases) <= Len(cases'),
           NEW type \in {"status_change", "evidence_collected", "note", "resolution"},
           actions' = Append(actions, Action(c, type))
    PROVE  /\ actions' \in Seq(ActionRow)
           /\ \A i \in 1 .. Len(actions') : actions'[i].case \in 1 .. Len(cases')
  <1> DEFINE row == [case |-> c, action |-> type]
  <1>1. row \in ActionRow /\ row.case = c /\ actions' = Append(actions, row)
    BY DEF ActionRow, Action
  <1>2. actions \in Seq(ActionRow) /\ Len(actions) \in Nat /\ Len(cases) \in Nat
    BY Tables
  <1> HIDE DEF row
  <1>3. /\ actions' \in Seq(ActionRow) /\ Len(actions') = Len(actions) + 1
        /\ actions'[Len(actions) + 1] = row
        /\ \A i \in 1 .. Len(actions) : actions'[i] = actions[i]
        /\ 1 .. Len(actions') = (1 .. Len(actions)) \union {Len(actions')}
    BY <1>1, <1>2, Added
  <1>4. \A i \in 1 .. Len(actions) : actions[i].case \in 1 .. Len(cases')
    BY <1>2 DEF PointersInv
  <1> QED BY <1>1, <1>3, <1>4

LEMMA RequestCounted ==
    ASSUME RowsInv, requests' = requests + 1, requests < MaxRequests
    PROVE  requests' \in 0 .. MaxRequests
  <1>1. requests \in 0 .. MaxRequests /\ MaxRequests \in Nat
    BY Numbers DEF RowsInv
  <1> QED BY <1>1

LEMMA appendActionKeeps == ASSUME CaseIInv, NEW c \in DOMAIN cases, appendAction(c) PROVE CaseIInv'
  <1>1. RowsInv /\ PointersInv
    BY DEF CaseIInv
  <1>2. c \in 1 .. Len(cases) /\ {Len(detections), Len(cases)} \subseteq Nat
    BY <1>1, Tables
  <1>3. /\ UNCHANGED <<detections, cases, evidence, work, evaluations>>
        /\ actions' = Append(actions, Action(c, "note"))
        /\ requests' = requests + 1 /\ requests < MaxRequests
    BY DEF appendAction, Request
  <1>4. /\ actions' \in Seq(ActionRow)
        /\ \A i \in 1 .. Len(actions') : actions'[i].case \in 1 .. Len(cases')
    BY <1>1, <1>2, <1>3, ActionAdded
  <1>5. requests' \in 0 .. MaxRequests
    BY <1>1, <1>3, RequestCounted
  <1>6. RowsInv' /\ PointersInv'
    BY <1>1, <1>3, <1>4, <1>5 DEF RowsInv, PointersInv
  <1>7. CasesStay /\ DetectionsStay
    BY <1>2, <1>3 DEF CasesStay, DetectionsStay
  <1> QED BY <1>3, <1>6, <1>7, TableStep

LEMMA CloseCaseKeeps == ASSUME CaseIInv, NEW c \in DOMAIN cases, CloseCase(c) PROVE CaseIInv'
  <1>1. RowsInv /\ PointersInv
    BY DEF CaseIInv
  <1>2. c \in 1 .. Len(cases) /\ {Len(detections), Len(cases)} \subseteq Nat
        /\ cases \in Seq(CaseRow) /\ cases[c] \in CaseRow
    BY <1>1, Tables
  <1>3. /\ UNCHANGED <<detections, evidence, work, evaluations>>
        /\ cases' = [cases EXCEPT ![c].status = "closed"]
        /\ actions' = Append(actions, Action(c, "resolution"))
        /\ requests' = requests + 1 /\ requests < MaxRequests
    BY DEF CloseCase, Request
  <1> DEFINE row == [cases[c] EXCEPT !.status = "closed"]
  <1>4. row \in CaseRow /\ row.det = cases[c].det /\ row.seen = cases[c].seen
    BY <1>2 DEF CaseRow
  <1>5. cases' = [cases EXCEPT ![c] = row]
    BY <1>2, <1>3
  <1> HIDE DEF row
  <1>6. /\ cases' \in Seq(CaseRow) /\ Len(cases') = Len(cases) /\ cases'[c] = row
        /\ \A e \in 1 .. Len(cases) : e # c => cases'[e] = cases[e]
    BY <1>2, <1>4, <1>5, Replaced
  <1>7. /\ actions' \in Seq(ActionRow)
        /\ \A i \in 1 .. Len(actions') : actions'[i].case \in 1 .. Len(cases')
    BY <1>1, <1>2, <1>3, <1>6, ActionAdded
  <1>8. requests' \in 0 .. MaxRequests
    BY <1>1, <1>3, RequestCounted
  <1>9. RowsInv'
    BY <1>1, <1>3, <1>6, <1>7, <1>8 DEF RowsInv
  <1>10. \A e \in 1 .. Len(cases) : cases'[e].det = cases[e].det /\ cases'[e].seen = cases[e].seen
    BY <1>4, <1>6
  <1>11. PointersInv'
    BY <1>1, <1>3, <1>6, <1>7, <1>10 DEF PointersInv
  <1>12. CasesStay /\ DetectionsStay
    BY <1>2, <1>3, <1>6, <1>10 DEF CasesStay, DetectionsStay
  <1> QED BY <1>3, <1>6, <1>9, <1>11, <1>12, TableStep

\* A case is opened with its first action.
Opens(row) ==
    /\ cases' = Append(cases, row)
    /\ actions' = Append(actions, Action(Len(cases) + 1, "status_change"))
    /\ evidence' = evidence

LEMMA CaseAdded ==
    ASSUME CaseIInv, NEW row \in CaseRow, row.det <= Len(detections), row.seen <= Len(cases),
           Opens(row)
    PROVE  /\ cases' \in Seq(CaseRow) /\ Len(cases) \in Nat /\ Len(cases') = Len(cases) + 1
           /\ cases'[Len(cases) + 1] = row /\ \A c \in 1 .. Len(cases) : cases'[c] = cases[c]
           /\ 1 .. Len(cases') = (1 .. Len(cases)) \union {Len(cases) + 1}
           /\ actions' \in Seq(ActionRow)
           /\ detections' = detections => PointersInv'
           /\ row.det = 0 => CasesStay
  <1>1. RowsInv /\ PointersInv
    BY DEF CaseIInv
  <1>2. /\ {Len(detections), Len(cases)} \subseteq Nat /\ cases \in Seq(CaseRow)
        /\ \A d \in 1 .. Len(detections) : detections[d].case \in Nat
        /\ \A c \in 1 .. Len(cases) : cases[c].seen \in Nat /\ cases[c].det \in Nat
        /\ row.seen \in Nat /\ row.det \in Nat
    BY <1>1, Tables, Numbers DEF DetectionRow, CaseRow
  <1>3. /\ cases' \in Seq(CaseRow) /\ Len(cases') = Len(cases) + 1
        /\ cases'[Len(cases) + 1] = row /\ \A c \in 1 .. Len(cases) : cases'[c] = cases[c]
        /\ 1 .. Len(cases') = (1 .. Len(cases)) \union {Len(cases) + 1}
    BY <1>2, Added DEF Opens
  <1>4. /\ actions' \in Seq(ActionRow)
        /\ \A i \in 1 .. Len(actions') : actions'[i].case \in 1 .. Len(cases')
    <2>1. Len(cases) + 1 \in 1 .. Len(cases') /\ Len(cases') \in Nat /\ Len(cases) <= Len(cases')
      BY <1>2, <1>3
    <2> QED BY <1>1, <2>1, ActionAdded DEF Opens
  <1>5. ASSUME detections' = detections PROVE PointersInv'
    <2>1. \A d \in 1 .. Len(detections) : detections[d].case <= Len(cases')
      BY <1>1, <1>2, <1>3 DEF PointersInv
    <2>2. \A c \in 1 .. Len(cases') : cases'[c].det <= Len(detections) /\ cases'[c].seen <= Len(cases')
      <3>0. Len(cases') \in Nat /\ Len(cases) <= Len(cases') /\ Len(cases) \in Nat
        BY <1>2, <1>3
      <3>1. ASSUME NEW c \in 1 .. Len(cases)
            PROVE  cases'[c].det <= Len(detections) /\ cases'[c].seen <= Len(cases')
        <4>1. cases[c].det <= Len(detections) /\ cases[c].seen <= Len(cases) /\ cases[c].seen \in Nat
             /\ cases[c].det \in Nat
          BY <1>1, <1>2 DEF PointersInv
        <4>2. cases'[c] = cases[c]
          BY <1>3
        <4>3. cases[c].seen <= Len(cases')
          BY <3>0, <4>1
        <4> QED BY <4>1, <4>2, <4>3
      <3>2. row.det <= Len(detections) /\ row.seen <= Len(cases')
        <4>1. row.seen \in Nat /\ row.det \in Nat
          BY <1>2
        <4> QED BY <3>0, <4>1
      <3> QED BY <1>3, <3>1, <3>2
    <2>3. \A i \in 1 .. Len(evidence) : evidence[i].case \in 1 .. Len(cases') /\ evidence[i].stamp < i
      BY <1>1, <1>3 DEF PointersInv
    <2> QED BY <1>4, <1>5, <2>1, <2>2, <2>3 DEF PointersInv, Opens
  <1>6. row.det = 0 => CasesStay
    BY <1>2, <1>3 DEF CasesStay
  <1> QED BY <1>2, <1>3, <1>4, <1>5, <1>6

LEMMA NewCase ==
    ASSUME NEW s \in {NoOne, Subject}, NEW d \in Hashes, NEW n \in Nat
    PROVE  LET row == Case(s, d, n)
           IN  row \in CaseRow /\ row.det = d /\ row.seen = n
  BY DEF Case, CaseRow

LEMMA createCaseKeeps ==
    ASSUME CaseIInv, NEW w \in Workers, NEW s \in {NoOne, Subject}, createCase(w, s) PROVE CaseIInv'
  <1> DEFINE row == Case(s, 0, 0)
  <1>1. RowsInv /\ {Len(detections), Len(cases)} \subseteq Nat
    BY Tables DEF CaseIInv
  <1>2. /\ Opens(row) /\ UNCHANGED <<detections, evidence, work, evaluations>>
        /\ requests' = requests + 1 /\ requests < MaxRequests
    BY DEF createCase, Opens, Request
  <1>3. row \in CaseRow /\ row.det = 0 /\ row.seen = 0
    BY Numbers, NewCase
  <1> HIDE DEF row
  <1>4. row.det <= Len(detections) /\ row.seen <= Len(cases)
    BY <1>1, <1>3
  <1>5. /\ cases' \in Seq(CaseRow) /\ Len(cases') = Len(cases) + 1 /\ actions' \in Seq(ActionRow)
        /\ PointersInv' /\ CasesStay
    BY <1>2, <1>3, <1>4, CaseAdded
  <1>6. requests' \in 0 .. MaxRequests
    BY <1>1, <1>2, RequestCounted
  <1>7. RowsInv'
    BY <1>1, <1>2, <1>5, <1>6 DEF RowsInv
  <1>8. DetectionsStay
    BY <1>1, <1>2 DEF DetectionsStay
  <1> QED BY <1>2, <1>5, <1>7, <1>8, TableStep

-----------------------------------------------------------------------------
(***************************************************************************)
(* A case is opened and evidence for it is stamped in the same step.       *)
(***************************************************************************)
LEMMA OpenedAndStamped ==
    ASSUME CaseIInv, NEW w \in Workers, NEW row \in CaseRow, NEW x \in Item,
           row.det <= Len(detections), row.seen <= Len(cases), Opens(row),
           x.case = Len(cases) + 1, x.det <= Len(detections), x.seen <= Len(cases), x.todo = {},
           ~Appends(w), work' = Stamp(w, x), Len(detections') = Len(detections),
           detections' \in Seq(DetectionRow),
           evaluations' = evaluations, requests' \in 0 .. MaxRequests
    PROVE  /\ RowsInv' /\ WorkInv' /\ OverlapInv' /\ ChainInv' /\ Unwritten' \subseteq Unwritten
           /\ \A v \in Workers : v # w => Stays(v)
           /\ work'[w].at = "stamped" /\ Opening' \subseteq Opening \ {w}
  <1>1. RowsInv /\ PointersInv /\ WorkInv /\ OverlapInv /\ ChainInv
    BY DEF CaseIInv
  <1>2. {Len(detections), Len(cases), Len(evidence)} \subseteq Nat
    BY <1>1, Tables
  <1>3. /\ cases' \in Seq(CaseRow) /\ Len(cases') = Len(cases) + 1 /\ actions' \in Seq(ActionRow)
        /\ evidence' = evidence
    BY CaseAdded DEF Opens
  <1>4. /\ work' \in [Workers -> Item]
        /\ \A v \in Workers : v # w => Stays(v)
        /\ work'[w].at = "stamped" /\ work'[w].stamp = Len(evidence)
        /\ work'[w].todo = x.todo /\ work'[w].det = x.det
        /\ work'[w].case = x.case /\ work'[w].seen = x.seen
    BY <1>1, Stamped
  <1>5. RowsInv'
    BY <1>1, <1>3, <1>4 DEF RowsInv
  <1>6. PointsWell(work[w])'
    <2>1. x.seen \in Nat
      BY DEF Item
    <2>2. x.case <= Len(cases') /\ x.case # 0 /\ x.seen <= Len(cases')
      BY <1>2, <1>3, <2>1
    <2>3. Len(evidence) <= Len(evidence)
      BY <1>2
    <2> QED BY <1>3, <1>4, <2>2, <2>3 DEF PointsWell
  <1>7. WorkInv'
    <2>1. /\ Len(detections) <= Len(detections') /\ Len(cases) <= Len(cases')
          /\ Len(evidence) <= Len(evidence')
      BY <1>2, <1>3
    <2> QED BY <1>1, <1>4, <1>5, <1>6, <2>1, WorkKept
  <1>8. OverlapInv' /\ ChainInv'
    BY <1>1, <1>3, EvidenceStamped
  <1>9. Unwritten' \subseteq Unwritten /\ Opening' \subseteq Opening \ {w}
    <2>1. work'[w].todo \subseteq work[w].todo /\ work'[w].at \notin {"loaded", "open"}
      BY <1>4
    <2> QED BY <1>4, <2>1, SetsMove
  <1> QED BY <1>4, <1>5, <1>7, <1>8, <1>9

LEMMA createCaseFromKeeps ==
    ASSUME CaseIInv, NEW w \in Workers, NEW d \in DOMAIN detections, createCaseFrom(w, d)
    PROVE  CaseIInv'
  <1> DEFINE row == Case(NoOne, 0, 0)
             x == [[[Idle EXCEPT !.case = Len(cases) + 1] EXCEPT !.det = d] EXCEPT !.mirror = TRUE]
  <1>1. RowsInv /\ BudgetInv /\ detections \in Seq(DetectionRow)
        /\ {Len(detections), Len(cases)} \subseteq Nat /\ d \in 1 .. Len(detections)
    BY Tables DEF CaseIInv
  <1>2. /\ Opens(row) /\ UNCHANGED <<detections, evidence, evaluations>> /\ work' = Stamp(w, x)
        /\ requests' = requests + 1 /\ requests < MaxRequests /\ ~Appends(w)
    BY DEF createCaseFrom, Opens, Request, Appends
  <1>3. row \in CaseRow /\ row.det = 0 /\ row.seen = 0
    BY Numbers, NewCase
  <1>4. x \in Item /\ x.case = Len(cases) + 1 /\ x.det = d /\ x.seen = 0 /\ x.todo = {}
    <2>1. d \in Hashes /\ Len(cases) + 1 \in Nat
      BY <1>1, DetectionsBounded
    <2> QED BY <2>1, IdleItem DEF Item
  <1> HIDE DEF row, x
  <1>5. row.det <= Len(detections) /\ row.seen <= Len(cases) /\ x.det <= Len(detections)
        /\ x.seen <= Len(cases)
    BY <1>1, <1>3, <1>4
  <1>6. requests' \in 0 .. MaxRequests
    BY <1>1, <1>2, RequestCounted
  <1>7. /\ RowsInv' /\ WorkInv' /\ OverlapInv' /\ ChainInv' /\ Unwritten' \subseteq Unwritten
        /\ \A v \in Workers : v # w => Stays(v)
        /\ work'[w].at = "stamped" /\ Opening' \subseteq Opening \ {w}
    BY <1>1, <1>2, <1>3, <1>4, <1>5, <1>6, OpenedAndStamped
  <1>8. PointersInv' /\ CasesStay /\ Len(cases') = Len(cases) + 1
    BY <1>2, <1>3, <1>5, CaseAdded
  <1>9. DetectionsStay
    BY <1>1, <1>2 DEF DetectionsStay
  <1>10. (Len(detections) + Cardinality(Unwritten) <= evaluations * Cardinality(Rules))'
    BY <1>1, <1>2, <1>7, MatchesKept
  <1>11. (Len(cases) + Cardinality(Opening) <= requests)'
    <2>1. Opening' \subseteq Opening
      BY <1>7
    <2> QED BY <1>1, <1>2, <1>7, <1>8, <2>1, OpeningKept
  <1>12. OpeningStay
    <2>1. \A v \in Opening' : v \in Opening /\ Stays(v)
      BY <1>7 DEF Opening
    <2> QED BY <2>1 DEF OpeningStay, Stays
  <1> QED BY <1>7, <1>8, <1>9, <1>10, <1>11, <1>12, StepKept DEF BudgetInv

-----------------------------------------------------------------------------
(***************************************************************************)
(* A row of evidence is committed, and in fox its entry in the log.        *)
(***************************************************************************)
LEMMA AppendEvidenceKeeps ==
    ASSUME CaseIInv, NEW w \in Workers, AppendEvidence(w) PROVE CaseIInv'
  <1>1. RowsInv /\ PointersInv /\ WorkInv /\ BudgetInv /\ OverlapInv /\ ChainInv
    BY DEF CaseIInv
  <1>2. /\ {Len(detections), Len(cases), Len(evidence)} \subseteq Nat
        /\ actions \in Seq(ActionRow) /\ work[w] \in Item
    BY <1>1, Tables
  <1>3. PICK n, c : n = Len(evidence) + 1 /\ c = work[w].case
    OBVIOUS
  <1>4. /\ evidence' \in Seq(EvidenceRow) /\ Len(evidence') = n
        /\ \A i \in 1 .. Len(evidence) : evidence'[i] = evidence[i]
        /\ evidence'[n].case = c /\ evidence'[n].stamp = work[w].stamp
        /\ work' \in [Workers -> Item] /\ work'[w] = Idle
        /\ \A v \in Workers : v # w => work'[v] = work[v]
    BY <1>1, <1>3, AppendFacts
  <1>5. /\ UNCHANGED <<detections, cases, evaluations, requests>> /\ actions' = Mirrored(w)
        /\ work[w].at = "chained"
    BY DEF AppendEvidence, spent
  <1>6. PointsWell(work[w]) /\ c \in 1 .. Len(cases) /\ work[w].stamp \in Nat
    <2>1. PointsWell(work[w]) /\ work[w].case \in Nat /\ work[w].stamp \in Nat
      BY <1>1, <1>2 DEF WorkInv, Item
    <2>2. work[w].case # 0 /\ work[w].case <= Len(cases)
      BY <1>5, <2>1 DEF PointsWell
    <2> QED BY <1>2, <1>3, <2>1, <2>2
  <1>7. /\ actions' \in Seq(ActionRow)
        /\ \A i \in 1 .. Len(actions') : actions'[i].case \in 1 .. Len(cases)
    <2>1. CASE actions' = actions
      BY <1>1, <1>2, <2>1 DEF PointersInv
    <2>2. CASE actions' = Append(actions, Action(c, "evidence_collected"))
      <3>1. c \in 1 .. Len(cases') /\ Len(cases') \in Nat /\ Len(cases) <= Len(cases')
            /\ cases' = cases
        BY <1>2, <1>5, <1>6
      <3> QED BY <1>1, <2>2, <3>1, ActionAdded
    <2> QED BY <1>3, <1>5, <2>1, <2>2 DEF Mirrored
  <1>8. RowsInv'
    BY <1>1, <1>4, <1>5, <1>7 DEF RowsInv
  <1>9. PointersInv'
    <2>1. \A i \in 1 .. Len(evidence') : evidence'[i].case \in 1 .. Len(cases) /\ evidence'[i].stamp < i
      <3>1. 1 .. Len(evidence') = (1 .. Len(evidence)) \union {n}
        BY <1>2, <1>3, <1>4
      <3>2. work[w].stamp < n
        BY <1>2, <1>3, <1>6 DEF PointsWell
      <3> QED BY <1>1, <1>4, <1>6, <3>1, <3>2 DEF PointersInv
    <2> QED BY <1>1, <1>5, <1>7, <2>1 DEF PointersInv
  <1>10. CasesStay /\ DetectionsStay
    BY <1>2, <1>5 DEF CasesStay, DetectionsStay
  <1>11. \A v \in Workers : v # w => Stays(v)
    BY <1>4 DEF Stays
  <1>12. PointsWell(work[w])' /\ Len(evidence) <= Len(evidence') /\ Len(detections) <= Len(detections')
         /\ Len(cases) <= Len(cases')
    <2>1. Len(evidence') \in Nat /\ Len(evidence) <= Len(evidence') /\ Len(detections) <= Len(detections')
          /\ Len(cases) <= Len(cases')
      BY <1>2, <1>3, <1>4, <1>5
    <2> QED BY <1>2, <1>4, <1>5, <2>1, IdleItem DEF PointsWell
  <1>13. WorkInv'
    BY <1>1, <1>8, <1>11, <1>12, WorkKept
  <1>14. OverlapInv' /\ ChainInv'
    BY <1>1, EvidenceAppended
  <1>15. Unwritten' \subseteq Unwritten /\ Opening' \subseteq Opening \ {w}
    <2>1. work'[w].todo \subseteq work[w].todo /\ work'[w].at \notin {"loaded", "open"}
      BY <1>4, IdleItem
    <2> QED BY <1>11, <2>1, SetsMove
  <1>16. (Len(detections) + Cardinality(Unwritten) <= evaluations * Cardinality(Rules))'
    BY <1>1, <1>5, <1>15, MatchesKept
  <1>17. (Len(cases) + Cardinality(Opening) <= requests)'
    <2>1. Opening' \subseteq Opening
      BY <1>15
    <2> QED BY <1>1, <1>5, <1>8, <2>1, OpeningKept
  <1>18. OpeningStay
    <2>1. \A v \in Opening' : v \in Opening /\ Stays(v)
      BY <1>11, <1>15 DEF Opening
    <2> QED BY <2>1 DEF OpeningStay, Stays
  <1> QED BY <1>8, <1>9, <1>10, <1>13, <1>14, <1>16, <1>17, <1>18, StepKept DEF BudgetInv

-----------------------------------------------------------------------------
(***************************************************************************)
(* OpenCase: the case and the link of its detection are one transaction.   *)
(***************************************************************************)
LEMMA OpenCaseFacts ==
    ASSUME CaseIInv, NEW w \in Workers, OpenCase(w), NEW d, d = work[w].det,
           NEW n, n = Len(cases) + 1
    PROVE  /\ d \in 1 .. Len(detections) /\ d # 0 /\ d \in Nat /\ Len(cases) \in Nat
           /\ detections' \in Seq(DetectionRow) /\ Len(detections') = Len(detections)
           /\ detections'[d].case = n
           /\ \A e \in 1 .. Len(detections) : e # d => detections'[e] = detections[e]
           /\ cases' \in Seq(CaseRow) /\ Len(cases') = n
           /\ cases'[n].det = d /\ cases'[n].seen = work[w].seen
           /\ work[w].seen \in Nat /\ work[w].seen <= Len(cases)
           /\ \A c \in 1 .. Len(cases) : cases'[c] = cases[c]
           /\ RowsInv' /\ PointersInv' /\ WorkInv' /\ BudgetInv' /\ OverlapInv' /\ ChainInv'
           /\ w \in Opening /\ ~work[w].linked
           /\ \A v \in Opening' : v \in Opening /\ Stays(v)
  <1>1. RowsInv /\ PointersInv /\ WorkInv /\ BudgetInv
    BY DEF CaseIInv
  <1>2. /\ {Len(detections), Len(cases)} \subseteq Nat /\ work[w] \in Item
        /\ detections \in Seq(DetectionRow)
        /\ \A e \in 1 .. Len(detections) : detections[e] \in DetectionRow
    BY <1>1, Tables
  <1>3. PointsWell(work[w]) /\ work[w].det \in Nat /\ work[w].det \in Hashes /\ work[w].seen \in Nat
    BY <1>1, <1>2, Numbers DEF WorkInv, Item
  <1>4. work[w].at = "open"
    BY DEF OpenCase
  <1>5. d # 0 /\ d <= Len(detections) /\ work[w].todo = {} /\ ~work[w].linked
        /\ work[w].seen <= Len(cases)
    BY <1>3, <1>4 DEF PointsWell
  <1>6. d \in 1 .. Len(detections)
    BY <1>2, <1>3, <1>5
  <1>7. PICK s \in {NoOne, Subject} : cases' = Append(cases, Case(s, work[w].det, work[w].seen))
    BY DEF OpenCase
  <1> DEFINE row == Case(s, work[w].det, work[w].seen)
             x == [[work[w] EXCEPT !.case = Len(cases) + 1] EXCEPT !.mirror = TRUE]
             linked == [[detections[d] EXCEPT !.case = n] EXCEPT !.status = "escalated_to_case"]
  <1>8. row \in CaseRow /\ row.det = d /\ row.seen = work[w].seen
    BY <1>3, NewCase
  <1>9. x \in Item /\ x.case = n /\ x.det = d /\ x.seen = work[w].seen /\ x.todo = {}
    <2>1. work[w] \in Item /\ n \in Nat /\ work[w].todo = {}
      BY <1>2, <1>5
    <2> HIDE DEF row, linked
    <2> QED BY <2>1 DEF Item
  <1>10. linked \in DetectionRow /\ linked.case = n
    <2>1. detections[d] \in DetectionRow /\ n \in Nat
      BY <1>2, <1>6
    <2> QED BY <2>1 DEF DetectionRow, Statuses
  <1>11. detections' = [detections EXCEPT ![d] = linked]
    <2>1. detections' = [detections EXCEPT ![d].case = n, ![d].status = "escalated_to_case"]
      BY DEF OpenCase
    <2> QED BY <1>2, <1>6, <2>1
  <1>12. /\ Opens(row) /\ work' = Stamp(w, x) /\ evaluations' = evaluations /\ requests' = requests
    BY <1>7 DEF OpenCase, Opens, Fail, spent
  <1> HIDE DEF row, x, linked
  <1>13. /\ detections' \in Seq(DetectionRow) /\ Len(detections') = Len(detections)
         /\ detections'[d] = linked
         /\ \A e \in 1 .. Len(detections) : e # d => detections'[e] = detections[e]
    BY <1>2, <1>6, <1>10, <1>11, Replaced
  <1>14. row.det <= Len(detections) /\ row.seen <= Len(cases) /\ x.det <= Len(detections)
         /\ x.seen <= Len(cases) /\ ~Appends(w) /\ requests' \in 0 .. MaxRequests
    BY <1>1, <1>4, <1>5, <1>8, <1>9, <1>12 DEF Appends, RowsInv
  <1>15. /\ cases' \in Seq(CaseRow) /\ Len(cases') = Len(cases) + 1 /\ cases'[Len(cases) + 1] = row
         /\ \A c \in 1 .. Len(cases) : cases'[c] = cases[c]
         /\ 1 .. Len(cases') = (1 .. Len(cases)) \union {Len(cases) + 1}
         /\ actions' \in Seq(ActionRow)
    BY <1>8, <1>12, <1>14, CaseAdded
  <1>16. /\ RowsInv' /\ WorkInv' /\ OverlapInv' /\ ChainInv' /\ Unwritten' \subseteq Unwritten
         /\ \A v \in Workers : v # w => Stays(v)
         /\ Opening' \subseteq Opening \ {w}
    BY <1>8, <1>9, <1>12, <1>13, <1>14, OpenedAndStamped
  <1>17. PointersInv'
    <2>1. \A e \in 1 .. Len(detections') : detections'[e].case <= Len(cases')
      <3>1. detections'[d].case <= Len(cases')
        BY <1>2, <1>10, <1>13, <1>15
      <3>2. \A e \in 1 .. Len(detections) : e # d => detections'[e].case <= Len(cases')
        <4>1. \A e \in 1 .. Len(detections) : detections[e].case \in Nat /\ detections[e].case <= Len(cases)
          BY <1>1, <1>2 DEF PointersInv, DetectionRow
        <4> QED BY <1>2, <1>13, <1>15, <4>1
      <3> QED BY <1>13, <3>1, <3>2
    <2>2. \A c \in 1 .. Len(cases') : cases'[c].det <= Len(detections') /\ cases'[c].seen <= Len(cases')
      <3>1. cases'[Len(cases) + 1].det <= Len(detections') /\ cases'[Len(cases) + 1].seen <= Len(cases')
        <4>1. row.seen \in Nat
          BY <1>3, <1>8
        <4> QED BY <1>2, <1>13, <1>14, <1>15, <4>1
      <3>2. ASSUME NEW c \in 1 .. Len(cases)
            PROVE  cases'[c].det <= Len(detections') /\ cases'[c].seen <= Len(cases')
        <4>1. cases[c].seen \in Nat /\ cases[c].seen <= Len(cases) /\ cases[c].det <= Len(detections)
          BY <1>1, Tables DEF PointersInv, CaseRow
        <4> QED BY <1>2, <1>13, <1>15, <4>1
      <3> QED BY <1>15, <3>1, <3>2
    <2>3. \A i \in 1 .. Len(evidence) : evidence[i].case \in 1 .. Len(cases') /\ evidence[i].stamp < i
      BY <1>1, <1>15 DEF PointersInv
    <2>4. \A i \in 1 .. Len(actions') : actions'[i].case \in 1 .. Len(cases')
      <3>1. Len(cases) + 1 \in 1 .. Len(cases') /\ Len(cases') \in Nat /\ Len(cases) <= Len(cases')
        BY <1>2, <1>15
      <3> QED BY <1>1, <1>12, <3>1, ActionAdded DEF Opens
    <2> QED BY <1>12, <2>1, <2>2, <2>3, <2>4 DEF PointersInv, Opens
  <1>18. w \in Opening
    BY <1>4 DEF Opening
  <1>19. (Len(detections) + Cardinality(Unwritten) <= evaluations * Cardinality(Rules))'
    BY <1>1, <1>12, <1>13, <1>16, MatchesKept
  <1>20. (Len(cases) + Cardinality(Opening) <= requests)'
    BY <1>1, <1>12, <1>15, <1>16, <1>18, OpeningKept
  <1>21. \A v \in Opening' : v \in Opening /\ Stays(v)
    BY <1>16 DEF Opening
  <1>22. d \in Nat /\ detections'[d].case = n /\ Len(cases') = n /\ cases'[n] = row
    BY <1>2, <1>6, <1>10, <1>13, <1>15
  <1> QED
    BY <1>2, <1>3, <1>5, <1>6, <1>8, <1>13, <1>15, <1>16, <1>17, <1>18, <1>19, <1>20, <1>21, <1>22
    DEF BudgetInv

LEMMA OpenCaseKeeps == ASSUME CaseIInv, NEW w \in Workers, OpenCase(w) PROVE CaseIInv'
  <1>0. PICK d, n : d = work[w].det /\ n = Len(cases) + 1
    OBVIOUS
  <1>1. /\ d \in 1 .. Len(detections) /\ d # 0 /\ d \in Nat /\ Len(cases) \in Nat
        /\ Len(detections') = Len(detections) /\ detections'[d].case = n
        /\ \A e \in 1 .. Len(detections) : e # d => detections'[e] = detections[e]
        /\ Len(cases') = n /\ cases'[n].det = d /\ cases'[n].seen = work[w].seen
        /\ work[w].seen \in Nat /\ work[w].seen <= Len(cases)
        /\ \A c \in 1 .. Len(cases) : cases'[c] = cases[c]
        /\ RowsInv' /\ PointersInv' /\ WorkInv' /\ BudgetInv' /\ OverlapInv' /\ ChainInv'
        /\ w \in Opening /\ ~work[w].linked
        /\ \A v \in Opening' : v \in Opening /\ Stays(v)
    BY <1>0, OpenCaseFacts
  <1>2. /\ DOMAIN detections = 1 .. Len(detections) /\ DOMAIN cases = 1 .. Len(cases)
        /\ DOMAIN detections' = 1 .. Len(detections') /\ DOMAIN cases' = 1 .. Len(cases')
        /\ 1 .. Len(cases') = (1 .. Len(cases)) \union {n} /\ n \notin 1 .. Len(cases)
        /\ n \in Nat /\ n # 0
    <2>1. DOMAIN detections = 1 .. Len(detections) /\ DOMAIN cases = 1 .. Len(cases)
      BY Tables DEF CaseIInv
    <2>2. DOMAIN detections' = 1 .. Len(detections') /\ DOMAIN cases' = 1 .. Len(cases')
      BY <1>1 DEF RowsInv
    <2>3. n \in Nat /\ n # 0 /\ n = Len(cases) + 1 /\ Len(cases) \in Nat /\ Len(cases') = n
      BY <1>0, <1>1
    <2> QED BY <2>1, <2>2, <2>3
  <1>3. EscalatedPointsToCase /\ RaceInv /\ WorkInv
    BY DEF CaseIInv
  <1>4. EscalatedPointsToCase'
    <2> SUFFICES ASSUME NEW e \in 1 .. Len(detections)
                 PROVE  LET opened == {c \in 1 .. Len(cases') : cases'[c].det = e}
                        IN  /\ detections'[e].status = "escalated_to_case" => detections'[e].case # 0
                            /\ (detections'[e].case # 0) = (opened # {})
                            /\ opened # {} => detections'[e].case \in opened
      BY <1>1, <1>2 DEF EscalatedPointsToCase
    <2>1. CASE e = d
      <3>1. n \in {c \in 1 .. Len(cases') : cases'[c].det = d}
        BY <1>1, <1>2
      <3> QED BY <1>1, <1>2, <2>1, <3>1
    <2>2. CASE e # d
      <3> DEFINE opened == {c \in 1 .. Len(cases) : cases[c].det = e}
      <3>1. {c \in 1 .. Len(cases') : cases'[c].det = e} = opened
        BY <1>1, <1>2, <2>2
      <3>2. /\ detections[e].status = "escalated_to_case" => detections[e].case # 0
            /\ (detections[e].case # 0) = (opened # {})
            /\ opened # {} => detections[e].case \in opened
        BY <1>2, <1>3 DEF EscalatedPointsToCase
      <3> HIDE DEF opened
      <3> QED BY <1>1, <2>2, <3>1, <3>2
    <2> QED BY <2>1, <2>2
  <1>5. \A c \in 1 .. Len(cases) : cases[c].det = d => work[w].seen < c
    BY <1>0, <1>1, <1>3 DEF RaceInv
  <1>6. SecondCaseOnlyByRace'
    <2> SUFFICES ASSUME NEW c \in 1 .. Len(cases'), NEW e \in 1 .. Len(cases'),
                        cases'[c].det # 0, cases'[c].det = cases'[e].det, c < e
                 PROVE  cases'[e].seen < c
      BY <1>2 DEF SecondCaseOnlyByRace
    <2>1. CASE e \in 1 .. Len(cases)
      <3>1. c \in 1 .. Len(cases)
        BY <1>1, <1>2, <2>1
      <3> QED BY <1>1, <1>2, <1>3, <2>1, <3>1 DEF RaceInv, SecondCaseOnlyByRace
    <2>2. CASE e = n
      <3>1. c \in 1 .. Len(cases) /\ cases[c].det = d
        BY <1>1, <1>2, <2>2
      <3> QED BY <1>1, <1>5, <2>2, <3>1
    <2> QED BY <1>2, <2>1, <2>2
  <1>7. \A v \in Opening' : ~work'[v].linked =>
           \A c \in 1 .. Len(cases') : cases'[c].det = work'[v].det => work'[v].seen < c
    <2> SUFFICES ASSUME NEW v \in Opening', ~work'[v].linked, NEW c \in 1 .. Len(cases'),
                        cases'[c].det = work'[v].det
                 PROVE  work'[v].seen < c
      OBVIOUS
    <2>1. v \in Opening /\ v \in Workers /\ Stays(v)
      BY <1>1 DEF Opening
    <2>2. CASE c \in 1 .. Len(cases)
      BY <1>1, <1>3, <2>1, <2>2 DEF RaceInv, Stays
    <2>3. CASE c = n
      <3>1. work[v].seen \in Nat /\ work[v].seen <= Len(cases)
        BY <1>3, <2>1, Tables DEF CaseIInv, WorkInv, PointsWell, Item
      <3> QED BY <1>0, <1>1, <2>1, <2>3, <3>1 DEF Stays
    <2> QED BY <1>2, <2>2, <2>3
  <1>8. RaceInv'
    BY <1>6, <1>7 DEF RaceInv
  <1> QED BY <1>1, <1>4, <1>8 DEF CaseIInv

-----------------------------------------------------------------------------
(***************************************************************************)
(* The inductive invariant of Spec.                                        *)
(***************************************************************************)
LEMMA CaseInit == Init => CaseIInv
  <1> SUFFICES ASSUME Init PROVE CaseIInv
    OBVIOUS
  <1>1. /\ detections = <<>> /\ cases = <<>> /\ evidence = <<>> /\ actions = <<>>
        /\ work = [w \in Workers |-> Idle] /\ evaluations = 0 /\ requests = 0
    BY DEF Init
  <1>2. RowsInv
    <2>1. 0 \in 0 .. MaxEvaluations /\ 0 \in 0 .. MaxRequests
      BY Numbers
    <2> QED BY <1>1, <2>1, IdleItem DEF RowsInv
  <1>3. Len(detections) = 0 /\ Len(cases) = 0 /\ Len(evidence) = 0 /\ Len(actions) = 0
        /\ DOMAIN detections = {} /\ DOMAIN cases = {} /\ \A n \in Nat : n <= n
    BY <1>1
  <1>4. 1 .. Len(detections) = {} /\ 1 .. Len(cases) = {} /\ 1 .. Len(evidence) = {} /\ 1 .. Len(actions) = {}
    BY <1>3
  <1>5. PointersInv
    BY <1>4 DEF PointersInv
  <1>6. WorkInv
    BY <1>1, <1>3, IdleItem DEF WorkInv, PointsWell
  <1>7. Unwritten = {} /\ Opening = {}
    BY <1>1, IdleItem DEF Unwritten, Opening
  <1>8. BudgetInv
    <2>1. Cardinality({}) = 0 /\ Cardinality(Rules) \in Nat
      BY FS_EmptySet, Numbers
    <2>2. 0 * Cardinality(Rules) = 0
      BY <2>1
    <2> QED BY <1>1, <1>3, <1>7, <2>1, <2>2 DEF BudgetInv
  <1>9. EscalatedPointsToCase
    BY <1>3 DEF EscalatedPointsToCase
  <1>10. RaceInv
    BY <1>3, <1>7 DEF RaceInv, SecondCaseOnlyByRace
  <1>11. OverlapInv /\ ChainInv
    BY <1>1, <1>4, IdleItem DEF OverlapInv, ChainInv, Appends
  <1> QED BY <1>2, <1>5, <1>6, <1>8, <1>9, <1>10, <1>11 DEF CaseIInv

LEMMA CaseStep == CaseIInv /\ [Next]_vars => CaseIInv'
  <1> SUFFICES ASSUME CaseIInv, [Next]_vars PROVE CaseIInv'
    OBVIOUS
  <1>1. ASSUME NEW w \in Workers,
               \/ EvaluateTransaction(w) \/ InsertDetection(w) \/ EvaluationEnds(w)
               \/ Escalate(w) \/ OpenCase(w)
               \/ ReadPrevHash(w) \/ AppendEvidence(w) \/ RequestLost(w)
        PROVE  CaseIInv'
    BY <1>1, EvaluateTransactionKeeps, InsertDetectionKeeps, EvaluationEndsKeeps, EscalateKeeps,
       OpenCaseKeeps, ReadPrevHashKeeps, AppendEvidenceKeeps
  <1>2. ASSUME NEW w \in Workers, NEW d \in DOMAIN detections,
               fromDetection(w, d) \/ createCaseFrom(w, d)
        PROVE  CaseIInv'
    BY <1>2, fromDetectionKeeps, createCaseFromKeeps
  <1>3. ASSUME NEW w \in Workers, NEW s \in {NoOne, Subject}, createCase(w, s) PROVE CaseIInv'
    BY <1>3, createCaseKeeps
  <1>4. ASSUME NEW w \in Workers, NEW c \in DOMAIN cases, CollectManually(w, c) PROVE CaseIInv'
    BY <1>4, CollectManuallyKeeps
  <1>5. ASSUME NEW d \in DOMAIN detections, Acknowledge(d) \/ Dismiss(d) PROVE CaseIInv'
    BY <1>5, TriageKeeps
  <1>6. ASSUME NEW c \in DOMAIN cases, appendAction(c) \/ CloseCase(c) PROVE CaseIInv'
    BY <1>6, appendActionKeeps, CloseCaseKeeps
  <1>7. CASE UNCHANGED vars
    <2>1. UNCHANGED <<detections, cases, evidence, actions, work, evaluations, requests>>
      BY <1>7 DEF vars, spent
    <2>2. RowsInv /\ PointersInv /\ {Len(detections), Len(cases)} \subseteq Nat
      BY Tables DEF CaseIInv
    <2>3. RowsInv' /\ PointersInv'
      BY <2>1, <2>2 DEF RowsInv, PointersInv
    <2>4. CasesStay /\ DetectionsStay
      BY <2>1, <2>2 DEF CasesStay, DetectionsStay
    <2> QED BY <2>1, <2>3, <2>4, TableStep
  <1> QED BY <1>1, <1>2, <1>3, <1>4, <1>5, <1>6, <1>7 DEF Next

LEMMA CaseInductive == Spec => []CaseIInv
  BY CaseInit, CaseStep, PTL DEF Spec

(***************************************************************************)
(* What the tables and the requests hold keeps its type, and no escalation *)
(* is left without the case it points at.                                  *)
(***************************************************************************)
THEOREM CasesSound == Spec => []CaseInv
  <1>1. CaseIInv => CaseInv
    <2> SUFFICES ASSUME CaseIInv PROVE CaseInv
      OBVIOUS
    <2>1. RowsInv /\ PointersInv /\ WorkInv /\ EscalatedPointsToCase
      BY DEF CaseIInv
    <2>2. /\ {Len(detections), Len(cases), Len(evidence), Len(actions)} \subseteq Nat
          /\ DOMAIN detections = 1 .. Len(detections) /\ DOMAIN cases = 1 .. Len(cases)
          /\ DOMAIN evidence = 1 .. Len(evidence) /\ DOMAIN actions = 1 .. Len(actions)
          /\ \A d \in 1 .. Len(detections) : detections[d] \in DetectionRow
          /\ \A c \in 1 .. Len(cases) : cases[c] \in CaseRow
          /\ \A i \in 1 .. Len(evidence) : evidence[i] \in EvidenceRow
          /\ \A i \in 1 .. Len(actions) : actions[i] \in ActionRow
          /\ \A w \in Workers : work[w] \in Item
      BY <2>1, Tables
    <2>3. ASSUME NEW d \in DOMAIN detections
          PROVE  detections[d] \in [status : Statuses, rule : Rules, case : 0 .. Len(cases)]
      <3>1. detections[d] \in DetectionRow /\ detections[d].case <= Len(cases)
        BY <2>1, <2>2 DEF PointersInv
      <3> QED BY <2>2, <3>1 DEF DetectionRow
    <2>4. ASSUME NEW c \in DOMAIN cases
          PROVE  cases[c] \in [status : {"open", "closed"}, subject : {NoOne, Subject},
                               det : Hashes, seen : 0 .. Len(cases)]
      <3>1. cases[c] \in CaseRow /\ cases[c].seen <= Len(cases)
        BY <2>1, <2>2 DEF PointersInv
      <3> QED BY <2>2, <3>1 DEF CaseRow
    <2>5. ASSUME NEW i \in DOMAIN evidence
          PROVE  evidence[i] \in [case : DOMAIN cases, payload : Hashes,
                                  prev : Hashes \union {NoHash},
                                  stamp : 0 .. Len(evidence), alone : BOOLEAN]
      <3>1. evidence[i] \in EvidenceRow /\ evidence[i].case \in DOMAIN cases
            /\ evidence[i].stamp < i /\ i \in 1 .. Len(evidence)
        BY <2>1, <2>2 DEF PointersInv
      <3>2. evidence[i].stamp \in 0 .. Len(evidence)
        BY <2>2, <3>1 DEF EvidenceRow
      <3> QED BY <3>1, <3>2 DEF EvidenceRow
    <2>6. ASSUME NEW i \in DOMAIN actions
          PROVE  actions[i] \in [case : DOMAIN cases,
                    action : {"status_change", "evidence_collected", "note", "resolution"}]
      <3>1. actions[i] \in ActionRow /\ actions[i].case \in DOMAIN cases
        BY <2>1, <2>2 DEF PointersInv
      <3> QED BY <3>1 DEF ActionRow
    <2>7. ASSUME NEW w \in Workers
          PROVE  work[w] \in [at : {"idle", "matched", "loaded", "open", "stamped", "chained"},
                    todo : SUBSET Rules, det : Hashes,
                    linked : BOOLEAN, case : 0 .. Len(cases), stamp : 0 .. Len(evidence),
                    prev : Hashes \union {NoHash}, mirror : BOOLEAN, seen : 0 .. Len(cases),
                    alone : BOOLEAN]
      <3>1. work[w] \in Item /\ work[w].case <= Len(cases) /\ work[w].stamp <= Len(evidence)
            /\ work[w].seen <= Len(cases)
        BY <2>1, <2>2 DEF WorkInv, PointsWell
      <3>2. work[w].case \in 0 .. Len(cases) /\ work[w].stamp \in 0 .. Len(evidence)
            /\ work[w].seen \in 0 .. Len(cases)
        BY <2>2, <3>1 DEF Item
      <3> QED BY <3>1, <3>2 DEF Item
    <2> QED BY <2>1, <2>3, <2>4, <2>5, <2>6, <2>7 DEF CaseInv, TypeOK
  <1> QED BY <1>1, CaseInductive, PTL

(***************************************************************************)
(* A request that read a detection when it had a case opens no other: a    *)
(* second case is always the doing of two requests that overlapped.        *)
(***************************************************************************)
THEOREM RaceOnly == Spec => []SecondCaseOnlyByRace
  <1>1. CaseIInv => SecondCaseOnlyByRace
    BY DEF CaseIInv, RaceInv
  <1> QED BY <1>1, CaseInductive, PTL

(***************************************************************************)
(* The evidence of a case whose appends never overlapped is one chain,     *)
(* although the previous row is looked for by the time of its stamp.       *)
(***************************************************************************)
THEOREM ChainWhenSerial == Spec => []ChainedWhenSerial
  <1>1. CaseIInv => ChainedWhenSerial
    <2> SUFFICES ASSUME CaseIInv, NEW c \in DOMAIN cases,
                        \A i \in {j \in DOMAIN evidence : evidence[j].case = c} : evidence[i].alone,
                        NEW i \in {j \in DOMAIN evidence : evidence[j].case = c}
                 PROVE  LET mine == {j \in DOMAIN evidence : evidence[j].case = c}
                        IN  \/ (\A j \in mine : i <= j) /\ evidence[i].prev = NoHash
                            \/ \E j \in mine : /\ j < i /\ \A k \in mine : k <= j \/ i <= k
                                               /\ evidence[i].prev = evidence[j].payload
      BY DEF ChainedWhenSerial
    <2>1. {j \in DOMAIN evidence : evidence[j].case = c} = Mine(c)
      BY Tables DEF CaseIInv, Mine
    <2>2. Serial(c) /\ i \in 1 .. Len(evidence) /\ evidence[i].case = c
      BY <2>1 DEF Serial, Mine
    <2>3. Follows(evidence[i].prev, c, i)
      BY <2>2 DEF CaseIInv, ChainInv
    <2> QED BY <2>1, <2>3 DEF Follows
  <1> QED BY <1>1, CaseInductive, PTL

-----------------------------------------------------------------------------
(***************************************************************************)
(* The case file that the tables are: every step of a service, of an       *)
(* investigator or of a failure opens a file, collects, notes, closes, or  *)
(* leaves the file as it is.                                               *)
(***************************************************************************)
FilesOf(cs) == [c \in DOMAIN cs |-> cs[c].status]

RowOf(e) == [case |-> e.case, payload |-> e.payload, prev |-> e.prev]

RowsOf(ev) == [i \in DOMAIN ev |-> RowOf(ev[i])]

FileRow == [case : Nat, payload : Hashes, prev : Hashes \union {NoHash}]

LEMMA Mapped ==
    ASSUME NEW cs \in Seq(CaseRow), NEW ev \in Seq(EvidenceRow)
    PROVE  /\ FilesOf(cs) \in Seq({"open", "closed"}) /\ Len(FilesOf(cs)) = Len(cs)
           /\ Len(cs) \in Nat /\ Len(ev) \in Nat
           /\ DOMAIN FilesOf(cs) = 1 .. Len(cs)
           /\ \A c \in 1 .. Len(cs) : FilesOf(cs)[c] = cs[c].status
           /\ RowsOf(ev) \in Seq(FileRow) /\ Len(RowsOf(ev)) = Len(ev)
           /\ DOMAIN RowsOf(ev) = 1 .. Len(ev)
           /\ \A i \in 1 .. Len(ev) : RowsOf(ev)[i] = RowOf(ev[i])
  <1>1. /\ DOMAIN cs = 1 .. Len(cs) /\ Len(cs) \in Nat
        /\ \A c \in 1 .. Len(cs) : cs[c].status \in {"open", "closed"}
    <2>1. \A c \in 1 .. Len(cs) : cs[c] \in CaseRow
      OBVIOUS
    <2> QED BY <2>1 DEF CaseRow
  <1>2. /\ DOMAIN ev = 1 .. Len(ev) /\ Len(ev) \in Nat
        /\ \A i \in 1 .. Len(ev) : RowOf(ev[i]) \in FileRow
    <2>1. \A i \in 1 .. Len(ev) : ev[i] \in EvidenceRow
      OBVIOUS
    <2> QED BY <2>1 DEF EvidenceRow, RowOf, FileRow
  <1>3. FilesOf(cs) \in Seq({"open", "closed"}) /\ Len(FilesOf(cs)) = Len(cs)
    BY <1>1 DEF FilesOf
  <1>4. RowsOf(ev) \in Seq(FileRow) /\ Len(RowsOf(ev)) = Len(ev)
    BY <1>2 DEF RowsOf
  <1> QED BY <1>1, <1>2, <1>3, <1>4 DEF FilesOf, RowsOf

LEMMA FilesAppended ==
    ASSUME NEW cs \in Seq(CaseRow), NEW row \in CaseRow, row.status = "open"
    PROVE  FilesOf(Append(cs, row)) = Append(FilesOf(cs), "open")
  <1> DEFINE ds == Append(cs, row)
             fs == FilesOf(cs)
             gs == FilesOf(ds)
             hs == Append(fs, "open")
             S == {"open", "closed"}
  <1>1. /\ ds \in Seq(CaseRow) /\ Len(ds) = Len(cs) + 1 /\ ds[Len(cs) + 1] = row
        /\ \A c \in 1 .. Len(cs) : ds[c] = cs[c]
        /\ 1 .. Len(ds) = (1 .. Len(cs)) \union {Len(cs) + 1}
    BY Added
  <1>2. /\ fs \in Seq(S) /\ Len(fs) = Len(cs) /\ Len(cs) \in Nat
        /\ \A c \in 1 .. Len(cs) : fs[c] = cs[c].status
    BY Mapped, <<>> \in Seq(EvidenceRow)
  <1>3. /\ gs \in Seq(S) /\ Len(gs) = Len(ds)
        /\ \A c \in 1 .. Len(ds) : gs[c] = ds[c].status
    BY Mapped, <1>1, <<>> \in Seq(EvidenceRow)
  <1> HIDE DEF fs, gs, ds
  <1>4. hs \in Seq(S) /\ Len(hs) = Len(fs) + 1 /\ hs[Len(fs) + 1] = "open"
        /\ \A c \in 1 .. Len(fs) : hs[c] = fs[c]
    BY <1>2
  <1> HIDE DEF hs
  <1>5. \A c \in 1 .. Len(gs) : gs[c] = hs[c]
    BY <1>1, <1>2, <1>3, <1>4
  <1>6. gs \in Seq(S) /\ hs \in Seq(S) /\ Len(gs) = Len(hs)
    BY <1>1, <1>2, <1>3, <1>4
  <1> HIDE DEF S
  <1>7. gs = hs
    <2>1. gs \in [1 .. Len(gs) -> S] /\ hs \in [1 .. Len(gs) -> S]
      BY <1>6, LenProperties
    <2> QED BY <1>5, <2>1
  <1> QED BY <1>7 DEF gs, hs, fs, ds

LEMMA OpensFile ==
    ASSUME CaseIInv, CaseIInv', NEW s \in {NoOne, Subject}, NEW d \in Hashes, NEW n \in Nat,
           Opens(Case(s, d, n))
    PROVE  File!OpenFile
  <1> DEFINE row == Case(s, d, n)
  <1>1. RowsInv /\ RowsInv' /\ BudgetInv'
    BY DEF CaseIInv
  <1>2. /\ cases \in Seq(CaseRow) /\ evidence \in Seq(EvidenceRow) /\ cases' = Append(cases, row)
        /\ row.status = "open" /\ row \in CaseRow /\ evidence' = evidence
        /\ actions' = Append(actions, [case |-> Len(cases) + 1, action |-> "status_change"])
    BY <1>1, NewCase, Tables DEF Opens, Case, Action
  <1> HIDE DEF row
  <1>3. Len(cases) \in Nat /\ Len(cases') = Len(cases) + 1
    BY <1>2
  <1>4. Len(cases) < MaxRequests
    <2>1. Len(cases') + Cardinality(Opening') <= requests' /\ requests' \in 0 .. MaxRequests
      BY <1>1 DEF BudgetInv, RowsInv
    <2>2. Cardinality(Opening') \in Nat
      <3>1. Opening' \subseteq Workers /\ IsFiniteSet(Workers)
        BY FinitelyMany DEF Opening
      <3> QED BY <3>1, FS_Subset, FS_CardinalityType
    <2>3. requests' \in Nat /\ requests' <= MaxRequests /\ MaxRequests \in Nat
      BY <2>1, Numbers
    <2>4. ASSUME NEW m \in Nat, NEW k \in Nat, NEW r \in Nat, NEW b \in Nat, m + 1 + k <= r, r <= b
          PROVE  m < b
      BY <2>4
    <2>5. Len(cases) + 1 + Cardinality(Opening') <= requests'
      BY <1>3, <2>1
    <2> QED BY <1>3, <2>2, <2>3, <2>4, <2>5
  <1>5. FilesOf(cases') = Append(FilesOf(cases), "open") /\ Len(FilesOf(cases)) = Len(cases)
    BY <1>2, FilesAppended, Mapped
  <1>6. RowsOf(evidence') = RowsOf(evidence)
    BY <1>2
  <1> QED BY <1>2, <1>4, <1>5, <1>6 DEF File!OpenFile, File!Entry, FilesOf, RowsOf, RowOf

LEMMA RowsAppended ==
    ASSUME NEW ev \in Seq(EvidenceRow), NEW row \in EvidenceRow
    PROVE  RowsOf(Append(ev, row)) = Append(RowsOf(ev), RowOf(row))
  <1> DEFINE ew == Append(ev, row)
             fs == RowsOf(ev)
             gs == RowsOf(ew)
             r == RowOf(row)
             hs == Append(fs, r)
             S == FileRow
  <1>1. /\ ew \in Seq(EvidenceRow) /\ Len(ew) = Len(ev) + 1 /\ ew[Len(ev) + 1] = row
        /\ \A i \in 1 .. Len(ev) : ew[i] = ev[i]
        /\ 1 .. Len(ew) = (1 .. Len(ev)) \union {Len(ev) + 1}
    BY Added
  <1>2. /\ fs \in Seq(S) /\ Len(fs) = Len(ev) /\ Len(ev) \in Nat
        /\ \A i \in 1 .. Len(ev) : fs[i] = RowOf(ev[i])
    BY Mapped, <<>> \in Seq(CaseRow)
  <1>3. /\ gs \in Seq(S) /\ Len(gs) = Len(ew)
        /\ \A i \in 1 .. Len(ew) : gs[i] = RowOf(ew[i])
    BY Mapped, <1>1, <<>> \in Seq(CaseRow)
  <1>4. r \in S
    BY DEF RowOf, EvidenceRow, FileRow
  <1>5. gs[Len(ev) + 1] = r
    BY <1>1, <1>2, <1>3
  <1> HIDE DEF fs, gs, ew, S, r
  <1>6. hs \in Seq(S) /\ Len(hs) = Len(fs) + 1 /\ hs[Len(fs) + 1] = r
        /\ \A i \in 1 .. Len(fs) : hs[i] = fs[i]
    BY <1>2, <1>4
  <1> HIDE DEF hs
  <1>7. \A i \in 1 .. Len(gs) : gs[i] = hs[i]
    BY <1>1, <1>2, <1>3, <1>5, <1>6
  <1>8. gs \in Seq(S) /\ hs \in Seq(S) /\ Len(gs) = Len(hs)
    BY <1>1, <1>2, <1>3, <1>6
  <1>9. gs = hs
    <2>1. gs \in [1 .. Len(gs) -> S] /\ hs \in [1 .. Len(gs) -> S]
      BY <1>8, LenProperties
    <2> QED BY <1>7, <2>1
  <1> QED BY <1>9 DEF gs, hs, fs, ew, r

LEMMA CollectsEvidence ==
    ASSUME CaseIInv, NEW w \in Workers, AppendEvidence(w)
    PROVE  \E c \in DOMAIN FilesOf(cases) : File!Collect(c)
  <1>1. RowsInv /\ PointersInv /\ WorkInv /\ ChainInv
    BY DEF CaseIInv
  <1>2. /\ cases \in Seq(CaseRow) /\ evidence \in Seq(EvidenceRow) /\ work[w] \in Item
        /\ Len(cases) \in Nat /\ DOMAIN evidence = 1 .. Len(evidence)
    BY <1>1, Tables
  <1>3. PICK c, p, h : c = work[w].case /\ p = work[w].det /\ h = work[w].prev
    OBVIOUS
  <1>4. /\ evidence' = Append(evidence, [case |-> c, payload |-> p, prev |-> h,
                                         stamp |-> work[w].stamp, alone |-> work[w].alone])
        /\ actions' \in {actions, Append(actions, [case |-> c, action |-> "evidence_collected"])}
        /\ cases' = cases /\ work[w].at = "chained"
    BY <1>3 DEF AppendEvidence, Mirrored, Action
  <1> DEFINE row == [case |-> c, payload |-> p, prev |-> h,
                     stamp |-> work[w].stamp, alone |-> work[w].alone]
  <1>5. row \in EvidenceRow /\ RowOf(row) = [case |-> c, payload |-> p, prev |-> h] /\ p \in Hashes
    BY <1>2, <1>3 DEF EvidenceRow, Item, RowOf
  <1>6. evidence' = Append(evidence, row)
    BY <1>4
  <1> HIDE DEF row
  <1>7. RowsOf(evidence') = Append(RowsOf(evidence), [case |-> c, payload |-> p, prev |-> h])
    BY <1>2, <1>5, <1>6, RowsAppended
  <1>8. c \in DOMAIN FilesOf(cases)
    <2>1. PointsWell(work[w]) /\ c \in Nat
      BY <1>1, <1>2, <1>3 DEF WorkInv, Item
    <2>2. c \in 1 .. Len(cases)
      BY <1>2, <1>3, <1>4, <2>1 DEF PointsWell
    <2> QED BY <1>2, <2>2, Mapped
  <1> DEFINE hung == {j \in DOMAIN RowsOf(evidence) : RowsOf(evidence)[j].case = c}
             anchors == {NoHash} \union {RowsOf(evidence)[i].payload : i \in hung}
  <1>9. h \in anchors
    <2>1. CASE h = NoHash
      BY <2>1
    <2>2. ASSUME NEW j \in Mine(c), h = evidence[j].payload PROVE h \in anchors
      <3>1. /\ j \in DOMAIN RowsOf(evidence) /\ RowsOf(evidence)[j] = RowOf(evidence[j])
            /\ evidence[j].case = c
        BY <1>2, Mapped DEF Mine
      <3>2. RowsOf(evidence)[j].case = c /\ RowsOf(evidence)[j].payload = h
        BY <2>2, <3>1 DEF RowOf
      <3> QED BY <3>1, <3>2
    <2>3. h = NoHash \/ \E j \in Mine(c) : h = evidence[j].payload
      BY <1>1, <1>3, <1>4 DEF ChainInv
    <2> QED BY <2>1, <2>2, <2>3
  <1>10. FilesOf(cases') = FilesOf(cases)
    BY <1>4
  <1>11. File!Collect(c)
    BY <1>4, <1>5, <1>7, <1>9, <1>10
    DEF File!Collect, File!Anchors, File!Row, File!Entry, FilesOf, RowsOf, RowOf
  <1> QED BY <1>8, <1>11

LEMMA ClosesFile ==
    ASSUME CaseIInv, NEW c \in DOMAIN cases, CloseCase(c)
    PROVE  c \in DOMAIN FilesOf(cases) /\ File!CloseFile(c)
  <1>1. RowsInv
    BY DEF CaseIInv
  <1>2. /\ cases \in Seq(CaseRow) /\ Len(cases) \in Nat /\ c \in 1 .. Len(cases)
        /\ DOMAIN cases = 1 .. Len(cases) /\ cases[c] \in CaseRow
    BY <1>1, Tables
  <1> DEFINE row == [cases[c] EXCEPT !.status = "closed"]
             S == {"open", "closed"}
             fs == FilesOf(cases)
             gs == FilesOf(cases')
             hs == [fs EXCEPT ![c] = "closed"]
  <1>3. row \in CaseRow /\ row.status = "closed"
    BY <1>2 DEF CaseRow
  <1>4. cases' = [cases EXCEPT ![c] = row]
    BY <1>2 DEF CloseCase
  <1> HIDE DEF row
  <1>5. /\ cases' \in Seq(CaseRow) /\ Len(cases') = Len(cases) /\ cases'[c] = row
        /\ \A e \in 1 .. Len(cases) : e # c => cases'[e] = cases[e]
    BY <1>2, <1>3, <1>4, Replaced
  <1>6. /\ fs \in Seq(S) /\ Len(fs) = Len(cases) /\ DOMAIN fs = 1 .. Len(cases)
        /\ \A e \in 1 .. Len(cases) : fs[e] = cases[e].status
    BY <1>2, Mapped, <<>> \in Seq(EvidenceRow)
  <1>7. /\ gs \in Seq(S) /\ Len(gs) = Len(cases)
        /\ \A e \in 1 .. Len(cases) : gs[e] = cases'[e].status
    BY <1>5, Mapped, <<>> \in Seq(EvidenceRow)
  <1>8. gs[c] = "closed" /\ \A e \in 1 .. Len(cases) : e # c => gs[e] = fs[e]
    BY <1>2, <1>3, <1>5, <1>6, <1>7
  <1> HIDE DEF fs, gs
  <1>9. fs \in [1 .. Len(cases) -> S] /\ gs \in [1 .. Len(cases) -> S]
    BY <1>6, <1>7, LenProperties
  <1>10. gs = hs
    BY <1>2, <1>8, <1>9
  <1>11. FilesOf(cases') = [FilesOf(cases) EXCEPT ![c] = "closed"] /\ c \in DOMAIN FilesOf(cases)
    BY <1>2, <1>6, <1>10 DEF gs, hs, fs
  <1>12. evidence' = evidence /\ actions' = Append(actions, [case |-> c, action |-> "resolution"])
    BY DEF CloseCase, Action
  <1> QED BY <1>11, <1>12 DEF File!CloseFile, File!Entry, FilesOf, RowsOf, RowOf

LEMMA FileStep == CaseIInv /\ CaseIInv' /\ [Next]_vars => [File!FileNext]_File!fileVars
  <1> SUFFICES ASSUME CaseIInv, CaseIInv', [Next]_vars PROVE [File!FileNext]_File!fileVars
    OBVIOUS
  <1>1. ASSUME UNCHANGED <<cases, evidence, actions>> PROVE UNCHANGED File!fileVars
    BY <1>1 DEF File!fileVars
  <1>2. ASSUME NEW w \in Workers, OpenCase(w) PROVE File!OpenFile
    <2>1. work[w].det \in Hashes /\ work[w].seen \in Nat
      BY Tables DEF CaseIInv, Item
    <2>2. \E s \in {NoOne, Subject} : Opens(Case(s, work[w].det, work[w].seen))
      BY <1>2 DEF OpenCase, Opens
    <2> QED BY <2>1, <2>2, OpensFile
  <1>3. ASSUME NEW w \in Workers, NEW s \in {NoOne, Subject}, createCase(w, s) PROVE File!OpenFile
    <2>1. Opens(Case(s, 0, 0)) /\ 0 \in Hashes
      BY <1>3, Numbers DEF createCase, Opens
    <2> QED BY <2>1, OpensFile
  <1>4. ASSUME NEW w \in Workers, NEW d \in DOMAIN detections, createCaseFrom(w, d) PROVE File!OpenFile
    <2>1. Opens(Case(NoOne, 0, 0)) /\ 0 \in Hashes
      BY <1>4, Numbers DEF createCaseFrom, Opens
    <2> QED BY <2>1, OpensFile
  <1>5. ASSUME NEW c \in DOMAIN cases, appendAction(c)
        PROVE  c \in DOMAIN FilesOf(cases) /\ File!Note(c)
    <2>1. /\ UNCHANGED <<cases, evidence>>
          /\ actions' = Append(actions, [case |-> c, action |-> "note"])
      BY <1>5 DEF appendAction, Action
    <2> QED BY <2>1 DEF File!Note, File!Entry, FilesOf
  <1>6. ASSUME NEW w \in Workers,
               \/ EvaluateTransaction(w) \/ InsertDetection(w) \/ EvaluationEnds(w)
               \/ Escalate(w) \/ ReadPrevHash(w) \/ RequestLost(w)
               \/ \E d \in DOMAIN detections : fromDetection(w, d)
               \/ \E c \in DOMAIN cases : CollectManually(w, c)
        PROVE  UNCHANGED <<cases, evidence, actions>>
    BY <1>6 DEF EvaluateTransaction, InsertDetection, EvaluationEnds, Escalate, ReadPrevHash,
                RequestLost, fromDetection, CollectManually
  <1>7. ASSUME NEW d \in DOMAIN detections, Acknowledge(d) \/ Dismiss(d)
        PROVE  UNCHANGED <<cases, evidence, actions>>
    BY <1>7 DEF Acknowledge, Dismiss
  <1>8. UNCHANGED vars => UNCHANGED <<cases, evidence, actions>>
    BY DEF vars
  <1>9. \/ UNCHANGED <<cases, evidence, actions>> \/ File!OpenFile
        \/ \E c \in DOMAIN FilesOf(cases) : File!Collect(c) \/ File!Note(c) \/ File!CloseFile(c)
    BY <1>2, <1>3, <1>4, <1>5, <1>6, <1>7, <1>8, CollectsEvidence, ClosesFile DEF Next
  <1> QED BY <1>1, <1>9 DEF File!FileNext, FilesOf

(***************************************************************************)
(* The tables implement the append-only case file of module CaseFile.      *)
(***************************************************************************)
THEOREM ImplementsCaseFile == Spec => KeepsCaseFile
  <1>1. Init => File!FileInit
    <2> SUFFICES ASSUME Init PROVE File!FileInit
      OBVIOUS
    <2>1. cases = <<>> /\ evidence = <<>> /\ actions = <<>>
      BY DEF Init
    <2>2. /\ FilesOf(<<>>) \in Seq({"open", "closed"}) /\ Len(FilesOf(<<>>)) = 0
          /\ RowsOf(<<>>) \in Seq(FileRow) /\ Len(RowsOf(<<>>)) = 0
      <3>1. <<>> \in Seq(CaseRow) /\ <<>> \in Seq(EvidenceRow) /\ Len(<<>>) = 0
        OBVIOUS
      <3> QED BY <3>1, Mapped
    <2>3. FilesOf(<<>>) = <<>> /\ RowsOf(<<>>) = <<>>
      BY <2>2, EmptySeq
    <2> QED BY <2>1, <2>3 DEF File!FileInit, FilesOf, RowsOf, RowOf
  <1> QED BY <1>1, FileStep, CaseInductive, PTL DEF Spec, KeepsCaseFile, File!FileSpec
=============================================================================
