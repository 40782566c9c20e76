----------------------------- MODULE StockProofs -----------------------------
(***************************************************************************)
(* Proofs about the transactions API and the stock consumer.               *)
(*                                                                         *)
(* The position is the balance of the movements, and a line is counted     *)
(* once while nothing fails and one pod consumes. Both are kept by         *)
(* StockIInv, which adds what a pod holds between its statements: which    *)
(* lines its batch names, and which movement it is about to link.          *)
(***************************************************************************)
EXTENDS Stock, SequenceTheorems, FiniteSetTheorems, TLAPS

\* The lines that pod p has fetched and not done with.
Held(p) == Range(pods[p].batch)

\* The line that pod p has a movement for, or none: it links it, or has linked it.
Counted(p) == IF pods[p].pc \in {"link", "emit"} THEN {Current(p)} ELSE {}

\* Some movement is for line i.
HasMovement(i) == \E m \in 1..Len(movements) : movements[m].source = i

\* A pod between ticks holds nothing, one in a tick a batch without repetitions; a
\* pod that is about to link a line has the movement that it made for it.
PodsInOrder ==
    \A p \in Pods :
        /\ IF pods[p].pc = "fetch" THEN pods[p] = Resting ELSE pods[p].batch # << >>
        /\ \A j, k \in DOMAIN pods[p].batch : pods[p].batch[j] = pods[p].batch[k] => j = k
        /\ pods[p].pc = "link" =>
              /\ pods[p].mov # NULL
              /\ movements[pods[p].mov].source = Current(p)
              /\ movements[pods[p].mov].quantity_delta = Delta(lines[Current(p)])

\* A movement is for a line that exists, or for none.
SourcesExist == \A m \in 1..Len(movements) : movements[m].source \in 0..Len(lines)

\* A linked line is linked to a movement of its own.
LinksRight ==
    \A i \in 1..Len(lines) :
        LET link == lines[i].inventory_movement_id IN
        link # NULL => /\ link \in 1..Len(movements)
                       /\ movements[link].source = i
                       /\ movements[link].quantity_delta = Delta(lines[i])

\* A line that nothing makes doubtful is in one pod's hands at most and has one
\* movement at most; it has none while a pod has still to append for it; and one that
\* has a movement and no link is the line that some pod links next.
CountedOnce ==
    \A i \in (1..Len(lines)) \ doubtful :
        /\ \A p, q \in Pods : i \in Held(p) /\ i \in Held(q) => p = q
        /\ \A m, n \in 1..Len(movements) :
              movements[m].source = i /\ movements[n].source = i => m = n
        /\ \A p \in Pods : i \in Held(p) \ Counted(p) => ~HasMovement(i)
        /\ lines[i].inventory_movement_id = NULL /\ HasMovement(i) =>
              \E p \in Pods : pods[p].pc = "link" /\ Current(p) = i

CountInv == PodsInOrder /\ SourcesExist /\ LinksRight /\ CountedOnce

StockIInv == StockInv /\ CountInv
-----------------------------------------------------------------------------
\* Sequences: an entry more, or the first one less.
LEMMA Appended ==
    ASSUME NEW S, NEW s \in Seq(S), NEW e \in S
    PROVE  /\ Append(s, e) \in Seq(S)
           /\ Len(s) \in Nat
           /\ Len(Append(s, e)) = Len(s) + 1
           /\ DOMAIN s = 1..Len(s)
           /\ DOMAIN Append(s, e) = 1..(Len(s) + 1)
           /\ \A k \in 1..Len(s) : Append(s, e)[k] = s[k] /\ s[k] \in S
           /\ Append(s, e)[Len(s) + 1] = e
  <1>1. Append(s, e) \in Seq(S) /\ Len(Append(s, e)) = Len(s) + 1
    BY AppendProperties
  <1>2. DOMAIN s = 1..Len(s) /\ Len(s) \in Nat /\ DOMAIN Append(s, e) = 1..Len(Append(s, e))
    BY <1>1, LenProperties
  <1>3. \A k \in 1..Len(s) : Append(s, e)[k] = s[k] /\ s[k] \in S
    BY AppendProperties, ElementOfSeq
  <1> QED BY <1>1, <1>2, <1>3, AppendProperties

LEMMA Widened ==
    ASSUME NEW S, NEW T, S \subseteq T, NEW s \in Seq(S)
    PROVE  s \in Seq(T)
  BY SeqDef

\* What a log of unit movements adds up to when one more is appended.
LEMMA BalanceAppended ==
    ASSUME NEW log \in Seq(Movement), NEW mv \in Movement
    PROVE  /\ Balance(log) \in Int
           /\ Balance(Append(log, mv)) = Balance(log) + mv.quantity_delta
  <1> DEFINE new == Append(log, mv)
             Of(s, d) == {m \in DOMAIN s : s[m].quantity_delta = d}
             n == Len(log) + 1
  <1>1. /\ Len(log) \in Nat /\ DOMAIN log = 1..Len(log) /\ DOMAIN new = 1..n
        /\ \A k \in 1..Len(log) : new[k] = log[k]
        /\ new[n] = mv
    BY Appended
  <1>2. IsFiniteSet(DOMAIN log)
    BY <1>1, FS_Interval
  <1>3. \A d \in {1, -1} : IsFiniteSet(Of(log, d)) /\ Cardinality(Of(log, d)) \in Nat
    BY <1>2, FS_Subset, FS_CardinalityType
  <1>4. DOMAIN new = DOMAIN log \union {n} /\ n \notin DOMAIN log
    BY <1>1
  <1> HIDE DEF new, n
  <1>5. \A d \in {1, -1} :
           Of(new, d) = IF mv.quantity_delta = d THEN Of(log, d) \union {n} ELSE Of(log, d)
    BY <1>1, <1>4
  <1>6. \A d \in {1, -1} : Cardinality(Of(new, d)) =
                              IF mv.quantity_delta = d THEN Cardinality(Of(log, d)) + 1
                              ELSE Cardinality(Of(log, d))
    <2> SUFFICES ASSUME NEW d \in {1, -1}
                 PROVE  Cardinality(Of(new, d)) = IF mv.quantity_delta = d
                            THEN Cardinality(Of(log, d)) + 1 ELSE Cardinality(Of(log, d))
      OBVIOUS
    <2>1. n \notin Of(log, d) /\ IsFiniteSet(Of(log, d))
      BY <1>3, <1>4
    <2>2. Cardinality(Of(log, d) \union {n}) = Cardinality(Of(log, d)) + 1
      BY <2>1, FS_AddElement
    <2> HIDE DEF Of
    <2> QED BY <1>5, <2>2
  <1>7. Balance(log) = Cardinality(Of(log, 1)) - Cardinality(Of(log, -1))
        /\ Balance(new) = Cardinality(Of(new, 1)) - Cardinality(Of(new, -1))
    BY DEF Balance
  <1>8. mv.quantity_delta \in {1, -1}
    BY DEF Movement
  <1> HIDE DEF Of
  <1> QED BY <1>3, <1>6, <1>7, <1>8 DEF new

LEMMA BalanceOfNothing == Balance(<< >>) = 0
  <1> DEFINE Of(delta) == {m \in DOMAIN << >> : << >>[m].quantity_delta = delta}
  <1>1. Of(1) = {} /\ Of(-1) = {}
    OBVIOUS
  <1>2. Balance(<< >>) = Cardinality(Of(1)) - Cardinality(Of(-1))
    BY DEF Balance
  <1> QED BY <1>1, <1>2, FS_EmptySet

\* No request and no tick in progress are what TypeOK says of one.
LEMMA IdleTyped ==
    ASSUME movements \in Seq(Movement)
    PROVE  Idle \in Clerk /\ Resting \in Pod
  <1>1. (CHOOSE r \in Receipts : TRUE) \in Receipts
    BY StockAssumption
  <1>2. << >> \in Seq(1..Len(lines))
    BY EmptySeq
  <1>3. 0 \in 0..Len(movements)
    BY LenProperties
  <1> QED BY <1>1, <1>2, <1>3 DEF Idle, Clerk, Resting, Pod, NULL

\* What TypeOK says of one pod.
LEMMA PodTyped ==
    ASSUME TypeOK, NEW p \in Pods
    PROVE  /\ pods[p] \in Pod
           /\ pods[p].pc \in {"fetch", "append", "link", "emit"}
           /\ pods[p].batch \in Seq(1..Len(lines))
           /\ DOMAIN pods[p].batch = 1..Len(pods[p].batch) /\ Len(pods[p].batch) \in Nat
           /\ Held(p) \subseteq 1..Len(lines)
           /\ pods[p].mov \in 0..Len(movements) /\ pods[p].soh \in Int
           /\ Len(lines) \in Nat /\ DOMAIN lines = 1..Len(lines)
           /\ Len(movements) \in Nat /\ DOMAIN movements = 1..Len(movements)
           /\ \A i \in 1..Len(lines) : lines[i] \in Line
           /\ \A m \in 1..Len(movements) : movements[m] \in Movement
  <1>1. pods[p] \in Pod
    BY DEF TypeOK
  <1>2. /\ pods[p].pc \in {"fetch", "append", "link", "emit"}
        /\ pods[p].batch \in Seq(1..Len(lines))
        /\ pods[p].mov \in 0..Len(movements) /\ pods[p].soh \in Int
    BY <1>1 DEF Pod
  <1>3. DOMAIN pods[p].batch = 1..Len(pods[p].batch) /\ Len(pods[p].batch) \in Nat
    BY <1>2, LenProperties
  <1>4. Held(p) \subseteq 1..Len(lines)
    BY <1>2, <1>3, ElementOfSeq DEF Held, Range
  <1>5. /\ Len(lines) \in Nat /\ DOMAIN lines = 1..Len(lines)
        /\ Len(movements) \in Nat /\ DOMAIN movements = 1..Len(movements)
    BY LenProperties DEF TypeOK
  <1>6. /\ \A i \in 1..Len(lines) : lines[i] \in Line
        /\ \A m \in 1..Len(movements) : movements[m] \in Movement
    BY ElementOfSeq DEF TypeOK
  <1> QED BY <1>1, <1>2, <1>3, <1>4, <1>5, <1>6

\* The line that a tick is at.
LEMMA CurrentHeld ==
    ASSUME TypeOK, PodsInOrder, NEW p \in Pods, pods[p].pc # "fetch"
    PROVE  Current(p) = pods[p].batch[1] /\ Current(p) \in Held(p) /\ Current(p) \in 1..Len(lines)
  <1>1. pods[p].batch # << >> /\ pods[p].batch \in Seq(1..Len(lines))
    BY PodTyped DEF PodsInOrder
  <1>2. 1 \in DOMAIN pods[p].batch
    BY <1>1, EmptySeq, LenProperties
  <1>3. Current(p) = pods[p].batch[1]
    BY <1>1 DEF Current
  <1> QED BY <1>2, <1>3, PodTyped DEF Held, Range

\* The other pods, and what p holds after it is done with a line.
LEMMA NextLineFacts ==
    ASSUME TypeOK, PodsInOrder, NEW p \in Pods, pods[p].pc # "fetch", NextLine(p)
    PROVE  /\ pods' \in [Pods -> Pod]
           /\ \A q \in Pods \ {p} : pods'[q] = pods[q]
           /\ pods'[p].pc \in {"fetch", "append"}
           /\ Range(pods'[p].batch) = Held(p) \ {Current(p)}
           /\ IF pods'[p].pc = "fetch" THEN pods'[p] = Resting ELSE pods'[p].batch # << >>
           /\ \A j, k \in DOMAIN pods'[p].batch : pods'[p].batch[j] = pods'[p].batch[k] => j = k
  <1> DEFINE b == pods[p].batch
             rest == Tail(b)
             next == IF rest = << >> THEN Resting
                     ELSE [Resting EXCEPT !.pc = "append", !.batch = rest]
  <1>1. b # << >> /\ b \in Seq(1..Len(lines)) /\ Len(b) \in Nat \ {0} /\ DOMAIN b = 1..Len(b)
    BY PodTyped, EmptySeq DEF PodsInOrder
  <1>2. /\ rest \in Seq(1..Len(lines)) /\ Len(rest) = Len(b) - 1
        /\ \A k \in 1..Len(rest) : rest[k] = b[k + 1]
    BY <1>1, HeadTailProperties
  <1>3. DOMAIN rest = 1..Len(rest)
    BY <1>2, LenProperties
  <1>4. \A j, k \in DOMAIN b : b[j] = b[k] => j = k
    BY DEF PodsInOrder
  <1>5. Current(p) = b[1]
    BY CurrentHeld
  <1> HIDE DEF b, rest
  <1>6. \A j, k \in DOMAIN rest : rest[j] = rest[k] => j = k
    <2> SUFFICES ASSUME NEW j \in DOMAIN rest, NEW k \in DOMAIN rest, rest[j] = rest[k]
                 PROVE  j = k
      OBVIOUS
    <2>1. j \in 1..Len(rest) /\ k \in 1..Len(rest)
      BY <1>3
    <2>2. rest[j] = b[j + 1] /\ rest[k] = b[k + 1]
      BY <1>2, <2>1
    <2>3. j + 1 \in DOMAIN b /\ k + 1 \in DOMAIN b
      BY <1>1, <1>2, <2>1
    <2>4. j + 1 = k + 1
      BY <1>4, <2>2, <2>3
    <2> QED BY <2>1, <2>4
  <1>7. Range(rest) = Range(b) \ {b[1]}
    <2>1. ASSUME NEW k \in DOMAIN rest PROVE rest[k] \in Range(b) \ {b[1]}
      <3>1. k + 1 \in DOMAIN b /\ 1 \in DOMAIN b /\ k + 1 # 1 /\ rest[k] = b[k + 1]
        BY <1>1, <1>2, <1>3, <2>1
      <3> QED BY <1>4, <3>1 DEF Range
    <2>2. ASSUME NEW j \in DOMAIN b, b[j] # b[1] PROVE b[j] \in Range(rest)
      <3>1. j - 1 \in DOMAIN rest /\ rest[j - 1] = b[j]
        BY <1>1, <1>2, <1>3, <2>2
      <3> QED BY <3>1 DEF Range
    <2> QED BY <2>1, <2>2 DEF Range
  <1>8. next \in Pod
    <2>1. Resting \in Pod
      BY IdleTyped DEF TypeOK
    <2> QED BY <1>2, <2>1 DEF Pod
  <1>9. /\ next.pc \in {"fetch", "append"}
        /\ next.batch = rest
        /\ IF next.pc = "fetch" THEN next = Resting ELSE next.batch # << >>
    BY DEF Resting
  <1>10. pods' = [pods EXCEPT ![p] = next] /\ pods \in [Pods -> Pod]
    BY DEF NextLine, TypeOK, b, rest
  <1> HIDE DEF next
  <1>11. pods'[p] = next /\ \A q \in Pods \ {p} : pods'[q] = pods[q]
    BY <1>10
  <1>12. pods' \in [Pods -> Pod]
    BY <1>8, <1>10
  <1> QED BY <1>5, <1>6, <1>7, <1>9, <1>11, <1>12 DEF Held, b

\* The log is as it was, or has one movement more, for line s.
MovementsGrow(s) ==
    \/ movements' = movements
    \/ /\ Len(movements') = Len(movements) + 1
       /\ \A m \in 1..Len(movements) : movements'[m] = movements[m]
       /\ movements'[Len(movements) + 1].source = s

\* A movement of one unit more (AppendMovement).
LEMMA MovementAppended ==
    ASSUME TypeOK, BalanceMatchesLog, NEW source \in Nat, NEW type \in MovementTypes,
           NEW delta \in {1, -1}, AppendMovement(source, type, delta)
    PROVE  /\ movements' \in Seq(Movement) /\ position' \in Int
           /\ BalanceMatchesLog'
           /\ Len(movements) \in Nat /\ Len(movements') = Len(movements) + 1
           /\ \A m \in 1..Len(movements) : movements'[m] = movements[m]
           /\ movements'[Len(movements) + 1].source = source
           /\ movements'[Len(movements) + 1].quantity_delta = delta
           /\ MovementsGrow(source)
  <1> DEFINE mv == [source |-> source, movement_type |-> type, quantity_delta |-> delta]
  <1>1. mv \in Movement /\ movements \in Seq(Movement) /\ position \in Int
    BY DEF Movement, TypeOK
  <1>2. movements' = Append(movements, mv) /\ position' = position + delta
    BY DEF AppendMovement
  <1>3. Balance(movements') = Balance(movements) + mv.quantity_delta
    BY <1>1, <1>2, BalanceAppended
  <1>4. position' = Balance(movements')
    BY <1>2, <1>3 DEF BalanceMatchesLog
  <1>5. /\ movements' \in Seq(Movement)
        /\ Len(movements) \in Nat /\ Len(movements') = Len(movements) + 1
        /\ \A m \in 1..Len(movements) : movements'[m] = movements[m]
        /\ movements'[Len(movements) + 1] = mv
    BY <1>1, <1>2, Appended
  <1>6. mv.source = source /\ mv.quantity_delta = delta
    OBVIOUS
  <1> HIDE DEF mv
  <1> QED BY <1>1, <1>2, <1>4, <1>5, <1>6 DEF BalanceMatchesLog, MovementsGrow

\* The movement of a numeric line is of one unit (processLine).
LEMMA DeltaTyped ==
    ASSUME NEW line \in Line, Numeric(line)
    PROVE  Delta(line) \in {1, -1} /\ TypeOf(line) \in MovementTypes
  BY DEF Line, Numeric, Delta, TypeOf, MovementTypes
-----------------------------------------------------------------------------
(***************************************************************************)
(* The API and Sub 2, which leave the consumer alone.                      *)
(***************************************************************************)

\* Nothing about the lines changes, or one more appears that is not linked.
LinesGrow ==
    \/ lines' = lines
    \/ \E line \in Line : line.inventory_movement_id = NULL /\ lines' = Append(lines, line)

LEMMA LinesKept ==
    ASSUME TypeOK, LinesGrow
    PROVE  /\ lines' \in Seq(Line)
           /\ Len(lines) \in Nat /\ Len(lines') \in Nat /\ Len(lines) <= Len(lines')
           /\ \A i \in 1..Len(lines) : lines'[i] = lines[i]
           /\ \A i \in 1..Len(lines') : i \notin 1..Len(lines) =>
                 lines'[i].inventory_movement_id = NULL
  <1>1. lines \in Seq(Line) /\ Len(lines) \in Nat
    BY LenProperties DEF TypeOK
  <1>2. CASE lines' = lines
    BY <1>1, <1>2
  <1>3. ASSUME NEW line \in Line, line.inventory_movement_id = NULL, lines' = Append(lines, line)
        PROVE  /\ lines' \in Seq(Line) /\ Len(lines') = Len(lines) + 1
               /\ \A i \in 1..Len(lines) : lines'[i] = lines[i]
               /\ lines'[Len(lines) + 1].inventory_movement_id = NULL
    BY <1>1, <1>3, Appended
  <1> QED BY <1>1, <1>2, <1>3 DEF LinesGrow

\* What is left alone keeps its place among more lines.
LEMMA LedgerKeeps ==
    ASSUME StockIInv, LinesGrow, UNCHANGED <<stock, signals, pods, faults, doubtful>>
    PROVE  /\ lines' \in Seq(Line)
           /\ pods' \in [Pods -> Pod]'
           /\ doubtful' \subseteq 1..Len(lines')
           /\ CountInv'
  <1>0. TypeOK /\ PodsInOrder /\ SourcesExist /\ LinksRight /\ CountedOnce
    BY DEF StockIInv, StockInv, CountInv
  <1>1. UNCHANGED <<movements, position, pods, doubtful>>
    BY DEF stock
  <1>2. /\ lines' \in Seq(Line)
        /\ Len(lines) \in Nat /\ Len(lines') \in Nat /\ Len(lines) <= Len(lines')
        /\ \A i \in 1..Len(lines) : lines'[i] = lines[i]
        /\ \A i \in 1..Len(lines') :
              i \notin 1..Len(lines) => lines'[i].inventory_movement_id = NULL
    BY <1>0, LinesKept
  <1>3. 1..Len(lines) \subseteq 1..Len(lines')
    BY <1>2
  <1>4. pods' \in [Pods -> Pod]'
    <2>1. ASSUME NEW p \in Pods PROVE pods[p] \in Pod'
      <3>1. pods[p] \in Pod /\ pods[p].batch \in Seq(1..Len(lines'))
        BY <1>0, <1>3, PodTyped, Widened
      <3> QED BY <1>1, <3>1 DEF Pod
    <2> QED BY <1>0, <1>1, <2>1 DEF TypeOK
  <1>5. doubtful' \subseteq 1..Len(lines')
    BY <1>0, <1>1, <1>3 DEF TypeOK
  <1>6. \A p \in Pods : /\ Held(p)' = Held(p) /\ Current(p)' = Current(p)
                        /\ Counted(p)' = Counted(p)
                        /\ Held(p) \subseteq 1..Len(lines)
                        /\ pods[p].pc # "fetch" => Current(p) \in 1..Len(lines)
    BY <1>0, <1>1, PodTyped, CurrentHeld DEF Held, Current, Counted
  <1>7. PodsInOrder'
    BY <1>0, <1>1, <1>2, <1>6 DEF PodsInOrder, Delta
  <1>8. SourcesExist'
    BY <1>0, <1>1, <1>2 DEF SourcesExist
  <1>9. LinksRight'
    <2> SUFFICES ASSUME NEW i \in 1..Len(lines'), lines'[i].inventory_movement_id # NULL
                 PROVE  LET link == lines'[i].inventory_movement_id IN
                        /\ link \in 1..Len(movements)
                        /\ movements[link].source = i
                        /\ movements[link].quantity_delta = Delta(lines'[i])
      BY <1>1 DEF LinksRight, Delta
    <2>1. i \in 1..Len(lines) /\ lines'[i] = lines[i]
      BY <1>2
    <2> QED BY <1>0, <2>1 DEF LinksRight
  <1>10. \A i : HasMovement(i)' <=> HasMovement(i)
    BY <1>1 DEF HasMovement
  <1>11. CountedOnce'
    <2> SUFFICES ASSUME NEW i \in (1..Len(lines')) \ doubtful
                 PROVE  /\ \A p, q \in Pods : i \in Held(p) /\ i \in Held(q) => p = q
                        /\ \A m, n \in 1..Len(movements) :
                              movements[m].source = i /\ movements[n].source = i => m = n
                        /\ \A p \in Pods : i \in Held(p) \ Counted(p) => ~HasMovement(i)
                        /\ lines'[i].inventory_movement_id = NULL /\ HasMovement(i) =>
                              \E p \in Pods : pods[p].pc = "link" /\ Current(p) = i
      BY <1>1, <1>6, <1>10 DEF CountedOnce
    <2>1. CASE i \in 1..Len(lines)
      BY <1>0, <1>2, <2>1 DEF CountedOnce
    <2>2. CASE i \notin 1..Len(lines)
      <3>1. ~HasMovement(i)
        BY <1>0, <1>2, <2>2 DEF SourcesExist, HasMovement
      <3> QED BY <1>6, <2>2, <3>1 DEF HasMovement
    <2> QED BY <2>1, <2>2
  <1> QED BY <1>2, <1>4, <1>5, <1>7, <1>8, <1>9, <1>11 DEF CountInv

-----------------------------------------------------------------------------
(***************************************************************************)
(* A pod that lets a line go, and movements for no line or for a doubtful  *)
(* one.                                                                    *)
(***************************************************************************)

\* p is done with its line, and perhaps with its batch.
Released(p) ==
    /\ pods' \in [Pods -> Pod]
    /\ \A q \in Pods \ {p} : pods'[q] = pods[q]
    /\ pods'[p].pc \in {"fetch", "append"}
    /\ Range(pods'[p].batch) \subseteq Held(p) \ {Current(p)}
    /\ IF pods'[p].pc = "fetch" THEN pods'[p] = Resting ELSE pods'[p].batch # << >>
    /\ \A j, k \in DOMAIN pods'[p].batch : pods'[p].batch[j] = pods'[p].batch[k] => j = k

LEMMA PodsWiden ==
    ASSUME Len(lines) \in Nat, Len(lines') \in Nat, Len(lines) <= Len(lines'),
           Len(movements) \in Nat, Len(movements') \in Nat, Len(movements) <= Len(movements')
    PROVE  [Pods -> Pod] \subseteq [Pods -> Pod]'
  <1>1. 1..Len(lines) \subseteq 1..Len(lines') /\ 0..Len(movements) \subseteq 0..Len(movements')
    OBVIOUS
  <1>2. Seq(1..Len(lines)) \subseteq Seq(1..Len(lines'))
    BY <1>1, Widened
  <1>3. Pod \subseteq Pod'
    BY <1>1, <1>2 DEF Pod
  <1> QED BY <1>3

LEMMA MovementsKept ==
    ASSUME TypeOK, NEW s, MovementsGrow(s)
    PROVE  /\ Len(movements) \in Nat /\ Len(movements') \in Nat /\ Len(movements) <= Len(movements')
           /\ \A m \in 1..Len(movements) : movements'[m] = movements[m]
           /\ \A m \in 1..Len(movements') : m \notin 1..Len(movements) => movements'[m].source = s
           /\ \A m, n \in 1..Len(movements') :
                 m \notin 1..Len(movements) /\ n \notin 1..Len(movements) => m = n
           /\ \A i : i # s => (HasMovement(i)' <=> HasMovement(i))
  <1>1. Len(movements) \in Nat
    BY LenProperties DEF TypeOK
  <1>2. CASE movements' = movements
    BY <1>1, <1>2 DEF HasMovement
  <1>3. CASE movements' # movements
    <2>1. /\ Len(movements') = Len(movements) + 1
          /\ \A m \in 1..Len(movements) : movements'[m] = movements[m]
          /\ movements'[Len(movements) + 1].source = s
      BY <1>3 DEF MovementsGrow
    <2>2. 1..Len(movements') = (1..Len(movements)) \union {Len(movements) + 1}
      BY <1>1, <2>1
    <2> QED BY <1>1, <2>1, <2>2 DEF HasMovement
  <1> QED BY <1>2, <1>3

LEMMA ReleaseKeeps ==
    ASSUME StockIInv, lines' = lines,
           NEW p, pods' = pods \/ (p \in Pods /\ pods[p].pc # "fetch" /\ Released(p)),
           NEW s \in 0..Len(lines), MovementsGrow(s), s = NULL \/ s \in doubtful',
           doubtful \subseteq doubtful', doubtful' \subseteq 1..Len(lines),
           pods' = pods \/ pods[p].pc # "link" \/ Current(p) \in doubtful'
    PROVE  pods' \in [Pods -> Pod]' /\ CountInv'
  <1>0. TypeOK /\ PodsInOrder /\ SourcesExist /\ LinksRight /\ CountedOnce
    BY DEF StockIInv, StockInv, CountInv
  <1>1. /\ Len(movements) \in Nat /\ Len(movements') \in Nat /\ Len(movements) <= Len(movements')
        /\ \A m \in 1..Len(movements) : movements'[m] = movements[m]
        /\ \A m \in 1..Len(movements') : m \notin 1..Len(movements) => movements'[m].source = s
        /\ \A i : i # s => (HasMovement(i)' <=> HasMovement(i))
    BY <1>0, MovementsKept
  <1>2. Len(lines) \in Nat
    BY <1>0, LenProperties DEF TypeOK
  <1>3. pods' \in [Pods -> Pod]'
    <2>1. pods' \in [Pods -> Pod]
      BY <1>0 DEF TypeOK, Released
    <2>2. [Pods -> Pod] \subseteq [Pods -> Pod]'
      BY <1>1, <1>2, PodsWiden
    <2> QED BY <2>1, <2>2
  <1>4. \A q \in Pods : pods'[q] = pods[q] \/ (q = p /\ pods[q].pc # "fetch" /\ Released(q))
    BY DEF Released
  <1>5. \A q \in Pods : /\ Held(q)' \subseteq Held(q)
                        /\ Held(q)' \ Counted(q)' \subseteq Held(q) \ Counted(q)
                        /\ pods'[q].pc = "link" => pods'[q] = pods[q]
    <2> SUFFICES ASSUME NEW q \in Pods
                 PROVE  /\ Held(q)' \subseteq Held(q)
                        /\ Held(q)' \ Counted(q)' \subseteq Held(q) \ Counted(q)
                        /\ pods'[q].pc = "link" => pods'[q] = pods[q]
      OBVIOUS
    <2>1. CASE pods'[q] = pods[q]
      BY <2>1 DEF Held, Counted, Current
    <2>2. CASE pods'[q] # pods[q]
      BY <1>4, <2>2 DEF Released, Held, Counted
    <2> QED BY <2>1, <2>2
  <1>6. PodsInOrder'
    <2> SUFFICES ASSUME NEW q \in Pods
                 PROVE  /\ IF pods'[q].pc = "fetch" THEN pods'[q] = Resting
                                                   ELSE pods'[q].batch # << >>
                        /\ \A j, k \in DOMAIN pods'[q].batch :
                              pods'[q].batch[j] = pods'[q].batch[k] => j = k
                        /\ pods'[q].pc = "link" =>
                              /\ pods'[q].mov # NULL
                              /\ movements'[pods'[q].mov].source = Current(q)'
                              /\ movements'[pods'[q].mov].quantity_delta = Delta(lines[Current(q)'])
      BY DEF PodsInOrder, Delta
    <2>1. CASE pods'[q] = pods[q]
      <3>1. Current(q)' = Current(q)
        BY <2>1 DEF Current
      <3>2. pods[q].pc = "link" => pods[q].mov \in 1..Len(movements)
        BY <1>0, <1>1, PodTyped DEF PodsInOrder, NULL
      <3> QED BY <1>0, <1>1, <2>1, <3>1, <3>2 DEF PodsInOrder
    <2>2. CASE pods'[q] # pods[q]
      BY <1>4, <2>2 DEF Released
    <2> QED BY <2>1, <2>2
  <1>7. SourcesExist'
    BY <1>0, <1>1 DEF SourcesExist
  <1>8. LinksRight'
    <2> SUFFICES ASSUME NEW i \in 1..Len(lines), lines[i].inventory_movement_id # NULL
                 PROVE  LET link == lines[i].inventory_movement_id IN
                        /\ link \in 1..Len(movements')
                        /\ movements'[link].source = i
                        /\ movements'[link].quantity_delta = Delta(lines[i])
      BY DEF LinksRight, Delta
    <2>1. /\ lines[i].inventory_movement_id \in 1..Len(movements)
          /\ movements[lines[i].inventory_movement_id].source = i
          /\ movements[lines[i].inventory_movement_id].quantity_delta = Delta(lines[i])
      BY <1>0 DEF LinksRight
    <2> QED BY <1>1, <2>1
  <1>9. CountedOnce'
    <2> SUFFICES ASSUME NEW i \in (1..Len(lines)) \ doubtful'
                 PROVE  /\ \A q, r \in Pods : i \in Held(q)' /\ i \in Held(r)' => q = r
                        /\ \A m, n \in 1..Len(movements') :
                              movements'[m].source = i /\ movements'[n].source = i => m = n
                        /\ \A q \in Pods : i \in Held(q)' \ Counted(q)' => ~HasMovement(i)'
                        /\ lines[i].inventory_movement_id = NULL /\ HasMovement(i)' =>
                              \E q \in Pods : pods'[q].pc = "link" /\ Current(q)' = i
      BY DEF CountedOnce
    <2>1. i \in (1..Len(lines)) \ doubtful /\ i # s
      BY <1>2 DEF NULL
    <2>2. HasMovement(i)' <=> HasMovement(i)
      BY <1>1, <2>1
    <2>3. \A q, r \in Pods : i \in Held(q)' /\ i \in Held(r)' => q = r
      BY <1>0, <1>5, <2>1 DEF CountedOnce
    <2>4. \A m, n \in 1..Len(movements') :
              movements'[m].source = i /\ movements'[n].source = i => m = n
      BY <1>0, <1>1, <2>1 DEF CountedOnce
    <2>5. \A q \in Pods : i \in Held(q)' \ Counted(q)' => ~HasMovement(i)'
      BY <1>0, <1>5, <2>1, <2>2 DEF CountedOnce
    <2>6. ASSUME lines[i].inventory_movement_id = NULL, HasMovement(i)'
          PROVE  \E q \in Pods : pods'[q].pc = "link" /\ Current(q)' = i
      <3>1. PICK q \in Pods : pods[q].pc = "link" /\ Current(q) = i
        BY <1>0, <2>1, <2>2, <2>6 DEF CountedOnce
      <3>2. pods'[q] = pods[q]
        BY <1>4, <3>1
      <3> QED BY <3>1, <3>2 DEF Current
    <2> QED BY <2>3, <2>4, <2>5, <2>6
  <1> QED BY <1>3, <1>6, <1>7, <1>8, <1>9 DEF CountInv

-----------------------------------------------------------------------------
(***************************************************************************)
(* Every step keeps the invariant.                                         *)
(***************************************************************************)
APIStep ==
    \/ \E n \in Receipts : \/ \E status \in Statuses, q \in {1, -1} : Create(n, status, q)
                           \/ CreateVoidNumber(n)
                           \/ \E r \in BOOLEAN : Persist(n, r)
    \/ \E c \in Clerks, n \in Receipts : VoidRead(c, n) \/ ReturnRead(c, n)
    \/ \E c \in Clerks : VoidWrite(c) \/ \E q \in {1, -1} : ReturnWrite(c, q)

\* What TypeOK says of the rows of transactions.
HeadersTyped ==
    /\ txns \in [Numbers -> {"absent"} \union Statuses]
    /\ voidReasons \subseteq Numbers

\* A step that only fills a number that was free pairs no void with another sale.
LEMMA NumberFilled ==
    ASSUME HeadersTyped, VoidsPaired, NEW t \in Numbers, NEW status \in Statuses,
           txns[t] = "absent", txns' = [txns EXCEPT ![t] = status], UNCHANGED voidReasons
    PROVE  HeadersTyped' /\ VoidsPaired'
  <1>1. HeadersTyped'
    BY DEF HeadersTyped
  <1>2. \A s \in Numbers : txns'[s] = IF s = t THEN status ELSE txns[s]
    BY DEF HeadersTyped
  <1>3. \A n \in Receipts : <<n, "sale">> \in Numbers /\ <<n, "void">> \in Numbers
    BY DEF Numbers, Types
  <1>4. \A s \in Numbers : txns[s] # "absent" => txns'[s] = txns[s]
    BY <1>2
  <1> QED BY <1>1, <1>3, <1>4 DEF VoidsPaired

\* Void marks the sale and writes its void row together.
LEMMA VoidWritten ==
    ASSUME HeadersTyped, VoidsPaired, NEW n \in Receipts,
           txns' = [txns EXCEPT ![<<n, "sale">>] = "voided", ![<<n, "void">>] = "completed"],
           voidReasons' = voidReasons \union {<<n, "sale">>, <<n, "void">>}
    PROVE  HeadersTyped' /\ VoidsPaired'
  <1>1. \A m \in Receipts : <<m, "sale">> \in Numbers /\ <<m, "void">> \in Numbers
    BY DEF Numbers, Types
  <1>2. HeadersTyped'
    BY <1>1, StockAssumption DEF HeadersTyped
  <1>3. \A m \in Receipts :
           /\ txns'[<<m, "sale">>] = IF m = n THEN "voided" ELSE txns[<<m, "sale">>]
           /\ txns'[<<m, "void">>] = IF m = n THEN "completed" ELSE txns[<<m, "void">>]
    BY <1>1 DEF HeadersTyped
  <1>4. \A m \in Receipts :
           /\ <<m, "sale">> \in voidReasons' <=> m = n \/ <<m, "sale">> \in voidReasons
           /\ <<m, "void">> \in voidReasons' <=> m = n \/ <<m, "void">> \in voidReasons
    OBVIOUS
  <1> QED BY <1>2, <1>3, <1>4 DEF VoidsPaired

\* What a step of the API or of Sub 2 does to the lines, and that it pairs voids
\* with the sales they void (Void, which writes both in one transaction).
LEMMA APIFacts ==
    ASSUME TypeOK, VoidsPaired, APIStep
    PROVE  /\ LinesGrow
           /\ UNCHANGED <<stock, signals, pods, faults, doubtful>>
           /\ HeadersTyped'
           /\ clerks' \in [Clerks -> Clerk]
           /\ VoidsPaired'
  <1> DEFINE Facts ==
                /\ LinesGrow
                /\ UNCHANGED <<stock, signals, pods, faults, doubtful>>
                /\ HeadersTyped'
                /\ clerks' \in [Clerks -> Clerk]
                /\ VoidsPaired'
  <1>1. /\ HeadersTyped
        /\ clerks \in [Clerks -> Clerk]
        /\ Idle \in Clerk
        /\ \A n \in Receipts, t \in Types : <<n, t>> \in Numbers
        /\ {"sale", "void", "return"} \subseteq Types
        /\ "completed" \in Statuses
    BY IdleTyped, StockAssumption DEF TypeOK, HeadersTyped, Numbers, Types
  <1>2. \A c \in Clerks : clerks[c].number \in Receipts
    BY <1>1 DEF Clerk
  <1>3. ASSUME NEW n \in Receipts, NEW status \in Statuses, NEW line \in Line,
               line.inventory_movement_id = NULL,
               txns[<<n, "sale">>] = "absent", txns' = [txns EXCEPT ![<<n, "sale">>] = status],
               lines' = Append(lines, line),
               UNCHANGED <<voidReasons, stock, signals, pods, clerks, faults, doubtful>>
        PROVE  Facts
    <2>1. LinesGrow
      BY <1>3 DEF LinesGrow
    <2>2. HeadersTyped' /\ VoidsPaired'
      BY <1>1, <1>3, NumberFilled
    <2> QED BY <1>1, <1>3, <2>1, <2>2
  <1>4. ASSUME NEW n \in Receipts, NEW status \in Statuses, NEW q \in {1, -1},
               Create(n, status, q)
        PROVE  Facts
    <2> DEFINE line == [txn |-> <<n, "sale">>, quantity |-> q,
                        is_return |-> FALSE, inventory_movement_id |-> NULL]
    <2>1. line \in Line /\ line.inventory_movement_id = NULL
      BY DEF Line, NULL
    <2>2. lines' = Append(lines, line)
      BY <1>4 DEF Create, insertChildren
    <2> HIDE DEF line
    <2> QED BY <1>3, <1>4, <2>1, <2>2 DEF Create
  <1>5. ASSUME NEW n \in Receipts, NEW r \in BOOLEAN, Persist(n, r) PROVE Facts
    <2> DEFINE line == [txn |-> <<n, "sale">>, quantity |-> 1,
                        is_return |-> r, inventory_movement_id |-> NULL]
    <2>1. line \in Line /\ line.inventory_movement_id = NULL
      BY DEF Line, NULL
    <2>2. lines' = Append(lines, line)
      BY <1>5 DEF Persist
    <2> HIDE DEF line
    <2> QED BY <1>1, <1>3, <1>5, <2>1, <2>2 DEF Persist
  <1>6. ASSUME NEW c \in Clerks, NEW n \in Receipts, VoidRead(c, n) \/ ReturnRead(c, n) PROVE Facts
    <2>1. /\ UNCHANGED <<ledger, stock, signals, pods, faults, doubtful>>
          /\ \E op \in {"void", "return"} :
                clerks' = [clerks EXCEPT ![c] = [op |-> op, number |-> n]]
      BY <1>6 DEF VoidRead, ReturnRead
    <2>2. clerks' \in [Clerks -> Clerk]
      BY <1>1, <2>1 DEF Clerk
    <2> QED BY <1>1, <2>1, <2>2 DEF ledger, LinesGrow, HeadersTyped, VoidsPaired
  <1>7. ASSUME NEW c \in Clerks, VoidWrite(c) PROVE Facts
    <2> DEFINE n == clerks[c].number
    <2>1. /\ clerks' = [clerks EXCEPT ![c] = Idle]
          /\ \/ UNCHANGED <<txns, voidReasons>>
             \/ /\ txns' = [txns EXCEPT ![<<n, "sale">>] = "voided", ![<<n, "void">>] = "completed"]
                /\ voidReasons' = voidReasons \union {<<n, "sale">>, <<n, "void">>}
          /\ UNCHANGED <<lines, stock, signals, pods, faults, doubtful>>
      BY <1>7 DEF VoidWrite
    <2>2. n \in Receipts
      BY <1>2
    <2> HIDE DEF n
    <2>3. HeadersTyped' /\ VoidsPaired'
      <3>1. CASE UNCHANGED <<txns, voidReasons>>
        BY <1>1, <3>1 DEF HeadersTyped, VoidsPaired
      <3>2. CASE ~ UNCHANGED <<txns, voidReasons>>
        BY <1>1, <2>1, <2>2, <3>2, VoidWritten
      <3> QED BY <3>1, <3>2
    <2> QED BY <1>1, <2>1, <2>3 DEF LinesGrow
  <1>8. ASSUME NEW c \in Clerks, NEW q \in {1, -1}, ReturnWrite(c, q) PROVE Facts
    <2> DEFINE n == clerks[c].number
               line == [txn |-> <<n, "return">>, quantity |-> q,
                        is_return |-> FALSE, inventory_movement_id |-> NULL]
    <2>1. /\ clerks' = [clerks EXCEPT ![c] = Idle]
          /\ \/ UNCHANGED <<txns, lines>>
             \/ /\ txns[<<n, "return">>] = "absent"
                /\ txns' = [txns EXCEPT ![<<n, "return">>] = "completed"]
                /\ lines' = Append(lines, line)
          /\ UNCHANGED <<voidReasons, stock, signals, pods, faults, doubtful>>
      BY <1>8 DEF ReturnWrite, insertChildren
    <2>2. n \in Receipts
      BY <1>2
    <2> HIDE DEF n
    <2>3. line \in Line /\ line.inventory_movement_id = NULL
      BY <2>2 DEF Line, NULL
    <2> HIDE DEF line
    <2>4. LinesGrow
      BY <2>1, <2>3 DEF LinesGrow
    <2>5. HeadersTyped' /\ VoidsPaired'
      <3>1. CASE UNCHANGED txns
        BY <1>1, <2>1, <3>1 DEF HeadersTyped, VoidsPaired
      <3>2. CASE ~ UNCHANGED txns
        BY <1>1, <2>1, <2>2, <3>2, NumberFilled
      <3> QED BY <3>1, <3>2
    <2> QED BY <1>1, <2>1, <2>4, <2>5
  <1>9. ASSUME NEW n \in Receipts, CreateVoidNumber(n) PROVE Facts
    <2>1. /\ txns[<<n, "void">>] = "absent"
          /\ txns' = [txns EXCEPT ![<<n, "void">>] = "completed"]
          /\ UNCHANGED <<voidReasons, lines, stock, signals, pods, clerks, faults, doubtful>>
      BY <1>9 DEF CreateVoidNumber
    <2>2. HeadersTyped' /\ VoidsPaired'
      BY <1>1, <2>1, NumberFilled
    <2> QED BY <1>1, <2>1, <2>2 DEF LinesGrow
  <1> HIDE DEF Facts
  <1>10. Facts
    BY <1>4, <1>5, <1>6, <1>7, <1>8, <1>9 DEF APIStep
  <1> QED BY <1>10 DEF Facts

LEMMA APIKeeps == ASSUME StockIInv, APIStep PROVE StockIInv'
  <1>1. TypeOK /\ BalanceMatchesLog /\ VoidsPaired
    BY DEF StockIInv, StockInv
  <1>2. /\ LinesGrow
        /\ UNCHANGED <<movements, position, signals, pods, faults, doubtful>>
        /\ UNCHANGED <<stock, signals, pods, faults, doubtful>>
        /\ HeadersTyped'
        /\ clerks' \in [Clerks -> Clerk]
        /\ VoidsPaired'
    BY <1>1, APIFacts DEF stock
  <1>3. /\ lines' \in Seq(Line)
        /\ pods' \in [Pods -> Pod]'
        /\ doubtful' \subseteq 1..Len(lines')
        /\ CountInv'
    BY <1>2, LedgerKeeps
  <1>4. TypeOK'
    BY <1>1, <1>2, <1>3 DEF TypeOK, HeadersTyped, Clerk
  <1>5. BalanceMatchesLog'
    BY <1>1, <1>2 DEF BalanceMatchesLog, Balance
  <1> QED BY <1>2, <1>3, <1>4, <1>5 DEF StockIInv, StockInv

\* What is left to show of a step that touches no transaction.
LEMMA StockKept ==
    ASSUME StockIInv, UNCHANGED <<txns, voidReasons, clerks>>, lines' \in Seq(Line),
           movements' \in Seq(Movement), position' \in Int, BalanceMatchesLog',
           signals' \subseteq Int, pods' \in [Pods -> Pod]', faults' \in 0..MaxFaults,
           doubtful' \subseteq 1..Len(lines'), CountInv'
    PROVE  StockIInv'
  <1>1. TypeOK'
    BY DEF StockIInv, StockInv, TypeOK, Clerk
  <1>2. VoidsPaired'
    BY DEF StockIInv, StockInv, VoidsPaired
  <1> QED BY <1>1, <1>2 DEF StockIInv, StockInv

LEMMA FaultTyped == ASSUME TypeOK, Fault PROVE faults' \in 0..MaxFaults
  BY StockAssumption DEF TypeOK, Fault

LEMMA StockSame ==
    ASSUME TypeOK, BalanceMatchesLog, UNCHANGED stock
    PROVE  /\ movements' = movements /\ movements' \in Seq(Movement) /\ position' \in Int
           /\ BalanceMatchesLog'
  BY DEF TypeOK, BalanceMatchesLog, Balance, stock

\* A movement by hand is for no line (appendMovement and appendAdjustment).
LEMMA PostKeeps ==
    ASSUME StockIInv, NEW d \in {0, 1}, appendMovement(d) \/ appendAdjustment(d)
    PROVE  StockIInv'
  <1>1. TypeOK /\ BalanceMatchesLog
    BY DEF StockIInv, StockInv
  <1>2. /\ d = 1 /\ AppendMovement(NULL, "manual", d)
        /\ UNCHANGED <<txns, voidReasons, lines, signals, pods, clerks, faults, doubtful>>
    BY DEF appendMovement, appendAdjustment, Post, ValidateAppendRequest, ledger
  <1>3. /\ movements' \in Seq(Movement) /\ position' \in Int
        /\ BalanceMatchesLog'
        /\ MovementsGrow(NULL)
    <2>1. NULL \in Nat /\ "manual" \in MovementTypes /\ d \in {1, -1}
      BY <1>2 DEF NULL, MovementTypes
    <2> QED BY <1>1, <1>2, <2>1, MovementAppended
  <1>4. NULL \in 0..Len(lines) /\ doubtful' \subseteq 1..Len(lines)
    BY <1>1, <1>2, LenProperties DEF TypeOK, NULL
  <1>5. pods' \in [Pods -> Pod]' /\ CountInv'
    BY <1>2, <1>3, <1>4, ReleaseKeeps
  <1> QED BY <1>1, <1>2, <1>3, <1>5, StockKept DEF TypeOK

\* The steps that end a line's turn and count it no more, but for a doubtful one.
EndsTurn(p) ==
    AppendRefused(p) \/ AppendFails(p) \/ LinkFails(p) \/ emitReplenish(p) \/ Crash(p)

LEMMA EndsTurnKeeps == ASSUME StockIInv, NEW p \in Pods, EndsTurn(p) PROVE StockIInv'
  <1>1. TypeOK /\ BalanceMatchesLog /\ PodsInOrder
    BY DEF StockIInv, StockInv, CountInv
  <1>2. pods[p].pc # "fetch" /\ UNCHANGED <<txns, voidReasons, lines, clerks>>
    BY DEF EndsTurn, AppendRefused, AppendFails, LinkFails, emitReplenish, Crash, ledger
  <1>3. Current(p) \in 1..Len(lines) /\ Len(lines) \in Nat
    BY <1>1, <1>2, CurrentHeld, PodTyped
  <1>4. NextLine(p) => Released(p)
    BY <1>1, <1>2, NextLineFacts DEF Released
  <1>5. pods' = [pods EXCEPT ![p] = Resting] => Released(p)
    <2> SUFFICES ASSUME pods' = [pods EXCEPT ![p] = Resting] PROVE Released(p)
      OBVIOUS
    <2>1. Resting \in Pod /\ Resting.pc = "fetch" /\ Resting.batch = << >>
      BY <1>1, IdleTyped DEF TypeOK, Resting
    <2>2. pods'[p] = Resting /\ \A q \in Pods \ {p} : pods'[q] = pods[q]
      BY <1>1 DEF TypeOK
    <2>3. pods' \in [Pods -> Pod]
      BY <1>1, <2>1 DEF TypeOK
    <2>4. Range(<< >>) = {} /\ DOMAIN << >> = {}
      BY DEF Range
    <2> QED BY <2>1, <2>2, <2>3, <2>4 DEF Released
  <1>6. Released(p)
    BY <1>4, <1>5 DEF EndsTurn, AppendRefused, AppendFails, LinkFails, emitReplenish, Crash
  <1>7. /\ doubtful \subseteq doubtful' /\ doubtful' \subseteq doubtful \union {Current(p)}
        /\ pods[p].pc = "link" => Current(p) \in doubtful'
    BY DEF EndsTurn, AppendRefused, AppendFails, LinkFails, emitReplenish, Crash
  <1>8. faults' \in 0..MaxFaults
    BY <1>1, FaultTyped
       DEF EndsTurn, AppendRefused, AppendFails, LinkFails, emitReplenish, Crash, TypeOK
  <1>9. signals' \subseteq Int
    <2>1. pods[p].soh \in Int /\ signals \subseteq Int
      BY <1>1, PodTyped DEF TypeOK
    <2> QED BY <2>1 DEF EndsTurn, AppendRefused, AppendFails, LinkFails, emitReplenish, Crash
  <1>10. \E s \in 0..Len(lines) :
            /\ MovementsGrow(s) /\ (s = NULL \/ s \in doubtful')
            /\ movements' \in Seq(Movement) /\ position' \in Int /\ BalanceMatchesLog'
    <2>1. CASE UNCHANGED stock
      <3>1. NULL \in 0..Len(lines)
        BY <1>3 DEF NULL
      <3> QED BY <1>1, <2>1, <3>1, StockSame DEF MovementsGrow
    <2>2. CASE ~ UNCHANGED stock
      <3> DEFINE line == lines[Current(p)]
      <3>1. /\ Numeric(line)
            /\ AppendMovement(Current(p), TypeOf(line), Delta(line))
            /\ doubtful' = doubtful \union {Current(p)}
        BY <2>2 DEF EndsTurn, AppendRefused, AppendFails, LinkFails, emitReplenish, Crash
      <3>2. line \in Line
        BY <1>1, <1>3, PodTyped
      <3>3. Delta(line) \in {1, -1} /\ TypeOf(line) \in MovementTypes
        BY <3>1, <3>2, DeltaTyped
      <3>4. Current(p) \in Nat /\ Current(p) \in 0..Len(lines)
        BY <1>3
      <3> HIDE DEF line
      <3>5. /\ movements' \in Seq(Movement) /\ position' \in Int /\ BalanceMatchesLog'
            /\ MovementsGrow(Current(p))
        BY <1>1, <3>1, <3>3, <3>4, MovementAppended
      <3> QED BY <3>1, <3>4, <3>5
    <2> QED BY <2>1, <2>2
  <1>11. doubtful' \subseteq 1..Len(lines)
    BY <1>1, <1>3, <1>7 DEF TypeOK
  <1>12. pods' \in [Pods -> Pod]' /\ CountInv'
    BY <1>2, <1>6, <1>7, <1>10, <1>11, ReleaseKeeps
  <1> QED BY <1>1, <1>2, <1>8, <1>9, <1>10, <1>11, <1>12, StockKept DEF TypeOK

-----------------------------------------------------------------------------
\* A fetched line that some pod had in hand is doubtful from then on; the others
\* have no movement yet (fetchUnlinked).
LEMMA FetchKeeps == ASSUME StockIInv, NEW p \in Pods, fetchUnlinked(p) PROVE StockIInv'
  <1>1. TypeOK /\ BalanceMatchesLog /\ PodsInOrder /\ SourcesExist /\ LinksRight /\ CountedOnce
    BY DEF StockIInv, StockInv, CountInv
  <1>2. PICK batch \in Oldest :
           /\ pods' = [pods EXCEPT ![p] = [Resting EXCEPT !.pc = "append", !.batch = batch]]
           /\ doubtful' = doubtful \union {i \in Range(batch) : InHand(i)}
    BY DEF fetchUnlinked
  <1>3. /\ pods[p].pc = "fetch" /\ Unlinked # {}
        /\ UNCHANGED <<txns, voidReasons, lines, movements, position, signals, clerks, faults>>
        /\ UNCHANGED stock
    BY DEF fetchUnlinked, ledger, stock
  <1> DEFINE n == IF Cardinality(Unlinked) < ConsumerBatch THEN Cardinality(Unlinked)
                                                           ELSE ConsumerBatch
             new == [Resting EXCEPT !.pc = "append", !.batch = batch]
  <1>4. n \in Nat \ {0} /\ Unlinked \subseteq 1..Len(lines)
    <2>1. Len(lines) \in Nat /\ Unlinked \subseteq 1..Len(lines)
      BY <1>1, PodTyped DEF Unlinked
    <2>2. IsFiniteSet(Unlinked)
      <3>1. IsFiniteSet(1..Len(lines))
        BY <2>1, FS_Interval
      <3> QED BY <2>1, <3>1, FS_Subset
    <2>3. Cardinality(Unlinked) \in Nat \ {0}
      BY <1>3, <2>2, FS_CardinalityType, FS_EmptySet
    <2>4. ConsumerBatch \in Nat \ {0}
      BY StockAssumption
    <2> QED BY <2>1, <2>3, <2>4
  <1>5. /\ batch \in [1..n -> Unlinked]
        /\ \A j, k \in DOMAIN batch : j < k => batch[j] < batch[k]
    BY DEF Oldest
  <1> HIDE DEF n
  <1>6. /\ DOMAIN batch = 1..n /\ Range(batch) \subseteq Unlinked
        /\ batch \in Seq(1..Len(lines)) /\ batch # << >>
    <2>1. DOMAIN batch = 1..n /\ \A k \in 1..n : batch[k] \in Unlinked
      BY <1>5
    <2>2. batch \in [1..n -> 1..Len(lines)]
      BY <1>4, <1>5
    <2>3. batch \in Seq(1..Len(lines))
      BY <1>4, <2>2, SeqDef
    <2>4. 1 \in DOMAIN batch
      BY <1>4, <2>1
    <2>5. batch # << >>
      BY <2>3, <2>4, EmptySeq, LenProperties
    <2> QED BY <2>1, <2>3, <2>5 DEF Range
  <1>7. \A j, k \in DOMAIN batch : batch[j] = batch[k] => j = k
    <2> SUFFICES ASSUME NEW j \in 1..n, NEW k \in 1..n, batch[j] = batch[k] PROVE j = k
      BY <1>6
    <2>0. j \in Int /\ k \in Int
      OBVIOUS
    <2>1. batch[j] \in 1..Len(lines)
      <3>1. batch[j] \in Unlinked
        BY <1>5
      <3> QED BY <1>4, <3>1
    <2>2. batch[j] \in Int /\ ~(batch[j] < batch[j])
      BY <2>1
    <2>3. ~(j < k) /\ ~(k < j)
      BY <1>5, <1>6, <2>2
    <2> QED BY <2>0, <2>3
  <1>8. new \in Pod /\ new.pc = "append" /\ new.batch = batch
    <2>1. Resting \in Pod
      BY <1>1, IdleTyped DEF TypeOK
    <2> QED BY <1>6, <2>1 DEF Pod, Resting
  <1>9. pods'[p] = new /\ (\A q \in Pods \ {p} : pods'[q] = pods[q]) /\ pods' \in [Pods -> Pod]
    BY <1>1, <1>2, <1>8 DEF TypeOK
  <1> HIDE DEF new
  <1>10. pods' \in [Pods -> Pod]'
    BY <1>3, <1>9 DEF Pod
  <1>11. /\ Held(p)' = Range(batch) /\ Held(p) = {} /\ Counted(p)' = {}
         /\ \A q \in Pods \ {p} : Held(q)' = Held(q) /\ Counted(q)' = Counted(q)
                                 /\ Current(q)' = Current(q)
    <2>1. Held(p) = {}
      BY <1>1, <1>3 DEF PodsInOrder, Resting, Held, Range
    <2> QED BY <1>8, <1>9, <2>1 DEF Held, Counted, Current
  <1>12. PodsInOrder'
    <2> SUFFICES ASSUME NEW q \in Pods
                 PROVE  /\ IF pods'[q].pc = "fetch" THEN pods'[q] = Resting
                                                   ELSE pods'[q].batch # << >>
                        /\ \A j, k \in DOMAIN pods'[q].batch :
                              pods'[q].batch[j] = pods'[q].batch[k] => j = k
                        /\ pods'[q].pc = "link" =>
                              /\ pods'[q].mov # NULL
                              /\ movements[pods'[q].mov].source = Current(q)'
                              /\ movements[pods'[q].mov].quantity_delta = Delta(lines[Current(q)'])
      BY <1>3 DEF PodsInOrder, Delta
    <2>1. CASE q = p
      BY <1>6, <1>7, <1>8, <1>9, <2>1
    <2>2. CASE q # p
      BY <1>1, <1>9, <1>11, <2>2 DEF PodsInOrder
    <2> QED BY <2>1, <2>2
  <1>13. SourcesExist' /\ LinksRight'
    BY <1>1, <1>3 DEF SourcesExist, LinksRight, Delta
  <1>14. CountedOnce'
    <2> SUFFICES ASSUME NEW i \in (1..Len(lines)) \ doubtful'
                 PROVE  /\ \A q, r \in Pods : i \in Held(q)' /\ i \in Held(r)' => q = r
                        /\ \A m, k \in 1..Len(movements) :
                              movements[m].source = i /\ movements[k].source = i => m = k
                        /\ \A q \in Pods : i \in Held(q)' \ Counted(q)' => ~HasMovement(i)
                        /\ lines[i].inventory_movement_id = NULL /\ HasMovement(i) =>
                              \E q \in Pods : pods'[q].pc = "link" /\ Current(q)' = i
      BY <1>3 DEF CountedOnce, HasMovement
    <2>1. i \in (1..Len(lines)) \ doubtful
      BY <1>2
    <2>2. i \in Range(batch) => /\ \A q \in Pods : i \notin Held(q)
                                /\ lines[i].inventory_movement_id = NULL
      BY <1>2, <1>6 DEF InHand, Held, Unlinked
    <2>3. i \in Range(batch) => ~HasMovement(i)
      <3> SUFFICES ASSUME i \in Range(batch), HasMovement(i) PROVE FALSE
        OBVIOUS
      <3>1. PICK q \in Pods : pods[q].pc = "link" /\ Current(q) = i
        BY <1>1, <2>1, <2>2 DEF CountedOnce
      <3> QED BY <1>1, <2>2, <3>1, CurrentHeld
    <2>4. \A q, r \in Pods : i \in Held(q)' /\ i \in Held(r)' => q = r
      BY <1>1, <1>11, <2>1, <2>2 DEF CountedOnce
    <2>5. \A q \in Pods : i \in Held(q)' \ Counted(q)' => ~HasMovement(i)
      BY <1>1, <1>11, <2>1, <2>3 DEF CountedOnce
    <2>6. ASSUME lines[i].inventory_movement_id = NULL, HasMovement(i)
          PROVE  \E q \in Pods : pods'[q].pc = "link" /\ Current(q)' = i
      <3>1. PICK q \in Pods : pods[q].pc = "link" /\ Current(q) = i
        BY <1>1, <2>1, <2>6 DEF CountedOnce
      <3> QED BY <1>3, <1>9, <1>11, <3>1
    <2> QED BY <1>1, <2>1, <2>4, <2>5, <2>6 DEF CountedOnce
  <1>15. doubtful' \subseteq 1..Len(lines)
    BY <1>1, <1>2, <1>4, <1>6 DEF TypeOK
  <1>16. CountInv'
    BY <1>12, <1>13, <1>14 DEF CountInv
  <1> QED BY <1>1, <1>3, <1>10, <1>15, <1>16, StockSame, StockKept DEF TypeOK

\* The one movement of a line is made by the one pod that has it in hand, which then
\* links it (processLine).
LEMMA Append1Keeps == ASSUME StockIInv, NEW p \in Pods, Append1(p) PROVE StockIInv'
  <1>1. TypeOK /\ BalanceMatchesLog /\ PodsInOrder /\ SourcesExist /\ LinksRight /\ CountedOnce
    BY DEF StockIInv, StockInv, CountInv
  <1> DEFINE c == Current(p)
  <1>2. /\ pods[p].pc = "append" /\ Numeric(lines[c])
        /\ AppendMovement(c, TypeOf(lines[c]), Delta(lines[c]))
        /\ pods' = [pods EXCEPT ![p].pc = "link", ![p].mov = Len(movements'), ![p].soh = position']
        /\ UNCHANGED <<txns, voidReasons, lines, signals, clerks, faults, doubtful>>
    BY DEF Append1, ledger
  <1>3. c \in Held(p) /\ c \in 1..Len(lines) /\ Len(lines) \in Nat
    BY <1>1, <1>2, CurrentHeld, PodTyped
  <1>4. Delta(lines[c]) \in {1, -1} /\ TypeOf(lines[c]) \in MovementTypes
    <2>1. lines[c] \in Line
      BY <1>1, <1>3, PodTyped
    <2> HIDE DEF c
    <2> QED BY <1>2, <2>1, DeltaTyped
  <1> HIDE DEF c
  <1>5. /\ movements' \in Seq(Movement) /\ position' \in Int
        /\ BalanceMatchesLog'
        /\ Len(movements) \in Nat /\ Len(movements') = Len(movements) + 1
        /\ \A m \in 1..Len(movements) : movements'[m] = movements[m]
        /\ movements'[Len(movements')].source = c
        /\ movements'[Len(movements')].quantity_delta = Delta(lines[c])
        /\ MovementsGrow(c)
    <2>1. c \in Nat
      BY <1>3
    <2> QED BY <1>1, <1>2, <1>4, <2>1, MovementAppended
  <1>6. /\ \A m \in 1..Len(movements') : m \notin 1..Len(movements) => movements'[m].source = c
        /\ \A m, k \in 1..Len(movements') :
              m \notin 1..Len(movements) /\ k \notin 1..Len(movements) => m = k
        /\ \A i : i # c => (HasMovement(i)' <=> HasMovement(i))
    BY <1>1, <1>5, MovementsKept
  <1> DEFINE new == [pods[p] EXCEPT !.pc = "link", !.mov = Len(movements'), !.soh = position']
  <1>7. /\ pods[p] \in Pod /\ pods \in [Pods -> Pod]
        /\ pods' = [pods EXCEPT ![p] = new]
    BY <1>1, <1>2 DEF TypeOK
  <1>8. /\ new.pc = "link" /\ new.batch = pods[p].batch /\ new.mov = Len(movements')
        /\ new \in Pod'
    <2>1. Len(movements') \in 0..Len(movements') /\ position' \in Int
      BY <1>5
    <2>2. pods[p].batch \in Seq(1..Len(lines'))
      BY <1>2, <1>1, PodTyped
    <2> QED BY <1>7, <2>1, <2>2 DEF Pod
  <1> HIDE DEF new
  <1>9. pods'[p] = new /\ \A q \in Pods \ {p} : pods'[q] = pods[q]
    BY <1>7
  <1>10. pods' \in [Pods -> Pod]'
    <2>1. [Pods -> Pod] \subseteq [Pods -> Pod]'
      BY <1>2, <1>3, <1>5, PodsWiden
    <2>2. pods \in [Pods -> Pod']
      BY <1>7, <2>1
    <2> QED BY <1>7, <1>8, <2>2
  <1>11. /\ Held(p)' = Held(p) /\ Current(p)' = c
         /\ Counted(p)' = {c} /\ Counted(p) = {}
         /\ \A q \in Pods \ {p} : Held(q)' = Held(q) /\ Counted(q)' = Counted(q)
                                 /\ Current(q)' = Current(q)
    BY <1>2, <1>8, <1>9 DEF Held, Counted, Current, c
  <1>12. PodsInOrder'
    <2> SUFFICES ASSUME NEW q \in Pods
                 PROVE  /\ IF pods'[q].pc = "fetch" THEN pods'[q] = Resting
                                                   ELSE pods'[q].batch # << >>
                        /\ \A j, k \in DOMAIN pods'[q].batch :
                              pods'[q].batch[j] = pods'[q].batch[k] => j = k
                        /\ pods'[q].pc = "link" =>
                              /\ pods'[q].mov # NULL
                              /\ movements'[pods'[q].mov].source = Current(q)'
                              /\ movements'[pods'[q].mov].quantity_delta = Delta(lines[Current(q)'])
      BY <1>2 DEF PodsInOrder, Delta
    <2>1. CASE q = p
      <3>1. /\ pods[p].batch # << >>
            /\ \A j, k \in DOMAIN pods[p].batch : pods[p].batch[j] = pods[p].batch[k] => j = k
        BY <1>1, <1>2 DEF PodsInOrder
      <3>2. Len(movements') # NULL
        BY <1>5 DEF NULL
      <3> QED BY <1>5, <1>8, <1>9, <1>11, <2>1, <3>1, <3>2
    <2>2. CASE q # p
      <3>1. pods[q].pc = "link" => pods[q].mov \in 1..Len(movements)
        BY <1>1, <1>5, PodTyped DEF PodsInOrder, NULL
      <3> QED BY <1>1, <1>5, <1>9, <1>11, <2>2, <3>1 DEF PodsInOrder
    <2> QED BY <2>1, <2>2
  <1>13. SourcesExist'
    BY <1>1, <1>2, <1>3, <1>5, <1>6 DEF SourcesExist
  <1>14. LinksRight'
    <2> SUFFICES ASSUME NEW i \in 1..Len(lines), lines[i].inventory_movement_id # NULL
                 PROVE  LET link == lines[i].inventory_movement_id IN
                        /\ link \in 1..Len(movements')
                        /\ movements'[link].source = i
                        /\ movements'[link].quantity_delta = Delta(lines[i])
      BY <1>2 DEF LinksRight, Delta
    <2>1. /\ lines[i].inventory_movement_id \in 1..Len(movements)
          /\ movements[lines[i].inventory_movement_id].source = i
          /\ movements[lines[i].inventory_movement_id].quantity_delta = Delta(lines[i])
      BY <1>1 DEF LinksRight
    <2> QED BY <1>5, <2>1
  <1>15. CountedOnce'
    <2> SUFFICES ASSUME NEW i \in (1..Len(lines)) \ doubtful
                 PROVE  /\ \A q, r \in Pods : i \in Held(q)' /\ i \in Held(r)' => q = r
                        /\ \A m, k \in 1..Len(movements') :
                              movements'[m].source = i /\ movements'[k].source = i => m = k
                        /\ \A q \in Pods : i \in Held(q)' \ Counted(q)' => ~HasMovement(i)'
                        /\ lines[i].inventory_movement_id = NULL /\ HasMovement(i)' =>
                              \E q \in Pods : pods'[q].pc = "link" /\ Current(q)' = i
      BY <1>2 DEF CountedOnce
    <2>1. \A q, r \in Pods : i \in Held(q)' /\ i \in Held(r)' => q = r
      BY <1>1, <1>11 DEF CountedOnce
    <2>2. CASE i = c
      <3>1. ~HasMovement(i)
        BY <1>1, <1>3, <1>11, <2>2 DEF CountedOnce
      <3>2. \A m, k \in 1..Len(movements') :
                movements'[m].source = i /\ movements'[k].source = i => m = k
        BY <1>5, <1>6, <3>1 DEF HasMovement
      <3>3. \A q \in Pods : i \notin Held(q)' \ Counted(q)'
        BY <1>3, <1>11, <2>1, <2>2
      <3> QED BY <1>8, <1>9, <1>11, <2>1, <2>2, <3>2, <3>3
    <2>3. CASE i # c
      <3>1. HasMovement(i)' <=> HasMovement(i)
        BY <1>6, <2>3
      <3>2. \A m, k \in 1..Len(movements') :
                movements'[m].source = i /\ movements'[k].source = i => m = k
        BY <1>1, <1>5, <1>6, <2>3 DEF CountedOnce
      <3>3. \A q \in Pods : i \in Held(q)' \ Counted(q)' => ~HasMovement(i)'
        BY <1>1, <1>11, <2>3, <3>1 DEF CountedOnce
      <3>4. ASSUME lines[i].inventory_movement_id = NULL, HasMovement(i)'
            PROVE  \E q \in Pods : pods'[q].pc = "link" /\ Current(q)' = i
        <4>1. PICK q \in Pods : pods[q].pc = "link" /\ Current(q) = i
          BY <1>1, <3>1, <3>4 DEF CountedOnce
        <4> QED BY <1>2, <1>9, <1>11, <4>1
      <3> QED BY <2>1, <3>2, <3>3, <3>4
    <2> QED BY <2>2, <2>3
  <1>16. CountInv'
    BY <1>12, <1>13, <1>14, <1>15 DEF CountInv
  <1> QED BY <1>1, <1>2, <1>5, <1>10, <1>16, StockKept DEF TypeOK

\* A line is linked to the movement that its pod made for it (linkMovement).
LEMMA LinkKeeps == ASSUME StockIInv, NEW p \in Pods, linkMovement(p) PROVE StockIInv'
  <1>1. TypeOK /\ BalanceMatchesLog /\ PodsInOrder /\ SourcesExist /\ LinksRight /\ CountedOnce
    BY DEF StockIInv, StockInv, CountInv
  <1> DEFINE c == Current(p)
             mov == pods[p].mov
  <1>2. /\ pods[p].pc = "link"
        /\ lines' = [lines EXCEPT ![c].inventory_movement_id = mov]
        /\ NextLine(p) \/ pods' = [pods EXCEPT ![p].pc = "emit"]
        /\ UNCHANGED <<txns, voidReasons, movements, position, signals, clerks, faults, doubtful>>
        /\ UNCHANGED stock
    BY DEF linkMovement, stock
  <1>3. /\ c \in 1..Len(lines) /\ Len(lines) \in Nat /\ DOMAIN lines = 1..Len(lines)
        /\ Len(movements) \in Nat /\ \A i \in 1..Len(lines) : lines[i] \in Line
    BY <1>1, <1>2, CurrentHeld, PodTyped
  <1>4. /\ mov \in 1..Len(movements)
        /\ movements[mov].source = c
        /\ movements[mov].quantity_delta = Delta(lines[c])
    BY <1>1, <1>2, <1>3, PodTyped DEF PodsInOrder, NULL
  <1>5. pods[p] \in Pod /\ pods \in [Pods -> Pod]
    BY <1>1 DEF TypeOK
  <1> HIDE DEF c, mov
  <1>6. /\ lines' \in Seq(Line) /\ Len(lines') = Len(lines)
        /\ lines'[c].inventory_movement_id = mov
        /\ \A i \in 1..Len(lines) : /\ Delta(lines'[i]) = Delta(lines[i])
                                    /\ i # c => lines'[i] = lines[i]
    <2>1. [lines[c] EXCEPT !.inventory_movement_id = mov] \in Line
      BY <1>3, <1>4 DEF Line
    <2>2. lines' = [lines EXCEPT ![c] = [lines[c] EXCEPT !.inventory_movement_id = mov]]
      BY <1>2
    <2>3. lines' \in [1..Len(lines) -> Line]
      BY <1>3, <2>1, <2>2
    <2>4. lines' \in Seq(Line) /\ Len(lines') = Len(lines)
      BY <1>3, <2>3, SeqDef, LenProperties
    <2>5. lines'[c] = [lines[c] EXCEPT !.inventory_movement_id = mov]
      BY <1>3, <2>2
    <2>6. \A i \in 1..Len(lines) : i # c => lines'[i] = lines[i]
      BY <1>3, <2>2
    <2>7. /\ lines'[c].inventory_movement_id = mov
          /\ lines'[c].is_return = lines[c].is_return /\ lines'[c].quantity = lines[c].quantity
      BY <1>3, <2>5 DEF Line
    <2> QED BY <2>4, <2>6, <2>7 DEF Delta
  <1>7. /\ pods' \in [Pods -> Pod]
        /\ \A q \in Pods \ {p} : pods'[q] = pods[q]
        /\ pods'[p].pc \in {"fetch", "append", "emit"}
        /\ Held(p)' \subseteq Held(p) /\ Held(p)' \ Counted(p)' \subseteq Held(p) \ Counted(p)
        /\ IF pods'[p].pc = "fetch" THEN pods'[p] = Resting ELSE pods'[p].batch # << >>
        /\ \A j, k \in DOMAIN pods'[p].batch : pods'[p].batch[j] = pods'[p].batch[k] => j = k
    <2>1. CASE NextLine(p)
      BY <1>1, <1>2, <2>1, NextLineFacts DEF Held, Counted
    <2>2. CASE pods' = [pods EXCEPT ![p].pc = "emit"]
      <3>1. /\ pods'[p] = [pods[p] EXCEPT !.pc = "emit"]
            /\ \A q \in Pods \ {p} : pods'[q] = pods[q]
        BY <1>5, <2>2
      <3>2. [pods[p] EXCEPT !.pc = "emit"] \in Pod
        BY <1>5 DEF Pod
      <3>3. pods'[p].pc = "emit" /\ pods'[p].batch = pods[p].batch
        BY <1>5, <3>1 DEF Pod
      <3>4. pods' \in [Pods -> Pod]
        BY <1>5, <2>2, <3>2
      <3>5. /\ pods[p].batch # << >>
            /\ \A j, k \in DOMAIN pods[p].batch : pods[p].batch[j] = pods[p].batch[k] => j = k
        BY <1>1, <1>2 DEF PodsInOrder
      <3> QED BY <1>2, <3>1, <3>3, <3>4, <3>5 DEF Held, Counted, Current
    <2> QED BY <1>2, <2>1, <2>2
  <1>8. pods' \in [Pods -> Pod]'
    BY <1>2, <1>6, <1>7 DEF Pod
  <1>9. \A q \in Pods \ {p} : /\ Held(q)' = Held(q) /\ Counted(q)' = Counted(q)
                              /\ Current(q)' = Current(q)
    BY <1>7 DEF Held, Counted, Current
  <1>10. PodsInOrder'
    <2> SUFFICES ASSUME NEW q \in Pods
                 PROVE  /\ IF pods'[q].pc = "fetch" THEN pods'[q] = Resting
                                                   ELSE pods'[q].batch # << >>
                        /\ \A j, k \in DOMAIN pods'[q].batch :
                              pods'[q].batch[j] = pods'[q].batch[k] => j = k
                        /\ pods'[q].pc = "link" =>
                              /\ pods'[q].mov # NULL
                              /\ movements[pods'[q].mov].source = Current(q)'
                              /\ movements[pods'[q].mov].quantity_delta = Delta(lines'[Current(q)'])
      BY <1>2 DEF PodsInOrder, Delta
    <2>1. CASE q = p
      BY <1>7, <2>1
    <2>2. CASE q # p
      <3>1. pods[q].pc = "link" => Current(q) \in 1..Len(lines)
        BY <1>1, CurrentHeld
      <3>2. pods[q].pc = "link" => Delta(lines'[Current(q)]) = Delta(lines[Current(q)])
        BY <1>6, <3>1
      <3> QED BY <1>1, <1>7, <1>9, <2>2, <3>2 DEF PodsInOrder
    <2> QED BY <2>1, <2>2
  <1>11. SourcesExist'
    BY <1>1, <1>2, <1>6 DEF SourcesExist
  <1>12. LinksRight'
    <2> SUFFICES ASSUME NEW i \in 1..Len(lines), lines'[i].inventory_movement_id # NULL
                 PROVE  /\ lines'[i].inventory_movement_id \in 1..Len(movements)
                        /\ movements[lines'[i].inventory_movement_id].source = i
                        /\ movements[lines'[i].inventory_movement_id].quantity_delta =
                              Delta(lines[i])
      BY <1>2, <1>6 DEF LinksRight, Delta
    <2>1. CASE i = c
      BY <1>4, <1>6, <2>1
    <2>2. CASE i # c
      BY <1>1, <1>6, <2>2 DEF LinksRight
    <2> QED BY <2>1, <2>2
  <1>13. CountedOnce'
    <2> SUFFICES ASSUME NEW i \in (1..Len(lines)) \ doubtful
                 PROVE  /\ \A q, r \in Pods : i \in Held(q)' /\ i \in Held(r)' => q = r
                        /\ \A m, k \in 1..Len(movements) :
                              movements[m].source = i /\ movements[k].source = i => m = k
                        /\ \A q \in Pods : i \in Held(q)' \ Counted(q)' => ~HasMovement(i)
                        /\ lines'[i].inventory_movement_id = NULL /\ HasMovement(i) =>
                              \E q \in Pods : pods'[q].pc = "link" /\ Current(q)' = i
      BY <1>2, <1>6 DEF CountedOnce, HasMovement
    <2>1. \A q \in Pods : /\ Held(q)' \subseteq Held(q)
                          /\ Held(q)' \ Counted(q)' \subseteq Held(q) \ Counted(q)
      BY <1>7, <1>9
    <2>2. ASSUME lines'[i].inventory_movement_id = NULL, HasMovement(i)
          PROVE  \E q \in Pods : pods'[q].pc = "link" /\ Current(q)' = i
      <3>1. i # c
        BY <1>4, <1>6, <2>2 DEF NULL
      <3>2. PICK q \in Pods : pods[q].pc = "link" /\ Current(q) = i
        BY <1>1, <1>6, <2>2, <3>1 DEF CountedOnce
      <3> QED BY <1>7, <1>9, <3>1, <3>2 DEF c
    <2> QED BY <1>1, <2>1, <2>2 DEF CountedOnce
  <1>14. CountInv'
    BY <1>10, <1>11, <1>12, <1>13 DEF CountInv
  <1> QED BY <1>1, <1>2, <1>6, <1>8, <1>14, StockSame, StockKept DEF TypeOK
-----------------------------------------------------------------------------
LEMMA StockInit == Init => StockIInv
  <1> SUFFICES ASSUME Init PROVE StockIInv
    OBVIOUS
  <1>1. /\ lines = << >> /\ movements = << >> /\ Len(lines) = 0 /\ Len(movements) = 0
        /\ lines \in Seq(Line) /\ movements \in Seq(Movement)
    BY EmptySeq DEF Init
  <1>2. Idle \in Clerk /\ Resting \in Pod /\ Resting.pc = "fetch" /\ Resting.batch = << >>
    BY <1>1, IdleTyped DEF Resting
  <1>3. TypeOK
    BY <1>1, <1>2, StockAssumption DEF Init, TypeOK
  <1>4. BalanceMatchesLog
    BY <1>1, BalanceOfNothing DEF Init, BalanceMatchesLog
  <1>5. VoidsPaired
    BY DEF Init, VoidsPaired
  <1>6. PodsInOrder
    BY <1>2 DEF Init, PodsInOrder
  <1>7. SourcesExist /\ LinksRight /\ CountedOnce
    BY <1>1 DEF SourcesExist, LinksRight, CountedOnce
  <1> QED BY <1>3, <1>4, <1>5, <1>6, <1>7 DEF StockIInv, StockInv, CountInv

LEMMA StockStep == StockIInv /\ [Next]_vars => StockIInv'
  <1> SUFFICES ASSUME StockIInv, [Next]_vars PROVE StockIInv'
    OBVIOUS
  <1>1. CASE APIStep
    BY <1>1, APIKeeps
  <1>2. ASSUME NEW d \in {0, 1}, appendMovement(d) \/ appendAdjustment(d) PROVE StockIInv'
    BY <1>2, PostKeeps
  <1>3. ASSUME NEW p \in Pods, EndsTurn(p) PROVE StockIInv'
    BY <1>3, EndsTurnKeeps
  <1>4. ASSUME NEW p \in Pods, fetchUnlinked(p) \/ Append1(p) \/ linkMovement(p) PROVE StockIInv'
    BY <1>4, FetchKeeps, Append1Keeps, LinkKeeps
  <1>5. CASE UNCHANGED vars
    BY <1>5
       DEF vars, StockIInv, StockInv, CountInv, TypeOK, Clerk, Pod, BalanceMatchesLog, Balance,
           VoidsPaired, PodsInOrder, SourcesExist, LinksRight, CountedOnce, Held, Counted, Current,
           HasMovement, Delta
  <1> QED BY <1>1, <1>2, <1>3, <1>4, <1>5 DEF Next, Tick, APIStep, EndsTurn

\* Of the movements of a line that nothing makes doubtful there is one at most.
LEMMA CountOfOne ==
    ASSUME StockIInv
    PROVE  CountedOnceUnlessFaulty
  <1>1. TypeOK /\ LinksRight /\ CountedOnce
    BY DEF StockIInv, StockInv, CountInv
  <1> SUFFICES ASSUME NEW i \in 1..Len(lines), i \notin doubtful
               PROVE  ~(CountOf(i) > 1)
    BY <1>1 DEF CountedOnceUnlessFaulty, LinksRight
  <1> DEFINE Of == {m \in 1..Len(movements) : movements[m].source = i}
  <1>2. \A m, n \in Of : m = n
    BY <1>1 DEF CountedOnce
  <1>3. CountOf(i) = Cardinality(Of)
    BY DEF CountOf
  <1> HIDE DEF Of
  <1>4. CASE Of = {}
    BY <1>3, <1>4, FS_EmptySet
  <1>5. CASE Of # {}
    <2>1. PICK m \in Of : TRUE
      BY <1>5
    <2>2. Of = {m}
      BY <1>2, <2>1
    <2> QED BY <1>3, <2>2, FS_Singleton
  <1> QED BY <1>4, <1>5

(***************************************************************************)
(* The cached position is what the movements add up to, and a sale that    *)
(* Void marked has the one void row written with it, whatever statuses and *)
(* numbers callers post, whatever clerks, movements by hand and consumers  *)
(* do at the same time and whatever fails (Create, Void, Return,           *)
(* applyMovement, processBatch).                                           *)
(***************************************************************************)
THEOREM StockSound == Spec => []StockInv
  <1>1. StockIInv => StockInv
    BY DEF StockIInv
  <1> QED BY <1>1, StockInit, StockStep, PTL DEF Spec

(***************************************************************************)
(* A line of a sale moves the stock twice only when a movement was made    *)
(* and its link failed, or when two pods fetched the line before one of    *)
(* them linked it (fetchUnlinked, linkMovement).                           *)
(***************************************************************************)
THEOREM LinesCountedOnce == Spec => []CountedOnceUnlessFaulty
  <1> QED BY CountOfOne, StockInit, StockStep, PTL DEF Spec

=============================================================================
